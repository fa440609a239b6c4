---------------------------- MODULE ReloadProofs ----------------------------
(***************************************************************************)
(* Proofs about Reload, for any number of workers and of edits.  Rules are *)
(* good once they are compiled, and what they were compiled to stays the   *)
(* same while UpdateRuleset goes from factory to factory.                  *)
(***************************************************************************)
EXTENDS Reload, TLAPS

GoodRuleset(r) ==
  /\ Good(r.rules)
  /\ r.rules.quality = "geo" <=> r.db \in Databases
  /\ r.sent => r.db = "whole"

\* When a database was sent and there was no error, the file has all of it.
LoaderInv ==
  /\ load = "parse" /\ sent => disk.kind = "whole"
  /\ load = "loaded" => db \in Databases /\ (sent => db = "whole")

\* What is known of the rules on their way to the factories.
RulesInv ==
  /\ pc = "compile" => rs.quality # "unreadable"
  /\ pc = "init" => rs.quality \in {"geo", "uncompilable"}
  /\ pc = "update" => GoodRuleset(RulesetOf(rs))

\* Where the process is, its goroutine is.
PlaceInv ==
  /\ process = "down" <=> pc = "off"
  /\ process = "boot" => pc \in {"read", "compile", "init"}

\* The factories before upcoming have the new ruleset, the others the old one.
FactoryInv ==
  /\ pc # "update" => upcoming = 0
  /\ \A f \in Factories : f < upcoming => ruleset[f] = RulesetOf(rs)
  /\ \A f, g \in Factories : f >= upcoming /\ g >= upcoming => ruleset[f] = ruleset[g]
  /\ process = "up" => \A f \in Factories : GoodRuleset(ruleset[f])

IInv == TypeOK /\ LoaderInv /\ RulesInv /\ PlaceInv /\ FactoryInv

-----------------------------------------------------------------------------
LEMMA FactoryFacts ==
  /\ 2 * N \in Nat /\ 2 * N > 0 /\ 0 \in Factories
  /\ \A f \in Factories : f \in Nat /\ f < 2 * N
  /\ \A k \in 0..(2 * N) : k # 2 * N => k \in Factories
<1>1. N \in Nat /\ N > 0
  BY ReloadAssumption
<1>2. 2 * N \in Nat /\ 2 * N > 0
  BY <1>1
<1> DEFINE M == 2 * N
<1>3. M \in Nat /\ M > 0 /\ Factories = 0..(M - 1)
  BY <1>2 DEF Factories
<1> HIDE DEF M
<1>4. /\ M \in Nat /\ M > 0 /\ 0 \in Factories
      /\ \A f \in Factories : f \in Nat /\ f < M
      /\ \A k \in 0..M : k # M => k \in Factories
  BY <1>3
<1> QED
  BY <1>4 DEF M

LEMMA RulesetType ==
  ASSUME NEW c \in Content, LoaderTypeOK
  PROVE  RulesetOf(c) \in Ruleset
  BY DEF RulesetOf, Ruleset, LoaderTypeOK

LEMMA FirstType == First \in Content /\ NoRules \in Ruleset
<1>1. 0 \in 0..MaxEdits
  BY ReloadAssumption
<1>2. First \in Content /\ [First EXCEPT !.quality = "unreadable"] \in Content
  BY <1>1 DEF First, Content, Quality
<1> QED
  BY <1>2 DEF NoRules, Ruleset

LEMMA InitIInv == Init => IInv
<1> SUFFICES ASSUME Init PROVE IInv
  OBVIOUS
<1> USE DEF Init
<1>1. LoaderTypeOK /\ LoaderInv
  BY DEF LoaderInit, LoaderTypeOK, LoaderInv, Kind
<1>2. TypeOK
  <2>1. 0 \in 0..(2 * N) /\ asked \in 0..MaxEdits
    BY FactoryFacts, ReloadAssumption
  <2> QED
    BY <1>1, <2>1, FirstType DEF TypeOK
<1>3. FactoryInv
  BY FactoryFacts DEF FactoryInv
<1> QED
  BY <1>1, <1>2, <1>3 DEF IInv, RulesInv, PlaceInv

\* The end of the process leaves only files.
LEMMA GoneStep ==
  ASSUME IInv, Gone
  PROVE  IInv'
<1> USE DEF Gone, LoaderGone
<1>1. LoaderTypeOK' /\ LoaderInv'
  BY DEF LoaderTypeOK, LoaderInv, IInv, TypeOK
<1>2. TypeOK'
  <2>1. upcoming' \in 0..(2 * N) /\ asked' \in 0..MaxEdits
    BY FactoryFacts, ReloadAssumption
  <2>2. ruleset' \in [Factories -> Ruleset]
    BY FirstType
  <2> QED
    BY <1>1, <2>1, <2>2, FirstType DEF IInv, TypeOK
<1>3. FactoryInv'
  BY FactoryFacts DEF FactoryInv
<1> QED
  BY <1>1, <1>2, <1>3 DEF IInv, RulesInv, PlaceInv

\* The steps of others, and those of LoadGeoSite, leave the rules alone.
LEMMA OtherSteps ==
  ASSUME IInv,
         BeginEdit \/ EndEdit \/ Hangup
  PROVE  IInv'
<1>1. TypeOK'
  <2>1. file' \in Content
    <3>1. CASE BeginEdit
      <4>1. file.edit + 1 \in 0..MaxEdits
        BY <3>1, ReloadAssumption DEF BeginEdit, IInv, TypeOK, Content
      <4> QED
        BY <3>1, <4>1 DEF BeginEdit, Content
    <3>2. CASE EndEdit
      BY <3>2 DEF EndEdit, IInv, TypeOK, Content
    <3>3. CASE Hangup
      BY <3>3 DEF Hangup, IInv, TypeOK
    <3> QED
      BY <3>1, <3>2, <3>3
  <2>2. asked' \in 0..MaxEdits
    BY DEF BeginEdit, EndEdit, Hangup, Asks, IInv, TypeOK, Content
  <2>3. LoaderTypeOK' /\ UNCHANGED <<process, pc, rs, upcoming, ruleset>>
    BY DEF BeginEdit, EndEdit, Hangup, IInv, TypeOK, loaderVars, LoaderTypeOK
  <2>4. signal' \in BOOLEAN
    BY DEF BeginEdit, EndEdit, Hangup, IInv, TypeOK
  <2> QED
    BY <2>1, <2>2, <2>3, <2>4 DEF IInv, TypeOK
<1>2. UNCHANGED <<loaderVars, process, pc, rs, upcoming, ruleset>>
  BY DEF BeginEdit, EndEdit, Hangup
<1> QED
  BY <1>1, <1>2 DEF IInv, LoaderInv, RulesInv, PlaceInv, FactoryInv, loaderVars, RulesetOf,
                    GoodRuleset

LEMMA LoaderSteps ==
  ASSUME IInv,
         \/ (Age \/ NetChanges) /\ UNCHANGED reloadVars
         \/ Fetching(Transfer)
         \/ Fetching(Parse)
  PROVE  IInv'
<1> USE DEF Fetching, Transfer
<1>1. LoaderTypeOK /\ LoaderInv
  BY DEF IInv, TypeOK
<1>2. LoaderTypeOK' /\ LoaderInv'
  <2>1. CASE Age
    BY <1>1, <2>1 DEF Age, LoaderTypeOK, LoaderInv
  <2>7. CASE NetChanges
    <3>1. net' \in BOOLEAN
      BY <2>7 DEF NetChanges
    <3> QED
      BY <1>1, <2>7, <3>1 DEF NetChanges, LoaderTypeOK, LoaderInv
  <2>2. CASE GetFails \/ WriteFails
    BY <1>1, <2>2 DEF GetFails, WriteFails, LoaderTypeOK, LoaderInv
  <2>3. CASE Get
    BY <1>1, <2>3 DEF Get, LoaderTypeOK, LoaderInv, Kind
  <2>4. CASE Write
    BY <1>1, <2>4 DEF Write, LoaderTypeOK, LoaderInv, Kind
  <2>5. CASE WriteLast
    BY <1>1, <2>5 DEF WriteLast, LoaderTypeOK, LoaderInv, Kind
  <2>6. CASE Parse
    BY <1>1, <2>6 DEF Parse, LoaderTypeOK, LoaderInv, Kind, Databases
  <2> QED
    BY <2>1, <2>2, <2>3, <2>4, <2>5, <2>6, <2>7
<1>3. UNCHANGED reloadVars
  OBVIOUS
<1>4. pc = "update" => UNCHANGED <<sent, db>>
  BY DEF Age, NetChanges
<1>5. TypeOK'
  BY <1>2, <1>3 DEF IInv, TypeOK, reloadVars
<1>6. RulesInv' /\ PlaceInv'
  BY <1>3, <1>4 DEF IInv, RulesInv, PlaceInv, reloadVars, GoodRuleset, RulesetOf
<1>7. FactoryInv'
  <2>1. CASE pc = "update"
    BY <1>3, <1>4, <2>1 DEF IInv, FactoryInv, reloadVars, RulesetOf, GoodRuleset
  <2>2. CASE pc # "update"
    <3>1. upcoming = 0 /\ \A f \in Factories : ~(f < 0)
      BY <2>2, FactoryFacts DEF IInv, FactoryInv
    <3> QED
      BY <1>3, <2>2, <3>1 DEF IInv, FactoryInv, reloadVars, GoodRuleset
  <2> QED
    BY <2>1, <2>2
<1> QED
  BY <1>2, <1>5, <1>6, <1>7 DEF IInv

-----------------------------------------------------------------------------
\* An error in the rules.
LEMMA FailStep ==
  ASSUME IInv, NEW from \in {"read", "compile", "init"}, Fail(from)
  PROVE  IInv'
<1>1. CASE Gone
  BY <1>1, GoneStep
<1>2. CASE process = "up" /\ Step(from, "wait") /\ rs' = First
           /\ UNCHANGED <<signal, upcoming, ruleset>> /\ LoaderGone
  <2> USE <1>2 DEF Step, LoaderGone
  <2>1. LoaderTypeOK' /\ LoaderInv'
    BY DEF LoaderTypeOK, LoaderInv, IInv, TypeOK
  <2>2. TypeOK'
    BY <2>1, FirstType DEF IInv, TypeOK
  <2>3. upcoming = 0 /\ \A f \in Factories : ~(f < 0)
    BY FactoryFacts DEF IInv, FactoryInv
  <2>4. FactoryInv'
    BY <2>3 DEF IInv, FactoryInv, GoodRuleset
  <2> QED
    BY <2>1, <2>2, <2>4 DEF IInv, RulesInv, PlaceInv
<1> QED
  BY <1>1, <1>2 DEF Fail

\* Rules compiled without an error, with a database if they use one.
LEMMA CompiledStep ==
  ASSUME IInv, NEW from \in {"compile", "init"}, Compiled(from),
         rs.quality \in {"plain", "geo"}, rs.quality = "geo" => load = "loaded"
  PROVE  IInv'
<1>1. GoodRuleset(RulesetOf(rs)) /\ RulesetOf(rs) \in Ruleset
  <2>1. rs \in Content /\ LoaderTypeOK
    BY DEF IInv, TypeOK
  <2>2. rs.quality = "geo" => db \in Databases /\ (sent => db = "whole")
    BY DEF IInv, LoaderInv
  <2>3. GoodRuleset(RulesetOf(rs))
    BY <2>2 DEF GoodRuleset, RulesetOf, Good, Databases
  <2> QED
    BY <2>1, <2>3, RulesetType
<1>2. upcoming = 0 /\ \A f \in Factories : ~(f < 0)
  BY FactoryFacts DEF IInv, FactoryInv, Compiled, Step
<1>3. CASE process = "boot"
  <2>1. /\ process' = "up" /\ pc' = "start" /\ ruleset' = [f \in Factories |-> RulesetOf(rs)]
        /\ rs' = First /\ LoaderGone /\ UNCHANGED <<signal, file, upcoming, asked>>
    BY <1>3 DEF Compiled
  <2> USE <2>1 DEF LoaderGone
  <2>2. LoaderTypeOK' /\ LoaderInv'
    BY DEF LoaderTypeOK, LoaderInv, IInv, TypeOK
  <2>3. \A f \in Factories : ruleset'[f] = RulesetOf(rs)
    OBVIOUS
  <2>4. TypeOK'
    <3>1. ruleset' \in [Factories -> Ruleset]
      BY <1>1
    <3> QED
      BY <2>2, <3>1, FirstType DEF IInv, TypeOK
  <2>5. \A f \in Factories : GoodRuleset(ruleset[f])'
    BY <1>1, <2>3 DEF GoodRuleset
  <2>6. FactoryInv'
    BY <1>2, <2>3, <2>5 DEF FactoryInv
  <2> QED
    BY <2>2, <2>4, <2>6 DEF IInv, RulesInv, PlaceInv
<1>4. CASE process = "up"
  <2>1. pc' = "update" /\ UNCHANGED <<loaderVars, process, file, asked, signal, rs, upcoming, ruleset>>
    BY <1>4 DEF Compiled, Step
  <2> USE <2>1 DEF loaderVars
  <2>2. LoaderTypeOK' /\ LoaderInv'
    BY DEF LoaderTypeOK, LoaderInv, IInv, TypeOK
  <2>3. TypeOK'
    BY <1>2, <2>2, FactoryFacts DEF IInv, TypeOK
  <2>4. RulesetOf(rs)' = RulesetOf(rs)
    BY DEF RulesetOf
  <2>5. FactoryInv'
    BY <1>2, <1>4 DEF IInv, FactoryInv, GoodRuleset
  <2> QED
    BY <1>1, <1>4, <2>2, <2>3, <2>4, <2>5 DEF IInv, RulesInv, PlaceInv, GoodRuleset
<1> QED
  BY <1>3, <1>4 DEF Compiled

\* Steps that only begin something.
LEMMA BeginSteps ==
  ASSUME IInv, \/ Start \/ Notify \/ Receive
               \/ /\ Step("read", "compile")
                  /\ rs' \in Found /\ rs'.quality # "unreadable"
                  /\ UNCHANGED <<loaderVars, signal, upcoming, ruleset>>
               \/ /\ rs.quality \in {"geo", "uncompilable"}
                  /\ Step("compile", "init") /\ LoadGeoSite
                  /\ UNCHANGED <<signal, rs, upcoming, ruleset>>
  PROVE  IInv'
<1> USE DEF Start, Notify, Receive, Step, LoadGeoSite, loaderVars
<1>1. /\ pc \in {"off", "start", "wait", "read", "compile"}
      /\ pc' \in {"wait", "read", "compile", "init"}
      /\ UNCHANGED <<upcoming, ruleset, file, asked>>
  BY DEF IInv, PlaceInv
<1>2. LoaderTypeOK' /\ LoaderInv'
  <2>1. CASE UNCHANGED loaderVars
    BY <2>1 DEF loaderVars, LoaderTypeOK, LoaderInv, IInv, TypeOK
  <2>2. CASE LoadGeoSite
    <3>1. /\ load' \in {"get", "parse"} /\ sent' = FALSE /\ db' = "none"
          /\ UNCHANGED <<named, disk, net>>
      BY <2>2 DEF LoadGeoSite
    <3> QED
      BY <3>1 DEF LoaderTypeOK, LoaderInv, IInv, TypeOK
  <2> QED
    BY <2>1, <2>2
<1>3. rs' \in Content
  BY DEF Found, IInv, TypeOK, Content
<1>4. signal' \in BOOLEAN /\ process' \in {"down", "boot", "up"}
  BY DEF IInv, TypeOK
<1>5. TypeOK'
  BY <1>1, <1>2, <1>3, <1>4 DEF IInv, TypeOK
<1>6. RulesInv' /\ PlaceInv'
  BY DEF IInv, RulesInv, PlaceInv
<1>7. FactoryInv'
  <2>1. upcoming = 0 /\ \A f \in Factories : ~(f < 0)
    BY <1>1, FactoryFacts DEF IInv, FactoryInv
  <2>2. process' = "up" => process = "up"
    OBVIOUS
  <2> QED
    BY <1>1, <2>1, <2>2 DEF IInv, FactoryInv, GoodRuleset
<1> QED
  BY <1>2, <1>5, <1>6, <1>7 DEF IInv

\* UpdateRuleset goes on to the next factory.
LEMMA UpdateStep ==
  ASSUME IInv, UpdateRuleset
  PROVE  IInv'
<1> DEFINE new == RulesetOf(rs)
           last == upcoming + 1 = 2 * N
<1>1. /\ pc = "update" /\ upcoming \in Factories /\ process = "up"
      /\ upcoming \in Nat /\ upcoming < 2 * N /\ 2 * N \in Nat
  BY FactoryFacts DEF UpdateRuleset, Step, IInv, TypeOK, PlaceInv
<1>2. /\ ruleset' = [ruleset EXCEPT ![upcoming] = new]
      /\ pc' = (IF last THEN "wait" ELSE "update")
      /\ upcoming' = (IF last THEN 0 ELSE upcoming + 1)
      /\ rs' = (IF last THEN First ELSE rs)
      /\ (IF last THEN LoaderGone ELSE UNCHANGED loaderVars)
      /\ UNCHANGED <<process, file, asked, signal>>
  BY DEF UpdateRuleset, Step
<1>3. GoodRuleset(new) /\ new \in Ruleset
  BY <1>1, RulesetType DEF IInv, RulesInv, TypeOK
<1>4. ~last => RulesetOf(rs)' = new
  BY <1>2 DEF RulesetOf, loaderVars
<1>5. LoaderTypeOK' /\ LoaderInv'
  BY <1>2 DEF LoaderTypeOK, LoaderInv, LoaderGone, loaderVars, IInv, TypeOK
<1>6. ruleset'[upcoming] = new
      /\ \A f \in Factories \ {upcoming} : ruleset'[f] = ruleset[f]
  BY <1>1, <1>2 DEF IInv, TypeOK
<1> HIDE DEF new
<1>7. upcoming' \in 0..(2 * N) /\ (~last => upcoming' \in Factories)
  <2>1. CASE last
    BY <1>2, <2>1, FactoryFacts
  <2>2. CASE ~last
    <3>1. upcoming + 1 \in 0..(2 * N) /\ upcoming + 1 # 2 * N
      BY <1>1, <2>2
    <3> QED
      BY <1>2, <2>2, <3>1, FactoryFacts
  <2> QED
    BY <2>1, <2>2
<1>8. TypeOK'
  <2>1. ruleset' \in [Factories -> Ruleset]
    BY <1>1, <1>2, <1>3 DEF IInv, TypeOK
  <2>2. rs' \in Content /\ pc' \in {"wait", "update"} /\ (pc' = "update" => ~last)
    BY <1>2, FirstType DEF IInv, TypeOK
  <2> QED
    BY <1>2, <1>5, <1>7, <2>1, <2>2 DEF IInv, TypeOK
<1>9. FactoryInv'
  <2>1. \A f \in Factories : f <= upcoming => ruleset'[f] = new
    BY <1>1, <1>6, FactoryFacts DEF IInv, FactoryInv, new
  <2>2. \A f, g \in Factories : f > upcoming /\ g > upcoming => ruleset'[f] = ruleset'[g]
    <3>1. \A f \in Factories : f > upcoming => f >= upcoming /\ f \in Factories \ {upcoming}
      BY <1>1, FactoryFacts
    <3>2. \A f, g \in Factories : f >= upcoming /\ g >= upcoming => ruleset[f] = ruleset[g]
      BY DEF IInv, FactoryInv
    <3> QED
      BY <1>6, <3>1, <3>2
  <2>3. \A f \in Factories : GoodRuleset(ruleset[f])'
    <3>1. \A f \in Factories : GoodRuleset(ruleset'[f])
      BY <1>1, <1>3, <1>6 DEF IInv, FactoryInv
    <3> QED
      BY <3>1 DEF GoodRuleset
  <2>4. CASE last
    <3>1. \A f \in Factories : f <= upcoming /\ ~(f < 0)
      BY <1>1, <2>4, FactoryFacts
    <3> QED
      BY <1>2, <2>1, <2>3, <2>4, <3>1 DEF FactoryInv
  <2>5. CASE ~last
    <3>1. \A f \in Factories : (f < upcoming' <=> f <= upcoming) /\ (f >= upcoming' <=> f > upcoming)
      BY <1>1, <1>2, <2>5, FactoryFacts
    <3> QED
      BY <1>2, <1>4, <2>1, <2>2, <2>3, <2>5, <3>1 DEF FactoryInv
  <2> QED
    BY <2>4, <2>5
<1>10. RulesInv' /\ PlaceInv'
  <2>1. pc' = "update" => GoodRuleset(RulesetOf(rs))'
    <3>1. ~last => GoodRuleset(RulesetOf(rs)')
      BY <1>3, <1>4
    <3> QED
      BY <1>2, <3>1 DEF GoodRuleset
  <2> QED
    BY <1>1, <1>2, <2>1 DEF RulesInv, PlaceInv
<1> QED
  BY <1>5, <1>8, <1>9, <1>10 DEF IInv

-----------------------------------------------------------------------------
\* Every step keeps the invariant.
LEMMA NextIInv == IInv /\ [Next]_vars => IInv'
<1> SUFFICES ASSUME IInv, [Next]_vars PROVE IInv'
  OBVIOUS
<1>1. CASE BeginEdit \/ EndEdit \/ Hangup
  BY <1>1, OtherSteps
<1>2. CASE Start \/ Notify \/ Receive
  BY <1>2, BeginSteps
<1>3. CASE End
  BY <1>3, GoneStep DEF End
<1>4. CASE ((Age \/ NetChanges) /\ UNCHANGED reloadVars) \/ Fetching(Transfer) \/ Fetching(Parse)
  BY <1>4, LoaderSteps
<1>5. CASE Load
  <2>1. PICK c \in Found :
          IF c.quality = "unreadable" THEN Fail("read")
          ELSE /\ Step("read", "compile")
               /\ rs' = c
               /\ UNCHANGED <<loaderVars, signal, upcoming, ruleset>>
    BY <1>5 DEF Load
  <2>2. CASE c.quality = "unreadable"
    BY <2>1, <2>2, FailStep
  <2>3. CASE c.quality # "unreadable"
    BY <2>1, <2>3, BeginSteps
  <2> QED
    BY <2>2, <2>3
<1>6. CASE Compile
  <2>1. CASE rs.quality = "plain" /\ Compiled("compile")
    BY <2>1, CompiledStep
  <2>2. CASE rs.quality = "uncompilable" /\ Fail("compile")
    BY <2>2, FailStep
  <2>3. CASE /\ rs.quality \in {"geo", "uncompilable"}
             /\ Step("compile", "init")
             /\ LoadGeoSite
             /\ UNCHANGED <<signal, rs, upcoming, ruleset>>
    BY <2>3, BeginSteps
  <2> QED
    BY <1>6, <2>1, <2>2, <2>3 DEF Compile
<1>7. CASE Loaded
  <2>1. CASE load = "loaded" /\ rs.quality = "geo" /\ Compiled("init")
    BY <2>1, CompiledStep
  <2>2. CASE Fail("init")
    BY <2>2, FailStep
  <2> QED
    BY <1>7, <2>1, <2>2 DEF Loaded
<1>8. CASE UpdateRuleset
  BY <1>8, UpdateStep
<1>9. CASE UNCHANGED vars
  BY <1>9 DEF vars, reloadVars, loaderVars, IInv, TypeOK, LoaderTypeOK, LoaderInv, RulesInv,
              PlaceInv, FactoryInv, RulesetOf, GoodRuleset
<1> QED
  BY <1>1, <1>2, <1>3, <1>4, <1>5, <1>6, <1>7, <1>8, <1>9 DEF Next, Loader

\* The strengthened invariant holds of every reachable state.
THEOREM Invariance == Spec => []IInv
  BY InitIInv, NextIInv, PTL DEF Spec

\* TypeOK: every variable keeps its type, and UpdateRuleset never goes past the
\* last factory.
THEOREM TypeCorrect == Spec => []TypeOK
<1>1. IInv => TypeOK
  BY DEF IInv
<1> QED
  BY <1>1, Invariance, PTL

\* OnlyGoodRules: no running engine has rules that did not compile, geo rules
\* without a database, or only a part of the one the server sent for them.
THEOREM GoodRulesCorrect == Spec => []OnlyGoodRules
<1>1. IInv => OnlyGoodRules
  BY DEF IInv, FactoryInv, GoodRuleset, OnlyGoodRules
<1> QED
  BY <1>1, Invariance, PTL

\* OneReloadAtATime: the factories never have more than two rulesets, the new
\* one being that of the first of them.
THEOREM OneReloadCorrect == Spec => []OneReloadAtATime
<1>1. IInv => OneReloadAtATime
  <2> SUFFICES ASSUME IInv PROVE OneReloadAtATime
    OBVIOUS
  <2>1. /\ upcoming \in 0..(2 * N) /\ upcoming \in Nat
        /\ \A f, g \in Factories : f < upcoming /\ g < upcoming => ruleset[f] = ruleset[g]
        /\ \A f, g \in Factories : f >= upcoming /\ g >= upcoming => ruleset[f] = ruleset[g]
    BY FactoryFacts DEF IInv, TypeOK, FactoryInv
  <2>2. upcoming # 0 => pc = "update" /\ ruleset[0] = RulesetOf(rs)
    <3>1. upcoming # 0 => 0 < upcoming
      BY <2>1
    <3> QED
      BY <3>1, FactoryFacts DEF IInv, FactoryInv
  <2> QED
    BY <2>1, <2>2 DEF OneReloadAtATime
<1> QED
  BY <1>1, Invariance, PTL
=============================================================================
