------------------------------- MODULE Reload -------------------------------
(***************************************************************************)
(* Loading and reloading the rules (cmd/root.go, engine/engine.go,         *)
(* engine/worker.go): at its start the process reads and compiles the      *)
(* rules file or gives up; later a goroutine that waits for SIGHUP reads   *)
(* and compiles it again and hands the ruleset to the stream factories of  *)
(* one worker after the other.  Rules that use a geo function have its     *)
(* database loaded (GeoLoader) when they are compiled.  What a factory and *)
(* its streams make of a new ruleset is in TCPStream and UDPStream, where  *)
(* it may come between any two packets.                                    *)
(*                                                                         *)
(* The rules file is edited by somebody else; a read in the middle of that *)
(* may find any part of it.  Go's signal delivery, and who starts and      *)
(* kills the process, are outside src/.                                    *)
(***************************************************************************)
EXTENDS Integers, GeoLoader

CONSTANTS
  N,         \* number of workers
  MaxEdits   \* bound on the edits of the rules file

ASSUME ReloadAssumption == N \in Nat \ {0} /\ MaxEdits \in Nat

\* What may be found in the file: rules, rules that use a geo function, what is
\* no list of rules, or rules with an error that only their compilation finds.
Quality == {"plain", "geo", "unreadable", "uncompilable"}
Content == [edit : 0..MaxEdits, whole : BOOLEAN, quality : Quality]
Good(c) == c.quality \in {"plain", "geo"}

\* A ruleset is what it was compiled from: rules, a database if they use one,
\* and whether that was sent for them.
RulesetOf(c) ==
  [rules |-> c,
   db    |-> IF c.quality = "geo" THEN db ELSE "none",
   sent  |-> c.quality = "geo" /\ sent]

Ruleset == [rules : Content, db : Databases \cup {"none"}, sent : BOOLEAN]

\* The factories in the order UpdateRuleset reaches them.
Factories == 0..(2 * N - 1)

VARIABLES
  process,   \* "down", "boot" until the goroutines start, or "up"
  pc,        \* where runMain is at the start, and the reload goroutine later
  signal,    \* a SIGHUP waits in reloadChan
  file,      \* the content of the rules file
  rs,        \* the rules being loaded
  upcoming,  \* the factory UpdateRuleset reaches next
  ruleset,   \* the ruleset of each factory
  asked      \* the last edit that was complete when a SIGHUP came

reloadVars == <<process, pc, signal, file, rs, upcoming, ruleset, asked>>
vars == <<reloadVars, loaderVars>>

First == [edit |-> 0, whole |-> TRUE, quality |-> "plain"]
NoRules == [rules |-> [First EXCEPT !.quality = "unreadable"], db |-> "none", sent |-> FALSE]

Init ==
  /\ LoaderInit
  /\ process = "down"
  /\ pc = "off"
  /\ signal = FALSE
  /\ file = First
  /\ rs = First
  /\ upcoming = 0
  /\ ruleset = [f \in Factories |-> NoRules]
  /\ asked = 0

-----------------------------------------------------------------------------
\* Somebody begins to write the file ...
BeginEdit ==
  /\ file.whole
  /\ file.edit < MaxEdits
  /\ \E q \in Quality :
       file' = [edit |-> file.edit + 1, whole |-> FALSE, quality |-> q]
  /\ UNCHANGED <<loaderVars, process, pc, signal, rs, upcoming, ruleset, asked>>

\* ... and is done with it.
EndEdit ==
  /\ ~file.whole
  /\ file' = [file EXCEPT !.whole = TRUE]
  /\ UNCHANGED <<loaderVars, process, pc, signal, rs, upcoming, ruleset, asked>>

\* Somebody starts the program.
Start ==
  /\ process = "down"
  /\ process' = "boot"
  /\ pc' = "read"
  /\ UNCHANGED <<loaderVars, signal, file, rs, upcoming, ruleset, asked>>

Asks == asked' = IF file.whole THEN file.edit ELSE asked

\* Faulty: a channel without a place.
HangupUnbuffered ==
  /\ process = "up"
  /\ pc # "start"
  /\ signal' = (signal \/ pc = "wait")
  /\ Asks
  /\ UNCHANGED <<loaderVars, process, pc, file, rs, upcoming, ruleset>>

\* A SIGHUP comes: reloadChan has one place, and what finds it taken is dropped.
Hangup ==
  /\ process = "up"
  /\ pc # "start"
  /\ signal' = TRUE
  /\ Asks
  /\ UNCHANGED <<loaderVars, process, pc, file, rs, upcoming, ruleset>>

\* What the process kept is gone.
Gone ==
  /\ process' = "down"
  /\ pc' = "off"
  /\ signal' = FALSE
  /\ rs' = First
  /\ upcoming' = 0
  /\ ruleset' = [f \in Factories |-> NoRules]
  /\ asked' = 0
  /\ LoaderGone
  /\ UNCHANGED file

\* Run returns, and with it the process; or the process is killed, which a
\* SIGHUP before signal.Notify does as well.
End == process # "down" /\ Gone

-----------------------------------------------------------------------------
\* A step of whoever loads the rules.
Step(from, to) ==
  /\ pc = from
  /\ pc' = to
  /\ UNCHANGED <<process, file, asked>>

\* An error in the rules: the program is given up at its start, later the old
\* rules stay.
Fail(from) ==
  \/ /\ process = "boot"
     /\ pc = from
     /\ Gone
  \/ /\ process = "up"
     /\ Step(from, "wait")
     /\ rs' = First
     /\ UNCHANGED <<signal, upcoming, ruleset>>
     /\ LoaderGone

Notify ==
  /\ Step("start", "wait")
  /\ UNCHANGED <<loaderVars, signal, rs, upcoming, ruleset>>

Receive ==
  /\ signal
  /\ signal' = FALSE
  /\ Step("wait", "read")
  /\ UNCHANGED <<loaderVars, rs, upcoming, ruleset>>

\* What a read of the file may find.
Found == IF file.whole THEN {file} ELSE [edit : {file.edit}, whole : {FALSE}, quality : Quality]

\* ExprRulesFromYAML.
Load ==
  \E c \in Found :
    IF c.quality = "unreadable" THEN Fail("read")
    ELSE /\ Step("read", "compile")
         /\ rs' = c
         /\ UNCHANGED <<loaderVars, signal, upcoming, ruleset>>

Compiled(from) ==
  \/ /\ process = "boot"
     /\ pc = from
     /\ process' = "up"
     /\ pc' = "start"
     /\ ruleset' = [f \in Factories |-> RulesetOf(rs)]
     /\ rs' = First
     /\ LoaderGone
     /\ UNCHANGED <<signal, file, upcoming, asked>>
  \/ /\ process = "up"
     /\ Step(from, "update")
     /\ UNCHANGED <<loaderVars, signal, rs, upcoming, ruleset>>

\* CompileExprRules: a rule with a geo function waits for the database; a rule
\* with an error may stand before it or after it.
Compile ==
  \/ rs.quality = "plain" /\ Compiled("compile")
  \/ rs.quality = "uncompilable" /\ Fail("compile")
  \/ /\ rs.quality \in {"geo", "uncompilable"}
     /\ Step("compile", "init")
     /\ LoadGeoSite
     /\ UNCHANGED <<signal, rs, upcoming, ruleset>>

\* The InitFunc of the geo function, step by step ...
Fetching(A) == pc = "init" /\ A /\ UNCHANGED reloadVars

\* ... and what CompileExprRules does after it.
Loaded ==
  \/ load = "loaded" /\ rs.quality = "geo" /\ Compiled("init")
  \/ load = "loaded" /\ rs.quality # "geo" /\ Fail("init")
  \/ load = "failed" /\ Fail("init")

\* Faulty: each worker loads the rules for itself.
UpdateReloading ==
  /\ Step("update", IF upcoming + 1 = 2 * N THEN "wait" ELSE "update")
  /\ rs' \in IF upcoming % 2 = 0 THEN {c \in Found : c.quality = "plain"} ELSE {rs}
  /\ ruleset' = [ruleset EXCEPT ![upcoming] = [RulesetOf(rs) EXCEPT !.rules = rs']]
  /\ upcoming' = (upcoming + 1) % (2 * N)
  /\ UNCHANGED <<loaderVars, signal>>

\* engine.UpdateRuleset: for each worker the TCP factory, then the UDP factory.
UpdateRuleset ==
  LET last == upcoming + 1 = 2 * N
  IN  /\ Step("update", IF last THEN "wait" ELSE "update")
      /\ ruleset' = [ruleset EXCEPT ![upcoming] = RulesetOf(rs)]
      /\ upcoming' = IF last THEN 0 ELSE upcoming + 1
      /\ rs' = IF last THEN First ELSE rs
      /\ IF last THEN LoaderGone ELSE UNCHANGED loaderVars
      /\ UNCHANGED signal

Loader == Notify \/ Receive \/ Load \/ Compile \/ Fetching(Parse) \/ Loaded \/ UpdateRuleset

Next ==
  \/ BeginEdit \/ EndEdit \/ Start \/ Hangup \/ End
  \/ (Age \/ NetChanges) /\ UNCHANGED reloadVars
  \/ Fetching(Transfer)
  \/ Loader

Spec == Init /\ [][Next]_vars

\* The scheduler lets runMain and the reload goroutine run.  Whatever comes from
\* outside need never come: edits, signals, the end, and answers of the server.
FairSpec == Spec /\ WF_vars(Loader)
-----------------------------------------------------------------------------
TypeOK ==
  /\ LoaderTypeOK
  /\ process \in {"down", "boot", "up"}
  /\ pc \in {"off", "start", "wait", "read", "compile", "init", "update"}
  /\ signal \in BOOLEAN
  /\ file \in Content /\ rs \in Content
  /\ upcoming \in 0..(2 * N) /\ (pc = "update" => upcoming \in Factories)
  /\ ruleset \in [Factories -> Ruleset]
  /\ asked \in 0..MaxEdits

\* Whatever is in the files when they are read, and whatever the network does,
\* the workers of a running engine only ever have rules that were compiled
\* without an error, those with a geo function have a database, and if the server
\* sent the database for them they have all of it: a transfer that breaks off gives
\* no rules.  An error page that parses is a database to the code.
OnlyGoodRules ==
  process = "up" => \A f \in Factories :
    LET r == ruleset[f]
    IN  /\ Good(r.rules)
        /\ r.rules.quality = "geo" <=> r.db \in Databases
        /\ r.sent => r.db = "whole"

\* A reload reaches the factories in their order, and ends before the next one
\* begins: at any moment some first factories have the new rules and all others
\* the same old ones, so that no more than two rulesets are in use for new
\* streams, however fast the files and the signals come.
OneReloadAtATime ==
  \E k \in 0..(2 * N) :
    /\ \A f, g \in Factories : f < k /\ g < k => ruleset[f] = ruleset[g]
    /\ \A f, g \in Factories : f >= k /\ g >= k => ruleset[f] = ruleset[g]
    /\ k \notin {0, 2 * N} => pc = "update" /\ upcoming = k /\ ruleset[0] = RulesetOf(rs)

\* Each request ends sometime, in one way or the other.  The code has no timeout
\* to make it so.
RequestsEnd ==
  /\ WF_vars(Fetching(Get \/ GetFails))
  /\ WF_vars(Fetching(WriteLast \/ WriteFails))

\* No signal is lost that matters: correct rules that were complete when a
\* SIGHUP came, and are not edited again, reach every factory, even when that
\* SIGHUP found the channel taken or the goroutine busy with the former rules,
\* unless that is waiting for a server for ever.
ReloadsLastEdit ==
  RequestsEnd =>
    \A n \in 1..MaxEdits :
      (asked = n /\ file.quality = "plain") ~>
        \/ process # "up"
        \/ file.edit # n
        \/ \A f \in Factories : ruleset[f].rules = file

\* From some time on the network works, nobody edits the rules or ends the
\* process but itself, who finds it down starts it, and SIGHUPs keep coming.
CalmSince ==
  /\ RequestsEnd
  /\ WF_vars(Age /\ UNCHANGED reloadVars)
  /\ WF_vars(Start)
  /\ []<><<Hangup>>_vars \/ []<><<Start>>_vars
  /\ <>[](net /\ file.whole)
  /\ <>[][End => (Load \/ Compile \/ Loaded)]_vars

\* No download that was cut short, by the network or the end of the process, or
\* was of something else, keeps geo rules out for good: a file that is of no use,
\* or has only a part of the database, is replaced when it is old.
Recovers ==
  CalmSince =>
    <>[](~named /\ file.quality = "geo" =>
           /\ process = "up"
           /\ \A f \in Factories : ruleset[f].rules = file /\ ruleset[f].db = "whole")
=============================================================================
