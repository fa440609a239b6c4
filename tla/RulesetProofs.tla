--------------------------- MODULE RulesetProofs ----------------------------
(***************************************************************************)
(* Theorems about ExprRuleset, for all lists of rules that are as          *)
(* RulesetAssumption says: any number of rules, any expressions, any       *)
(* analyzers and modifiers; and about GeoMatcher, for all databases,       *)
(* conditions and questions that are as GeoAssumption says.                *)
(*                                                                         *)
(* The loop of Match, the binary search and the spelling of a name are     *)
(* recursive functions.  That they exist and what they compute is proved   *)
(* by induction, on the number of rules behind, the width of the window    *)
(* and the labels behind one; induction is stated with sets, by NatInduct. *)
(***************************************************************************)
EXTENDS ExprRuleset, GeoMatcher, FiniteSetTheorems, NaturalsInduction,
        WellFoundedInduction, TLAPS

\* A set with 0 and the successors of its members has all natural numbers.
LEMMA NatInduct ==
  ASSUME NEW T, 0 \in T, \A n \in Nat : n \in T => n + 1 \in T
  PROVE  Nat \subseteq T
<1> DEFINE R == OpToRel(<, Nat)
           D == Nat \ T
<1>1. SUFFICES ASSUME D # {} PROVE FALSE
  OBVIOUS
<1>2. IsWellFoundedOn(R, Nat)
  BY NatLessThanWellFounded
<1>3. PICK x \in D : \A y \in D : <<y, x>> \notin R
  <2> HIDE DEF R
  <2> QED BY <1>1, <1>2, WFMin, Zenon
<1>4. x - 1 \in Nat /\ x \in Nat /\ x # 0 /\ x - 1 < x /\ (x - 1) + 1 = x
  OBVIOUS
<1>5. <<x - 1, x>> \in R
  BY <1>4 DEF OpToRel
<1>6. x - 1 \in T
  BY <1>3, <1>4, <1>5
<1> QED
  BY <1>4, <1>6

-----------------------------------------------------------------------------
(* The loop of Match. *)

\* What the loop answers from each rule on, as a function that satisfies its
\* definition for the rules from i on.
Loops(f, i, env) ==
  f = [j \in i..(Len(rules) + 1) |->
         IF j > Len(rules) THEN NoMatch ELSE MatchRule(j, env, f[j + 1])]

\* There is such a function for all rules.
LEMMA LoopExists ==
  ASSUME Len(rules) \in Nat, NEW env
  PROVE  \E f : Loops(f, 1, env)
<1> DEFINE n == Len(rules)
           T == {m \in Nat : m <= n => \E f : Loops(f, n + 1 - m, env)}
<1>1. 0 \in T
  <2> DEFINE f == [j \in (n + 1)..(n + 1) |-> NoMatch]
  <2>1. Loops(f, n + 1, env)
    BY DEF Loops
  <2> QED
    BY <2>1
<1>2. ASSUME NEW m \in Nat, m \in T PROVE m + 1 \in T
  <2>1. SUFFICES ASSUME m + 1 <= n PROVE \E f : Loops(f, n + 1 - (m + 1), env)
    OBVIOUS
  <2> DEFINE i == n - m
  <2>2. i \in 1..n /\ n + 1 - m = i + 1 /\ n + 1 - (m + 1) = i
    BY <2>1
  <2>3. PICK g : Loops(g, i + 1, env)
    BY <1>2, <2>1, <2>2
  <2> DEFINE f == [j \in i..(n + 1) |-> IF j = i THEN MatchRule(i, env, g[i + 1]) ELSE g[j]]
  <2>4. \A j \in (i + 1)..(n + 1) :
          g[j] = IF j > n THEN NoMatch ELSE MatchRule(j, env, g[j + 1])
    BY <2>3, Zenon DEF Loops
  <2> HIDE DEF i
  <2>5. \A j \in (i + 1)..(n + 1) : f[j] = g[j]
    BY <2>2
  <2>6. \A j \in i..(n + 1) : f[j] = IF j > n THEN NoMatch ELSE MatchRule(j, env, f[j + 1])
    <3> TAKE j \in i..(n + 1)
    <3>1. CASE j = n + 1
      BY <2>2, <2>4, <2>5, <3>1
    <3>2. CASE j = i
      BY <2>2, <2>5, <3>2
    <3>3. CASE j # i /\ j # n + 1
      <4>1. j \in (i + 1)..(n + 1) /\ j + 1 \in (i + 1)..(n + 1) /\ ~(j > n)
        BY <2>2, <3>3
      <4> QED
        BY <2>4, <2>5, <4>1
    <3> QED
      BY <3>1, <3>2, <3>3
  <2>7. f = [j \in i..(n + 1) |-> f[j]]
    OBVIOUS
  <2>8. Loops(f, i, env)
    <3> HIDE DEF f
    <3> QED
      BY <2>6, <2>7, Zenon DEF Loops
  <2> QED
    BY <2>2, <2>8
<1>3. n \in T
  <2> HIDE DEF T
  <2> QED
    BY <1>1, <1>2, NatInduct
<1> QED
  BY <1>3

\* MatchRules is where it begins.
LEMMA MatchRulesLoops ==
  ASSUME Len(rules) \in Nat, NEW env
  PROVE  \E f : Loops(f, 1, env) /\ MatchRules(env) = f[1]
<1> DEFINE f == CHOOSE g : Loops(g, 1, env)
<1>1. Loops(f, 1, env)
  BY LoopExists, Zenon
<1>2. MatchRules(env) = f[1]
  BY Zenon DEF MatchRules, Loops
<1> QED
  BY <1>1, <1>2, Zenon

-----------------------------------------------------------------------------
(* What the loop computes. *)

Acts(i, env) == RunProgram(rules[i].expr, env) = "true" /\ rules[i].action # ""
Logs(i, env) == RunProgram(rules[i].expr, env) = "true" /\ rules[i].log

\* A log has rules that log, from rule i to rule e, each once and in their order.
Increasing(l) == \A a, b \in 1..Len(l) : a < b => l[a] < l[b]

Log(l, i, e, env) ==
  /\ l \in Seq(i..Len(rules)) /\ Increasing(l)
  /\ \A j \in i..Len(rules) : (\E a \in 1..Len(l) : l[a] = j) <=> (j <= e /\ Logs(j, env))

\* The loop that starts at rule i ends at rule e with answer r, or behind the last one.
EndsAt(r, i, e, env) ==
  LET n == Len(rules)
  IN  /\ \A j \in i..(e - 1) : ~Acts(j, env)
      /\ Log(r.logged, i, e, env)
      /\ \/ /\ e = n + 1
            /\ r = [action |-> "maybe", mod |-> "none", logged |-> r.logged]
         \/ /\ e \in i..n /\ Acts(e, env)
            /\ r = [action |-> rules[e].action, mod |-> rules[e].mod, logged |-> r.logged]

Answers(r, i, env) == \E e \in i..(Len(rules) + 1) : EndsAt(r, i, e, env)

\* Behind the last rule there is no match.
LEMMA NoMatchAnswers ==
  ASSUME Len(rules) \in Nat, NEW env
  PROVE  Answers(NoMatch, Len(rules) + 1, env)
<1> DEFINE n == Len(rules)
<1>1. Log(<<>>, n + 1, n + 1, env)
  BY DEF Log, Increasing
<1>2. /\ NoMatch.logged = <<>>
      /\ NoMatch = [action |-> "maybe", mod |-> "none", logged |-> NoMatch.logged]
  BY DEF NoMatch
<1>3. EndsAt(NoMatch, n + 1, n + 1, env)
  BY <1>1, <1>2 DEF EndsAt
<1> QED
  BY <1>3 DEF Answers

\* What a rule that is true puts at the beginning of the log.
First(i) == IF rules[i].log THEN <<i>> ELSE <<>>

\* With it, the log is that of the rules from i on.
LEMMA LogFirst ==
  ASSUME Len(rules) \in Nat, NEW env, NEW i \in 1..Len(rules), NEW e \in i..(Len(rules) + 1),
         NEW l, Log(l, i + 1, e, env), RunProgram(rules[i].expr, env) = "true"
  PROVE  Log(First(i) \o l, i, e, env)
<1> DEFINE n == Len(rules)
           m == First(i) \o l
           len == Len(l)
<1>1. l \in Seq((i + 1)..n)
  BY DEF Log
<1>2. len \in Nat /\ \A a \in 1..len : l[a] \in (i + 1)..n
  BY <1>1
<1>3. \A a, b \in 1..len : a < b => l[a] < l[b]
  BY DEF Log, Increasing
<1>4. \A j \in (i + 1)..n : (\E a \in 1..len : l[a] = j) <=> (j <= e /\ Logs(j, env))
  BY DEF Log
<1>5. CASE rules[i].log
  <2>1. m \in Seq(i..n) /\ Len(m) = len + 1
    BY <1>1, <1>5 DEF First
  <2>2. m[1] = i /\ \A a \in 1..len : m[a + 1] = l[a]
    BY <1>1, <1>5 DEF First
  <2>3. \A a \in 1..(len + 1) : a # 1 => a - 1 \in 1..len /\ m[a] = l[a - 1]
    <3> HIDE DEF m, len
    <3> TAKE a \in 1..(len + 1)
    <3> HAVE a # 1
    <3>1. a - 1 \in 1..len /\ (a - 1) + 1 = a
      BY <1>2
    <3> QED
      BY <2>2, <3>1
  <2> HIDE DEF m, len
  <2>4. \A a, b \in 1..(len + 1) : a < b => m[a] < m[b]
    <3> TAKE a, b \in 1..(len + 1)
    <3> HAVE a < b
    <3>1. b # 1
      BY <1>2
    <3>2. b - 1 \in 1..len /\ m[b] = l[b - 1] /\ l[b - 1] \in (i + 1)..n
      BY <1>2, <2>3, <3>1
    <3>3. CASE a = 1
      BY <2>2, <3>2, <3>3
    <3>4. CASE a # 1
      <4>1. a - 1 \in 1..len /\ m[a] = l[a - 1] /\ a - 1 < b - 1
        BY <1>2, <2>3, <3>4
      <4> QED
        BY <1>3, <3>2, <4>1
    <3> QED
      BY <3>3, <3>4
  <2>5. ASSUME NEW j \in i..n
        PROVE  (\E a \in 1..(len + 1) : m[a] = j) <=> (j <= e /\ Logs(j, env))
    <3>1. CASE j = i
      <4>1. Logs(i, env) /\ i <= e /\ 1 \in 1..(len + 1)
        BY <1>2, <1>5 DEF Logs
      <4> QED
        BY <2>2, <3>1, <4>1
    <3>2. CASE j # i
      <4>1. j \in (i + 1)..n
        BY <3>2
      <4>2. ASSUME NEW a \in 1..(len + 1), m[a] = j PROVE \E b \in 1..len : l[b] = j
        BY <2>2, <2>3, <3>2, <4>2
      <4>3. ASSUME NEW b \in 1..len, l[b] = j PROVE \E a \in 1..(len + 1) : m[a] = j
        <5>1. b + 1 \in 1..(len + 1)
          BY <1>2
        <5> QED
          BY <2>2, <4>3, <5>1
      <4> QED
        BY <1>4, <4>1, <4>2, <4>3
    <3> QED
      BY <3>1, <3>2
  <2>6. Log(m, i, e, env)
    BY <2>1, <2>4, <2>5 DEF Log, Increasing
  <2> QED
    BY <2>6 DEF m
<1>6. CASE ~rules[i].log
  <2>1. m = l
    BY <1>1, <1>6 DEF First
  <2>2. l \in Seq(i..n) /\ Increasing(l)
    BY <1>1, <1>3 DEF Increasing
  <2>3. ASSUME NEW j \in i..n
        PROVE  (\E a \in 1..Len(l) : l[a] = j) <=> (j <= e /\ Logs(j, env))
    <3>1. CASE j = i
      BY <1>2, <1>6, <3>1 DEF Logs
    <3>2. CASE j # i
      BY <1>4, <3>2
    <3> QED
      BY <3>1, <3>2
  <2> QED
    BY <2>1, <2>2, <2>3 DEF Log
<1> QED
  BY <1>5, <1>6

\* One round of the loop.
LEMMA MatchRuleAnswers ==
  ASSUME Len(rules) \in Nat, NEW env, NEW i \in 1..Len(rules), NEW rest,
         Answers(rest, i + 1, env)
  PROVE  Answers(MatchRule(i, env, rest), i, env)
<1> DEFINE n == Len(rules)
           r == MatchRule(i, env, rest)
<1>1. PICK e \in (i + 1)..(n + 1) : EndsAt(rest, i + 1, e, env)
  BY DEF Answers
<1>2. CASE RunProgram(rules[i].expr, env) # "true"
  <2>1. r = rest /\ ~Acts(i, env) /\ ~Logs(i, env)
    BY <1>2 DEF MatchRule, Acts, Logs
  <2>2. Log(rest.logged, i + 1, e, env)
    BY <1>1, Zenon DEF EndsAt
  <2>3. Log(rest.logged, i, e, env)
    <3> DEFINE l == rest.logged
    <3> HIDE DEF l
    <3>1. /\ l \in Seq((i + 1)..n) /\ Increasing(l)
          /\ \A j \in (i + 1)..n : (\E a \in 1..Len(l) : l[a] = j) <=> (j <= e /\ Logs(j, env))
      BY <2>2 DEF l, Log
    <3>2. l \in Seq(i..n) /\ \A a \in 1..Len(l) : l[a] # i
      BY <3>1
    <3>3. \A j \in i..n : (\E a \in 1..Len(l) : l[a] = j) <=> (j <= e /\ Logs(j, env))
      BY <2>1, <3>1, <3>2
    <3> QED
      BY <3>1, <3>2, <3>3 DEF l, Log
  <2>4. EndsAt(rest, i, e, env)
    BY <1>1, <2>1, <2>3 DEF EndsAt
  <2> QED
    BY <2>1, <2>4 DEF Answers
<1>3. CASE RunProgram(rules[i].expr, env) = "true" /\ rules[i].action # ""
  <2> DEFINE m == First(i) \o <<>>
  <2>1. r = [action |-> rules[i].action, mod |-> rules[i].mod, logged |-> m]
    BY <1>3 DEF MatchRule, NoMatch, First
  <2>2. Acts(i, env)
    BY <1>3 DEF Acts
  <2>3. Log(<<>>, i + 1, i, env)
    BY DEF Log, Increasing
  <2>4. Log(m, i, i, env)
    <3>1. i \in i..(n + 1)
      OBVIOUS
    <3> QED
      BY <1>3, <2>3, <3>1, LogFirst, Zenon
  <2>5. EndsAt(r, i, i, env)
    <3> HIDE DEF m
    <3> QED
      BY <2>1, <2>2, <2>4 DEF EndsAt
  <2> QED
    BY <2>5 DEF Answers
<1>4. CASE RunProgram(rules[i].expr, env) = "true" /\ rules[i].action = ""
  <2> DEFINE m == First(i) \o rest.logged
  <2>1. r = [rest EXCEPT !.logged = m] /\ ~Acts(i, env)
    BY <1>4 DEF MatchRule, Acts, First
  <2>2. Log(m, i, e, env)
    <3>1. Log(rest.logged, i + 1, e, env)
      BY <1>1, Zenon DEF EndsAt
    <3>2. e \in i..(n + 1)
      OBVIOUS
    <3> QED
      BY <1>4, <3>1, <3>2, LogFirst, Zenon
  <2>3. EndsAt(r, i, e, env)
    <3> HIDE DEF m
    <3>1. \A j \in i..(e - 1) : ~Acts(j, env)
      BY <1>1, <2>1 DEF EndsAt
    <3>2. CASE e = n + 1 /\ rest = [action |-> "maybe", mod |-> "none", logged |-> rest.logged]
      <4>1. r = [action |-> "maybe", mod |-> "none", logged |-> m] /\ r.logged = m
        BY <2>1, <3>2
      <4> QED
        BY <2>2, <3>1, <3>2, <4>1 DEF EndsAt
    <3>3. CASE /\ e \in (i + 1)..n /\ Acts(e, env)
               /\ rest = [action |-> rules[e].action, mod |-> rules[e].mod, logged |-> rest.logged]
      <4>1. r = [action |-> rules[e].action, mod |-> rules[e].mod, logged |-> m] /\ r.logged = m
        BY <2>1, <3>3
      <4> QED
        BY <2>2, <3>1, <3>3, <4>1 DEF EndsAt
    <3> QED
      BY <1>1, <3>2, <3>3 DEF EndsAt
  <2> QED
    BY <2>3 DEF Answers
<1> QED
  BY <1>2, <1>3, <1>4

\* Match answers for all rules.
LEMMA MatchAnswers ==
  ASSUME Len(rules) \in Nat, NEW env
  PROVE  Answers(MatchRules(env), 1, env)
<1> DEFINE n == Len(rules)
<1>1. PICK f : Loops(f, 1, env) /\ MatchRules(env) = f[1]
  BY MatchRulesLoops
<1>2. \A j \in 1..(n + 1) : f[j] = IF j > n THEN NoMatch ELSE MatchRule(j, env, f[j + 1])
  BY <1>1, Zenon DEF Loops
<1> DEFINE T == {m \in Nat : m <= n => Answers(f[n + 1 - m], n + 1 - m, env)}
<1>3. 0 \in T
  <2>1. f[n + 1] = NoMatch
    BY <1>2
  <2> QED
    BY <2>1, NoMatchAnswers
<1>4. ASSUME NEW m \in Nat, m \in T PROVE m + 1 \in T
  <2>1. SUFFICES ASSUME m + 1 <= n PROVE Answers(f[n - m], n - m, env)
    <3>1. n + 1 - (m + 1) = n - m
      OBVIOUS
    <3> QED
      BY <3>1
  <2>2. n - m \in 1..n /\ n + 1 - m = (n - m) + 1
    BY <2>1
  <2>3. Answers(f[(n - m) + 1], (n - m) + 1, env)
    BY <1>4, <2>1, <2>2
  <2>4. f[n - m] = MatchRule(n - m, env, f[(n - m) + 1])
    BY <1>2, <2>2
  <2> QED
    BY <2>2, <2>3, <2>4, MatchRuleAnswers
<1>5. n \in T
  <2> HIDE DEF T
  <2> QED
    BY <1>3, <1>4, NatInduct
<1>6. n + 1 - n = 1
  OBVIOUS
<1> QED
  BY <1>1, <1>5, <1>6

-----------------------------------------------------------------------------
(* The invariant. *)

\* What the compilation of a rule that was taken has made sure of.
Taken(r) ==
  /\ Identifiers(r.expr) \cap Analyzers \subseteq depAns
  /\ r.expr.ids \cap Databases \subseteq loaded
  /\ r.action = "modify" => r.mod \in Modifiers
  /\ r.action # "maybe"

\* Every rule is taken before the ruleset is there, and the last answer is the
\* loop's on what was told of the analyzers the ruleset has asked for.
Inv ==
  /\ rules \in RuleLists
  /\ k \in 0..Len(rules)
  /\ pc \in {"compile", "failed", "panicked", "ready"}
  /\ pc \in {"compile", "ready"} => \A i \in 1..k : Taken(rules[i])
  /\ pc = "ready" => k = Len(rules)
  /\ last.told # {} => /\ pc = "ready" /\ last.told \subseteq Analyzers
                       /\ \A r, env : r = last.got /\ env = StreamEnv(last.told) => Answers(r, 1, env)

\* One rule is taken, and those before it stay so.
LEMMA CompileRuleTakes ==
  ASSUME RulesetAssumption, Inv, NEW lost \in SUBSET Databases, CompileRule(lost), pc' = "compile"
  PROVE  \A i \in 1..(k + 1) : Taken(rules[i])'
<1> DEFINE r == rules[k + 1]
           e == r.expr
           inits == Identifiers(e) \cap Databases
<1>1. /\ k \in Nat /\ rules' = rules /\ k + 1 \in DOMAIN rules /\ pc = "compile"
      /\ e.ok => e.lets \cap funcMap = {}
  BY DEF Inv, CompileRule, RulesetAssumption
<1>2. /\ ~BadAction(r) /\ ~BadExpr(e) /\ lost = {} /\ ~BadModifier(r)
      /\ loaded' = loaded \cup (inits \ lost) /\ depAns' = Needs(e)
  BY DEF CompileRule
<1>3. ASSUME NEW i \in Nat, i = k + 1 PROVE Taken(rules[i])'
  <2>1. e.ids \cap Databases \subseteq inits
    BY <1>1, <1>2 DEF BadExpr, Identifiers, funcMap, Databases, isBuiltInAnalyzer
  <2>2. r.action = "modify" => r.mod \in Modifiers
    BY <1>2 DEF BadModifier
  <2>3. r.action # "maybe"
    BY <1>2 DEF BadAction, ActionStrings
  <2> QED
    BY <1>1, <1>2, <1>3, <2>1, <2>2, <2>3 DEF Taken, Needs, Identifiers
<1>4. ASSUME NEW i \in 1..k PROVE Taken(rules[i])'
  <2>1. Taken(rules[i])
    BY <1>1, <1>4 DEF Inv
  <2>2. depAns \subseteq depAns' /\ loaded \subseteq loaded'
    BY <1>2 DEF Needs
  <2> QED
    BY <1>1, <2>1, <2>2 DEF Taken, Identifiers
<1> QED
  BY <1>1, <1>3, <1>4

\* What the loop answers depends on the rules only.
LEMMA AnswersStay ==
  ASSUME rules' = rules
  PROVE  \A r, env : Answers(r, 1, env) => Answers(r, 1, env)'
<1>1. \A i, env : (Acts(i, env)' <=> Acts(i, env)) /\ (Logs(i, env)' <=> Logs(i, env))
  BY DEF Acts, Logs, RunProgram
<1>2. \A l, i, e, env : Log(l, i, e, env) => Log(l, i, e, env)'
  <2> SUFFICES ASSUME NEW l, NEW i, NEW e, NEW env, Log(l, i, e, env)
               PROVE  Log(l, i, e, env)'
    OBVIOUS
  <2>1. l \in Seq(i..Len(rules)) /\ Increasing(l)
    BY DEF Log
  <2>2. \A j \in i..Len(rules) : (\E a \in 1..Len(l) : l[a] = j) <=> (j <= e /\ Logs(j, env)')
    BY <1>1, Zenon DEF Log
  <2> QED
    BY <2>1, <2>2 DEF Log, Increasing
<1>3. \A r, i, e, env : EndsAt(r, i, e, env) => EndsAt(r, i, e, env)'
  BY <1>1, <1>2 DEF EndsAt
<1> QED
  BY <1>3, Zenon DEF Answers

\* The invariant holds in every reachable state.
THEOREM Invariance == ASSUME RulesetAssumption PROVE Spec => []Inv
<1>1. Init => Inv
  BY DEF Init, Inv, RulesetAssumption
<1>2. Inv /\ [Next]_vars => Inv'
  <2> SUFFICES ASSUME Inv, [Next]_vars PROVE Inv'
    OBVIOUS
  <2>1. Len(rules) \in Nat /\ DOMAIN rules = 1..Len(rules)
    BY DEF Inv, RulesetAssumption
  <2>2. ASSUME NEW lost \in SUBSET Databases, CompileRule(lost) PROVE Inv'
    <3>1. /\ rules' = rules /\ k' = k + 1 /\ k' \in 0..Len(rules) /\ last' = last /\ pc = "compile"
          /\ pc' \in {"compile", "failed", "panicked"}
      BY <2>1, <2>2 DEF Inv, CompileRule
    <3>2. pc' = "compile" => \A i \in 1..(k + 1) : Taken(rules[i])'
      BY <2>2, CompileRuleTakes
    <3>3. last.told = {}
      BY <3>1 DEF Inv
    <3> QED
      BY <3>1, <3>2, <3>3 DEF Inv
  <2>3. ASSUME Compiled PROVE Inv'
    BY <2>3 DEF Inv, Compiled, Taken, Identifiers
  <2>4. ASSUME NEW told \in SUBSET Analyzers, Match(told) PROVE Inv'
    <3>1. /\ UNCHANGED <<rules, pc, k, depAns, loaded>> /\ pc = "ready"
          /\ last'.told = told /\ last'.got = MatchRules(StreamEnv(told))
      BY <2>4 DEF Match
    <3>2. ASSUME NEW r, NEW env, r = MatchRules(env), env = StreamEnv(told)
          PROVE  Answers(r, 1, env)'
      BY <2>1, <3>1, <3>2, MatchAnswers, AnswersStay
    <3>3. StreamEnv(told)' = StreamEnv(told)
      BY <3>1 DEF StreamEnv
    <3>4. \A r, env : r = last'.got /\ env = StreamEnv(last.told)' => Answers(r, 1, env)'
      BY <3>1, <3>2, <3>3
    <3> QED
      BY <3>1, <3>4 DEF Inv, Taken, Identifiers
  <2>5. CASE UNCHANGED vars
    <3> QED
      BY <2>5, AnswersStay DEF vars, Inv, Taken, Identifiers, StreamEnv
  <2> QED
    BY <2>2, <2>3, <2>4, <2>5 DEF Next
<1> QED
  BY <1>1, <1>2, PTL DEF Spec

\* A worker that asks never finds a database that is not there, nor waits for it
\* (CompileExprRules, exprRuleset.Match).
THEOREM LoadCorrect == ASSUME RulesetAssumption PROVE Spec => []NoLoadInMatch
<1>1. Inv => NoLoadInMatch
  BY DEF Inv, NoLoadInMatch, Taken, RulesetAssumption
<1> QED
  BY <1>1, Invariance, PTL

\* Rules see all that the analyzers they read have reported.
LEMMA NothingHidden ==
  ASSUME RulesetAssumption, Inv, pc = "ready", NEW told \in SUBSET Analyzers,
         NEW i \in DOMAIN rules, ~Shadows(rules[i].expr)
  PROVE  RunProgram(rules[i].expr, StreamEnv(told)) = rules[i].expr.value[told \cap rules[i].expr.reads]
<1> DEFINE e == rules[i].expr
<1>1. e.reads \subseteq e.ids /\ i \in 1..k
  BY DEF Inv, RulesetAssumption
<1>2. Identifiers(e) \cap Analyzers \subseteq depAns
  BY <1>1 DEF Inv, Taken
<1>3. e.reads \cap Analyzers \subseteq Identifiers(e)
  BY <1>1 DEF Identifiers, Shadows, RulesetAssumption
<1>4. StreamEnv(told) \cap e.reads = told \cap e.reads
  BY <1>2, <1>3 DEF StreamEnv
<1> QED
  BY <1>4 DEF RunProgram

\* The ruleset decides by the first true rule with an action, as if all analyzers
\* ran, and logs the true rules up to it, each once (exprRuleset.Match).
THEOREM DecisionCorrect == ASSUME RulesetAssumption PROVE Spec => []FirstTrueRuleDecides
<1>1. Inv => FirstTrueRuleDecides
  <2> DEFINE n == Len(rules)
             told == last.told
             got == last.got
             acts == {i \in DOMAIN rules : True(i, told) /\ rules[i].action # ""}
             first == IF acts = {} THEN n ELSE CHOOSE i \in acts : \A j \in acts : i <= j
             env == StreamEnv(told)
  <2>1. SUFFICES ASSUME Inv, pc = "ready", told # {}, \A i \in DOMAIN rules : ~Shadows(rules[i].expr)
                 PROVE  /\ got.action = IF acts = {} THEN "maybe" ELSE rules[first].action
                        /\ got.action = "modify" => got.mod \in Modifiers
                        /\ {got.logged[j] : j \in DOMAIN got.logged} =
                             {i \in 1..first : True(i, told) /\ rules[i].log}
                        /\ \A j \in 1..(Len(got.logged) - 1) : got.logged[j] < got.logged[j + 1]
    BY Zenon DEF FirstTrueRuleDecides
  <2>2. /\ n \in Nat /\ DOMAIN rules = 1..n /\ told \subseteq Analyzers
        /\ \A i \in 1..n : Taken(rules[i])
    BY <2>1 DEF Inv, RulesetAssumption
  <2>3. \A i \in 1..n : RunProgram(rules[i].expr, env) = "true" <=> True(i, told)
    BY <2>1, <2>2, NothingHidden DEF True
  <2>4. PICK e \in 1..(n + 1) : EndsAt(got, 1, e, env)
    BY <2>1 DEF Inv, Answers
  <2>5. acts = {i \in 1..n : Acts(i, env)} /\ \A i \in 1..n : Logs(i, env) <=> True(i, told) /\ rules[i].log
    BY <2>2, <2>3 DEF Acts, Logs
  <2>6. Log(got.logged, 1, e, env) /\ \A j \in 1..(e - 1) : ~Acts(j, env)
    BY <2>4, Zenon DEF EndsAt
  <2>7. first = (IF e = n + 1 THEN n ELSE e) /\ (acts = {} <=> e = n + 1)
    <3> HIDE DEF got, env, acts
    <3>1. CASE e = n + 1
      <4>1. acts = {}
        BY <2>2, <2>5, <2>6, <3>1
      <4> QED
        BY <3>1, <4>1
    <3>2. CASE e # n + 1
      <4>1. e \in 1..n /\ Acts(e, env)
        BY <2>2, <2>4, <3>2, Zenon DEF EndsAt
      <4>2. e \in acts /\ \A j \in acts : e <= j /\ j \in 1..n
        BY <2>2, <2>5, <2>6, <4>1
      <4>3. \A i \in acts : (\A j \in acts : i <= j) => i = e
        BY <2>2, <4>1, <4>2
      <4> QED
        BY <3>2, <4>2, <4>3
    <3> QED
      BY <3>1, <3>2
  <2> HIDE DEF first, acts, env, got
  <2>8. got.action = (IF acts = {} THEN "maybe" ELSE rules[first].action)
        /\ (got.action = "modify" => got.mod \in Modifiers)
    BY <2>2, <2>4, <2>7 DEF EndsAt, Taken
  <2>9. /\ {got.logged[j] : j \in DOMAIN got.logged} = {i \in 1..first : True(i, told) /\ rules[i].log}
        /\ \A j \in 1..(Len(got.logged) - 1) : got.logged[j] < got.logged[j + 1]
    <3> DEFINE l == got.logged
    <3>1. /\ l \in Seq(1..n) /\ \A a, b \in 1..Len(l) : a < b => l[a] < l[b]
          /\ \A j \in 1..n : (\E a \in 1..Len(l) : l[a] = j) <=> (j <= e /\ Logs(j, env))
      BY <2>6 DEF Log, Increasing
    <3> HIDE DEF l
    <3>2. Len(l) \in Nat /\ DOMAIN l = 1..Len(l) /\ \A a \in 1..Len(l) : l[a] \in 1..n
      BY <3>1
    <3>3. {l[j] : j \in 1..Len(l)} = {j \in 1..n : j <= e /\ Logs(j, env)}
      BY <3>1, <3>2
    <3>4. {j \in 1..n : j <= e /\ Logs(j, env)} = {i \in 1..first : True(i, told) /\ rules[i].log}
      BY <2>2, <2>5, <2>7
    <3>5. \A j \in 1..(Len(l) - 1) : l[j] < l[j + 1]
      BY <3>1, <3>2
    <3> QED
      BY <3>2, <3>3, <3>4, <3>5 DEF l
  <2> QED
    BY <2>8, <2>9
<1> QED
  BY <1>1, Invariance, PTL
-----------------------------------------------------------------------------
(* GeoMatcher: networks. *)

\* A power of two is not zero.
LEMMA PowerOfTwo ==
  ASSUME NEW n \in Nat
  PROVE  2 ^ n \in Nat \ {0}
<1>1. IsFiniteSet(1..n) /\ Cardinality(1..n) = n
  BY FS_Interval
<1>2. IsFiniteSet(SUBSET (1..n)) /\ Cardinality(SUBSET (1..n)) = 2 ^ n
  BY <1>1, FS_SUBSET
<1>3. Cardinality(SUBSET (1..n)) # 0
  BY <1>2, FS_EmptySet
<1> QED
  BY <1>2, <1>3, FS_CardinalityType

\* Numbers with the same quotient lie in the same block.
LEMMA SameBlock ==
  ASSUME NEW x \in Nat, NEW y \in Nat, NEW s \in Nat \ {0}
  PROVE  /\ x \div s = y \div s <=> x - (x % s) <= y /\ y < (x - (x % s)) + s
         /\ x - (x % s) \in Nat /\ x - (x % s) <= x /\ x < (x - (x % s)) + s
<1> DEFINE q == x \div s
           p == y \div s
           a == x % s
           b == y % s
<1>1. /\ q \in Nat /\ p \in Nat /\ a \in Nat /\ b \in Nat /\ a < s /\ b < s
      /\ x = s * q + a /\ y = s * p + b
  OBVIOUS
<1> HIDE DEF q, p, a, b
<1>2. x - a = s * q /\ s * q \in Nat
  BY <1>1
<1>3. q = p => x - a <= y /\ y < (x - a) + s
  BY <1>1
<1>4. q < p => s * q + s <= s * p
  <2>1. ASSUME q < p PROVE s * (q + 1) <= s * p
    BY <1>1, <2>1
  <2> QED
    BY <1>1, <2>1
<1>5. p < q => s * p + s <= s * q
  <2>1. ASSUME p < q PROVE s * (p + 1) <= s * q
    BY <1>1, <2>1
  <2> QED
    BY <1>1, <2>1
<1>6. x - a <= y /\ y < (x - a) + s => q = p
  BY <1>1, <1>2, <1>4, <1>5
<1>7. x - a \in Nat /\ x - a <= x /\ x < (x - a) + s
  BY <1>1, <1>2
<1> QED
  BY <1>3, <1>6, <1>7 DEF q, p, a

\* What GeoAssumption says of a list, for one family.
OneFamily(nets, v) ==
  /\ v \in {4, 6} /\ Bits[v] \in Nat
  /\ IsFiniteSet(nets)
  /\ \A n \in nets : /\ n.len = v /\ n.ip \in Nat /\ n.prefix \in 0..Bits[v]
                     /\ \A m \in nets : m = n \/ Apart(m, n)

\* A network contains the addresses in its block.
LEMMA ContainsIn ==
  ASSUME NEW nets, NEW v, OneFamily(nets, v), NEW n \in nets, NEW a \in Nat
  PROVE  /\ NetContains(n, v, a) <=> InNet(n, a)
         /\ Size(n) \in Nat \ {0} /\ Lowest(n) \in Nat /\ InNet(n, n.ip)
<1>1. n.len = v /\ n.ip \in Nat /\ Bits[v] - n.prefix \in Nat
  BY DEF OneFamily
<1>2. Size(n) \in Nat \ {0} /\ Size(n) = 2 ^ (Bits[v] - n.prefix)
  BY <1>1, PowerOfTwo DEF Size
<1> QED
  BY <1>1, <1>2, SameBlock DEF NetContains, InNet, Lowest

\* Networks that do not overlap are ordered like their addresses.
LEMMA InOrder ==
  ASSUME NEW nets, NEW v, OneFamily(nets, v), NEW m \in nets, NEW n \in nets, m # n
  PROVE  /\ m.ip # n.ip
         /\ m.ip < n.ip => Lowest(m) + Size(m) <= Lowest(n)
<1>1. /\ m.ip \in Nat /\ Size(m) \in Nat \ {0} /\ Lowest(m) \in Nat /\ InNet(m, m.ip)
      /\ n.ip \in Nat /\ Size(n) \in Nat \ {0} /\ Lowest(n) \in Nat /\ InNet(n, n.ip)
  BY ContainsIn DEF OneFamily
<1>2. Apart(m, n)
  BY DEF OneFamily
<1> QED
  BY <1>1, <1>2 DEF Apart, InNet

\* How many networks come before one.
Rank(nets, n) == Cardinality({m \in nets : m.ip < n.ip})

\* A part of a finite set has fewer elements.
LEMMA FewerElements ==
  ASSUME NEW S, IsFiniteSet(S), NEW T, T \subseteq S
  PROVE  /\ Cardinality(T) \in Nat /\ Cardinality(S) \in Nat
         /\ T # S => Cardinality(T) < Cardinality(S)
<1>1. /\ IsFiniteSet(T) /\ Cardinality(T) <= Cardinality(S)
      /\ Cardinality(S) = Cardinality(T) => S = T
  BY FS_Subset
<1>2. Cardinality(T) \in Nat /\ Cardinality(S) \in Nat
  BY <1>1, FS_CardinalityType
<1> QED
  BY <1>1, <1>2

\* The networks' ranks are 0, 1, and so on.
LEMMA Ranks ==
  ASSUME NEW nets, NEW v, OneFamily(nets, v)
  PROVE  /\ Cardinality(nets) \in Nat
         /\ \A n \in nets : Rank(nets, n) \in Nat /\ Rank(nets, n) + 1 \in 1..Cardinality(nets)
         /\ \A m, n \in nets : m.ip < n.ip => Rank(nets, m) < Rank(nets, n)
         /\ \A h \in 1..Cardinality(nets) : \E n \in nets : Rank(nets, n) = h - 1
<1> DEFINE c == Cardinality(nets)
           rank == [n \in nets |-> Rank(nets, n)]
           f == [n \in nets |-> rank[n] + 1]
<1>1. IsFiniteSet(nets) /\ c \in Nat /\ \A n \in nets : n.ip \in Nat
  BY FS_CardinalityType DEF OneFamily
<1>2. ASSUME NEW n \in nets PROVE Rank(nets, n) \in Nat /\ Rank(nets, n) < c
  <2> DEFINE B == {m \in nets : m.ip < n.ip}
  <2>1. B \subseteq nets /\ B # nets
    BY <1>1
  <2> HIDE DEF B
  <2>2. Cardinality(B) \in Nat /\ Cardinality(B) < c
    BY <1>1, <2>1, FewerElements
  <2> QED
    BY <2>2 DEF Rank, B
<1>3. ASSUME NEW m \in nets, NEW n \in nets, m.ip < n.ip
      PROVE  Rank(nets, m) < Rank(nets, n)
  <2> DEFINE A == {l \in nets : l.ip < m.ip}
             B == {l \in nets : l.ip < n.ip}
  <2>1. A \subseteq B /\ A # B /\ B \subseteq nets
    BY <1>1, <1>3
  <2> HIDE DEF A, B
  <2>2. Cardinality(A) < Cardinality(B)
    BY <1>1, <2>1, FS_Subset, FewerElements
  <2> QED
    BY <2>2 DEF Rank, A, B
<1>4. \A n \in nets : rank[n] = Rank(nets, n)
  OBVIOUS
<1> HIDE DEF rank, c
<1>5. f \in Injection(nets, 1..c)
  <2>1. f \in [nets -> 1..c]
    BY <1>1, <1>2, <1>4
  <2>2. ASSUME NEW m \in nets, NEW n \in nets, f[m] = f[n] PROVE m = n
    <3>1. rank[m] = rank[n]
      BY <1>2, <1>4, <2>2
    <3>2. ~(m.ip < n.ip) /\ ~(n.ip < m.ip)
      BY <1>2, <1>3, <1>4, <3>1
    <3>3. m.ip = n.ip
      BY <1>1, <3>2
    <3> QED
      BY <3>3, InOrder
  <2> QED
    BY <2>1, <2>2 DEF Injection, IsInjective
<1>6. f \in Surjection(nets, 1..c)
  <2>1. IsFiniteSet(1..c) /\ Cardinality(1..c) = c
    BY <1>1, FS_Interval
  <2> HIDE DEF f
  <2> QED
    BY <1>5, <2>1, FS_Injection DEF c
<1>7. ASSUME NEW h \in 1..c PROVE \E n \in nets : Rank(nets, n) = h - 1
  <2>1. PICK n \in nets : f[n] = h
    <3> HIDE DEF f
    <3> QED
      BY <1>6 DEF Surjection
  <2>2. rank[n] + 1 = h
    BY <2>1
  <2> QED
    BY <1>2, <1>4, <2>2
<1>8. \A n \in nets : Rank(nets, n) \in Nat /\ Rank(nets, n) + 1 \in 1..c
  BY <1>1, <1>2
<1> QED
  BY <1>1, <1>3, <1>7, <1>8 DEF c

\* sort.Slice: a sequence of the networks in the order of their addresses.
InSequence(s, nets) ==
  /\ s \in [1..Cardinality(nets) -> nets] /\ Len(s) = Cardinality(nets) /\ Len(s) \in Nat
  /\ \A n \in nets : \E h \in 1..Len(s) : s[h] = n
  /\ \A j, h \in 1..Len(s) : j < h => s[j].ip < s[h].ip

ByRank(nets) == [h \in 1..Cardinality(nets) |-> CHOOSE n \in nets : Rank(nets, n) = h - 1]

LEMMA ByRankInSequence ==
  ASSUME NEW nets, NEW v, OneFamily(nets, v)
  PROVE  InSequence(ByRank(nets), nets)
<1> DEFINE s == ByRank(nets)
           c == Cardinality(nets)
           rank == [n \in nets |-> Rank(nets, n)]
<1>1. s = [h \in 1..c |-> CHOOSE n \in nets : rank[n] = h - 1]
  BY DEF ByRank
<1>2. /\ c \in Nat
      /\ \A n \in nets : rank[n] \in Nat /\ rank[n] + 1 \in 1..c /\ n.ip \in Nat
      /\ \A m, n \in nets : m.ip < n.ip => rank[m] < rank[n]
      /\ \A h \in 1..c : \E n \in nets : rank[n] = h - 1
  BY Ranks DEF OneFamily
<1> HIDE DEF s, c, rank
<1>3. \A h \in 1..c : s[h] \in nets /\ rank[s[h]] = h - 1
  BY <1>1, <1>2
<1>4. Len(s) = c /\ s \in [1..c -> nets]
  <2>1. s = [h \in 1..c |-> s[h]]
    BY <1>1
  <2>2. s \in [1..c -> nets]
    BY <1>3, <2>1
  <2>3. s \in Seq(nets)
    BY <1>2, <2>2
  <2> QED
    BY <1>2, <2>2, <2>3
<1>5. ASSUME NEW n \in nets PROVE \E h \in 1..c : s[h] = n
  <2> DEFINE h == rank[n] + 1
  <2>1. h \in 1..c /\ s[h] \in nets /\ rank[s[h]] = rank[n]
    BY <1>2, <1>3
  <2>2. ~(s[h].ip < n.ip) /\ ~(n.ip < s[h].ip)
    BY <1>2, <2>1
  <2>3. s[h].ip = n.ip
    BY <1>2, <2>1, <2>2
  <2> HIDE DEF h
  <2>4. s[h] = n
    BY <2>1, <2>3, InOrder
  <2> QED
    BY <2>1, <2>4
<1>6. ASSUME NEW j \in 1..c, NEW h \in 1..c, j < h PROVE s[j].ip < s[h].ip
  <2>1. s[j] \in nets /\ s[h] \in nets /\ rank[s[j]] < rank[s[h]]
    BY <1>2, <1>3, <1>6
  <2>2. ~(s[h].ip < s[j].ip) /\ s[j] # s[h]
    BY <1>2, <2>1
  <2>3. s[j].ip # s[h].ip
    BY <2>1, <2>2, InOrder
  <2> QED
    BY <1>2, <2>1, <2>2, <2>3
<1> QED
  BY <1>2, <1>4, <1>5, <1>6 DEF InSequence, c, s

LEMMA SortedInSequence ==
  ASSUME NEW list, NEW v, OneFamily({n \in list.cidr : n.len = v}, v)
  PROVE  InSequence(Sorted(list, v), {n \in list.cidr : n.len = v})
<1>1. Sorted(list, v) = ByRank({n \in list.cidr : n.len = v})
  BY Zenon DEF Sorted, ByRank, Rank
<1> QED
  BY <1>1, ByRankInSequence

-----------------------------------------------------------------------------
(* The binary search. *)

\* One round of matchIP, on what the rounds after it would find.
Round(s, v, a, l, r, after) ==
  LET mid == (l + r) \div 2
  IN  /\ l <= r
      /\ \/ NetContains(s[mid], v, a)
         \/ IF s[mid].ip < a THEN after[<<mid + 1, r>>] ELSE after[<<l, mid - 1>>]

\* What is to be found: a network from l to r with the address.
Found(s, a, l, r) == \E h \in l..r : InNet(s[h], a)

\* One round is right if those after it are.
LEMMA RoundFinds ==
  ASSUME NEW nets, NEW v, OneFamily(nets, v), NEW s, InSequence(s, nets), NEW a \in Nat,
         NEW l \in 1..(Len(s) + 1), NEW r \in 0..Len(s), NEW after,
         \A i \in 1..(Len(s) + 1), j \in 0..Len(s) :
           j - i < r - l => (after[<<i, j>>] <=> Found(s, a, i, j))
  PROVE  Round(s, v, a, l, r, after) <=> Found(s, a, l, r)
<1> DEFINE mid == (l + r) \div 2
           n == Len(s)
<1>1. n \in Nat /\ \A h \in 1..n : s[h] \in nets
  BY DEF InSequence
<1>2. CASE ~(l <= r)
  <2>1. l..r = {}
    BY <1>1, <1>2
  <2> QED
    BY <1>2, <2>1 DEF Round, Found
<1>3. CASE l <= r
  <2>1. mid \in l..r /\ mid \in 1..n /\ mid + 1 \in 1..(n + 1) /\ mid - 1 \in 0..n /\ l..r \subseteq 1..n
    BY <1>1, <1>3
  <2> HIDE DEF mid, n
  <2>2. /\ after[<<mid + 1, r>>] <=> Found(s, a, mid + 1, r)
        /\ after[<<l, mid - 1>>] <=> Found(s, a, l, mid - 1)
    <3>1. r - (mid + 1) < r - l /\ (mid - 1) - l < r - l
      BY <1>1, <1>3, <2>1
    <3> QED
      BY <2>1, <3>1 DEF n
  <2>3. /\ NetContains(s[mid], v, a) <=> InNet(s[mid], a)
        /\ InNet(s[mid], s[mid].ip) /\ s[mid].ip \in Nat
        /\ Size(s[mid]) \in Nat \ {0} /\ Lowest(s[mid]) \in Nat
    BY <1>1, <2>1, ContainsIn DEF OneFamily
  <2>4. ASSUME NEW h \in l..r, InNet(s[h], a), ~InNet(s[mid], a)
        PROVE  IF s[mid].ip < a THEN h \in (mid + 1)..r ELSE h \in l..(mid - 1)
    <3>1. h \in 1..n /\ h # mid /\ s[h] \in nets /\ s[mid] \in nets
      BY <1>1, <2>1, <2>4
    <3>2. /\ Size(s[h]) \in Nat \ {0} /\ Lowest(s[h]) \in Nat /\ InNet(s[h], s[h].ip) /\ s[h].ip \in Nat
      BY <3>1, ContainsIn DEF OneFamily
    <3>3. CASE h < mid
      <4>1. s[h].ip < s[mid].ip /\ s[h] # s[mid]
        <5>1. s[h].ip < s[mid].ip
          BY <2>1, <3>1, <3>3, Zenon DEF InSequence, n
        <5> QED
          BY <2>3, <3>2, <5>1
      <4>2. Lowest(s[h]) + Size(s[h]) <= Lowest(s[mid])
        BY <3>1, <4>1, InOrder
      <4>3. a < s[mid].ip
        <5>1. a < Lowest(s[h]) + Size(s[h]) /\ Lowest(s[mid]) <= s[mid].ip
          BY <2>3, <2>4, Zenon DEF InNet
        <5>2. /\ s[mid].ip \in Nat /\ Lowest(s[mid]) \in Nat /\ Size(s[mid]) \in Nat
              /\ Lowest(s[h]) \in Nat /\ Size(s[h]) \in Nat
          BY <2>3, <3>2
        <5> QED
          BY <4>2, <5>1, <5>2
      <4>4. h \in l..(mid - 1)
        BY <1>1, <2>1, <2>4, <3>3
      <4>5. ~(s[mid].ip < a)
        BY <2>3, <4>3
      <4> QED
        BY <4>4, <4>5, Zenon
    <3>4. CASE mid < h
      <4>1. s[mid].ip < s[h].ip /\ s[h] # s[mid]
        <5>1. s[mid].ip < s[h].ip
          BY <2>1, <3>1, <3>4, Zenon DEF InSequence, n
        <5> QED
          BY <2>3, <3>2, <5>1
      <4>2. Lowest(s[mid]) + Size(s[mid]) <= Lowest(s[h])
        BY <3>1, <4>1, InOrder
      <4>3. s[mid].ip < a
        <5>1. Lowest(s[h]) <= a /\ s[mid].ip < Lowest(s[mid]) + Size(s[mid])
          BY <2>3, <2>4, Zenon DEF InNet
        <5>2. /\ s[mid].ip \in Nat /\ Lowest(s[mid]) \in Nat /\ Size(s[mid]) \in Nat
              /\ Lowest(s[h]) \in Nat /\ Size(s[h]) \in Nat
          BY <2>3, <3>2
        <5> QED
          BY <4>2, <5>1, <5>2
      <4>4. h \in (mid + 1)..r
        BY <1>1, <2>1, <2>4, <3>4
      <4> QED
        BY <4>3, <4>4, Zenon
    <3> QED
      BY <2>1, <3>1, <3>3, <3>4
  <2>5. (mid + 1)..r \subseteq l..r /\ l..(mid - 1) \subseteq l..r
    BY <1>1, <2>1
  <2>6. CASE InNet(s[mid], a)
    BY <1>3, <2>1, <2>3, <2>6 DEF Round, Found, mid
  <2>7. CASE ~InNet(s[mid], a)
    <3>1. Found(s, a, l, r) <=> IF s[mid].ip < a THEN Found(s, a, mid + 1, r) ELSE Found(s, a, l, mid - 1)
      BY <2>4, <2>5, <2>7 DEF Found
    <3>2. Round(s, v, a, l, r, after) <=> IF s[mid].ip < a THEN after[<<mid + 1, r>>] ELSE after[<<l, mid - 1>>]
      BY <1>3, <2>3, <2>7 DEF Round, mid
    <3> QED
      BY <2>2, <3>1, <3>2
  <2> QED
    BY <2>6, <2>7
<1> QED
  BY <1>1, <1>2, <1>3

Windows(s) == (1..(Len(s) + 1)) \X (0..Len(s))

\* The recursive function of matchIP.
Searches(f, s, v, a) == f = [w \in Windows(s) |-> Round(s, v, a, w[1], w[2], f)]

\* There is such a function: one that knows where the address is.
LEMMA SearchExists ==
  ASSUME NEW nets, NEW v, OneFamily(nets, v), NEW s, InSequence(s, nets), NEW a \in Nat
  PROVE  \E f : Searches(f, s, v, a)
<1> DEFINE f == [w \in Windows(s) |-> Found(s, a, w[1], w[2])]
<1>1. \A i \in 1..(Len(s) + 1), j \in 0..Len(s) : f[<<i, j>>] <=> Found(s, a, i, j)
  BY DEF Windows
<1>2. ASSUME NEW w \in Windows(s) PROVE f[w] = Round(s, v, a, w[1], w[2], f)
  <2>1. w[1] \in 1..(Len(s) + 1) /\ w[2] \in 0..Len(s)
    BY DEF Windows
  <2>2. f[w] = Found(s, a, w[1], w[2])
    OBVIOUS
  <2> HIDE DEF f
  <2>3. Round(s, v, a, w[1], w[2], f) <=> Found(s, a, w[1], w[2])
    BY <1>1, <2>1, RoundFinds
  <2>4. Round(s, v, a, w[1], w[2], f) \in BOOLEAN /\ Found(s, a, w[1], w[2]) \in BOOLEAN
    BY DEF Round, Found
  <2> QED
    BY <2>2, <2>3, <2>4
<1>3. f = [w \in Windows(s) |-> f[w]]
  OBVIOUS
<1> HIDE DEF f
<1>4. f = [w \in Windows(s) |-> Round(s, v, a, w[1], w[2], f)]
  BY <1>2, <1>3
<1> QED
  BY <1>4 DEF Searches

\* Every such function finds the network, by induction on the length of the window.
LEMMA SearchFinds ==
  ASSUME NEW nets, NEW v, OneFamily(nets, v), NEW s, InSequence(s, nets), NEW a \in Nat,
         NEW f, Searches(f, s, v, a)
  PROVE  f[<<1, Len(s)>>] <=> Found(s, a, 1, Len(s))
<1> DEFINE n == Len(s)
           I == 1..(n + 1)
           J == 0..n
           T == {m \in Nat : \A i \in I, j \in J :
                               j - i < m - n - 1 => (f[<<i, j>>] <=> Found(s, a, i, j))}
<1>1. n \in Nat
  BY DEF InSequence
<1>2. \A i \in I, j \in J : f[<<i, j>>] = Round(s, v, a, i, j, f)
  <2> TAKE i \in I, j \in J
  <2> DEFINE w == <<i, j>>
  <2>1. w \in Windows(s) /\ w[1] = i /\ w[2] = j
    BY DEF Windows
  <2> HIDE DEF w
  <2>2. f[w] = Round(s, v, a, w[1], w[2], f)
    BY <2>1 DEF Searches
  <2> QED
    BY <2>1, <2>2 DEF w
<1> HIDE DEF n
<1>3. 0 \in T
  BY <1>1
<1>4. ASSUME NEW m \in Nat, m \in T PROVE m + 1 \in T
  <2> SUFFICES ASSUME NEW i \in I, NEW j \in J, j - i < (m + 1) - n - 1
               PROVE  f[<<i, j>>] <=> Found(s, a, i, j)
    OBVIOUS
  <2>1. \A x \in I, y \in J : y - x < j - i => y - x < m - n - 1
    BY <1>1
  <2>2. \A x \in I, y \in J : y - x < j - i => (f[<<x, y>>] <=> Found(s, a, x, y))
    BY <1>4, <2>1
  <2>3. Round(s, v, a, i, j, f) <=> Found(s, a, i, j)
    BY <2>2, RoundFinds DEF n
  <2> QED
    BY <1>2, <2>3
<1>5. 2 * n + 1 \in T
  <2> HIDE DEF T
  <2> QED
    BY <1>1, <1>3, <1>4, NatInduct
<1>6. 1 \in I /\ n \in J /\ n - 1 < (2 * n + 1) - n - 1
  BY <1>1
<1> QED
  BY <1>5, <1>6 DEF n

\* matchIP finds the network that has the address, if there is one.
LEMMA MatchIPFinds ==
  ASSUME NEW nets, NEW v, OneFamily(nets, v), NEW s, InSequence(s, nets), NEW a \in Nat
  PROVE  /\ matchIP(s, v, a) <=> \E n \in nets : InNet(n, a)
         /\ matchIP(s, v, a) \in BOOLEAN
<1> DEFINE f == CHOOSE g : Searches(g, s, v, a)
<1>1. Searches(f, s, v, a)
  BY SearchExists, Zenon
<1>2. matchIP(s, v, a) = f[<<1, Len(s)>>]
  BY Zenon DEF matchIP, Searches, Windows, Round
<1> HIDE DEF f
<1>3. matchIP(s, v, a) <=> Found(s, a, 1, Len(s))
  BY <1>1, <1>2, SearchFinds
<1>4. Found(s, a, 1, Len(s)) <=> \E n \in nets : InNet(n, a)
  BY DEF Found, InSequence
<1>5. matchIP(s, v, a) \in BOOLEAN
  <2>1. <<1, Len(s)>> \in Windows(s)
    BY DEF Windows, InSequence
  <2> QED
    BY <1>1, <1>2, <2>1 DEF Searches, Round
<1> QED
  BY <1>3, <1>4, <1>5
-----------------------------------------------------------------------------
(* Names. *)

Text == Seq(STRING \cup {"."})

NoDots(x) == \A j \in 1..Len(x) : x[j] # "."

\* Two texts, one behind the other, by positions.
LEMMA Joined ==
  ASSUME NEW x \in Text, NEW p \in Text
  PROVE  /\ x \o p \in Text /\ Len(x \o p) = Len(x) + Len(p)
         /\ Len(x) \in Nat /\ Len(p) \in Nat
         /\ \A j \in 1..Len(x) : (x \o p)[j] = x[j]
         /\ \A j \in 1..Len(p) : (x \o p)[Len(x) + j] = p[j]
BY DEF Text

LEMMA Dot == <<".">> \in Text /\ Len(<<".">>) = 1 /\ <<".">>[1] = "."
BY DEF Text

\* A label, a dot and what is behind it, by positions.
LEMMA Dotted ==
  ASSUME NEW x \in Text, NEW p \in Text
  PROVE  LET s == x \o <<".">> \o p
         IN  /\ s \in Text /\ Len(s) = Len(x) + 1 + Len(p)
             /\ Len(x) \in Nat /\ Len(p) \in Nat
             /\ \A j \in 1..Len(x) : s[j] = x[j]
             /\ s[Len(x) + 1] = "."
             /\ \A j \in 1..Len(p) : s[Len(x) + 1 + j] = p[j]
<1> DEFINE y == x \o <<".">>
<1>1. /\ y \in Text /\ Len(y) = Len(x) + 1 /\ Len(x) \in Nat /\ Len(p) \in Nat
      /\ \A j \in 1..Len(x) : y[j] = x[j]
      /\ y[Len(x) + 1] = "."
  <2> DEFINE d == <<".">>
  <2>1. d \in Text /\ Len(d) = 1 /\ d[1] = "."
    BY Dot
  <2> HIDE DEF d
  <2>2. /\ x \o d \in Text /\ Len(x \o d) = Len(x) + Len(d) /\ Len(x) \in Nat /\ Len(p) \in Nat
        /\ \A j \in 1..Len(x) : (x \o d)[j] = x[j]
        /\ \A j \in 1..Len(d) : (x \o d)[Len(x) + j] = d[j]
    BY <2>1, Joined, Zenon
  <2> QED
    BY <2>1, <2>2 DEF d
<1> HIDE DEF y
<1>2. /\ y \o p \in Text /\ Len(y \o p) = Len(y) + Len(p)
      /\ \A j \in 1..Len(y) : (y \o p)[j] = y[j]
      /\ \A j \in 1..Len(p) : (y \o p)[Len(y) + j] = p[j]
  BY <1>1, Joined, Zenon
<1>3. /\ \A j \in 1..Len(x) : j \in 1..Len(y)
      /\ Len(x) + 1 \in 1..Len(y)
  BY <1>1
<1> QED
  BY <1>1, <1>2, <1>3 DEF y

\* Texts are the same if they are at every position.
LEMMA SameText ==
  ASSUME NEW x \in Text, NEW y \in Text, Len(x) = Len(y), \A j \in 1..Len(x) : x[j] = y[j]
  PROVE  x = y
BY DEF Text

\* What has a dot is no label.
LEMMA NoLabel ==
  ASSUME NEW x \in Text, NEW y \in Text, NEW q \in Text, NoDots(x)
  PROVE  x # y \o <<".">> \o q
<1> DEFINE t == y \o <<".">> \o q
<1>1. Len(t) = Len(y) + 1 + Len(q) /\ Len(y) \in Nat /\ Len(q) \in Nat /\ t[Len(y) + 1] = "."
  BY Dotted, Zenon
<1> HIDE DEF t
<1>2. Len(y) + 1 \in 1..Len(t)
  BY <1>1
<1> QED
  BY <1>1, <1>2 DEF NoDots, t

\* The first dot tells where a label ends.
LEMMA FirstLabel ==
  ASSUME NEW x \in Text, NEW y \in Text, NEW p \in Text, NEW q \in Text,
         NoDots(x), NoDots(y), x \o <<".">> \o p = y \o <<".">> \o q
  PROVE  x = y /\ p = q
<1> DEFINE s == x \o <<".">> \o p
           t == y \o <<".">> \o q
           m == Len(x)
           n == Len(y)
<1>1. /\ Len(s) = m + 1 + Len(p) /\ Len(t) = n + 1 + Len(q)
      /\ m \in Nat /\ n \in Nat /\ Len(p) \in Nat /\ Len(q) \in Nat
      /\ s[m + 1] = "." /\ t[n + 1] = "."
      /\ \A j \in 1..m : s[j] = x[j] /\ x[j] # "."
      /\ \A j \in 1..n : t[j] = y[j] /\ y[j] # "."
      /\ \A j \in 1..Len(p) : s[m + 1 + j] = p[j]
      /\ \A j \in 1..Len(q) : t[n + 1 + j] = q[j]
  <2>1. /\ Len(s) = m + 1 + Len(p) /\ m \in Nat /\ Len(p) \in Nat
        /\ s[m + 1] = "."
        /\ \A j \in 1..m : s[j] = x[j]
        /\ \A j \in 1..Len(p) : s[m + 1 + j] = p[j]
    BY Dotted, Zenon
  <2>2. /\ Len(t) = n + 1 + Len(q) /\ n \in Nat /\ Len(q) \in Nat
        /\ t[n + 1] = "."
        /\ \A j \in 1..n : t[j] = y[j]
        /\ \A j \in 1..Len(q) : t[n + 1 + j] = q[j]
    BY Dotted, Zenon
  <2>3. (\A j \in 1..m : x[j] # ".") /\ (\A j \in 1..n : y[j] # ".")
    BY DEF NoDots
  <2> QED
    BY <2>1, <2>2, <2>3, Zenon
<1>2. s = t
  OBVIOUS
<1> HIDE DEF s, t
<1>3. ~(m < n)
  <2>1. m < n => m + 1 \in 1..n
    BY <1>1
  <2>2. s[m + 1] = "." /\ \A j \in 1..n : s[j] # "."
    BY <1>1, <1>2, Zenon
  <2> QED
    BY <2>1, <2>2, Zenon
<1>4. ~(n < m)
  <2>1. n < m => n + 1 \in 1..m
    BY <1>1
  <2>2. s[n + 1] = "." /\ \A j \in 1..m : s[j] # "."
    BY <1>1, <1>2, Zenon
  <2> QED
    BY <2>1, <2>2, Zenon
<1>5. m = n /\ Len(p) = Len(q)
  BY <1>1, <1>2, <1>3, <1>4
<1>6. (\A j \in 1..m : x[j] = y[j]) /\ (\A j \in 1..Len(p) : p[j] = q[j])
  BY <1>1, <1>2, <1>5
<1> QED
  BY <1>5, <1>6, SameText

\* A suffix, by positions.
LEMMA SuffixPositions ==
  ASSUME NEW S, NEW z \in Seq(S), NEW s \in Seq(S)
  PROVE  IsSuffix(z, s) <=>
           Len(z) <= Len(s) /\ \A j \in 1..Len(z) : z[j] = s[(Len(s) - Len(z)) + j]
<1> DEFINE m == Len(z)
           n == Len(s)
           y == Reverse(z)
           r == Reverse(s)
<1>1. m \in Nat /\ n \in Nat
  OBVIOUS
<1>2. /\ y \in Seq(S) /\ Len(y) = m /\ \A i \in 1..m : y[i] = z[(m - i) + 1]
      /\ r \in Seq(S) /\ Len(r) = n /\ \A i \in 1..n : r[i] = s[(n - i) + 1]
  BY DEF Reverse
<1>3. IsSuffix(z, s) <=> Len(y) <= Len(r) /\ SubSeq(y, 1, Len(y)) = SubSeq(r, 1, Len(y))
  BY Zenon DEF IsSuffix, IsPrefix
<1> HIDE DEF y, r
<1>4. ASSUME m <= n
      PROVE  SubSeq(y, 1, Len(y)) = SubSeq(r, 1, Len(y)) <=> \A i \in 1..m : y[i] = r[i]
  <2>1. SubSeq(y, 1, m) = [i \in 1..m |-> y[i]] /\ SubSeq(r, 1, m) = [i \in 1..m |-> r[i]]
    BY <1>1, <1>2, <1>4
  <2> QED
    BY <1>2, <2>1
<1> HIDE DEF m, n
<1>5. ASSUME m <= n, \A i \in 1..m : y[i] = r[i], NEW j \in 1..m
      PROVE  z[j] = s[(n - m) + j]
  <2> DEFINE i == (m - j) + 1
  <2>1. i \in 1..m /\ i \in 1..n /\ (m - i) + 1 = j /\ (n - i) + 1 = (n - m) + j
    <3>1. m <= n /\ j \in 1..m
      BY <1>5
    <3> QED
      BY <1>1, <3>1
  <2> HIDE DEF i
  <2>2. y[i] = z[(m - i) + 1] /\ r[i] = s[(n - i) + 1] /\ y[i] = r[i]
    BY <1>2, <1>5, <2>1 DEF m, n
  <2> QED
    BY <2>1, <2>2
<1>6. ASSUME m <= n, \A j \in 1..m : z[j] = s[(n - m) + j], NEW i \in 1..m
      PROVE  y[i] = r[i]
  <2> DEFINE j == (m - i) + 1
  <2>1. j \in 1..m /\ i \in 1..n /\ (n - i) + 1 = (n - m) + j
    BY <1>1, <1>6
  <2>2. y[i] = z[j] /\ r[i] = s[(n - i) + 1]
    BY <1>2, <2>1 DEF m, n
  <2> HIDE DEF j
  <2>3. z[j] = s[(n - m) + j]
    BY <1>6, <2>1
  <2> QED
    BY <2>1, <2>2, <2>3
<1> QED
  BY <1>2, <1>3, <1>4, <1>5, <1>6 DEF m, n

\* A text ends with a dot and another one.
Below(u, s) ==
  /\ Len(u) < Len(s) /\ s[Len(s) - Len(u)] = "."
  /\ \A j \in 1..Len(u) : u[j] = s[Len(s) - Len(u) + j]

LEMMA SuffixBelow ==
  ASSUME NEW u \in Text, NEW s \in Text
  PROVE  IsSuffix(<<".">> \o u, s) <=> Below(u, s)
<1> DEFINE z == <<".">> \o u
           m == Len(u)
           n == Len(s)
<1>1. /\ z \in Text /\ Len(z) = m + 1 /\ m \in Nat /\ n \in Nat /\ z[1] = "."
      /\ \A j \in 1..m : z[j + 1] = u[j]
  <2> DEFINE d == <<".">>
  <2>1. d \in Text /\ Len(d) = 1 /\ d[1] = "."
    BY Dot
  <2> HIDE DEF d
  <2>2. /\ d \o u \in Text /\ Len(d \o u) = Len(d) + m /\ m \in Nat
        /\ \A j \in 1..Len(d) : (d \o u)[j] = d[j]
        /\ \A j \in 1..m : (d \o u)[Len(d) + j] = u[j]
    BY <2>1, Joined, Zenon
  <2>3. n \in Nat /\ \A j \in 1..m : j + 1 = 1 + j
    BY <2>2 DEF Text
  <2> QED
    BY <2>1, <2>2, <2>3 DEF d
<1> HIDE DEF z
<1>2. IsSuffix(z, s) <=> Len(z) <= n /\ \A j \in 1..Len(z) : z[j] = s[(n - Len(z)) + j]
  BY <1>1, SuffixPositions, Zenon DEF Text
<1>3. IsSuffix(z, s) <=> m < n /\ \A j \in 1..(m + 1) : z[j] = s[(n - (m + 1)) + j]
  BY <1>1, <1>2
<1> HIDE DEF m, n
<1>4. ASSUME \A j \in 1..(m + 1) : z[j] = s[(n - (m + 1)) + j]
      PROVE  s[n - m] = "." /\ \A j \in 1..m : u[j] = s[n - m + j]
  <2>1. 1 \in 1..(m + 1) /\ (n - (m + 1)) + 1 = n - m
    BY <1>1
  <2>2. ASSUME NEW j \in 1..m PROVE u[j] = s[n - m + j]
    <3>1. j + 1 \in 1..(m + 1) /\ (n - (m + 1)) + (j + 1) = n - m + j
      BY <1>1
    <3> QED
      BY <1>1, <1>4, <3>1
  <2> QED
    BY <1>1, <1>4, <2>1, <2>2
<1>5. ASSUME s[n - m] = ".", \A j \in 1..m : u[j] = s[n - m + j], NEW i \in 1..(m + 1)
      PROVE  z[i] = s[(n - (m + 1)) + i]
  <2>1. CASE i = 1
    <3>1. (n - (m + 1)) + 1 = n - m
      BY <1>1
    <3> QED
      BY <1>1, <1>5, <2>1, <3>1
  <2>2. CASE i # 1
    <3> DEFINE j == i - 1
    <3>1. j \in 1..m /\ i = j + 1 /\ (n - (m + 1)) + i = n - m + j
      BY <1>1, <2>2
    <3> HIDE DEF j
    <3>2. z[j + 1] = u[j] /\ u[j] = s[n - m + j]
      BY <1>1, <1>5, <3>1
    <3> QED
      BY <3>1, <3>2
  <2> QED
    BY <2>1, <2>2
<1> QED
  BY <1>3, <1>4, <1>5 DEF Below, z, m, n

\* Below a text there is what is behind the first dot of it, and what is below that.
LEMMA BelowLabel ==
  ASSUME NEW u \in Text, NEW x \in Text, NEW p \in Text, NoDots(x)
  PROVE  /\ ~Below(u, x)
         /\ Below(u, x \o <<".">> \o p) <=> u = p \/ Below(u, p)
<1> DEFINE s == x \o <<".">> \o p
           h == Len(x)
           m == Len(u)
           n == Len(p)
<1>1. /\ s \in Text /\ Len(s) = h + 1 + n
      /\ h \in Nat /\ n \in Nat /\ s[h + 1] = "."
      /\ \A j \in 1..h : s[j] = x[j] /\ x[j] # "."
      /\ \A j \in 1..n : s[h + 1 + j] = p[j]
  BY Dotted, Zenon DEF NoDots
<1>2. m \in Nat
  BY DEF Text
<1> HIDE DEF s
<1>3. ~Below(u, x)
  <2>1. m < h => h - m \in 1..h
    BY <1>1, <1>2
  <2> QED
    BY <1>1, <2>1 DEF Below
<1>4. CASE n < m
  <2>1. ~Below(u, p) /\ u # p
    BY <1>1, <1>2, <1>4 DEF Below
  <2>2. m < Len(s) => Len(s) - m \in 1..h
    BY <1>1, <1>2, <1>4
  <2> QED
    BY <1>1, <1>3, <2>1, <2>2 DEF Below, s
<1>5. CASE m = n
  <2>1. ~Below(u, p)
    BY <1>1, <1>2, <1>5 DEF Below
  <2>2. Len(s) - m = h + 1 /\ m < Len(s)
    BY <1>1, <1>2, <1>5
  <2>3. Below(u, s) <=> \A j \in 1..m : u[j] = s[h + 1 + j]
    BY <1>1, <2>2 DEF Below
  <2>4. Below(u, s) <=> \A j \in 1..m : u[j] = p[j]
    BY <1>1, <1>5, <2>3
  <2>5. Below(u, s) <=> u = p
    BY <1>5, <2>4, SameText
  <2> QED
    BY <1>3, <2>1, <2>5 DEF s
<1>6. CASE m < n
  <2>1. u # p
    BY <1>1, <1>2, <1>6
  <2>2. m < Len(s) /\ Len(s) - m = h + 1 + (n - m) /\ n - m \in 1..n
    BY <1>1, <1>2, <1>6
  <2>3. s[Len(s) - m] = p[n - m]
    BY <1>1, <2>2
  <2>4. ASSUME NEW j \in 1..m PROVE s[Len(s) - m + j] = p[n - m + j]
    <3>1. n - m + j \in 1..n /\ Len(s) - m + j = h + 1 + (n - m + j)
      BY <1>1, <1>2, <1>6
    <3> QED
      BY <1>1, <3>1
  <2>5. Below(u, s) <=> Below(u, p)
    BY <1>6, <2>2, <2>3, <2>4 DEF Below
  <2> QED
    BY <1>3, <2>1, <2>5 DEF s
<1> QED
  BY <1>1, <1>2, <1>4, <1>5, <1>6

\* The recursive function of Chars, from label i on.
Spelled(f, i, name) ==
  f = [j \in i..Len(name) |->
         IF j = Len(name) THEN name[j] ELSE name[j] \o <<".">> \o f[j + 1]]

LEMMA SpellingExists ==
  ASSUME NEW name, IsName(name)
  PROVE  \E f : Spelled(f, 1, name)
<1> DEFINE n == Len(name)
           T == {m \in Nat : m + 1 <= n => \E f : Spelled(f, n - m, name)}
<1>1. n \in Nat /\ n # 0
  BY DEF IsName
<1> HIDE DEF n
<1>2. 0 \in T
  <2> DEFINE f == [j \in n..n |-> name[j]]
  <2>1. f = [j \in n..n |-> IF j = n THEN name[j] ELSE name[j] \o <<".">> \o f[j + 1]]
    BY <1>1
  <2> HIDE DEF f
  <2>2. Spelled(f, n, name)
    BY <2>1 DEF Spelled, n
  <2> QED
    BY <1>1, <2>2
<1>3. ASSUME NEW m \in Nat, m \in T PROVE m + 1 \in T
  <2>1. SUFFICES ASSUME (m + 1) + 1 <= n PROVE \E f : Spelled(f, n - (m + 1), name)
    OBVIOUS
  <2> DEFINE i == n - (m + 1)
  <2>2. i \in 1..n /\ n - m = i + 1 /\ i + 1 <= n /\ i # n
    BY <1>1, <2>1
  <2> HIDE DEF i
  <2>3. PICK g : Spelled(g, i + 1, name)
    BY <1>1, <1>3, <2>1, <2>2
  <2> DEFINE f == [j \in i..n |-> IF j = i THEN name[i] \o <<".">> \o g[i + 1] ELSE g[j]]
             E(j, h) == IF j = n THEN name[j] ELSE name[j] \o <<".">> \o h[j + 1]
  <2>4. \A j \in (i + 1)..n : g[j] = E(j, g) /\ f[j] = g[j]
    <3>1. \A j \in (i + 1)..n : g[j] = E(j, g)
      BY <2>3, Zenon DEF Spelled, n
    <3>2. \A j \in (i + 1)..n : f[j] = g[j]
      BY <1>1, <2>2
    <3> QED
      BY <3>1, <3>2
  <2>5. \A j \in i..n : f[j] = E(j, f)
    <3> TAKE j \in i..n
    <3>1. CASE j = i
      <4>1. f[i] = name[i] \o <<".">> \o g[i + 1] /\ f[i + 1] = g[i + 1]
        <5>1. i \in i..n /\ i + 1 \in (i + 1)..n
          BY <1>1, <2>2
        <5>2. f[i] = name[i] \o <<".">> \o g[i + 1]
          BY <5>1, Zenon
        <5> HIDE DEF f
        <5> QED
          BY <2>4, <5>1, <5>2
      <4> HIDE DEF f
      <4> QED
        BY <2>2, <3>1, <4>1
    <3>2. CASE j # i
      <4>1. j \in (i + 1)..n /\ (j # n => j + 1 \in (i + 1)..n)
        BY <1>1, <2>2, <3>2
      <4> HIDE DEF f
      <4> QED
        BY <2>4, <4>1
    <3> QED
      BY <3>1, <3>2
  <2>6. f = [j \in i..n |-> f[j]]
    OBVIOUS
  <2> HIDE DEF f
  <2>7. f = [j \in i..n |-> E(j, f)]
    BY <2>5, <2>6, Zenon
  <2> QED
    BY <2>7 DEF Spelled, i, n
<1>4. n - 1 \in T
  <2> HIDE DEF T
  <2> QED
    BY <1>1, <1>2, <1>3, NatInduct
<1> QED
  BY <1>1, <1>4

\* The characters of a name from each of its labels on.
Spells(f, name) ==
  \A i \in 1..Len(name) :
    /\ f[i] \in Text /\ name[i] \in Text /\ NoDots(name[i])
    /\ i = Len(name) => f[i] = name[i]
    /\ i # Len(name) => f[i] = name[i] \o <<".">> \o f[i + 1]

LEMMA CharsSpells ==
  ASSUME NEW name, IsName(name)
  PROVE  \E f : Spells(f, name) /\ Chars(name) = f[1]
<1> DEFINE n == Len(name)
           f == CHOOSE g : Spelled(g, 1, name)
           T == {m \in Nat : m + 1 <= n => f[n - m] \in Text}
<1>1. Spelled(f, 1, name)
  BY SpellingExists, Zenon
<1>2. Chars(name) = f[1]
  BY Zenon DEF Chars, Spelled
<1> HIDE DEF f
<1>3. /\ n \in Nat /\ n # 0
      /\ \A i \in 1..n : name[i] \in Text /\ NoDots(name[i])
  <2>1. name \in Seq(Seq(STRING)) /\ name # <<>>
    BY DEF IsName
  <2>2. n \in Nat /\ n # 0 /\ \A i \in 1..n : name[i] \in Seq(STRING)
    BY <2>1
  <2>3. \A x \in Seq(STRING) : x \in Text
    BY DEF Text
  <2> QED
    BY <2>2, <2>3 DEF IsName, NoDots
<1>4. \A j \in 1..n : f[j] = IF j = n THEN name[j] ELSE name[j] \o <<".">> \o f[j + 1]
  BY <1>1, Zenon DEF Spelled
<1> HIDE DEF n
<1>5. 0 \in T
  BY <1>3, <1>4
<1>6. ASSUME NEW m \in Nat, m \in T PROVE m + 1 \in T
  <2>1. SUFFICES ASSUME (m + 1) + 1 <= n PROVE f[n - (m + 1)] \in Text
    OBVIOUS
  <2> DEFINE i == n - (m + 1)
  <2>2. i \in 1..n /\ i # n /\ i + 1 = n - m /\ m + 1 <= n
    BY <1>3, <2>1
  <2> HIDE DEF i
  <2>3. f[i + 1] \in Text
    BY <1>6, <2>2
  <2>4. name[i] \o <<".">> \o f[i + 1] \in Text
    BY <1>3, <2>2, <2>3, Dotted, Zenon
  <2>5. f[i] \in Text
    BY <1>4, <2>2, <2>4
  <2> QED
    BY <2>5 DEF i
<1>7. \A m \in Nat : m \in T
  <2> HIDE DEF T
  <2> QED
    BY <1>5, <1>6, NatInduct
<1>8. ASSUME NEW i \in 1..n PROVE f[i] \in Text
  <2>1. n - i \in Nat /\ (n - i) + 1 <= n /\ n - (n - i) = i
    BY <1>3
  <2>2. f[n - (n - i)] \in Text
    BY <1>7, <2>1
  <2> QED
    BY <2>1, <2>2
<1>9. Spells(f, name)
  BY <1>3, <1>4, <1>8 DEF Spells, n
<1> QED
  BY <1>2, <1>9

\* The labels of name n from i on are those of v from j on.
SameLabels(n, i, v, j) ==
  Len(n) - i = Len(v) - j /\ \A h \in 0..(Len(n) - i) : n[i + h] = v[j + h]

\* Two names are spelled in the same way where they have the same labels.
LEMMA SameSpelling ==
  ASSUME NEW n, IsName(n), NEW v, IsName(v), NEW f, Spells(f, n), NEW g, Spells(g, v)
  PROVE  \A i \in 1..Len(n), j \in 1..Len(v) : f[i] = g[j] <=> SameLabels(n, i, v, j)
<1> DEFINE a == Len(n)
           b == Len(v)
           T == {m \in Nat : \A i \in 1..a, j \in 1..b :
                               a - i = m => (f[i] = g[j] <=> SameLabels(n, i, v, j))}
<1>1. a \in Nat /\ b \in Nat
  BY DEF IsName
<1>2. /\ \A i \in 1..a : /\ f[i] \in Text /\ n[i] \in Text /\ NoDots(n[i])
                         /\ i = a => f[i] = n[i]
                         /\ i # a => f[i] = n[i] \o <<".">> \o f[i + 1]
      /\ \A j \in 1..b : /\ g[j] \in Text /\ v[j] \in Text /\ NoDots(v[j])
                         /\ j = b => g[j] = v[j]
                         /\ j # b => g[j] = v[j] \o <<".">> \o g[j + 1]
  BY DEF Spells
<1> HIDE DEF a, b
<1>3. ASSUME NEW i \in 1..a, NEW j \in 1..b, i = a \/ j = b
      PROVE  f[i] = g[j] <=> SameLabels(n, i, v, j)
  <2>1. CASE i = a /\ j = b
    <3>1. f[i] = n[i] /\ g[j] = v[j]
      BY <1>2, <2>1
    <3>2. a - i = 0 /\ b - j = 0 /\ i + 0 = i /\ j + 0 = j /\ 0..(a - i) = {0}
      BY <1>1, <2>1
    <3> QED
      BY <3>1, <3>2 DEF SameLabels, a, b
  <2>2. CASE i = a /\ j # b
    <3>1. j + 1 \in 1..b /\ a - i = 0 /\ b - j # 0
      BY <1>1, <2>2
    <3>2. n[i] # v[j] \o <<".">> \o g[j + 1]
      <4>1. n[i] \in Text /\ NoDots(n[i]) /\ v[j] \in Text /\ g[j + 1] \in Text
        BY <1>2, <3>1
      <4> QED
        BY <4>1, NoLabel, Zenon
    <3> QED
      BY <1>2, <2>2, <3>1, <3>2 DEF SameLabels, a, b
  <2>3. CASE i # a /\ j = b
    <3>1. i + 1 \in 1..a /\ b - j = 0 /\ a - i # 0
      BY <1>1, <2>3
    <3>2. v[j] # n[i] \o <<".">> \o f[i + 1]
      <4>1. v[j] \in Text /\ NoDots(v[j]) /\ n[i] \in Text /\ f[i + 1] \in Text
        BY <1>2, <3>1
      <4> QED
        BY <4>1, NoLabel, Zenon
    <3> QED
      BY <1>2, <2>3, <3>1, <3>2 DEF SameLabels, a, b
  <2> QED
    BY <1>3, <2>1, <2>2, <2>3
<1>4. ASSUME NEW i \in 1..a, NEW j \in 1..b, i # a, j # b,
             f[i + 1] = g[j + 1] <=> SameLabels(n, i + 1, v, j + 1)
      PROVE  f[i] = g[j] <=> SameLabels(n, i, v, j)
  <2>1. i + 1 \in 1..a /\ j + 1 \in 1..b
    BY <1>1, <1>4
  <2>2. f[i] = n[i] \o <<".">> \o f[i + 1] /\ g[j] = v[j] \o <<".">> \o g[j + 1]
    BY <1>2, <1>4
  <2>3. f[i] = g[j] => n[i] = v[j] /\ f[i + 1] = g[j + 1]
    <3>1. /\ n[i] \in Text /\ NoDots(n[i]) /\ f[i + 1] \in Text
          /\ v[j] \in Text /\ NoDots(v[j]) /\ g[j + 1] \in Text
      BY <1>2, <2>1
    <3> SUFFICES ASSUME f[i] = g[j] PROVE n[i] = v[j] /\ f[i + 1] = g[j + 1]
      OBVIOUS
    <3> DEFINE x == n[i]
               p == f[i + 1]
               y == v[j]
               q == g[j + 1]
    <3>2. x \o <<".">> \o p = y \o <<".">> \o q
      BY <2>2
    <3> HIDE DEF x, p, y, q
    <3>3. x \in Text /\ NoDots(x) /\ p \in Text /\ y \in Text /\ NoDots(y) /\ q \in Text
      BY <3>1 DEF x, p, y, q
    <3>4. x = y /\ p = q
      BY <3>2, <3>3, FirstLabel
    <3> QED
      BY <3>4 DEF x, p, y, q
  <2>4. f[i] = g[j] <=> n[i] = v[j] /\ f[i + 1] = g[j + 1]
    BY <2>2, <2>3
  <2>5. SameLabels(n, i, v, j) <=> n[i] = v[j] /\ SameLabels(n, i + 1, v, j + 1)
    <3>1. ASSUME SameLabels(n, i, v, j) PROVE n[i] = v[j] /\ SameLabels(n, i + 1, v, j + 1)
      <4>1. a - i = b - j /\ \A h \in 0..(a - i) : n[i + h] = v[j + h]
        BY <3>1 DEF SameLabels, a, b
      <4>2. 0 \in 0..(a - i) /\ i + 0 = i /\ j + 0 = j /\ a - (i + 1) = b - (j + 1)
        BY <1>1, <2>1, <4>1
      <4>3. ASSUME NEW h \in 0..(a - (i + 1)) PROVE n[(i + 1) + h] = v[(j + 1) + h]
        <5>1. h + 1 \in 0..(a - i) /\ i + (h + 1) = (i + 1) + h /\ j + (h + 1) = (j + 1) + h
          BY <1>1, <2>1
        <5> QED
          BY <4>1, <5>1
      <4> QED
        BY <4>1, <4>2, <4>3 DEF SameLabels, a, b
    <3>2. ASSUME n[i] = v[j], SameLabels(n, i + 1, v, j + 1) PROVE SameLabels(n, i, v, j)
      <4>1. a - (i + 1) = b - (j + 1) /\ \A h \in 0..(a - (i + 1)) : n[(i + 1) + h] = v[(j + 1) + h]
        BY <3>2 DEF SameLabels, a, b
      <4>2. a - i = b - j
        BY <1>1, <2>1, <4>1
      <4>3. ASSUME NEW h \in 0..(a - i) PROVE n[i + h] = v[j + h]
        <5>1. CASE h = 0
          BY <1>1, <3>2, <5>1
        <5>2. CASE h # 0
          <6>1. h - 1 \in 0..(a - (i + 1)) /\ i + h = (i + 1) + (h - 1) /\ j + h = (j + 1) + (h - 1)
            BY <1>1, <2>1, <5>2
          <6> QED
            BY <4>1, <6>1
        <5> QED
          BY <5>1, <5>2
      <4> QED
        BY <4>2, <4>3 DEF SameLabels, a, b
    <3> QED
      BY <3>1, <3>2
  <2> QED
    BY <1>4, <2>4, <2>5
<1>5. 0 \in T
  <2>1. \A i \in 1..a : a - i = 0 => i = a
    BY <1>1
  <2> QED
    BY <1>3, <2>1
<1>6. ASSUME NEW m \in Nat, m \in T PROVE m + 1 \in T
  <2> SUFFICES ASSUME NEW i \in 1..a, NEW j \in 1..b, a - i = m + 1
               PROVE  f[i] = g[j] <=> SameLabels(n, i, v, j)
    OBVIOUS
  <2>1. CASE j = b
    BY <1>3, <2>1
  <2>2. CASE j # b
    <3>1. i # a /\ i + 1 \in 1..a /\ j + 1 \in 1..b /\ a - (i + 1) = m
      BY <1>1, <2>2
    <3>2. f[i + 1] = g[j + 1] <=> SameLabels(n, i + 1, v, j + 1)
      BY <1>6, <3>1
    <3> QED
      BY <1>4, <2>2, <3>1, <3>2
  <2> QED
    BY <2>1, <2>2
<1>7. \A m \in Nat : m \in T
  <2> HIDE DEF T
  <2> QED
    BY <1>5, <1>6, NatInduct
<1>8. \A i \in 1..a : a - i \in Nat
  BY <1>1
<1> QED
  BY <1>7, <1>8 DEF a, b

\* A name is a root domain or below it where its labels end with the root's.
LEMMA BelowRoot ==
  ASSUME NEW n, IsName(n), NEW f, Spells(f, n), NEW u \in Text
  PROVE  u = f[1] \/ Below(u, f[1]) <=> \E h \in 1..Len(n) : f[h] = u
<1> DEFINE a == Len(n)
           T == {m \in Nat : \A i \in 1..a :
                   a - i = m => (u = f[i] \/ Below(u, f[i]) <=> \E h \in i..a : f[h] = u)}
<1>1. a \in Nat /\ a # 0
  BY DEF IsName
<1>2. \A i \in 1..a : /\ f[i] \in Text /\ n[i] \in Text /\ NoDots(n[i])
                      /\ i = a => f[i] = n[i]
                      /\ i # a => f[i] = n[i] \o <<".">> \o f[i + 1]
  BY DEF Spells
<1> HIDE DEF a
<1>3. 0 \in T
  <2>1. SUFFICES ASSUME NEW i \in 1..a, i = a
                 PROVE  u = f[i] \/ Below(u, f[i]) <=> \E h \in i..a : f[h] = u
    BY <1>1
  <2>2. ~Below(u, f[i])
    BY <1>2, <2>1, BelowLabel
  <2>3. i..a = {i}
    BY <1>1, <2>1
  <2> QED
    BY <2>2, <2>3
<1>4. ASSUME NEW m \in Nat, m \in T PROVE m + 1 \in T
  <2> SUFFICES ASSUME NEW i \in 1..a, a - i = m + 1
               PROVE  u = f[i] \/ Below(u, f[i]) <=> \E h \in i..a : f[h] = u
    OBVIOUS
  <2>1. i # a /\ i + 1 \in 1..a /\ a - (i + 1) = m /\ i..a = {i} \cup ((i + 1)..a)
    BY <1>1
  <2>2. Below(u, n[i] \o <<".">> \o f[i + 1]) <=> u = f[i + 1] \/ Below(u, f[i + 1])
    <3> DEFINE x == n[i]
               p == f[i + 1]
    <3>1. x \in Text /\ NoDots(x) /\ p \in Text
      BY <1>2, <2>1
    <3> HIDE DEF x, p
    <3>2. Below(u, x \o <<".">> \o p) <=> u = p \/ Below(u, p)
      BY <3>1, BelowLabel
    <3> QED
      BY <3>2 DEF x, p
  <2>3. Below(u, f[i]) <=> \E h \in (i + 1)..a : f[h] = u
    BY <1>2, <1>4, <2>1, <2>2
  <2> QED
    BY <2>1, <2>3
<1>5. \A m \in Nat : m \in T
  <2> HIDE DEF T
  <2> QED
    BY <1>3, <1>4, NatInduct
<1>6. a - 1 \in Nat /\ 1 \in 1..a
  BY <1>1
<1> QED
  BY <1>5, <1>6 DEF a

\* The labels of a name end with those of another one.
LEMMA SuffixLabels ==
  ASSUME NEW n, IsName(n), NEW v, IsName(v)
  PROVE  /\ IsSuffix(v, n) <=> \E h \in 1..Len(n) : SameLabels(n, h, v, 1)
         /\ v = n <=> SameLabels(n, 1, v, 1)
<1> DEFINE a == Len(n)
           b == Len(v)
<1>1. a \in Nat /\ b \in Nat /\ a # 0 /\ b # 0
  BY DEF IsName
<1>2. IsSuffix(v, n) <=> b <= a /\ \A j \in 1..b : v[j] = n[(a - b) + j]
  BY SuffixPositions, Zenon DEF IsName
<1>3. v = n <=> a = b /\ \A j \in 1..b : v[j] = n[j]
  <2>1. v \in Seq(Seq(STRING)) /\ n \in Seq(Seq(STRING))
    BY DEF IsName
  <2>2. \A S : v \in Seq(S) /\ n \in Seq(S) /\ Len(n) = Len(v) /\ (\A j \in 1..Len(v) : v[j] = n[j]) => v = n
    OBVIOUS
  <2> QED
    BY <2>1, <2>2, Zenon
<1>4. \A h \in Int : SameLabels(n, h, v, 1) <=>
        a - h = b - 1 /\ \A i \in 0..(a - h) : n[h + i] = v[1 + i]
  BY DEF SameLabels
<1> HIDE DEF a, b
<1>5. ASSUME NEW h \in 1..a
      PROVE  SameLabels(n, h, v, 1) <=> h = (a - b) + 1 /\ \A j \in 1..b : v[j] = n[(a - b) + j]
  <2>1. a - h = b - 1 <=> h = (a - b) + 1
    BY <1>1
  <2>2. ASSUME h = (a - b) + 1
        PROVE  (\A i \in 0..(a - h) : n[h + i] = v[1 + i]) <=> \A j \in 1..b : v[j] = n[(a - b) + j]
    <3>1. ASSUME \A i \in 0..(a - h) : n[h + i] = v[1 + i], NEW j \in 1..b PROVE v[j] = n[(a - b) + j]
      <4>1. j - 1 \in 0..(a - h) /\ h + (j - 1) = (a - b) + j /\ 1 + (j - 1) = j
        BY <1>1, <2>2
      <4> QED
        BY <3>1, <4>1
    <3>2. ASSUME \A j \in 1..b : v[j] = n[(a - b) + j], NEW i \in 0..(a - h) PROVE n[h + i] = v[1 + i]
      <4>1. 1 + i \in 1..b /\ h + i = (a - b) + (1 + i)
        BY <1>1, <2>2
      <4> QED
        BY <3>2, <4>1
    <3> QED
      BY <3>1, <3>2
  <2> QED
    BY <1>4, <2>1, <2>2
<1>6. IsSuffix(v, n) <=> \E h \in 1..a : SameLabels(n, h, v, 1)
  <2>1. b <= a <=> (a - b) + 1 \in 1..a
    BY <1>1
  <2> QED
    BY <1>2, <1>5, <2>1
<1>7. v = n <=> SameLabels(n, 1, v, 1)
  <2>1. 1 \in 1..a /\ (1 = (a - b) + 1 <=> a = b) /\ (a = b => \A j \in 1..b : (a - b) + j = j)
    BY <1>1
  <2> QED
    BY <1>3, <1>5, <2>1
<1> QED
  BY <1>6, <1>7 DEF a

\* matchDomain: what it finds in the characters is what stands in the labels.
LEMMA ByLabels ==
  ASSUME NEW n, IsName(n), NEW v, IsName(v)
  PROVE  /\ Chars(n) = Chars(v) <=> n = v
         /\ MatchRoot(Chars(v), Chars(n)) <=> IsSuffix(v, n)
<1>1. PICK f : Spells(f, n) /\ Chars(n) = f[1]
  BY CharsSpells
<1>2. PICK g : Spells(g, v) /\ Chars(v) = g[1]
  BY CharsSpells
<1>3. /\ Len(n) \in Nat /\ Len(n) # 0 /\ Len(v) \in Nat /\ Len(v) # 0
      /\ f[1] \in Text /\ g[1] \in Text
  <2>1. Len(n) \in Nat /\ Len(n) # 0 /\ Len(v) \in Nat /\ Len(v) # 0
    BY DEF IsName
  <2>2. 1 \in 1..Len(n) /\ 1 \in 1..Len(v)
    BY <2>1
  <2> QED
    BY <1>1, <1>2, <2>1, <2>2 DEF Spells
<1>4. \A i \in 1..Len(n) : f[i] = g[1] <=> SameLabels(n, i, v, 1)
  <2>1. 1 \in 1..Len(v)
    BY <1>3
  <2> QED
    BY <1>1, <1>2, <2>1, SameSpelling
<1>5. Chars(n) = Chars(v) <=> n = v
  <2>1. 1 \in 1..Len(n)
    BY <1>3
  <2> QED
    BY <1>1, <1>2, <1>4, <2>1, SuffixLabels
<1>6. MatchRoot(Chars(v), Chars(n)) <=> f[1] = g[1] \/ Below(g[1], f[1])
  BY <1>1, <1>2, <1>3, SuffixBelow DEF MatchRoot
<1>7. MatchRoot(Chars(v), Chars(n)) <=> \E h \in 1..Len(n) : f[h] = g[1]
  BY <1>1, <1>3, <1>6, BelowRoot
<1> QED
  BY <1>4, <1>5, <1>7, SuffixLabels
-----------------------------------------------------------------------------
(* The answers of the matchers. *)

\* geositeMatcher.Match: what the list says of a name.
LEMMA HostByTheList ==
  ASSUME NEW list, Known(list), \A d \in list : IsName(d.value), NEW attrs, NEW name, IsName(name)
  PROVE  (\E d \in list : matchDomain(attrs, d, name)) <=>
           \E d \in Lists(list, name) : attrs \subseteq d.attrs
<1>1. ASSUME NEW d \in list
      PROVE  matchDomain(attrs, d, name) <=> d \in Lists(list, name) /\ attrs \subseteq d.attrs
  <2>1. /\ Chars(name) = Chars(d.value) <=> name = d.value
        /\ MatchRoot(Chars(d.value), Chars(name)) <=> IsSuffix(d.value, name)
    BY ByLabels
  <2>2. CASE d.type = "plain"
    BY <2>2 DEF matchDomain, Lists
  <2>3. CASE d.type = "regex"
    BY <2>3 DEF matchDomain, Lists
  <2>4. CASE d.type = "full"
    BY <2>1, <2>4 DEF matchDomain, Lists
  <2>5. CASE d.type = "root"
    BY <2>1, <2>5 DEF matchDomain, Lists
  <2> QED
    BY <2>2, <2>3, <2>4, <2>5 DEF Known
<1> QED
  BY <1>1 DEF Lists

\* A matcher is made of the lists that are understood.
LEMMA SiteMatcherMade ==
  ASSUME NEW list, NEW attrs
  PROVE  LET m == newGeositeMatcher(list, attrs)
         IN  /\ m.err <=> ~Known(list)
             /\ Known(list) => m.domains = list /\ m.attrs = attrs
BY DEF newGeositeMatcher, NoMatcher, Known

\* geoipMatcher.Match: whether one of the networks has the address, or none of an
\* inverted list.
LEMMA NetByTheList ==
  ASSUME GeoAssumption, NEW map \in IPMaps, NEW country \in DOMAIN map,
         \A n \in map[country].cidr : n.len \in {4, 6},
         NEW ip \in IPs, ip.v # 0
  PROVE  MatchNet(newGeoIPMatcher(map[country]), ip) =
           (map[country].inverse # \E n \in map[country].cidr : n.len = ip.v /\ InNet(n, ip.a))
<1> DEFINE list == map[country]
           nets == {n \in list.cidr : n.len = ip.v}
           m == newGeoIPMatcher(list)
<1>1. ip.v \in {4, 6} /\ ip.a \in Nat /\ Bits[ip.v] \in Nat /\ list.inverse \in BOOLEAN
  BY DEF GeoAssumption
<1>2. IsFiniteSet(list.cidr)
  BY DEF GeoAssumption
<1>3. OneFamily(nets, ip.v)
  <2>1. IsFiniteSet(nets)
    <3>1. nets \subseteq list.cidr
      OBVIOUS
    <3> HIDE DEF nets, list
    <3> QED
      BY <1>2, <3>1, FS_Subset
  <2>2. \A n \in nets : /\ n.len = ip.v /\ n.ip \in Nat /\ n.prefix \in 0..Bits[ip.v]
                        /\ \A h \in nets : h = n \/ Apart(h, n)
    BY <1>1 DEF GeoAssumption
  <2>3. \A h, n : Apart(h, n) => Apart(n, h)
    BY DEF Apart
  <2> QED
    BY <1>1, <2>1, <2>2, <2>3 DEF OneFamily
<1>4. m.n[ip.v] = Sorted(list, ip.v) /\ m.inverse = list.inverse
  BY <1>1 DEF newGeoIPMatcher
<1>5. InSequence(Sorted(list, ip.v), nets)
  BY <1>3, SortedInSequence, Zenon
<1>6. /\ matchIP(Sorted(list, ip.v), ip.v, ip.a) <=> \E n \in nets : InNet(n, ip.a)
      /\ matchIP(Sorted(list, ip.v), ip.v, ip.a) \in BOOLEAN
  <2> HIDE DEF nets, list
  <2> QED
    BY <1>1, <1>3, <1>5, MatchIPFinds
<1>7. (\E n \in nets : InNet(n, ip.a)) <=> \E n \in list.cidr : n.len = ip.v /\ InNet(n, ip.a)
  OBVIOUS
<1> HIDE DEF m, nets, list
<1> QED
  BY <1>1, <1>4, <1>6, <1>7 DEF MatchNet, m, list

-----------------------------------------------------------------------------
(* The invariant. *)

\* Matchers that are kept are those of their conditions.
SiteKept(c) ==
  /\ c.name \in DOMAIN geosites /\ Known(geosites[c.name])
  /\ geoSiteMatcher[c] = newGeositeMatcher(geosites[c.name], Range(c.attrs))

IPKept(c) ==
  /\ c.attrs = <<>> /\ c.name \in DOMAIN geoips
  /\ \A n \in geoips[c.name].cidr : n.len \in {4, 6}
  /\ geoIpMatcher[c] = newGeoIPMatcher(geoips[c.name])

GeoInv ==
  /\ geosites \in SiteMaps
  /\ geoips \in IPMaps
  /\ \A c \in DOMAIN geoSiteMatcher : SiteKept(c)
  /\ \A c \in DOMAIN geoIpMatcher : IPKept(c)
  /\ SitesByTheList
  /\ AddressesByTheList

LEMMA Lower ==
  ASSUME GeoAssumption, NEW c \in Conditions
  PROVE  ToLower(c).name = c.name /\ ToLower(c).attrs = c.attrs
<1>1. c = [name |-> c.name, attrs |-> c.attrs, upper |-> c.upper]
  BY DEF GeoAssumption
<1>2. "name" \in DOMAIN c /\ "attrs" \in DOMAIN c
  BY <1>1
<1> QED
  BY <1>2 DEF ToLower

\* A call of geosite answers by the list and keeps its matcher, if it has one.
LEMMA AskSite ==
  ASSUME GeoAssumption, GeoInv, NEW c \in Conditions, NEW site \in Sites, MatchGeoSite(site, c)
  PROVE  (\A d \in DOMAIN geoSiteMatcher : SiteKept(d))' /\ SitesByTheList'
<1> DEFINE list == geosites[c.name]
           m == SiteMatcher(c)
           lower == ToLower(c)
<1>1. lower.name = c.name /\ lower.attrs = c.attrs
  BY Lower
<1>2. CASE c.name \notin DOMAIN geosites
  <2>1. m.err
    BY <1>1, <1>2 DEF SiteMatcher, GeoInv, SiteKept, NoMatcher
  <2>2. geoSiteMatcher' = geoSiteMatcher /\ geosites' = geosites
    BY <2>1 DEF MatchGeoSite, Keep
  <2>3. asked'.got = FALSE /\ asked'.condition = c
    BY <2>1 DEF MatchGeoSite
  <2> QED
    BY <1>2, <2>2, <2>3 DEF GeoInv, SiteKept, SitesByTheList
<1>3. CASE c.name \in DOMAIN geosites
  <2>1. m = newGeositeMatcher(list, Range(c.attrs))
    BY <1>1, <1>3 DEF SiteMatcher, GeoInv, SiteKept
  <2>2. /\ m.err <=> ~Known(list)
        /\ Known(list) => m.domains = list /\ m.attrs = Range(c.attrs)
    BY <2>1, SiteMatcherMade
  <2>3. /\ geosites' = geosites
        /\ geoSiteMatcher' = IF c \in DOMAIN geoSiteMatcher THEN geoSiteMatcher
                             ELSE Keep(geoSiteMatcher, lower, m)
        /\ asked' = [what |-> "site", of |-> site, condition |-> c,
                     got |-> ~m.err /\ MatchHost(m, site)]
    BY DEF MatchGeoSite
  <2> HIDE DEF m, lower
  <2>4. ASSUME NEW d \in DOMAIN geoSiteMatcher' PROVE SiteKept(d)'
    <3>1. CASE d \in DOMAIN geoSiteMatcher /\ geoSiteMatcher'[d] = geoSiteMatcher[d]
      BY <2>3, <3>1 DEF GeoInv, SiteKept
    <3>2. CASE ~(d \in DOMAIN geoSiteMatcher /\ geoSiteMatcher'[d] = geoSiteMatcher[d])
      <4>1. ~m.err /\ d = lower /\ geoSiteMatcher'[d] = m
        BY <2>3, <3>2 DEF Keep
      <4>2. Range(d.attrs) = Range(c.attrs) /\ d.name = c.name
        BY <1>1, <4>1
      <4> QED
        BY <1>3, <2>1, <2>2, <2>3, <4>1, <4>2 DEF SiteKept
    <3> QED
      BY <3>1, <3>2
  <2>5. ASSUME Known(list)
        PROVE  MatchHost(m, site) <=> \E d \in Lists(list, site) : Range(c.attrs) \subseteq d.attrs
    <3>1. IsName(site) /\ \A d \in list : IsName(d.value)
      BY <1>3 DEF GeoAssumption, GeoInv
    <3>2. (\E d \in list : matchDomain(Range(c.attrs), d, site)) <=>
            \E d \in Lists(list, site) : Range(c.attrs) \subseteq d.attrs
      BY <2>5, <3>1, HostByTheList, Zenon
    <3> QED
      BY <2>2, <2>5, <3>2 DEF MatchHost
  <2>6. asked'.got = (Known(list) /\ \E d \in Lists(list, site) : Range(c.attrs) \subseteq d.attrs)
    BY <2>2, <2>3, <2>5
  <2>7. \A l, n : Lists(l, n)' = Lists(l, n)
    BY DEF Lists
  <2>8. SitesByTheList'
    BY <1>3, <2>3, <2>6 DEF SitesByTheList
  <2> QED
    BY <2>4, <2>8
<1> QED
  BY <1>2, <1>3

\* A call of geoip too.
LEMMA AskIP ==
  ASSUME GeoAssumption, GeoInv, NEW c \in Conditions, NEW ip \in IPs, MatchGeoIp(ip, c)
  PROVE  (\A d \in DOMAIN geoIpMatcher : IPKept(d))' /\ AddressesByTheList'
<1> DEFINE list == geoips[c.name]
           m == IPMatcher(c)
           lower == ToLower(c)
           There == c.attrs = <<>> /\ c.name \in DOMAIN geoips /\ \A n \in list.cidr : n.len \in {4, 6}
<1>1. lower.name = c.name /\ lower.attrs = c.attrs
  BY Lower
<1>2. CASE ~There
  <2>1. m.err
    BY <1>1, <1>2 DEF IPMatcher, GeoInv, IPKept, NoMatcher, newGeoIPMatcher
  <2>2. geoIpMatcher' = geoIpMatcher /\ geoips' = geoips
    BY <2>1 DEF MatchGeoIp, Keep
  <2>3. asked'.got = FALSE /\ asked'.condition = c
    BY <2>1 DEF MatchGeoIp
  <2> QED
    BY <1>2, <2>2, <2>3 DEF GeoInv, IPKept, AddressesByTheList
<1>3. CASE There
  <2>1. m = newGeoIPMatcher(list) /\ ~m.err
    <3>1. m = newGeoIPMatcher(list)
      BY <1>1, <1>3 DEF IPMatcher, GeoInv, IPKept
    <3>2. ~newGeoIPMatcher(list).err
      BY <1>3 DEF newGeoIPMatcher
    <3> QED
      BY <3>1, <3>2, Zenon
  <2>2. /\ geoips' = geoips
        /\ geoIpMatcher' = IF c \in DOMAIN geoIpMatcher THEN geoIpMatcher
                           ELSE Keep(geoIpMatcher, lower, m)
        /\ asked' = [what |-> "ip", of |-> ip, condition |-> c,
                     got |-> ~m.err /\ ip.v # 0 /\ MatchNet(m, ip)]
    BY DEF MatchGeoIp
  <2> HIDE DEF m, lower
  <2>3. ASSUME NEW d \in DOMAIN geoIpMatcher' PROVE IPKept(d)'
    <3>1. CASE d \in DOMAIN geoIpMatcher /\ geoIpMatcher'[d] = geoIpMatcher[d]
      BY <2>2, <3>1 DEF GeoInv, IPKept
    <3>2. CASE ~(d \in DOMAIN geoIpMatcher /\ geoIpMatcher'[d] = geoIpMatcher[d])
      <4>1. d = lower /\ geoIpMatcher'[d] = m
        BY <2>1, <2>2, <3>2 DEF Keep
      <4> QED
        BY <1>1, <1>3, <2>1, <2>2, <4>1 DEF IPKept
    <3> QED
      BY <3>1, <3>2
  <2>4. ip.v # 0 => MatchNet(m, ip) = (list.inverse # \E n \in list.cidr : n.len = ip.v /\ InNet(n, ip.a))
    BY <1>3, <2>1, NetByTheList DEF GeoInv
  <2>5. AddressesByTheList'
    BY <1>3, <2>1, <2>2, <2>4 DEF AddressesByTheList
  <2> QED
    BY <2>3, <2>5
<1> QED
  BY <1>2, <1>3

\* The invariant holds in every reachable state.
THEOREM GeoInvariance == ASSUME GeoAssumption PROVE GeoSpec => []GeoInv
<1>1. NewGeoMatcher => GeoInv
  <2> SUFFICES ASSUME NewGeoMatcher PROVE GeoInv
    OBVIOUS
  <2>1. DOMAIN geoSiteMatcher = {} /\ DOMAIN geoIpMatcher = {} /\ asked.what = "nothing"
    BY DEF NewGeoMatcher
  <2> QED
    BY <2>1 DEF NewGeoMatcher, GeoInv, SitesByTheList, AddressesByTheList
<1>2. GeoInv /\ [Ask]_geoVars => GeoInv'
  <2> SUFFICES ASSUME GeoInv, [Ask]_geoVars PROVE GeoInv'
    OBVIOUS
  <2>1. ASSUME NEW c \in Conditions, NEW site \in Sites, MatchGeoSite(site, c) PROVE GeoInv'
    <3>1. UNCHANGED <<geosites, geoips, geoIpMatcher>> /\ asked'.what = "site"
      BY <2>1 DEF MatchGeoSite
    <3>2. AddressesByTheList'
      BY <3>1 DEF AddressesByTheList
    <3>3. \A d : IPKept(d)' <=> IPKept(d)
      BY <3>1 DEF IPKept
    <3> QED
      BY <2>1, <3>1, <3>2, <3>3, AskSite DEF GeoInv
  <2>2. ASSUME NEW c \in Conditions, NEW ip \in IPs, MatchGeoIp(ip, c) PROVE GeoInv'
    <3>1. UNCHANGED <<geosites, geoips, geoSiteMatcher>> /\ asked'.what = "ip"
      BY <2>2 DEF MatchGeoIp
    <3>2. SitesByTheList'
      BY <3>1 DEF SitesByTheList
    <3>3. \A d : SiteKept(d)' <=> SiteKept(d)
      BY <3>1 DEF SiteKept
    <3> QED
      BY <2>2, <3>1, <3>2, <3>3, AskIP DEF GeoInv
  <2>3. CASE UNCHANGED geoVars
    BY <2>3 DEF geoVars, GeoInv, SiteKept, IPKept, SitesByTheList, AddressesByTheList
  <2> QED
    BY <2>1, <2>2, <2>3 DEF Ask
<1> QED
  BY <1>1, <1>2, PTL DEF GeoSpec

\* geosite answers what its list says of the name, with all attributes asked for,
\* whatever was asked before and kept of it (MatchGeoSite, geositeMatcher.Match).
THEOREM SitesCorrect == ASSUME GeoAssumption PROVE GeoSpec => []SitesByTheList
<1>1. GeoInv => SitesByTheList
  BY DEF GeoInv
<1> QED
  BY <1>1, GeoInvariance, PTL

\* geoip finds the network an address is in, whatever number of networks the list
\* has, unless they overlap (MatchGeoIp, geoipMatcher.matchIP).
THEOREM AddressesCorrect == ASSUME GeoAssumption PROVE GeoSpec => []AddressesByTheList
<1>1. GeoInv => AddressesByTheList
  BY DEF GeoInv
<1> QED
  BY <1>1, GeoInvariance, PTL
=============================================================================
