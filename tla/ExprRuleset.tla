---------------------------- MODULE ExprRuleset -----------------------------
(***************************************************************************)
(* Rulesets (ruleset/expr.go): a list of rules is compiled, one after the  *)
(* other, which finds out what analyzers the streams have to be given and  *)
(* loads the databases of the geo functions; then it is asked for actions, *)
(* each time on what the analyzers of a stream have reported so far.       *)
(*                                                                         *)
(* An expression is what the compiler and the virtual machine of           *)
(* expr-lang, outside src/, show of it:                                    *)
(*   ok      it is well-formed                                             *)
(*   ids     the identifiers in it, those it calls included                *)
(*   lets    the variables it declares                                     *)
(*   arg     what the second argument of cidr or lookup is                 *)
(*   reads   the analyzers whose properties its value depends on           *)
(*   value   its value, for each set of these that have reported any       *)
(***************************************************************************)
EXTENDS Verdicts, Integers, Sequences

CONSTANTS
  Analyzers,   \* the analyzers of the program
  Modifiers,   \* its modifiers
  RuleLists    \* the lists of rules to compile

\* buildFunctionMap: functions with a database to load, and functions whose
\* second argument is compiled with the expression.
Databases == {"geoip", "geosite"}
Patched == {"cidr", "lookup"}
funcMap == Databases \cup Patched

VARIABLES
  rules,  \* the list
  pc,     \* "compile", "failed", "panicked" or "ready"
  k,      \* the rules compiled so far
  depAns, \* depAnMap, and in the end exprRuleset.Ans
  loaded, \* the databases loaded so far
  last    \* the last Match: what the analyzers would tell, and what came of it

vars == <<rules, pc, k, depAns, loaded, last>>

\* actionStringToAction, and no action at all.
ActionStrings == {"allow", "block", "drop", "modify"}

isBuiltInAnalyzer(name) == name \in {"id", "proto", "ip", "port"}

NoMatch == [action |-> "maybe", mod |-> "none", logged |-> <<>>]

Init ==
  /\ rules \in RuleLists
  /\ pc = "compile"
  /\ k = 0
  /\ depAns = {}
  /\ loaded = {}
  /\ last = [told |-> {}, got |-> NoMatch]

\* What theorems take for granted of the constants: the names of analyzers are no
\* others' (the code's are not), a list is a sequence, an expression reads only
\* what it names, and expr-lang compiles none that declares a function again.
RulesetAssumption ==
  /\ \A name \in Analyzers : ~isBuiltInAnalyzer(name) /\ name \notin funcMap
  /\ \A list \in RuleLists :
       /\ Len(list) \in Nat /\ DOMAIN list = 1..Len(list)
       /\ \A i \in DOMAIN list :
            LET e == list[i].expr
            IN  e.reads \subseteq e.ids /\ (e.ok => e.lets \cap funcMap = {})

-----------------------------------------------------------------------------
\* Faulty: the name of a function that is called is not visited.
IdentifiersNotCalled(e) ==
  {name \in e.ids : ~isBuiltInAnalyzer(name) /\ name \notin e.lets \cup funcMap}

\* The identifiers idVisitor leaves to look up.
Identifiers(e) == {name \in e.ids : ~isBuiltInAnalyzer(name) /\ name \notin e.lets}

\* The action and the log flag of a rule, before its expression.
BadAction(r) == \/ r.action = "" /\ ~r.log
                \/ r.action \notin ActionStrings \cup {""}

\* The expression does not compile, or idPatcher has an error: only a constant
\* can be compiled, and for cidr it has to be a network.
BadExpr(e) == ~e.ok \/ (e.ids \cap Patched # {} /\ e.arg \in {"variable", "invalid"})

\* idPatcher looks for the second argument of cidr without asking how many
\* there are; nobody recovers.
NoSecondArgument(e) == e.ok /\ "cidr" \in e.ids /\ e.arg = "missing"

\* There is no such modifier, or it does not take the arguments.
BadModifier(r) == r.action = "modify" /\ (r.mod \notin Modifiers \/ ~r.args)

\* Faulty: what the rules before need is forgotten.
NeedsOf(e) == Identifiers(e) \cap Analyzers

\* The analyzers needed so far, with those of one more expression.
Needs(e) == depAns \cup (Identifiers(e) \cap Analyzers)

\* One round of the loop of CompileExprRules.  A database that cannot be loaded
\* is an error (lost), and an identifier that is nothing is passed over.
CompileRule(lost) ==
  LET r == rules[k + 1]
      e == r.expr
      inits == Identifiers(e) \cap Databases
  IN  /\ pc = "compile"
      /\ k < Len(rules)
      /\ lost \subseteq inits
      /\ pc' = IF BadAction(r) THEN "failed"
               ELSE IF NoSecondArgument(e) THEN "panicked"
               ELSE IF BadExpr(e) \/ lost # {} \/ BadModifier(r) THEN "failed"
               ELSE "compile"
      /\ IF BadAction(r) \/ NoSecondArgument(e) \/ BadExpr(e) THEN UNCHANGED <<loaded, depAns>>
         ELSE /\ loaded' = loaded \cup (inits \ lost)
              /\ depAns' = Needs(e)
      /\ k' = k + 1
      /\ UNCHANGED <<rules, last>>

\* CompileExprRules returns the ruleset.
Compiled ==
  /\ pc = "compile"
  /\ k = Len(rules)
  /\ pc' = "ready"
  /\ UNCHANGED <<rules, k, depAns, loaded, last>>

-----------------------------------------------------------------------------
\* vm.Run on the properties there are; what is not known is nil.
RunProgram(e, env) == e.value[env \cap e.reads]

\* What rule i makes of the answer of the rules behind it: errors and what is not
\* true are passed over, a rule without an action is only logged.
MatchRule(i, env, rest) ==
  IF RunProgram(rules[i].expr, env) # "true" THEN rest
  ELSE LET r == IF rules[i].action # ""
                THEN [NoMatch EXCEPT !.action = rules[i].action, !.mod = rules[i].mod]
                ELSE rest
       IN  [r EXCEPT !.logged = (IF rules[i].log THEN <<i>> ELSE <<>>) \o @]

\* The loop of exprRuleset.Match: the first rule with an action that is true ends it.
MatchRules(env) ==
  LET from[i \in 1..(Len(rules) + 1)] ==
        IF i > Len(rules) THEN NoMatch ELSE MatchRule(i, env, from[i + 1])
  IN  from[1]

\* streamInfoToExprEnv: the analyzers with properties, of those the stream has.
StreamEnv(told) == told \cap depAns

\* A worker asks for a stream of which the analyzers told can tell something.
Match(told) ==
  /\ pc = "ready"
  /\ last' = [told |-> told, got |-> MatchRules(StreamEnv(told))]
  /\ UNCHANGED <<rules, pc, k, depAns, loaded>>

Next ==
  \/ \E lost \in SUBSET Databases : CompileRule(lost)
  \/ Compiled
  \/ \E told \in SUBSET Analyzers : Match(told)

Spec == Init /\ [][Next]_vars
-----------------------------------------------------------------------------
\* An expression declares a variable with the name of an analyzer it reads.
Shadows(e) == e.lets \cap e.reads # {}

True(i, told) == rules[i].expr.value[told \cap rules[i].expr.reads] = "true"

\* The ruleset decides as if all analyzers ran: by the first rule with an action
\* that is true of all that any analyzer can tell, whatever errors the rules
\* before it have, and logs the true rules up to there, each once.  Rules whose
\* variables hide analyzers are not among them.
FirstTrueRuleDecides ==
  LET told == last.told
      acts == {i \in DOMAIN rules : True(i, told) /\ rules[i].action # ""}
      first == IF acts = {} THEN Len(rules) ELSE CHOOSE i \in acts : \A j \in acts : i <= j
  IN  (pc = "ready" /\ last.told # {} /\ \A i \in DOMAIN rules : ~Shadows(rules[i].expr)) =>
        /\ last.got.action = IF acts = {} THEN "maybe" ELSE rules[first].action
        /\ last.got.action = "modify" => last.got.mod \in Modifiers
        /\ {last.got.logged[j] : j \in DOMAIN last.got.logged} =
             {i \in 1..first : True(i, told) /\ rules[i].log}
        /\ \A j \in 1..(Len(last.got.logged) - 1) : last.got.logged[j] < last.got.logged[j + 1]

\* A worker that asks never finds a database that is not there, nor waits for it
\* to be fetched: those of all functions in the rules are loaded before.
NoLoadInMatch ==
  pc = "ready" => \A i \in DOMAIN rules : rules[i].expr.ids \cap Databases \subseteq loaded
=============================================================================
