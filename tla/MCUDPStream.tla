---------------------------- MODULE MCUDPStream -----------------------------
(***************************************************************************)
(* An instance of UDPStream for TLC, with two parts that no step leads out *)
(* of: one flow in depth, under the rulesets of In depth, and four flows   *)
(* on three IDs in a cache for two, under the ruleset Sharing.             *)
(***************************************************************************)
EXTENDS UDPStream, TLC

CONSTANTS dns, quic, any, m, f1, f2, f3, f4, i1, i2, i3

None  == [type |-> "none",   m |-> {}]
Merge == [type |-> "merge",  m |-> {m}]
Erase == [type |-> "delete", m |-> {}]

MCMarks        == {m}
MCUpdates      == {None, Merge, Erase}
MCCloseUpdates == {None, Merge}

\* In depth: dns without limit, quic up to two bytes, and rules that say each
\* of the five actions.  Sharing: one analyzer and one ruleset are enough.
InDepth       == {"block", "drop", "modify"}
MCRulesets    == InDepth \cup {"shared"}
MCAnalyzers   == {dns, quic, any}
MCLimit       == (dns :> 0) @@ (quic :> 2) @@ (any :> 1)
MCRuleAnalyzers ==
  [r \in MCRulesets |-> CASE r = "block"  -> {dns, quic}
                          [] r = "shared" -> {any}
                          [] OTHER        -> {quic}]
MCMatch ==
  [r \in MCRulesets |-> [p \in [MCAnalyzers -> SUBSET MCMarks] |->
     CASE r = "block"  -> IF m \in p[quic] THEN "block"
                          ELSE IF m \in p[dns] THEN "allow" ELSE "maybe"
       [] r = "drop"   -> IF m \in p[quic] THEN "drop" ELSE "maybe"
       [] r = "modify" -> IF m \in p[quic] THEN "modify" ELSE "maybe"
       [] r = "shared" -> IF m \in p[any] THEN "block" ELSE "maybe"]]

\* Four flows on three IDs and two places: f1 and f2 collide.
MCFlows == {f1, f2, f3, f4}
MCIDs   == {i1, i2, i3}
MCIDOf  == (f1 :> i1) @@ (f2 :> i1) @@ (f3 :> i2) @@ (f4 :> i3)

\* Next in depth: one flow, and rules that are reloaded.
DeepNext ==
  \/ \E d \in Dirs :
       \/ Replay(f1, d)
       \/ \E n \in 0..MaxData, out \in [StreamOf(f1, d).active -> Outcome],
             modified, serialised \in BOOLEAN :
            Inspect(f1, d, n, out, modified, serialised)
  \/ \E r \in InDepth : UpdateRuleset(r)

\* Next for the four flows; what a payload beyond the limit, an update that
\* erases and a modifier add is in depth.
SharedOutcome == [update : {None, Merge}, done : BOOLEAN, close : {None}]

SharedNext ==
  \E f \in Flows, d \in Dirs :
    \/ Replay(f, d)
    \/ \E n \in 0..1, out \in [StreamOf(f, d).active -> SharedOutcome] :
         Inspect(f, d, n, out, FALSE, FALSE)

MCInit == Init /\ given.flow = f1

MCNext == \/ ruleset \in InDepth /\ DeepNext
          \/ ruleset = "shared" /\ SharedNext

MCSpec == MCInit /\ [][MCNext]_vars
=============================================================================
