---------------------------- MODULE MCTCPStream -----------------------------
(***************************************************************************)
(* Instances of TCPStream for TLC.  The rulesets are small, one of every   *)
(* kind that matters: one that decides on what either analyzer reports,    *)
(* one with the UDP-only actions, which TCP has to translate, and one that *)
(* decides on sight.                                                       *)
(***************************************************************************)
EXTENDS TCPStream, TLC

CONSTANTS sni, ssh, m

MCAnalyzers == {sni, ssh}
MCMarks     == {m}

\* sni stops at two bytes, ssh has no limit.
MCLimit == (sni :> 2) @@ (ssh :> 0)

MCRulesets == {"either", "udpOnly", "onSight"}

MCRuleAnalyzers ==
  [r \in MCRulesets |-> CASE r = "onSight" -> {}
                          [] r = "udpOnly" -> {sni}
                          [] r = "either"  -> {sni, ssh}]

MCMatch ==
  [r \in MCRulesets |-> [p \in [MCAnalyzers -> SUBSET MCMarks] |->
     CASE r = "either"  -> IF m \in p[ssh] THEN "block"
                           ELSE IF m \in p[sni] THEN "allow" ELSE "maybe"
       [] r = "udpOnly" -> IF m \in p[sni] THEN "drop" ELSE "modify"
       [] r = "onSight" -> "block"]]

None  == [type |-> "none",   m |-> {}]
Merge == [type |-> "merge",  m |-> {m}]
Erase == [type |-> "delete", m |-> {}]

MCUpdates      == {None, Merge, Erase}
MCCloseUpdates == {None, Merge}
=============================================================================
