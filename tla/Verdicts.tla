------------------------------ MODULE Verdicts ------------------------------
(***************************************************************************)
(* The vocabulary the packet path shares: the actions a ruleset returns    *)
(* (ruleset/interface.go), the verdicts the engine gives to a packet       *)
(* (io/interface.go), and the two translations between them                *)
(* (actionToTCPVerdict in engine/tcp.go, actionToUDPVerdict in             *)
(* engine/udp.go).                                                         *)
(***************************************************************************)

Actions == {"maybe", "allow", "block", "drop", "modify"}

Verdict == {"Accept", "AcceptModify", "AcceptStream", "Drop", "DropStream"}

\* The verdicts that end the processing of a stream; the kernel remembers them.
StreamVerdicts == {"AcceptStream", "DropStream"}

tcpVerdict == {"Accept", "AcceptStream", "DropStream"}

actionToTCPVerdict(a) ==
  IF a \in {"block", "drop"} THEN "DropStream" ELSE "AcceptStream"

actionToUDPVerdict(a) ==
  CASE a = "allow"  -> [v |-> "AcceptStream", final |-> TRUE]
    [] a = "block"  -> [v |-> "DropStream",   final |-> TRUE]
    [] a = "drop"   -> [v |-> "Drop",         final |-> FALSE]
    [] a = "modify" -> [v |-> "AcceptModify", final |-> FALSE]
    [] OTHER        -> [v |-> "Accept",       final |-> FALSE]

(***************************************************************************)
(* Property updates (analyzer/interface.go, engine/utils.go).  A property  *)
(* map is abstracted to the set of marks it carries; an update merges,     *)
(* replaces or deletes the map of one analyzer, and "none" stands for both *)
(* a nil update and PropUpdateNone.                                        *)
(***************************************************************************)
PropUpdateTypes == {"none", "merge", "replace", "delete"}

\* processPropUpdate's return value: whether the update counts as a change.
Changes(u) == u.type # "none"

\* processPropUpdate's effect on the marks one analyzer has reported.
processPropUpdate(marks, u) ==
  CASE u.type = "merge"   -> marks \cup u.m
    [] u.type = "replace" -> u.m
    [] u.type = "delete"  -> {}
    [] OTHER              -> marks
=============================================================================
