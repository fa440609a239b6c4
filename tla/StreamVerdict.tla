--------------------------- MODULE StreamVerdict ----------------------------
(***************************************************************************)
(* What inspecting streams promises to the packets of one worker, whatever *)
(* the analyzers and the rules are: the packets of a stream are let        *)
(* through one by one until the stream is judged, and every packet after   *)
(* that gets the judgement and no other.  A stream may end unjudged.       *)
(***************************************************************************)
EXTENDS Verdicts

CONSTANT Flows

VARIABLES
  judged,  \* the judgement of each flow's present stream, or "open"
  given    \* the flow and the verdict of the last packet

Init ==
  /\ judged = [f \in Flows |-> "open"]
  /\ given \in [flow : Flows, verdict : {"Accept"}]

Pass(f) ==
  /\ judged[f] = "open"
  /\ given' = [flow |-> f, verdict |-> "Accept"]
  /\ UNCHANGED judged

\* The packet that settles the stream is the first to get the judgement; when
\* it also is the last of its stream, there is nothing to remember.
Judge(f, v) ==
  /\ judged[f] = "open"
  /\ given' = [flow |-> f, verdict |-> v]
  /\ judged' \in {judged, [judged EXCEPT ![f] = v]}

Repeat(f) ==
  /\ judged[f] # "open"
  /\ given' = [flow |-> f, verdict |-> judged[f]]
  /\ UNCHANGED judged

Next ==
  \E f \in Flows :
    \/ Pass(f)
    \/ \E v \in StreamVerdicts : Judge(f, v)
    \/ Repeat(f)

Spec == Init /\ [][Next]_<<judged, given>>
=============================================================================
