---------------------------- MODULE StreamParser ----------------------------
(***************************************************************************)
(* The life of a TCP parser: a conversation, cut into chunks at any place  *)
(* and in any order of its two directions, is fed to it until it is done,  *)
(* as engine/tcp.go does.  Parsers instantiate this module with their      *)
(* steps.  A gap in the data ends the inspection.                          *)
(*                                                                         *)
(* A parser's map is shared with the engine, which asks the rules only     *)
(* when the parser reports it: shown is what the rules were asked about.   *)
(***************************************************************************)
EXTENDS LSM

CONSTANTS
  FeedChunk(_, _, _),  \* Feed of the parser: direction, parser, chunk
  Fresh,               \* a new parser
  Show(_, _, _),       \* what rules know, after the parser reports a direction
  Nothing,             \* what rules know before any report
  Talks                \* conversations: what each direction sends

VARIABLES
  parser,    \* the parser
  talk,      \* the conversation
  pos,       \* how much of each direction it was fed
  shown,     \* what the rules were last asked about
  finished,  \* Feed has said done
  gap        \* data were missing

vars == <<parser, talk, pos, shown, finished, gap>>

Init ==
  /\ parser = Fresh
  /\ talk \in Talks
  /\ pos = [d \in Dirs |-> 0]
  /\ shown = Nothing
  /\ finished = FALSE
  /\ gap = FALSE

\* A chunk of n bytes of direction d.
Deliver(d, n) ==
  LET r == FeedChunk(d, parser, SubSeq(talk[d], pos[d] + 1, pos[d] + n))
  IN  /\ ~finished
      /\ parser' = r.p
      /\ pos' = [pos EXCEPT ![d] = @ + n]
      /\ shown' = IF r.updated THEN Show(shown, d, r.p) ELSE shown
      /\ finished' = r.done
      /\ UNCHANGED <<talk, gap>>

\* A chunk with a gap before it, which the parser does not look at.
Gap(d) ==
  /\ ~finished
  /\ pos[d] < Len(talk[d])
  /\ gap' = TRUE
  /\ finished' = TRUE
  /\ UNCHANGED <<parser, talk, pos, shown>>

Next ==
  \E d \in Dirs :
    \/ \E n \in 0..(Len(talk[d]) - pos[d]) : Deliver(d, n)
    \/ Gap(d)

Spec == Init /\ [][Next]_vars

\* What the parser has been given of direction d.
Given(d) == SubSeq(talk[d], 1, pos[d])
-----------------------------------------------------------------------------
(* Messages with their length, of two bytes, before them. *)

\* The message behind i bytes: where it ends, and whether it has come whole.
EndBehind(bytes, i) == i + 2 + 256 * bytes[i + 1] + bytes[i + 2]
WholeBehind(bytes, i) == i + 2 <= Len(bytes) /\ EndBehind(bytes, i) <= Len(bytes)

\* Where each message ends, as many as have come whole.
Ends(bytes) ==
  LET end[n \in Nat] ==
        IF n = 0 THEN 0
        ELSE IF WholeBehind(bytes, end[n - 1]) THEN EndBehind(bytes, end[n - 1])
        ELSE end[n - 1]
  IN  end
=============================================================================
