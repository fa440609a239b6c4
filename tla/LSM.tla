-------------------------------- MODULE LSM ---------------------------------
(***************************************************************************)
(* The two helpers all parsers of TCP streams are built on                 *)
(* (analyzer/utils/lsm.go, analyzer/utils/bytebuffer.go): a buffer and a   *)
(* list of steps per direction, and how the steps are run.                 *)
(*                                                                         *)
(* A parser is a record with the fields of NewParser and others of its     *)
(* own.  A step is the name of a function.                                 *)
(***************************************************************************)
EXTENDS Integers, Sequences

Dirs == {"req", "resp"}

\* ByteBuffer: n bytes can be had; the first n; what is left without them.
Enough(buf, n) == Len(buf) >= n
First(buf, n)  == SubSeq(buf, 1, n)
After(buf, n)  == SubSeq(buf, n + 1, Len(buf))

\* Where sep begins in buf for the first time, or 0.
Index(buf, sep) ==
  LET at == {i \in 1..(Len(buf) - Len(sep) + 1) : SubSeq(buf, i, i + Len(sep) - 1) = sep}
  IN  IF at = {} THEN 0 ELSE CHOOSE i \in at : \A j \in at : i <= j

\* A new parser; Steps are the steps of its machines, None its empty map.
NewParser(Steps, None) ==
  [buf     |-> [d \in Dirs |-> <<>>],
   steps   |-> Steps,
   index   |-> [d \in Dirs |-> 0],
   map     |-> [d \in Dirs |-> None],
   updated |-> [d \in Dirs |-> FALSE],
   done    |-> [d \in Dirs |-> FALSE]]

\* What a step may answer.
Pause(p)  == [act |-> "pause",  p |-> p]
Go(p)     == [act |-> "next",   p |-> p]
Reset(p)  == [act |-> "reset",  p |-> p]
Cancel(p) == [act |-> "cancel", p |-> p]

\* A step that consumes n bytes, and one that has filled the map.
Skip(p, d, n) == [p EXCEPT !.buf[d] = After(@, n)]
Fill(p, d, m) == [p EXCEPT !.map[d] = m, !.updated[d] = TRUE]

AppendSteps(p, d, names) == [p EXCEPT !.steps[d] = @ \o names]

\* What the loop of LinearStateMachine.Run makes of the answer of a step.
Follow(d, s) ==
  IF s.act = "next" THEN [act |-> "run", p |-> [s.p EXCEPT !.index[d] = @ + 1]]
  ELSE IF s.act = "reset" THEN [act |-> "run", p |-> [s.p EXCEPT !.index[d] = 0]]
  ELSE s

\* One round of that loop: r is what the rounds before it came to.
Round(Step(_, _, _), d, r) ==
  LET p == r.p
  IN  IF r.act # "run" THEN r
      ELSE IF p.index[d] >= Len(p.steps[d]) THEN [act |-> "end", p |-> p]
      ELSE Follow(d, Step(d, p.steps[d][p.index[d] + 1], p))

\* More rounds than there are: a step that appends others, or begins again, has
\* taken bytes, and so does the next.
Rounds(d, p) == Len(p.steps[d]) + Len(p.buf[d]) + 1

\* LinearStateMachine.Run: until a step pauses or cancels, or none is left.
RunSteps(Step(_, _, _), d, p) ==
  LET after[k \in 0..Rounds(d, p)] ==
        IF k = 0 THEN [act |-> "run", p |-> p] ELSE Round(Step, d, after[k - 1])
  IN  after[Rounds(d, p)]

\* What the Feed that parsers share answers after a run of the steps: the parser,
\* whether it reports its map, and whether it is done with the stream.
Tell(d, r) ==
  LET q == [r.p EXCEPT !.done[d] = r.act # "pause", !.updated[d] = FALSE]
  IN  [p |-> q, updated |-> r.p.updated[d],
       done |-> r.act = "cancel" \/ \A e \in Dirs : q.done[e]]

\* That Feed, of a chunk without a gap before it.
FeedSteps(Step(_, _, _), d, p, data) ==
  IF data = <<>> THEN [p |-> p, updated |-> FALSE, done |-> FALSE]
  ELSE Tell(d, RunSteps(Step, d, [p EXCEPT !.buf[d] = @ \o data, !.updated[d] = FALSE]))
=============================================================================
