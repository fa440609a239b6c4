------------------------------- MODULE Trojan -------------------------------
(***************************************************************************)
(* The Trojan analyzer (analyzer/tcp/trojan.go): the lengths of the first  *)
(* four turns of a TLS connection after the client's change of ciphers.    *)
(*                                                                         *)
(* A chunk is a record: its length, whether it begins as a TLS record of a *)
(* client does, whether it begins with a change of ciphers, and whether    *)
(* data are missing before it.                                             *)
(***************************************************************************)
EXTENDS Integers, Sequences, FiniteSets

CONSTANTS
  Chunks,         \* the chunks either side may send
  IsTrojanSeq(_), \* what the decision tree says of four lengths
  MaxFed          \* bound on the number of chunks

ChunksOf(d) == Chunks

\* What theorems take for granted of the constants.
TrojanAssumption ==
  Chunks \subseteq [len : Nat, tls : BOOLEAN, ccs : BOOLEAN, skip : BOOLEAN]

newTrojanStream ==
  [first |-> FALSE, count |-> FALSE, rev |-> "req", seq |-> <<0, 0, 0, 0>>, seqIndex |-> 0]

Answer(p, update, done) == [p |-> p, update |-> update, done |-> done]
Silent == [type |-> "none", m |-> <<>>]

\* The first chunk may show that this is no TLS connection.
notTLS(d, p, c) == p.first /\ ~(d = "req" /\ c.tls)

\* The client changes ciphers: counting starts.
startCounting(d, p, c) ==
  [p EXCEPT !.first = FALSE, !.count = @ \/ (d = "req" /\ c.ccs)]

\* Faulty: a turn keeps the direction it had.
turnKept(d, p) == [p EXCEPT !.seqIndex = @ + 1]

\* The other direction than the last time: the next turn.
turn(d, p) == [p EXCEPT !.seqIndex = @ + 1, !.rev = d]

FeedTrojan(d, p, c) ==
  LET q == startCounting(d, p, c)
      t == turn(d, q)
  IN  IF c.skip THEN Answer(p, Silent, TRUE)
      ELSE IF c.len = 0 THEN Answer(p, Silent, FALSE)
      ELSE IF notTLS(d, p, c) THEN Answer([p EXCEPT !.first = FALSE], Silent, TRUE)
      ELSE IF ~q.count THEN Answer(q, Silent, FALSE)
      ELSE IF d = q.rev THEN Answer([q EXCEPT !.seq[q.seqIndex + 1] = @ + c.len], Silent, FALSE)
      ELSE IF t.seqIndex = 4
           THEN Answer([q EXCEPT !.seqIndex = 4],
                       [type |-> "replace", m |-> [seq |-> q.seq, yes |-> IsTrojanSeq(q.seq)]],
                       TRUE)
      ELSE Answer([t EXCEPT !.seq[t.seqIndex + 1] = @ + c.len], Silent, FALSE)

VARIABLES parser, fed, shown, finished

Stream == INSTANCE DatagramParser
            WITH FeedData <- FeedTrojan, Fresh <- newTrojanStream, Data <- ChunksOf

Spec == Stream!Spec
-----------------------------------------------------------------------------
\* The chunks with data in them from the first on that changes ciphers.
Counted ==
  {i \in 1..Len(fed) :
     /\ fed[i].data.len > 0 /\ ~fed[i].data.skip
     /\ \E j \in 1..i : fed[j].dir = "req" /\ fed[j].data.ccs /\ fed[j].data.len > 0}

\* How often the direction changed between the first of them and i.
TurnOf(i) ==
  1 + Cardinality({j \in Counted : j <= i /\ \E k \in Counted :
        /\ k < j /\ fed[k].dir # fed[j].dir
        /\ ~\E l \in Counted : k < l /\ l < j})

\* The sum of a sequence of numbers.
Total(s) ==
  LET upto[i \in 0..Len(s)] == IF i = 0 THEN 0 ELSE upto[i - 1] + s[i]
  IN  upto[Len(s)]

\* What each chunk adds to turn n, and how much was sent in it.
Parts(n) ==
  [i \in 1..Len(fed) |-> IF i \in Counted /\ TurnOf(i) = n THEN fed[i].data.len ELSE 0]
Turn(n) == Total(Parts(n))

\* However the turns are cut into chunks, the verdict is given on their whole
\* lengths, when the fifth begins and not before, and it is all that is ever
\* reported; only a gap ends the inspection without one.
JudgesWholeTurns ==
  LET lengths == <<Turn(1), Turn(2), Turn(3), Turn(4)>>
      judged  == \E i \in Counted : TurnOf(i) = 5
  IN  /\ shown = IF judged THEN [seq |-> lengths, yes |-> IsTrojanSeq(lengths)] ELSE <<>>
      /\ finished <=> judged \/ \E i \in 1..Len(fed) : fed[i].data.skip

\* "Stop if it's not a valid TLS connection" (trojan.go:58): once the first
\* data have come, and they are not a client's TLS record, the analyzer is done.
StopsIfNotTLS ==
  LET data == {i \in 1..Len(fed) : fed[i].data.len > 0}
  IN  data # {} =>
        LET i == CHOOSE i \in data : \A j \in data : i <= j
        IN  finished \/ (fed[i].dir = "req" /\ fed[i].data.tls)
=============================================================================
