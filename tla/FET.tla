-------------------------------- MODULE FET ---------------------------------
(***************************************************************************)
(* The analyzer of fully encrypted traffic (analyzer/tcp/fet.go): five     *)
(* measures of the first chunk with data in it, whichever side sent it.    *)
(*                                                                         *)
(* A chunk is its bytes and whether data are missing before it.  Averages  *)
(* are compared as fractions: the code divides with 24 bits, and no chunk  *)
(* within the limit of 8192 bytes is so near to 3.4, 4.6 or 0.5 without    *)
(* being equal to it that the quotient would be rounded to it.             *)
(***************************************************************************)
EXTENDS Integers, Sequences, FiniteSets

CONSTANTS
  Chunks,  \* the chunks either side may send
  MaxFed   \* bound on their number

ChunksOf(d) == Chunks

\* What theorems take for granted of the constants.
FETAssumption == Chunks \subseteq [skip : BOOLEAN, bytes : Seq(0..255)]

\* The ones in a byte.
popCount[b \in 0..255] == IF b = 0 THEN 0 ELSE (b % 2) + popCount[b \div 2]

\* Their number in all bytes.
totalPopCount(bytes) ==
  LET ones[i \in 0..Len(bytes)] == IF i = 0 THEN 0 ELSE ones[i - 1] + popCount[bytes[i]]
  IN  ones[Len(bytes)]

\* ex1: between 3.4 and 4.6 in a byte on the average, as in random data.
looksRandom(bytes) ==
  /\ 10 * totalPopCount(bytes) > 34 * Len(bytes)
  /\ 10 * totalPopCount(bytes) < 46 * Len(bytes)

isPrintable(b) == 32 <= b /\ b <= 126

\* ex2
isFirstSixPrintable(bytes) == Len(bytes) >= 6 /\ \A i \in 1..6 : isPrintable(bytes[i])

\* ex3
mostlyPrintable(bytes) ==
  2 * Cardinality({i \in 1..Len(bytes) : isPrintable(bytes[i])}) > Len(bytes)

\* The loop of ex4: the run that ends with the last of bytes, and the longest of
\* those that a byte has ended.
Scan(bytes) ==
  LET scan[i \in 0..Len(bytes)] ==
        IF i = 0 THEN [current |-> 0, maxCount |-> 0]
        ELSE LET s == scan[i - 1]
             IN  IF isPrintable(bytes[i]) THEN [s EXCEPT !.current = @ + 1]
                 ELSE [current |-> 0,
                       maxCount |-> IF s.current > s.maxCount THEN s.current ELSE s.maxCount]
  IN  scan[Len(bytes)]

\* Faulty: a run that ends with the chunk is not looked at.
endedPrintable(bytes) == Scan(bytes).maxCount

\* ex4
contiguousPrintable(bytes) ==
  LET s == Scan(bytes)
  IN  IF s.current > s.maxCount THEN s.current ELSE s.maxCount

\* GET, HEA, POS, PUT, DEL, CON, OPT, TRA, PAT.
Methods ==
  {<<71, 69, 84>>, <<72, 69, 65>>, <<80, 79, 83>>, <<80, 85, 84>>, <<68, 69, 76>>,
   <<67, 79, 78>>, <<79, 80, 84>>, <<84, 82, 65>>, <<80, 65, 84>>}

\* ex5
isTLSorHTTP(bytes) ==
  /\ Len(bytes) >= 3
  /\ \/ bytes[1] \in 22..23 /\ bytes[2] = 3 /\ bytes[3] <= 9
     \/ SubSeq(bytes, 1, 3) \in Methods

exempt(bytes) ==
  \/ ~looksRandom(bytes)
  \/ isFirstSixPrintable(bytes)
  \/ mostlyPrintable(bytes)
  \/ contiguousPrintable(bytes) > 20
  \/ isTLSorHTTP(bytes)

Answer(type, m, done) == [p |-> <<>>, update |-> [type |-> type, m |-> m], done |-> done]

FeedFET(d, p, chunk) ==
  IF chunk.skip THEN Answer("none", <<>>, TRUE)
  ELSE IF chunk.bytes = <<>> THEN Answer("none", <<>>, FALSE)
  ELSE Answer("replace", [yes |-> ~exempt(chunk.bytes)], TRUE)

VARIABLES parser, fed, shown, finished

Stream == INSTANCE DatagramParser
            WITH FeedData <- FeedFET, Fresh <- <<>>, Data <- ChunksOf

Spec == Stream!Spec
-----------------------------------------------------------------------------
\* A part of the chunk is printable throughout.
Printable(bytes, i, j) == \A k \in i..j : isPrintable(bytes[k])

\* Fully encrypted, by the paper the code cites: no run of more than 20
\* printable bytes anywhere, also at the very end, not six of them at the
\* beginning, no more than half of all, and the ones and zeros in balance.
Encrypted(bytes) ==
  LET n    == Len(bytes)
      ones == Cardinality({x \in (1..n) \X (0..7) : (bytes[x[1]] \div 2 ^ x[2]) % 2 = 1})
  IN  /\ \A i \in 1..(n - 20) : ~Printable(bytes, i, i + 20)
      /\ n >= 6 => ~Printable(bytes, 1, 6)
      /\ Cardinality({i \in 1..n : isPrintable(bytes[i])}) <= n \div 2
      /\ 17 * n < 5 * ones /\ 5 * ones < 23 * n
      /\ ~isTLSorHTTP(bytes)

\* The first chunk with data decides, by the paper, however often empty ones
\* come before it; nothing is said before that, nor behind a gap.
JudgesFirstChunk ==
  LET judged == {i \in 1..Len(fed) : fed[i].data.bytes # <<>> /\ ~fed[i].data.skip}
      gap    == \E i \in 1..Len(fed) : fed[i].data.skip
  IN  /\ finished <=> gap \/ judged # {}
      /\ shown = IF judged = {} THEN <<>>
                 ELSE [yes |-> Encrypted(fed[CHOOSE i \in judged : TRUE].data.bytes)]
=============================================================================
