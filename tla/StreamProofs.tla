---------------------------- MODULE StreamProofs ----------------------------
(***************************************************************************)
(* Theorems about StreamParsers, for all constants that are as             *)
(* StreamAssumption says: any conversations, of any length, cut anywhere,  *)
(* any limits.                                                             *)
(*                                                                         *)
(* The invariant of an analyzer says what of the bytes given so far it has *)
(* taken, and that its buffer has the rest.  Where messages begin and how  *)
(* often a machine takes a step are recursive functions; what they are is  *)
(* proved by induction, which is stated with sets, by NatInduct.           *)
(***************************************************************************)
EXTENDS StreamParsers, SequenceTheorems, NaturalsInduction, WellFoundedInduction, TLAPS

\* A set with 0 and the successors of its members has all natural numbers.
LEMMA NatInduct ==
  ASSUME NEW T, 0 \in T, \A n \in Nat : n \in T => n + 1 \in T
  PROVE  Nat \subseteq T
<1> DEFINE R == OpToRel(<, Nat)
           D == Nat \ T
<1>1. SUFFICES ASSUME D # {} PROVE FALSE
  OBVIOUS
<1>2. IsWellFoundedOn(R, Nat)
  BY NatLessThanWellFounded
<1>3. PICK x \in D : \A y \in D : <<y, x>> \notin R
  <2> HIDE DEF R
  <2> QED BY <1>1, <1>2, WFMin, Zenon
<1>4. x - 1 \in Nat /\ x \in Nat /\ x # 0 /\ x - 1 < x /\ (x - 1) + 1 = x
  OBVIOUS
<1>5. <<x - 1, x>> \in R
  BY <1>4 DEF OpToRel
<1>6. x - 1 \in T
  BY <1>3, <1>4, <1>5
<1> QED
  BY <1>4, <1>6

\* f iterates F from z on, for n rounds.
Iterates(f, n, z, F) == f[0] = z /\ \A i \in 1..n : f[i] = F[f[i - 1]]

LEMMA IteratesUpto ==
  ASSUME NEW n \in Nat, NEW S, NEW z \in S, NEW F \in [S -> S]
  PROVE  \E f \in [0..n -> S] : Iterates(f, n, z, F)
<1> DEFINE T == {m \in Nat : \E f \in [0..m -> S] : Iterates(f, m, z, F)}
<1>1. 0 \in T
  <2>1. Iterates([i \in 0..0 |-> z], 0, z, F) /\ [i \in 0..0 |-> z] \in [0..0 -> S]
    BY DEF Iterates
  <2> QED
    BY <2>1
<1>2. ASSUME NEW m \in Nat, m \in T PROVE m + 1 \in T
  <2>1. PICK f \in [0..m -> S] : Iterates(f, m, z, F)
    BY <1>2
  <2> DEFINE v == F[f[m]]
             g == [i \in 0..(m + 1) |-> IF i = m + 1 THEN v ELSE f[i]]
  <2>2. v \in S
    OBVIOUS
  <2>3. g \in [0..(m + 1) -> S]
    <3>1. \A i \in 0..(m + 1) : i # m + 1 => i \in 0..m
      OBVIOUS
    <3> HIDE DEF v
    <3> QED
      BY <2>1, <2>2, <3>1
  <2>4. g[0] = z
    BY <2>1 DEF Iterates
  <2>5. ASSUME NEW i \in 1..(m + 1) PROVE g[i] = F[g[i - 1]]
    <3>1. i - 1 \in 0..m /\ i - 1 \in 0..(m + 1) /\ i - 1 # m + 1 /\ i \in 0..(m + 1)
      OBVIOUS
    <3>2. g[i - 1] = f[i - 1]
      BY <3>1
    <3>3. CASE i = m + 1
      <4>1. i - 1 = m
        BY <3>3
      <4> QED
        BY <3>1, <3>2, <3>3, <4>1
    <3>4. CASE i # m + 1
      <4>1. i \in 1..m
        BY <3>4
      <4>2. g[i] = f[i] /\ f[i] = F[f[i - 1]]
        BY <2>1, <3>1, <3>4, <4>1 DEF Iterates
      <4> QED
        BY <3>2, <4>2
    <3> QED
      BY <3>3, <3>4
  <2> HIDE DEF g
  <2>6. Iterates(g, m + 1, z, F)
    BY <2>4, <2>5 DEF Iterates
  <2> QED
    BY <2>3, <2>6
<1>3. n \in T
  <2> HIDE DEF T
  <2> QED
    BY <1>1, <1>2, NatInduct
<1> QED
  BY <1>3

\* Functions that iterate the same agree as far as both go.
LEMMA IteratesAgree ==
  ASSUME NEW m \in Nat, NEW n \in Nat, NEW z, NEW F, NEW f, NEW g,
         Iterates(f, m, z, F), Iterates(g, n, z, F), m <= n
  PROVE  f[m] = g[m]
<1> DEFINE T == {k \in Nat : k <= m => f[k] = g[k]}
<1>1. 0 \in T
  BY DEF Iterates
<1>2. ASSUME NEW k \in Nat, k \in T PROVE k + 1 \in T
  <2> SUFFICES ASSUME k + 1 <= m PROVE f[k + 1] = g[k + 1]
    OBVIOUS
  <2>1. f[k] = g[k] /\ k + 1 \in 1..m /\ k + 1 \in 1..n /\ (k + 1) - 1 = k
    BY <1>2
  <2> QED
    BY <2>1 DEF Iterates
<1>3. m \in T
  <2> HIDE DEF T
  <2> QED
    BY <1>1, <1>2, NatInduct
<1> QED
  BY <1>3

\* One goes on for ever.
GoesOn(f, z, F) == f[0] = z /\ \A n \in Nat : f[n + 1] = F[f[n]]

LEMMA IteratesForEver ==
  ASSUME NEW S, NEW z \in S, NEW F \in [S -> S]
  PROVE  \E f \in [Nat -> S] : GoesOn(f, z, F)
<1> DEFINE g(n) == CHOOSE f \in [0..n -> S] : Iterates(f, n, z, F)
           h == [n \in Nat |-> g(n)[n]]
<1>1. ASSUME NEW n \in Nat PROVE g(n) \in [0..n -> S] /\ Iterates(g(n), n, z, F)
  BY IteratesUpto
<1> HIDE DEF g
<1>2. ASSUME NEW n \in Nat PROVE h[n] \in S
  BY <1>1
<1>3. h[0] = z
  BY <1>1 DEF Iterates
<1>5. ASSUME NEW n \in Nat PROVE h[n + 1] = F[h[n]]
  <2>1. n + 1 \in Nat /\ n + 1 \in 1..(n + 1) /\ n <= n + 1 /\ (n + 1) - 1 = n
    OBVIOUS
  <2>2. Iterates(g(n + 1), n + 1, z, F) /\ Iterates(g(n), n, z, F)
    BY <1>1, <2>1
  <2>3. g(n + 1)[n + 1] = F[g(n + 1)[n]]
    BY <2>1, <2>2 DEF Iterates
  <2>4. g(n)[n] = g(n + 1)[n]
    BY <2>1, <2>2, IteratesAgree
  <2> QED
    BY <2>1, <2>3, <2>4
<1>4. h \in [Nat -> S]
  BY <1>2
<1> HIDE DEF h
<1>6. GoesOn(h, z, F)
  BY <1>3, <1>5 DEF GoesOn
<1> QED
  BY <1>4, <1>6

-----------------------------------------------------------------------------
(* Parts of sequences. *)

Behind(s, e) == SubSeq(s, e + 1, Len(s))

LEMMA Part ==
  ASSUME NEW S, NEW s \in Seq(S), NEW m \in Nat, NEW n \in Nat, m + 1 >= 1, n <= Len(s), m <= n
  PROVE  /\ SubSeq(s, m + 1, n) \in Seq(S) /\ Len(SubSeq(s, m + 1, n)) = n - m
         /\ \A i \in 1..(n - m) : SubSeq(s, m + 1, n)[i] = s[m + i]
<1>1. \A i \in (m + 1)..n : s[i] \in S
  BY ElementOfSeq, LenProperties
<1>2. /\ SubSeq(s, m + 1, n) \in Seq(S)
      /\ Len(SubSeq(s, m + 1, n)) = IF m + 1 <= n THEN n - (m + 1) + 1 ELSE 0
      /\ \A i \in 1..(n - (m + 1) + 1) : SubSeq(s, m + 1, n)[i] = s[(m + 1) + i - 1]
  BY <1>1, SubSeqProperties
<1>3. \A i \in 1..(n - m) : i \in 1..(n - (m + 1) + 1) /\ (m + 1) + i - 1 = m + i
  OBVIOUS
<1> QED
  BY <1>2, <1>3

LEMMA Rest ==
  ASSUME NEW S, NEW s \in Seq(S), NEW e \in 0..Len(s)
  PROVE  /\ Behind(s, e) \in Seq(S) /\ Len(Behind(s, e)) = Len(s) - e
         /\ \A i \in 1..(Len(s) - e) : Behind(s, e)[i] = s[e + i]
  BY Part, LenProperties DEF Behind

LEMMA RestOfRest ==
  ASSUME NEW S, NEW s \in Seq(S), NEW e \in 0..Len(s), NEW n \in 0..(Len(s) - e)
  PROVE  Behind(Behind(s, e), n) = Behind(s, e + n)
<1> DEFINE t == Behind(s, e)
<1>1. Len(s) \in Nat /\ e + n \in 0..Len(s)
  BY LenProperties
<1>2. t \in Seq(S) /\ Len(t) = Len(s) - e /\ \A i \in 1..(Len(s) - e) : t[i] = s[e + i]
  BY Rest
<1> HIDE DEF t
<1>3. /\ Behind(t, n) \in Seq(S) /\ Len(Behind(t, n)) = Len(t) - n
      /\ \A i \in 1..(Len(t) - n) : Behind(t, n)[i] = t[n + i]
  <2>1. n \in 0..Len(t) /\ t \in Seq(S)
    BY <1>2
  <2> QED
    BY <2>1, Rest
<1>4. /\ Behind(s, e + n) \in Seq(S) /\ Len(Behind(s, e + n)) = Len(s) - (e + n)
      /\ \A i \in 1..(Len(s) - (e + n)) : Behind(s, e + n)[i] = s[(e + n) + i]
  BY <1>1, Rest
<1>5. \A i \in 1..Len(Behind(t, n)) : Behind(t, n)[i] = Behind(s, e + n)[i]
  <2> TAKE i \in 1..Len(Behind(t, n))
  <2>1. i \in 1..(Len(t) - n) /\ n + i \in 1..(Len(s) - e) /\ i \in 1..(Len(s) - (e + n)) /\ e + (n + i) = (e + n) + i
    BY <1>1, <1>2, <1>3
  <2> QED
    BY <1>2, <1>3, <1>4, <2>1
<1>6. Len(Behind(t, n)) = Len(Behind(s, e + n))
  <2>1. (Len(s) - e) - n = Len(s) - (e + n)
    BY <1>1
  <2> QED
    BY <1>2, <1>3, <1>4, <2>1
<1>7. Behind(t, n) = Behind(s, e + n)
  BY <1>3, <1>4, <1>5, <1>6, SeqEqual
<1> QED
  BY <1>7 DEF t

LEMMA RestGrows ==
  ASSUME NEW S, NEW s \in Seq(S), NEW t \in Seq(S), NEW e \in 0..Len(s)
  PROVE  Behind(s, e) \o t = Behind(s \o t, e)
<1> DEFINE u == s \o t
           b == Behind(s, e)
<1>1. Len(s) \in Nat /\ Len(t) \in Nat
  BY LenProperties
<1>2. /\ u \in Seq(S) /\ Len(u) = Len(s) + Len(t)
      /\ \A i \in 1..(Len(s) + Len(t)) : u[i] = IF i <= Len(s) THEN s[i] ELSE t[i - Len(s)]
  BY ConcatProperties
<1>3. b \in Seq(S) /\ Len(b) = Len(s) - e /\ \A i \in 1..(Len(s) - e) : b[i] = s[e + i]
  BY Rest
<1> HIDE DEF u, b
<1>4. /\ b \o t \in Seq(S) /\ Len(b \o t) = Len(b) + Len(t)
      /\ \A i \in 1..(Len(b) + Len(t)) : (b \o t)[i] = IF i <= Len(b) THEN b[i] ELSE t[i - Len(b)]
  BY <1>3, ConcatProperties
<1>5. /\ Behind(u, e) \in Seq(S) /\ Len(Behind(u, e)) = Len(u) - e
      /\ \A i \in 1..(Len(u) - e) : Behind(u, e)[i] = u[e + i]
  <2>1. e \in 0..Len(u)
    BY <1>1, <1>2
  <2> QED
    BY <1>2, <2>1, Rest
<1>6. \A i \in 1..Len(b \o t) : (b \o t)[i] = Behind(u, e)[i]
  <2> TAKE i \in 1..Len(b \o t)
  <2>1. i \in 1..(Len(b) + Len(t)) /\ i \in 1..(Len(u) - e) /\ e + i \in 1..(Len(s) + Len(t))
    BY <1>1, <1>2, <1>3, <1>4
  <2>2. CASE i <= Len(b)
    BY <1>1, <1>2, <1>3, <1>4, <1>5, <2>1, <2>2
  <2>3. CASE ~(i <= Len(b))
    <3>1. ~(e + i <= Len(s)) /\ (e + i) - Len(s) = i - Len(b)
      BY <1>1, <1>3, <2>1, <2>3
    <3> QED
      BY <1>2, <1>4, <1>5, <2>1, <2>3, <3>1
  <2> QED
    BY <2>2, <2>3
<1>7. Len(b \o t) = Len(Behind(u, e))
  BY <1>1, <1>2, <1>3, <1>4, <1>5
<1>8. b \o t = Behind(u, e)
  BY <1>4, <1>5, <1>6, <1>7, SeqEqual
<1> QED
  BY <1>8 DEF b, u

LEMMA PartStays ==
  ASSUME NEW S, NEW s \in Seq(S), NEW t \in Seq(S), NEW m \in Nat, NEW n \in Nat, m <= n, n <= Len(s)
  PROVE  SubSeq(s \o t, m + 1, n) = SubSeq(s, m + 1, n)
<1> DEFINE u == s \o t
           x == SubSeq(u, m + 1, n)
           y == SubSeq(s, m + 1, n)
<1>1. Len(s) \in Nat /\ Len(t) \in Nat
  BY LenProperties
<1>2. /\ u \in Seq(S) /\ Len(u) = Len(s) + Len(t)
      /\ \A i \in 1..(Len(s) + Len(t)) : u[i] = IF i <= Len(s) THEN s[i] ELSE t[i - Len(s)]
  BY ConcatProperties
<1> HIDE DEF u
<1>3. m + 1 >= 1 /\ n <= Len(u)
  BY <1>1, <1>2
<1>4. x \in Seq(S) /\ Len(x) = n - m /\ \A i \in 1..(n - m) : x[i] = u[m + i]
  BY <1>2, <1>3, Part
<1>5. y \in Seq(S) /\ Len(y) = n - m /\ \A i \in 1..(n - m) : y[i] = s[m + i]
  BY <1>3, Part
<1> HIDE DEF x, y
<1>6. \A i \in 1..(n - m) : m + i \in 1..(Len(s) + Len(t)) /\ m + i <= Len(s)
  BY <1>1
<1>7. \A i \in 1..Len(x) : x[i] = y[i]
  BY <1>2, <1>4, <1>5, <1>6
<1>8. x = y
  BY <1>4, <1>5, <1>7, SeqEqual
<1> QED
  BY <1>8 DEF x, y, u

\* What is given and the next chunk of it.
LEMMA NextChunk ==
  ASSUME NEW S, NEW s \in Seq(S), NEW p \in 0..Len(s), NEW n \in 0..(Len(s) - p)
  PROVE  /\ SubSeq(s, 1, p) \in Seq(S) /\ Len(SubSeq(s, 1, p)) = p
         /\ SubSeq(s, p + 1, p + n) \in Seq(S) /\ Len(SubSeq(s, p + 1, p + n)) = n
         /\ SubSeq(s, 1, p + n) = SubSeq(s, 1, p) \o SubSeq(s, p + 1, p + n)
<1>1. Len(s) \in Nat /\ p + n \in p..Len(s) /\ p + n \in Nat /\ p + n <= Len(s)
  BY LenProperties
<1>2. SubSeq(s, 1, p) \in Seq(S) /\ Len(SubSeq(s, 1, p)) = p
  <2>1. SubSeq(s, 0 + 1, p) \in Seq(S) /\ Len(SubSeq(s, 0 + 1, p)) = p - 0
    BY <1>1, Part
  <2> QED
    BY <2>1
<1>3. SubSeq(s, p + 1, p + n) \in Seq(S) /\ Len(SubSeq(s, p + 1, p + n)) = (p + n) - p
  BY <1>1, Part
<1>4. SubSeq(s, 1, p) \o SubSeq(s, p + 1, p + n) = SubSeq(s, 1, p + n)
  <2>1. 1 \in 1..(Len(s) + 1) /\ p \in (1 - 1)..Len(s)
    BY <1>1
  <2> QED
    BY <1>1, <2>1, ConcatAdjacentSubSeq
<1> QED
  BY <1>1, <1>2, <1>3, <1>4

LEMMA FirstPart ==
  ASSUME NEW S, NEW s \in Seq(S), NEW p \in 0..Len(s)
  PROVE  SubSeq(s, 1, p) \in Seq(S) /\ Len(SubSeq(s, 1, p)) = p
<1>1. 0 \in 0..(Len(s) - p)
  BY LenProperties
<1> QED
  BY <1>1, NextChunk

LEMMA ChunkJoins ==
  ASSUME NEW S, NEW s \in Seq(S), NEW p \in 0..Len(s), NEW n \in 0..(Len(s) - p)
  PROVE  SubSeq(s, 1, p + n) = SubSeq(s, 1, p) \o SubSeq(s, p + 1, p + n)
BY NextChunk

-----------------------------------------------------------------------------
(* Messages with their length before them. *)

Bytes == Seq(0..255)

NextEnd(bytes, i) == i + 2 + 256 * bytes[i + 1] + bytes[i + 2]
IsWhole(bytes, i) == i + 2 <= Len(bytes) /\ NextEnd(bytes, i) <= Len(bytes)

\* f has the ends of the messages.
Unfolds(f, bytes) ==
  \A n \in Nat : f[n] = IF n = 0 THEN 0
                        ELSE IF IsWhole(bytes, f[n - 1]) THEN NextEnd(bytes, f[n - 1])
                        ELSE f[n - 1]

IsEnds(f, bytes) == f \in [Nat -> 0..Len(bytes)] /\ Unfolds(f, bytes)

\* What is behind i bytes, when it is whole.
LEMMA NextEndIn ==
  ASSUME NEW bytes \in Bytes, NEW i \in 0..Len(bytes), i + 2 <= Len(bytes)
  PROVE  NextEnd(bytes, i) \in Nat /\ NextEnd(bytes, i) >= i + 2 /\ Len(bytes) \in Nat
         /\ bytes[i + 1] \in 0..255 /\ bytes[i + 2] \in 0..255
<1>1. Len(bytes) \in Nat /\ i + 1 \in 1..Len(bytes) /\ i + 2 \in 1..Len(bytes)
  BY LenProperties DEF Bytes
<1>2. bytes[i + 1] \in 0..255 /\ bytes[i + 2] \in 0..255
  BY <1>1, ElementOfSeq DEF Bytes
<1>3. PICK a \in 0..255, b \in 0..255 : a = bytes[i + 1] /\ b = bytes[i + 2]
  BY <1>2
<1>4. NextEnd(bytes, i) = i + 2 + 256 * a + b
  BY <1>3 DEF NextEnd
<1>5. i + 2 + 256 * a + b \in Nat /\ i + 2 + 256 * a + b >= i + 2
  BY <1>1
<1> QED
  BY <1>1, <1>2, <1>4, <1>5

LEMMA EndsExist == ASSUME NEW bytes \in Bytes PROVE \E f : IsEnds(f, bytes)
<1> DEFINE S == 0..Len(bytes)
           F == [i \in S |-> IF IsWhole(bytes, i) THEN NextEnd(bytes, i) ELSE i]
<1>1. Len(bytes) \in Nat /\ 0 \in S
  BY LenProperties DEF Bytes
<1>2. F \in [S -> S]
  <2> SUFFICES ASSUME NEW i \in S PROVE F[i] \in S
    OBVIOUS
  <2>1. CASE IsWhole(bytes, i)
    <3>1. NextEnd(bytes, i) \in S
      BY <1>1, <2>1, NextEndIn DEF IsWhole
    <3> QED
      BY <2>1, <3>1
  <2>2. CASE ~IsWhole(bytes, i)
    BY <2>2
  <2> QED
    BY <2>1, <2>2
<1>3. PICK f \in [Nat -> S] : GoesOn(f, 0, F)
  <2> HIDE DEF F, S
  <2>1. 0 \in S /\ F \in [S -> S]
    BY <1>1, <1>2
  <2> QED
    BY <2>1, IteratesForEver
<1>4. ASSUME NEW n \in Nat
      PROVE  f[n] = IF n = 0 THEN 0
                    ELSE IF IsWhole(bytes, f[n - 1]) THEN NextEnd(bytes, f[n - 1])
                    ELSE f[n - 1]
  <2>1. CASE n = 0
    BY <1>3, <2>1 DEF GoesOn
  <2>2. CASE n # 0
    <3>1. n - 1 \in Nat
      BY <2>2
    <3>2. f[n - 1] \in S /\ f[n] = F[f[n - 1]]
      <4>1. (n - 1) + 1 = n
        OBVIOUS
      <4> QED
        BY <1>3, <3>1, <4>1 DEF GoesOn
    <3> QED
      BY <2>2, <3>2
  <2> QED
    BY <2>1, <2>2
<1>5. IsEnds(f, bytes)
  BY <1>3, <1>4 DEF IsEnds, Unfolds
<1> QED
  BY <1>5

\* There is one such function.
LEMMA EndsUnique ==
  ASSUME NEW bytes, NEW f, NEW g, Unfolds(f, bytes), Unfolds(g, bytes)
  PROVE  \A n \in Nat : f[n] = g[n]
<1> DEFINE T == {n \in Nat : f[n] = g[n]}
<1>1. 0 \in T
  BY DEF Unfolds
<1>2. ASSUME NEW n \in Nat, n \in T PROVE n + 1 \in T
  <2>1. n + 1 \in Nat /\ n + 1 # 0 /\ (n + 1) - 1 = n /\ f[n] = g[n]
    BY <1>2
  <2>2. /\ f[n + 1] = IF IsWhole(bytes, f[n]) THEN NextEnd(bytes, f[n]) ELSE f[n]
        /\ g[n + 1] = IF IsWhole(bytes, g[n]) THEN NextEnd(bytes, g[n]) ELSE g[n]
    BY <2>1 DEF Unfolds
  <2> QED
    BY <2>1, <2>2
<1>3. Nat \subseteq T
  <2> HIDE DEF T
  <2> QED
    BY <1>1, <1>2, NatInduct
<1> QED
  BY <1>3

\* Ends of both analyzers.
LEMMA OpenVPNEnds == ASSUME NEW bytes \in Bytes PROVE IsEnds(OpenVPN!Stream!Ends(bytes), bytes)
<1> DEFINE Def(end) == [n \in Nat |->
             IF n = 0 THEN 0
             ELSE IF OpenVPN!Stream!WholeBehind(bytes, end[n - 1])
                  THEN OpenVPN!Stream!EndBehind(bytes, end[n - 1])
             ELSE end[n - 1]]
           f == CHOOSE end : end = Def(end)
<1>1. f = OpenVPN!Stream!Ends(bytes)
  BY DEF OpenVPN!Stream!Ends
<1>2. \A i : /\ OpenVPN!Stream!WholeBehind(bytes, i) <=> IsWhole(bytes, i)
             /\ OpenVPN!Stream!EndBehind(bytes, i) = NextEnd(bytes, i)
  BY DEF OpenVPN!Stream!WholeBehind, OpenVPN!Stream!EndBehind, IsWhole, NextEnd
<1>3. PICK g : IsEnds(g, bytes)
  BY EndsExist
<1>4. g = Def(g)
  BY <1>2, <1>3 DEF IsEnds, Unfolds
<1>5. f = Def(f)
  <2> HIDE DEF Def
  <2> QED
    BY <1>4
<1> HIDE DEF f
<1>6. Unfolds(f, bytes)
  BY <1>2, <1>5 DEF Unfolds
<1>7. f = [n \in Nat |-> f[n]]
  <2>1. \A h : Def(h) = [n \in Nat |-> Def(h)[n]]
    OBVIOUS
  <2> HIDE DEF Def
  <2> QED
    BY <1>5, <2>1
<1>8. \A n \in Nat : f[n] = g[n]
  BY <1>3, <1>6, EndsUnique DEF IsEnds
<1>9. f \in [Nat -> 0..Len(bytes)]
  BY <1>3, <1>7, <1>8 DEF IsEnds
<1> QED
  BY <1>1, <1>6, <1>9 DEF IsEnds

LEMMA DNSEnds == ASSUME NEW bytes \in Bytes PROVE IsEnds(DNS!Stream!Ends(bytes), bytes)
<1> DEFINE Def(end) == [n \in Nat |->
             IF n = 0 THEN 0
             ELSE IF DNS!Stream!WholeBehind(bytes, end[n - 1])
                  THEN DNS!Stream!EndBehind(bytes, end[n - 1])
             ELSE end[n - 1]]
           f == CHOOSE end : end = Def(end)
<1>1. f = DNS!Stream!Ends(bytes)
  BY DEF DNS!Stream!Ends
<1>2. \A i : /\ DNS!Stream!WholeBehind(bytes, i) <=> IsWhole(bytes, i)
             /\ DNS!Stream!EndBehind(bytes, i) = NextEnd(bytes, i)
  BY DEF DNS!Stream!WholeBehind, DNS!Stream!EndBehind, IsWhole, NextEnd
<1>3. PICK g : IsEnds(g, bytes)
  BY EndsExist
<1>4. g = Def(g)
  BY <1>2, <1>3 DEF IsEnds, Unfolds
<1>5. f = Def(f)
  <2> HIDE DEF Def
  <2> QED
    BY <1>4
<1> HIDE DEF f
<1>6. Unfolds(f, bytes)
  BY <1>2, <1>5 DEF Unfolds
<1>7. f = [n \in Nat |-> f[n]]
  <2>1. \A h : Def(h) = [n \in Nat |-> Def(h)[n]]
    OBVIOUS
  <2> HIDE DEF Def
  <2> QED
    BY <1>5, <2>1
<1>8. \A n \in Nat : f[n] = g[n]
  BY <1>3, <1>6, EndsUnique DEF IsEnds
<1>9. f \in [Nat -> 0..Len(bytes)]
  BY <1>3, <1>7, <1>8 DEF IsEnds
<1> QED
  BY <1>1, <1>6, <1>9 DEF IsEnds

\* Messages that have come stay where they are.
LEMMA EndsGrow ==
  ASSUME NEW bytes \in Bytes, NEW more \in Bytes, NEW f, NEW g, IsEnds(f, bytes),
         IsEnds(g, bytes \o more), NEW n \in Nat, \A i \in 1..n : IsWhole(bytes, f[i - 1])
  PROVE  /\ \A i \in 0..n : g[i] = f[i]
         /\ \A i \in 1..n : IsWhole(bytes \o more, g[i - 1])
<1> DEFINE all == bytes \o more
           T == {m \in Nat : m <= n => g[m] = f[m] /\ (m > 0 => IsWhole(all, g[m - 1]))}
<1>1. /\ all \in Bytes /\ Len(all) = Len(bytes) + Len(more) /\ Len(bytes) \in Nat /\ Len(more) \in Nat
      /\ \A i \in 1..Len(bytes) : all[i] = bytes[i]
  <2>1. /\ all \in Seq(0..255) /\ Len(all) = Len(bytes) + Len(more)
        /\ \A i \in 1..Len(bytes) + Len(more) :
             all[i] = IF i <= Len(bytes) THEN bytes[i] ELSE more[i - Len(bytes)]
    BY ConcatProperties DEF Bytes
  <2>2. Len(bytes) \in Nat /\ Len(more) \in Nat
    BY LenProperties DEF Bytes
  <2> HIDE DEF all
  <2> QED
    BY <2>1, <2>2 DEF Bytes
<1> HIDE DEF all
<1>2. ASSUME NEW i \in 0..Len(bytes), IsWhole(bytes, i)
      PROVE  IsWhole(all, i) /\ NextEnd(all, i) = NextEnd(bytes, i)
  <2>1. i + 1 \in 1..Len(bytes) /\ i + 2 \in 1..Len(bytes)
    BY <1>1, <1>2 DEF IsWhole
  <2>2. NextEnd(all, i) = NextEnd(bytes, i)
    BY <1>1, <2>1 DEF NextEnd
  <2>3. NextEnd(bytes, i) \in Nat
    BY <1>2, NextEndIn DEF IsWhole
  <2> QED
    BY <1>1, <1>2, <2>2, <2>3 DEF IsWhole
<1>3. 0 \in T
  BY DEF IsEnds, Unfolds, all
<1>4. ASSUME NEW m \in Nat, m \in T PROVE m + 1 \in T
  <2> SUFFICES ASSUME m + 1 <= n PROVE g[m + 1] = f[m + 1] /\ IsWhole(all, g[m])
    OBVIOUS
  <2>1. m + 1 \in Nat /\ m + 1 # 0 /\ (m + 1) - 1 = m /\ m + 1 \in 1..n /\ g[m] = f[m]
    BY <1>4
  <2>2. f[m] \in 0..Len(bytes) /\ IsWhole(bytes, f[m])
    BY <2>1 DEF IsEnds
  <2>3. IsWhole(all, g[m]) /\ NextEnd(all, g[m]) = NextEnd(bytes, f[m])
    BY <1>2, <2>1, <2>2
  <2>4. f[m + 1] = NextEnd(bytes, f[m])
    BY <2>1, <2>2 DEF IsEnds, Unfolds
  <2>5. g[m + 1] = NextEnd(all, g[m])
    BY <2>1, <2>3 DEF IsEnds, Unfolds, all
  <2> QED
    BY <2>3, <2>4, <2>5
<1>5. Nat \subseteq T
  <2> HIDE DEF T
  <2> QED
    BY <1>3, <1>4, NatInduct
<1>6. \A i \in 1..n : IsWhole(all, g[i - 1])
  BY <1>5
<1> QED
  BY <1>5, <1>6 DEF all

-----------------------------------------------------------------------------
(* OpenVPN over TCP: the parser. *)

Dirs == OpenVPN!Dirs

SessionParser ==
  [buf : [Dirs -> Bytes], curPkt : {<<>>}, lastOpcode : Nat, index : [Dirs -> 0..1],
   cnt : [Dirs -> Nat]]

\* Updates of the parser, each with what it leaves alone.
WithBuf(p, d, b)   == [p EXCEPT !.buf[d] = b]
WithOpcode(p, op)  == [p EXCEPT !.lastOpcode = op]
WithIndex(p, d)    == [p EXCEPT !.index[d] = 1]
WithCount(p, d)    == [p EXCEPT !.cnt[d] = @ + 1]

LEMMA BufSet ==
  ASSUME NEW p \in SessionParser, NEW d \in Dirs, NEW b \in Bytes
  PROVE  /\ WithBuf(p, d, b) \in SessionParser
         /\ WithBuf(p, d, b).buf = [p.buf EXCEPT ![d] = b]
         /\ WithBuf(p, d, b).lastOpcode = p.lastOpcode
         /\ WithBuf(p, d, b).index = p.index /\ WithBuf(p, d, b).cnt = p.cnt
<1> DEFINE u == WithBuf(p, d, b)
           f == [p.buf EXCEPT ![d] = b]
<1>1. u = [p EXCEPT !.buf = f]
  BY DEF SessionParser, WithBuf
<1>2. f \in [Dirs -> Bytes]
  BY DEF SessionParser
<1> HIDE DEF f, u
<1>3. u \in SessionParser
  BY <1>1, <1>2 DEF SessionParser
<1>4. u.buf = f
  BY <1>1, <1>2 DEF SessionParser
<1>5. u.lastOpcode = p.lastOpcode /\ u.index = p.index /\ u.cnt = p.cnt
  BY <1>1, <1>2 DEF SessionParser
<1> QED
  BY <1>3, <1>4, <1>5 DEF f, u

LEMMA OpcodeSet ==
  ASSUME NEW p \in SessionParser, NEW op \in Nat
  PROVE  /\ WithOpcode(p, op) \in SessionParser
         /\ WithOpcode(p, op).buf = p.buf /\ WithOpcode(p, op).lastOpcode = op
         /\ WithOpcode(p, op).index = p.index /\ WithOpcode(p, op).cnt = p.cnt
<1> DEFINE u == WithOpcode(p, op)
<1>1. u \in SessionParser
  BY DEF SessionParser, WithOpcode
<1>2. u.lastOpcode = op
  BY DEF SessionParser, WithOpcode
<1>3. u.index = p.index /\ u.buf = p.buf /\ u.cnt = p.cnt
  BY DEF SessionParser, WithOpcode
<1> QED
  BY <1>1, <1>2, <1>3

LEMMA IndexSet ==
  ASSUME NEW p \in SessionParser, NEW d \in Dirs
  PROVE  /\ WithIndex(p, d) \in SessionParser
         /\ WithIndex(p, d).buf = p.buf /\ WithIndex(p, d).lastOpcode = p.lastOpcode
         /\ WithIndex(p, d).index = [p.index EXCEPT ![d] = 1] /\ WithIndex(p, d).cnt = p.cnt
<1> DEFINE u == WithIndex(p, d)
           f == [p.index EXCEPT ![d] = 1]
<1>1. u = [p EXCEPT !.index = f]
  BY DEF SessionParser, WithIndex
<1>2. f \in [Dirs -> 0..1]
  BY DEF SessionParser
<1> HIDE DEF f, u
<1>3. u \in SessionParser
  BY <1>1, <1>2 DEF SessionParser
<1>4. u.index = f
  BY <1>1, <1>2 DEF SessionParser
<1>5. u.lastOpcode = p.lastOpcode /\ u.buf = p.buf /\ u.cnt = p.cnt
  BY <1>1, <1>2 DEF SessionParser
<1> QED
  BY <1>3, <1>4, <1>5 DEF f, u

LEMMA CountSet ==
  ASSUME NEW p \in SessionParser, NEW d \in Dirs
  PROVE  /\ WithCount(p, d) \in SessionParser
         /\ WithCount(p, d).buf = p.buf /\ WithCount(p, d).lastOpcode = p.lastOpcode
         /\ WithCount(p, d).index = p.index
         /\ WithCount(p, d).cnt = [p.cnt EXCEPT ![d] = @ + 1]
<1> DEFINE u == WithCount(p, d)
           f == [p.cnt EXCEPT ![d] = @ + 1]
<1>1. u = [p EXCEPT !.cnt = f]
  BY DEF SessionParser, WithCount
<1>2. f \in [Dirs -> Nat]
  BY DEF SessionParser
<1> HIDE DEF f, u
<1>3. u \in SessionParser
  BY <1>1, <1>2 DEF SessionParser
<1>4. u.cnt = f
  BY <1>1, <1>2 DEF SessionParser
<1>5. u.lastOpcode = p.lastOpcode /\ u.buf = p.buf /\ u.index = p.index
  BY <1>1, <1>2 DEF SessionParser
<1> QED
  BY <1>3, <1>4, <1>5 DEF f, u

\* A packet is read from the buffer when it has come whole, and only then.
LEMMA PacketRead ==
  ASSUME StreamAssumption, NEW p \in SessionParser, NEW d \in Dirs, NEW B \in Bytes,
         NEW e \in 0..Len(B), p.buf[d] = Behind(B, e), NEW z, z = OpenVPN!parsePkt("tcp", d, p)
  PROVE  /\ z.act \in {"pause", "cancel", "next"}
         /\ z.act # "next" => z.p = p
         /\ z.act = "next" =>
              /\ IsWhole(B, e) /\ NextEnd(B, e) \in 0..Len(B)
              /\ NextEnd(B, e) >= e + 2 + MinPktLen
              /\ z.p = WithBuf(p, d, Behind(B, NextEnd(B, e)))
              /\ z.opcode = OpenVPN!opcode(B[e + 3]) /\ z.opcode \in Nat
<1> DEFINE buf == p.buf[d]
           len == 256 * buf[1] + buf[2]
<1>1. /\ z = IF ~(Len(buf) >= 2) THEN OpenVPN!Pause(p)
             ELSE IF len < MinPktLen THEN OpenVPN!Cancel(p)
             ELSE IF ~(Len(buf) >= 3) THEN OpenVPN!Pause(p)
             ELSE IF OpenVPN!opcode(buf[3]) \notin OpenVPN!ValidOpcodes THEN OpenVPN!Cancel(p)
             ELSE IF ~(Len(buf) >= len + 2) THEN OpenVPN!Pause(p)
             ELSE OpenVPN!Packet(OpenVPN!Skip(p, d, len + 2), OpenVPN!opcode(buf[3]))
  BY DEF OpenVPN!parsePkt, OpenVPN!parsePktTCP, OpenVPN!Enough
<1>2. /\ Len(B) \in Nat /\ buf \in Bytes /\ Len(buf) = Len(B) - e
      /\ \A i \in 1..(Len(B) - e) : buf[i] = B[e + i]
  BY Rest, LenProperties DEF Bytes
<1>3. MinPktLen \in Nat \ {0}
  BY DEF StreamAssumption, OpenVPN!OpenVPNTCPAssumption
<1>4. OpenVPN!ValidOpcodes \subseteq Nat
  BY DEF OpenVPN!ValidOpcodes, OpenVPN!ResetOpcodes, OpenVPN!SessionOpcodes
<1> HIDE DEF buf, len
<1>5. CASE z = OpenVPN!Pause(p) \/ z = OpenVPN!Cancel(p)
  BY <1>5 DEF OpenVPN!Pause, OpenVPN!Cancel
<1>6. CASE ~(z = OpenVPN!Pause(p) \/ z = OpenVPN!Cancel(p))
  <2>1. /\ Len(buf) >= 3 /\ Len(buf) >= len + 2 /\ len >= MinPktLen
        /\ OpenVPN!opcode(buf[3]) \in OpenVPN!ValidOpcodes
        /\ z = OpenVPN!Packet(OpenVPN!Skip(p, d, len + 2), OpenVPN!opcode(buf[3]))
    <3>1. len \in Nat
      <4>1. CASE Len(buf) >= 2
        <5>1. 1 \in 1..Len(buf) /\ 2 \in 1..Len(buf) /\ buf \in Seq(0..255)
          BY <1>2, <4>1 DEF Bytes
        <5>2. buf[1] \in 0..255 /\ buf[2] \in 0..255
          BY <5>1, ElementOfSeq
        <5>3. PICK a \in 0..255, b \in 0..255 : a = buf[1] /\ b = buf[2]
          BY <5>2
        <5>4. len = 256 * a + b
          BY <5>3 DEF len
        <5> QED
          BY <5>4
      <4> QED
        BY <1>1, <1>6, <4>1
    <3> QED
      BY <1>1, <1>2, <1>3, <1>6, <3>1
  <2>2. /\ 1 \in 1..(Len(B) - e) /\ 2 \in 1..(Len(B) - e) /\ 3 \in 1..(Len(B) - e)
    BY <1>2, <2>1
  <2>3. buf[1] = B[e + 1] /\ buf[2] = B[e + 2] /\ buf[3] = B[e + 3]
    BY <1>2, <2>2
  <2>4. e + 2 <= Len(B) /\ NextEnd(B, e) \in Nat /\ NextEnd(B, e) >= e + 2
    BY <1>2, <2>1, NextEndIn
  <2>5. NextEnd(B, e) = e + (len + 2) /\ len \in Nat
    <3>1. PICK a \in 0..255, b \in 0..255 : a = B[e + 1] /\ b = B[e + 2]
      BY <2>4, NextEndIn
    <3>2. len = 256 * a + b /\ NextEnd(B, e) = e + 2 + 256 * a + b
      BY <2>3, <3>1 DEF len, NextEnd
    <3> QED
      BY <3>2
  <2>6. IsWhole(B, e) /\ NextEnd(B, e) \in 0..Len(B) /\ NextEnd(B, e) >= e + 2 + MinPktLen
    BY <1>2, <1>3, <2>1, <2>4, <2>5 DEF IsWhole
  <2>7. OpenVPN!Skip(p, d, len + 2) = WithBuf(p, d, Behind(buf, len + 2))
    BY DEF OpenVPN!Skip, OpenVPN!After, WithBuf, Behind, buf
  <2>8. Behind(buf, len + 2) = Behind(B, NextEnd(B, e))
    <3>1. len + 2 \in 0..(Len(B) - e)
      BY <1>2, <2>1, <2>5
    <3> QED
      BY <2>5, <3>1, RestOfRest DEF Bytes, buf
  <2>9. z.act = "next" /\ z.p = WithBuf(p, d, Behind(B, NextEnd(B, e))) /\ z.opcode = OpenVPN!opcode(B[e + 3])
    BY <2>1, <2>3, <2>7, <2>8 DEF OpenVPN!Packet
  <2> QED
    BY <1>4, <2>1, <2>3, <2>6, <2>9
<1> QED
  BY <1>5, <1>6

\* The first n packets of B, which end where f says, are in their places.
Placed(f, B, d, n) ==
  \A i \in 1..n : /\ IsWhole(B, f[i - 1]) /\ NextEnd(B, f[i - 1]) >= f[i - 1] + 2 + MinPktLen
                  /\ OpenVPN!opcode(B[f[i - 1] + 3]) \in
                       IF i = 1 THEN OpenVPN!ResetOpcodes(d) ELSE OpenVPN!SessionOpcodes

\* What the parser has taken of B, and that it has the rest.
Number(p, d) == p.index[d] + p.cnt[d]

Reads(p, d, f, B) ==
  /\ Placed(f, B, d, Number(p, d))
  /\ p.buf[d] = Behind(B, f[Number(p, d)])

\* Nothing of the other direction has changed.
OthersSame(p, q, d) ==
  \A e \in Dirs \ {d} : q.buf[e] = p.buf[e] /\ q.cnt[e] = p.cnt[e] /\ q.index[e] = p.index[e]

\* The packet behind the first n makes them n + 1.
LEMMA OneMorePlaced ==
  ASSUME NEW B \in Bytes, NEW f, IsEnds(f, B), NEW d \in Dirs, NEW n \in Nat, Placed(f, B, d, n),
         IsWhole(B, f[n]), NextEnd(B, f[n]) >= f[n] + 2 + MinPktLen,
         OpenVPN!opcode(B[f[n] + 3]) \in
           IF n = 0 THEN OpenVPN!ResetOpcodes(d) ELSE OpenVPN!SessionOpcodes
  PROVE  Placed(f, B, d, n + 1) /\ f[n + 1] = NextEnd(B, f[n])
<1>1. ASSUME NEW i \in 1..(n + 1)
      PROVE  /\ IsWhole(B, f[i - 1]) /\ NextEnd(B, f[i - 1]) >= f[i - 1] + 2 + MinPktLen
             /\ OpenVPN!opcode(B[f[i - 1] + 3]) \in
                  IF i = 1 THEN OpenVPN!ResetOpcodes(d) ELSE OpenVPN!SessionOpcodes
  <2>1. CASE i = n + 1
    <3>1. i - 1 = n /\ (i = 1 <=> n = 0)
      BY <2>1
    <3> QED
      BY <3>1
  <2>2. CASE i # n + 1
    <3>1. i \in 1..n
      BY <2>2
    <3> QED
      BY <3>1 DEF Placed
  <2> QED
    BY <2>1, <2>2
<1>2. n + 1 \in Nat /\ n + 1 # 0 /\ (n + 1) - 1 = n
  OBVIOUS
<1>3. f[n + 1] = NextEnd(B, f[n])
  BY <1>2 DEF IsEnds, Unfolds
<1> QED
  BY <1>1, <1>3 DEF Placed

\* parseReq and parseResp.
LEMMA PacketCounted ==
  ASSUME StreamAssumption, NEW p \in SessionParser, NEW d \in Dirs, NEW B \in Bytes, NEW f,
         IsEnds(f, B), Reads(p, d, f, B), p.index[d] = 1,
         NEW z, z = OpenVPN!countPacket("tcp", d, p)
  PROVE  /\ z.act \in {"pause", "cancel"} /\ z.p \in SessionParser
         /\ z.p.index = p.index /\ z.p.lastOpcode = p.lastOpcode /\ OthersSame(p, z.p, d)
         /\ Placed(f, B, d, Number(z.p, d))
         /\ z.act = "pause" => Reads(z.p, d, f, B)
<1> DEFINE r == OpenVPN!parsePkt("tcp", d, p)
           n == Number(p, d)
           w == WithBuf(p, d, Behind(B, NextEnd(B, f[n])))
<1>1. n \in Nat /\ n # 0 /\ f[n] \in 0..Len(B) /\ p.buf[d] = Behind(B, f[n]) /\ Placed(f, B, d, n)
  <2>1. p.cnt \in [Dirs -> Nat]
    BY DEF SessionParser
  <2>2. n \in Nat /\ n # 0
    BY <2>1 DEF Number
  <2>3. p.buf[d] = Behind(B, f[n]) /\ Placed(f, B, d, n)
    BY DEF Reads
  <2>4. f \in [Nat -> 0..Len(B)]
    BY DEF IsEnds
  <2> HIDE DEF n
  <2> QED
    BY <2>2, <2>3, <2>4
<1>2. z = IF r.act # "next" THEN r
          ELSE IF r.opcode \notin OpenVPN!SessionOpcodes THEN OpenVPN!Cancel(r.p)
          ELSE OpenVPN!Pause(WithCount(r.p, d))
  BY DEF OpenVPN!countPacket, WithCount
<1>3. /\ r.act \in {"pause", "cancel", "next"}
      /\ r.act # "next" => r.p = p
      /\ r.act = "next" =>
           /\ IsWhole(B, f[n]) /\ NextEnd(B, f[n]) \in 0..Len(B)
           /\ NextEnd(B, f[n]) >= f[n] + 2 + MinPktLen
           /\ r.p = w
           /\ r.opcode = OpenVPN!opcode(B[f[n] + 3])
  <2> HIDE DEF n
  <2>1. f[n] \in 0..Len(B) /\ p.buf[d] = Behind(B, f[n])
    BY <1>1
  <2> QED
    BY <2>1, PacketRead
<1> HIDE DEF r, n
<1>4. CASE r.act # "next"
  <2>1. z.act \in {"pause", "cancel"} /\ z.p = p
    BY <1>2, <1>3, <1>4
  <2> QED
    BY <1>1, <2>1 DEF OthersSame, Reads, n
<1>5. CASE r.act = "next"
  <2>1. Behind(B, NextEnd(B, f[n])) \in Bytes
    BY <1>3, <1>5, Rest DEF Bytes
  <2>2. /\ w \in SessionParser /\ w.buf = [p.buf EXCEPT ![d] = Behind(B, NextEnd(B, f[n]))]
        /\ w.lastOpcode = p.lastOpcode /\ w.index = p.index /\ w.cnt = p.cnt
    BY <2>1, BufSet
  <2> HIDE DEF w
  <2>3. p.buf \in [Dirs -> Bytes] /\ p.cnt \in [Dirs -> Nat]
    BY DEF SessionParser
  <2>4. CASE r.opcode \notin OpenVPN!SessionOpcodes
    <3>1. z.act = "cancel" /\ z.p = w
      BY <1>2, <1>3, <1>5, <2>4 DEF OpenVPN!Cancel
    <3>2. OthersSame(p, w, d)
      BY <2>2, <2>3 DEF OthersSame
    <3>3. Number(w, d) = n
      BY <2>2 DEF Number, n
    <3> QED
      BY <1>1, <2>2, <3>1, <3>2, <3>3
  <2>5. CASE r.opcode \in OpenVPN!SessionOpcodes
    <3> DEFINE u == WithCount(w, d)
    <3>1. z.act = "pause" /\ z.p = u
      BY <1>2, <1>3, <1>5, <2>5 DEF OpenVPN!Pause
    <3>2. /\ u \in SessionParser /\ u.buf = w.buf /\ u.lastOpcode = w.lastOpcode
          /\ u.index = w.index /\ u.cnt = [w.cnt EXCEPT ![d] = @ + 1]
      BY <2>2, CountSet
    <3> HIDE DEF u
    <3>3. OthersSame(p, u, d)
      BY <2>2, <2>3, <3>2 DEF OthersSame
    <3>4. Number(u, d) = n + 1
      BY <2>2, <2>3, <3>2 DEF Number, n, SessionParser
    <3>5. Placed(f, B, d, n + 1) /\ f[n + 1] = NextEnd(B, f[n])
      BY <1>1, <1>3, <1>5, <2>5, OneMorePlaced
    <3>6. u.buf[d] = Behind(B, f[n + 1])
      BY <2>2, <2>3, <3>2, <3>5
    <3>7. Reads(u, d, f, B)
      BY <3>4, <3>5, <3>6 DEF Reads
    <3> QED
      BY <2>2, <3>1, <3>2, <3>3, <3>4, <3>5, <3>7
  <2> QED
    BY <2>4, <2>5
<1> QED
  BY <1>4, <1>5

\* The client's opcode is kept only when the client has begun.
ClientFirst(p) ==
  /\ p.index["resp"] = 1 => p.index["req"] = 1
  /\ p.lastOpcode \in OpenVPN!ResetOpcodes("req") => p.index["req"] = 1

\* parseCtlHardResetClient and parseCtlHardResetServer, with the step behind.
LEMMA ResetTaken ==
  ASSUME StreamAssumption, NEW p \in SessionParser, NEW d \in Dirs, NEW B \in Bytes, NEW f,
         IsEnds(f, B), Reads(p, d, f, B), p.index[d] # 1, p.cnt[d] = 0, ClientFirst(p),
         NEW z, z = OpenVPN!parseCtlHardReset("tcp", d, p)
  PROVE  /\ z.act \in {"pause", "cancel", "next"} /\ z.p \in SessionParser
         /\ z.p.index = p.index /\ z.p.cnt = p.cnt /\ OthersSame(p, z.p, d)
         /\ z.act = "pause" => z.p = p
         /\ z.act = "next" => /\ Reads(WithIndex(z.p, d), d, f, B)
                              /\ ClientFirst(WithIndex(z.p, d))
<1> DEFINE r == OpenVPN!parsePkt("tcp", d, p)
           w == WithBuf(p, d, Behind(B, NextEnd(B, f[0])))
           u == WithOpcode(w, r.opcode)
<1>1. /\ f[0] = 0 /\ f[0] \in 0..Len(B) /\ p.buf[d] = Behind(B, f[0]) /\ Number(p, d) = 0
      /\ Len(B) \in Nat
  <2>1. Len(B) \in Nat /\ f[0] = 0
    BY LenProperties DEF Bytes, IsEnds, Unfolds
  <2>2. Number(p, d) = 0
    BY DEF Number, SessionParser
  <2> QED
    BY <2>1, <2>2 DEF Reads
<1>2. z = IF d = "resp" /\ p.lastOpcode \notin OpenVPN!ResetOpcodes("req") THEN OpenVPN!Cancel(p)
          ELSE IF r.act # "next" THEN r
          ELSE IF r.opcode \notin OpenVPN!ResetOpcodes(d) THEN OpenVPN!Cancel(r.p)
          ELSE OpenVPN!Go(WithOpcode(r.p, r.opcode))
  BY DEF OpenVPN!parseCtlHardReset, WithOpcode
<1>3. /\ r.act \in {"pause", "cancel", "next"}
      /\ r.act # "next" => r.p = p
      /\ r.act = "next" =>
           /\ IsWhole(B, f[0]) /\ NextEnd(B, f[0]) \in 0..Len(B)
           /\ NextEnd(B, f[0]) >= f[0] + 2 + MinPktLen
           /\ r.p = w
           /\ r.opcode = OpenVPN!opcode(B[f[0] + 3]) /\ r.opcode \in Nat
  BY <1>1, PacketRead
<1>4. CASE z.p = p /\ z.act \in {"pause", "cancel"}
  BY <1>4 DEF OthersSame
<1>5. CASE ~(z.p = p /\ z.act \in {"pause", "cancel"})
  <2>1. /\ r.act = "next" /\ (d = "resp" => p.lastOpcode \in OpenVPN!ResetOpcodes("req"))
        /\ z = IF r.opcode \notin OpenVPN!ResetOpcodes(d) THEN OpenVPN!Cancel(w) ELSE OpenVPN!Go(u)
    <3> HIDE DEF r
    <3> QED
      BY <1>2, <1>3, <1>5 DEF OpenVPN!Cancel
  <2>2. Behind(B, NextEnd(B, f[0])) \in Bytes
    BY <1>3, <2>1, Rest DEF Bytes
  <2>3. /\ w \in SessionParser /\ w.buf = [p.buf EXCEPT ![d] = Behind(B, NextEnd(B, f[0]))]
        /\ w.lastOpcode = p.lastOpcode /\ w.index = p.index /\ w.cnt = p.cnt
    BY <2>2, BufSet
  <2>4. p.buf \in [Dirs -> Bytes] /\ p.cnt \in [Dirs -> Nat] /\ p.index \in [Dirs -> 0..1]
    BY DEF SessionParser
  <2> HIDE DEF r, w
  <2>5. OthersSame(p, w, d)
    BY <2>3, <2>4 DEF OthersSame
  <2>6. CASE r.opcode \notin OpenVPN!ResetOpcodes(d)
    BY <2>1, <2>3, <2>5, <2>6 DEF OpenVPN!Cancel
  <2>7. CASE r.opcode \in OpenVPN!ResetOpcodes(d)
    <3>1. z.act = "next" /\ z.p = u
      BY <2>1, <2>7 DEF OpenVPN!Go
    <3>2. /\ u \in SessionParser /\ u.buf = w.buf /\ u.lastOpcode = r.opcode
          /\ u.index = w.index /\ u.cnt = w.cnt
      BY <1>3, <2>1, <2>3, OpcodeSet
    <3> HIDE DEF u
    <3> DEFINE v == WithIndex(u, d)
    <3>3. /\ v \in SessionParser /\ v.buf = u.buf /\ v.lastOpcode = u.lastOpcode
          /\ v.index = [u.index EXCEPT ![d] = 1] /\ v.cnt = u.cnt
      BY <3>2, IndexSet
    <3> HIDE DEF v
    <3>4. Number(v, d) = 1
      BY <2>3, <2>4, <3>2, <3>3 DEF Number
    <3>5. Placed(f, B, d, 0)
      BY DEF Placed
    <3>6. Placed(f, B, d, 1) /\ f[1] = NextEnd(B, f[0])
      BY <1>3, <2>1, <2>7, <3>5, OneMorePlaced
    <3>7. v.buf[d] = Behind(B, f[1])
      BY <2>3, <2>4, <3>2, <3>3, <3>6
    <3>8. Reads(v, d, f, B)
      BY <3>4, <3>6, <3>7 DEF Reads
    <3>9. ClientFirst(v)
      <4>1. d \in {"req", "resp"}
        BY DEF Dirs, OpenVPN!Dirs
      <4>2. CASE d = "req"
        BY <2>3, <2>4, <3>2, <3>3, <4>2 DEF ClientFirst
      <4>3. CASE d = "resp"
        <5>1. p.index["req"] = 1 /\ v.index["req"] = p.index["req"]
          BY <2>1, <2>3, <2>4, <3>2, <3>3, <4>3 DEF ClientFirst, Dirs, OpenVPN!Dirs
        <5> QED
          BY <5>1 DEF ClientFirst
      <4> QED
        BY <4>1, <4>2, <4>3
    <3>10. OthersSame(p, u, d)
      BY <2>3, <2>5, <3>2 DEF OthersSame
    <3> QED
      BY <2>3, <3>1, <3>2, <3>8, <3>9, <3>10 DEF v
  <2> QED
    BY <2>6, <2>7
<1> QED
  BY <1>4, <1>5

\* The machine of a direction, which takes at most a packet and a reset.
Counted(p, d) == p.cnt[d] > 0 => p.index[d] = 1

LEMMA RunCounts ==
  ASSUME StreamAssumption, NEW p \in SessionParser, NEW d \in Dirs, NEW B \in Bytes, NEW f,
         IsEnds(f, B), Reads(p, d, f, B), Counted(p, d), ClientFirst(p),
         NEW z, z = OpenVPN!Run("tcp", d, p)
  PROVE  /\ z.act \in {"pause", "cancel"} /\ z.p \in SessionParser /\ OthersSame(p, z.p, d)
         /\ Counted(z.p, d) /\ Placed(f, B, d, Number(z.p, d))
         /\ z.p.index["resp"] = 1 => z.p.index["req"] = 1
         /\ z.act = "pause" => Reads(z.p, d, f, B) /\ ClientFirst(z.p)
<1> DEFINE y == OpenVPN!parseCtlHardReset("tcp", d, p)
           v == WithIndex(y.p, d)
<1>1. z = IF p.index[d] = 1 THEN OpenVPN!countPacket("tcp", d, p)
          ELSE IF y.act # "next" THEN y
          ELSE OpenVPN!countPacket("tcp", d, v)
  BY DEF OpenVPN!Run, WithIndex
<1>2. p.cnt \in [Dirs -> Nat] /\ p.index \in [Dirs -> 0..1]
  BY DEF SessionParser
<1>3. p.index["resp"] = 1 => p.index["req"] = 1
  BY DEF ClientFirst
<1> HIDE DEF y, v
<1>4. CASE p.index[d] = 1
  <2>1. z = OpenVPN!countPacket("tcp", d, p)
    BY <1>1, <1>4
  <2>2. /\ z.act \in {"pause", "cancel"} /\ z.p \in SessionParser
        /\ z.p.index = p.index /\ z.p.lastOpcode = p.lastOpcode /\ OthersSame(p, z.p, d)
        /\ Placed(f, B, d, Number(z.p, d))
        /\ z.act = "pause" => Reads(z.p, d, f, B)
    BY <1>4, <2>1, PacketCounted
  <2>3. ClientFirst(z.p) /\ Counted(z.p, d)
    BY <1>4, <2>2 DEF ClientFirst, Counted
  <2> QED
    BY <1>3, <2>2, <2>3
<1>5. CASE p.index[d] # 1
  <2>1. p.cnt[d] = 0
    BY <1>2, <1>5 DEF Counted
  <2>2. /\ y.act \in {"pause", "cancel", "next"} /\ y.p \in SessionParser
        /\ y.p.index = p.index /\ y.p.cnt = p.cnt /\ OthersSame(p, y.p, d)
        /\ y.act = "pause" => y.p = p
        /\ y.act = "next" => Reads(v, d, f, B) /\ ClientFirst(v)
    BY <1>5, <2>1, ResetTaken DEF y, v
  <2>3. CASE y.act # "next"
    <3>1. z = y
      BY <1>1, <1>5, <2>3
    <3>2. Number(y.p, d) = Number(p, d) /\ Counted(y.p, d)
      BY <2>2 DEF Number, Counted
    <3>3. Placed(f, B, d, Number(p, d))
      BY DEF Reads
    <3> QED
      BY <1>3, <2>2, <2>3, <3>1, <3>2, <3>3
  <2>4. CASE y.act = "next"
    <3>1. z = OpenVPN!countPacket("tcp", d, v)
      BY <1>1, <1>5, <2>4
    <3>2. /\ v \in SessionParser /\ v.buf = y.p.buf
          /\ v.index = [y.p.index EXCEPT ![d] = 1] /\ v.cnt = y.p.cnt
      BY <2>2, IndexSet DEF v
    <3>3. v.index[d] = 1 /\ Reads(v, d, f, B) /\ ClientFirst(v)
      BY <1>2, <2>2, <2>4, <3>2
    <3>4. /\ z.act \in {"pause", "cancel"} /\ z.p \in SessionParser
          /\ z.p.index = v.index /\ z.p.lastOpcode = v.lastOpcode /\ OthersSame(v, z.p, d)
          /\ Placed(f, B, d, Number(z.p, d))
          /\ z.act = "pause" => Reads(z.p, d, f, B)
      BY <3>1, <3>2, <3>3, PacketCounted
    <3>5. ClientFirst(z.p) /\ Counted(z.p, d)
      BY <3>3, <3>4 DEF ClientFirst, Counted
    <3>6. z.p.index["resp"] = 1 => z.p.index["req"] = 1
      BY <3>5 DEF ClientFirst
    <3>7. OthersSame(p, z.p, d)
      BY <1>2, <2>2, <3>2, <3>4 DEF OthersSame
    <3> QED
      BY <3>4, <3>5, <3>6, <3>7
  <2> QED
    BY <2>3, <2>4
<1> QED
  BY <1>4, <1>5

\* What was taken of the bytes given before is still taken of them and more.
LEMMA ReadsMore ==
  ASSUME StreamAssumption, NEW p \in SessionParser, NEW d \in Dirs, NEW B \in Bytes, NEW C \in Bytes,
         NEW f, NEW g, IsEnds(f, B), IsEnds(g, B \o C), Placed(f, B, d, Number(p, d))
  PROVE  /\ Placed(g, B \o C, d, Number(p, d))
         /\ Reads(p, d, f, B) => Reads(WithBuf(p, d, p.buf[d] \o C), d, g, B \o C)
<1> DEFINE n == Number(p, d)
           all == B \o C
<1>1. n \in Nat
  BY DEF SessionParser, Number
<1>2. ASSUME NEW i \in 1..n PROVE IsWhole(B, f[i - 1])
  BY <1>2 DEF Placed
<1> HIDE DEF n
<1>3. (\A i \in 0..n : g[i] = f[i]) /\ (\A i \in 1..n : IsWhole(all, g[i - 1]))
  BY <1>1, <1>2, EndsGrow
<1>4. f \in [Nat -> 0..Len(B)] /\ Len(B) \in Nat /\ Len(C) \in Nat
  BY LenProperties DEF IsEnds, Bytes
<1>5. MinPktLen \in Nat \ {0}
  BY DEF StreamAssumption, OpenVPN!OpenVPNTCPAssumption
<1>6. \A j \in 1..Len(B) : all[j] = B[j]
  <2>1. \A j \in 1..(Len(B) + Len(C)) : all[j] = IF j <= Len(B) THEN B[j] ELSE C[j - Len(B)]
    BY ConcatProperties DEF Bytes
  <2> HIDE DEF all
  <2>2. \A j \in 1..Len(B) : j \in 1..(Len(B) + Len(C)) /\ j <= Len(B)
    BY <1>4
  <2> QED
    BY <2>1, <2>2
<1>7. ASSUME NEW i \in 1..n
      PROVE  /\ IsWhole(all, g[i - 1]) /\ NextEnd(all, g[i - 1]) >= g[i - 1] + 2 + MinPktLen
             /\ OpenVPN!opcode(all[g[i - 1] + 3]) \in
                  IF i = 1 THEN OpenVPN!ResetOpcodes(d) ELSE OpenVPN!SessionOpcodes
  <2>1. /\ IsWhole(B, f[i - 1]) /\ NextEnd(B, f[i - 1]) >= f[i - 1] + 2 + MinPktLen
        /\ OpenVPN!opcode(B[f[i - 1] + 3]) \in
             IF i = 1 THEN OpenVPN!ResetOpcodes(d) ELSE OpenVPN!SessionOpcodes
    BY DEF Placed, n
  <2>2. i - 1 \in Nat /\ i - 1 \in 0..n
    BY <1>1
  <2>3. g[i - 1] = f[i - 1] /\ f[i - 1] \in 0..Len(B) /\ IsWhole(all, g[i - 1])
    BY <1>3, <1>4, <2>2
  <2> DEFINE e == f[i - 1]
  <2>4. NextEnd(B, e) <= Len(B) /\ e + 2 <= Len(B)
    BY <2>1 DEF IsWhole
  <2>5. NextEnd(B, e) \in Nat
    BY <2>3, <2>4, NextEndIn
  <2> HIDE DEF e
  <2>6. e \in 0..Len(B) /\ NextEnd(B, e) >= e + 2 + MinPktLen
    BY <2>1, <2>3 DEF e
  <2>7. e + 1 \in 1..Len(B) /\ e + 2 \in 1..Len(B) /\ e + 3 \in 1..Len(B)
    <3>1. PICK x \in Nat : x = NextEnd(B, e)
      BY <2>5
    <3>2. x <= Len(B) /\ x >= e + 2 + MinPktLen
      BY <2>4, <2>6, <3>1
    <3>3. e \in 0..Len(B) /\ e \in Nat
      BY <1>4, <2>6
    <3>4. Len(B) \in Nat /\ MinPktLen \in Nat /\ MinPktLen >= 1
      BY <1>4, <1>5
    <3>5. e + 3 <= Len(B)
      BY <3>2, <3>3, <3>4
    <3> QED
      BY <3>3, <3>4, <3>5
  <2>8. all[e + 3] = B[e + 3] /\ NextEnd(all, e) = NextEnd(B, e)
    BY <1>6, <2>7 DEF NextEnd
  <2> HIDE DEF all
  <2> QED
    BY <2>1, <2>3, <2>8 DEF e
<1>8. Placed(g, all, d, n)
  BY <1>7 DEF Placed
<1>9. ASSUME Reads(p, d, f, B)
      PROVE  Reads(WithBuf(p, d, p.buf[d] \o C), d, g, all)
  <2> DEFINE b == p.buf[d] \o C
             w == WithBuf(p, d, b)
  <2>1. p.buf[d] = Behind(B, f[n]) /\ f[n] \in 0..Len(B)
    BY <1>1, <1>4, <1>9 DEF Reads, n
  <2>2. b = Behind(all, f[n])
    <3>1. B \in Seq(0..255) /\ C \in Seq(0..255)
      BY DEF Bytes
    <3>2. f[n] \in 0..Len(B)
      BY <2>1
    <3>3. Behind(B, f[n]) \o C = Behind(B \o C, f[n])
      BY <3>1, <3>2, RestGrows
    <3> QED
      BY <2>1, <3>3
  <2>3. g[n] = f[n]
    BY <1>1, <1>3
  <2>4. p.buf \in [Dirs -> Bytes] /\ b \in Bytes
    <3>1. p.buf[d] \in Seq(0..255) /\ C \in Seq(0..255)
      BY DEF SessionParser, Bytes
    <3> QED
      BY <3>1, ConcatProperties DEF SessionParser, Bytes
  <2>5. w.buf = [p.buf EXCEPT ![d] = b] /\ w.index = p.index /\ w.cnt = p.cnt
    <3> HIDE DEF b
    <3> QED
      BY <2>4, BufSet
  <2> HIDE DEF w, b, all
  <2>6. Number(w, d) = n
    BY <2>5 DEF Number, n
  <2>7. w.buf[d] = Behind(all, g[n])
    BY <2>2, <2>3, <2>4, <2>5
  <2>8. Reads(w, d, g, all)
    BY <1>8, <2>6, <2>7 DEF Reads
  <2> QED
    BY <2>8 DEF w, b
<1> QED
  BY <1>8, <1>9 DEF n

\* Feed.
LEMMA FeedCounts ==
  ASSUME StreamAssumption, NEW p \in SessionParser, NEW d \in Dirs, NEW B \in Bytes, NEW C \in Bytes,
         C # <<>>, NEW f, NEW g, IsEnds(f, B), IsEnds(g, B \o C), Counted(p, d), Reads(p, d, f, B),
         ClientFirst(p), NEW z, z = OpenVPN!FeedTCP(d, p, C)
  PROVE  /\ z.p \in SessionParser /\ OthersSame(p, z.p, d)
         /\ Counted(z.p, d) /\ Placed(g, B \o C, d, Number(z.p, d))
         /\ z.p.index["resp"] = 1 => z.p.index["req"] = 1
         /\ z.updated <=> z.p.cnt # p.cnt
         /\ ~z.done => Reads(z.p, d, g, B \o C) /\ ClientFirst(z.p)
<1> DEFINE b == p.buf[d] \o C
           w == WithBuf(p, d, b)
           r == OpenVPN!Run("tcp", d, w)
           all == B \o C
<1>1. /\ z.p = r.p
      /\ z.updated <=> r.p.cnt # w.cnt
      /\ ~z.done => r.act # "cancel"
  BY DEF OpenVPN!FeedTCP, OpenVPN!Fed, WithBuf
<1>2. p.buf \in [Dirs -> Bytes] /\ p.cnt \in [Dirs -> Nat] /\ p.index \in [Dirs -> 0..1]
  BY DEF SessionParser
<1>3. b \in Bytes /\ all \in Bytes
  <2>1. p.buf[d] \in Seq(0..255) /\ B \in Seq(0..255) /\ C \in Seq(0..255)
    BY <1>2 DEF Bytes
  <2> QED
    BY <2>1, ConcatProperties DEF Bytes
<1>4. Reads(w, d, g, all)
  <2>1. Placed(f, B, d, Number(p, d))
    BY DEF Reads
  <2> QED
    BY <2>1, ReadsMore
<1> HIDE DEF b, all, r
<1>5. /\ w \in SessionParser /\ w.buf = [p.buf EXCEPT ![d] = b]
      /\ w.lastOpcode = p.lastOpcode /\ w.index = p.index /\ w.cnt = p.cnt
  BY <1>3, BufSet
<1> HIDE DEF w
<1>6. Counted(w, d) /\ ClientFirst(w) /\ OthersSame(p, w, d)
  BY <1>2, <1>5 DEF Counted, ClientFirst, OthersSame
<1>7. IsEnds(g, all)
  BY DEF all
<1>8. /\ r.act \in {"pause", "cancel"} /\ r.p \in SessionParser /\ OthersSame(w, r.p, d)
      /\ Counted(r.p, d) /\ Placed(g, all, d, Number(r.p, d))
      /\ r.p.index["resp"] = 1 => r.p.index["req"] = 1
      /\ r.act = "pause" => Reads(r.p, d, g, all) /\ ClientFirst(r.p)
  BY <1>3, <1>4, <1>5, <1>6, <1>7, RunCounts DEF r
<1>9. OthersSame(p, r.p, d)
  BY <1>6, <1>8 DEF OthersSame
<1> QED
  BY <1>1, <1>5, <1>8, <1>9 DEF all

-----------------------------------------------------------------------------
(* OpenVPN over TCP: the invariant. *)

\* What was given of a conversation.
Came(t, k, d) == SubSeq(t[d], 1, k[d])
EndsCame(t, k, d) == OpenVPN!Stream!Ends(Came(t, k, d))

\* The conversation and how far it was fed.
Fed(Talks, t, k) ==
  /\ t \in Talks
  /\ k \in [Dirs -> Nat] /\ \A d \in Dirs : k[d] <= Len(t[d])

OpenVPNInv ==
  /\ Fed(OpenVPNTalks, talk, pos)
  /\ parser \in SessionParser
  /\ shown = parser.cnt
  /\ parser.index["resp"] = 1 => parser.index["req"] = 1
  /\ \A d \in Dirs : /\ Counted(parser, d)
                     /\ Placed(EndsCame(talk, pos, d), Came(talk, pos, d), d, Number(parser, d))
  /\ ~finished => /\ ClientFirst(parser)
                  /\ \A d \in Dirs : Reads(parser, d, EndsCame(talk, pos, d), Came(talk, pos, d))

LEMMA OpenVPNInit == StreamAssumption /\ OpenVPN!Stream!Init => OpenVPNInv
<1> SUFFICES ASSUME StreamAssumption, OpenVPN!Stream!Init PROVE OpenVPNInv
  OBVIOUS
<1>1. /\ parser = OpenVPN!newOpenVPNStream /\ talk \in OpenVPNTalks
      /\ pos = [d \in Dirs |-> 0] /\ shown = [d \in Dirs |-> 0] /\ finished = FALSE
  BY DEF OpenVPN!Stream!Init, OpenVPN!Stream!Dirs, Dirs, OpenVPN!Dirs
<1>2. talk \in [Dirs -> Bytes]
  BY <1>1 DEF StreamAssumption, OpenVPN!OpenVPNTCPAssumption, Bytes, Dirs
<1>3. /\ parser.buf = [d \in Dirs |-> <<>>] /\ parser.lastOpcode = 0
      /\ parser.index = [d \in Dirs |-> 0] /\ parser.cnt = [d \in Dirs |-> 0]
  BY <1>1 DEF OpenVPN!newOpenVPNStream, Dirs
<1>4. parser \in SessionParser
  <2>1. <<>> \in Bytes
    BY DEF Bytes
  <2> QED
    BY <1>1, <2>1 DEF SessionParser, OpenVPN!newOpenVPNStream, Dirs
<1>5. ASSUME NEW d \in Dirs
      PROVE  /\ pos[d] <= Len(talk[d]) /\ Counted(parser, d)
             /\ Reads(parser, d, EndsCame(talk, pos, d), Came(talk, pos, d))
  <2>1. talk[d] \in Bytes /\ Len(talk[d]) \in Nat /\ pos[d] = 0
    BY <1>1, <1>2, LenProperties DEF Bytes
  <2>2. Came(talk, pos, d) = <<>>
    <3>1. Came(talk, pos, d) \in Seq(0..255) /\ Len(Came(talk, pos, d)) = 0
      <4>1. talk[d] \in Seq(0..255) /\ pos[d] \in 0..Len(talk[d]) /\ 0 \in 0..(Len(talk[d]) - pos[d])
        BY <2>1 DEF Bytes
      <4> QED
        BY <2>1, <4>1, NextChunk DEF Came
    <3> QED
      BY <3>1, EmptySeq
  <2>3. Number(parser, d) = 0 /\ Counted(parser, d) /\ parser.buf[d] = <<>>
    BY <1>3 DEF Number, Counted
  <2>4. Placed(EndsCame(talk, pos, d), Came(talk, pos, d), d, 0)
    BY DEF Placed
  <2>5. Behind(<<>>, EndsCame(talk, pos, d)[0]) = <<>>
    <3>1. <<>> \in Bytes /\ Len(<<>>) = 0
      BY DEF Bytes
    <3>2. EndsCame(talk, pos, d)[0] = 0
      BY <2>2, <3>1, OpenVPNEnds DEF EndsCame, IsEnds, Unfolds
    <3>3. Behind(<<>>, 0) \in Seq(0..255) /\ Len(Behind(<<>>, 0)) = 0
      <4>1. <<>> \in Seq(0..255) /\ 0 \in 0..Len(<<>>) /\ Len(<<>>) - 0 = 0
        BY <3>1
      <4> QED
        BY <4>1, Rest
    <3> QED
      BY <3>2, <3>3, EmptySeq
  <2> QED
    BY <2>1, <2>2, <2>3, <2>4, <2>5 DEF Reads
<1>6. ClientFirst(parser)
  BY <1>3 DEF ClientFirst, OpenVPN!ResetOpcodes, Dirs, OpenVPN!Dirs
<1>7. shown = parser.cnt
  BY <1>1, <1>3
<1>8. Fed(OpenVPNTalks, talk, pos)
  BY <1>1, <1>5 DEF Fed
<1>9. \A d \in Dirs : Placed(EndsCame(talk, pos, d), Came(talk, pos, d), d, Number(parser, d))
  BY <1>5 DEF Reads
<1> QED
  BY <1>4, <1>5, <1>6, <1>7, <1>8, <1>9 DEF OpenVPNInv, ClientFirst

\* How a step moves on in the conversation.
MovesOn(S, Talks, t, k, m, d, n) ==
  /\ Fed(Talks, t, m)
  /\ Came(t, k, d) \in Seq(S) /\ SubSeq(t[d], k[d] + 1, k[d] + n) \in Seq(S)
  /\ Came(t, m, d) = Came(t, k, d) \o SubSeq(t[d], k[d] + 1, k[d] + n)
  /\ Len(SubSeq(t[d], k[d] + 1, k[d] + n)) = n
  /\ \A e \in Dirs \ {d} : Came(t, m, e) = Came(t, k, e)

LEMMA FedOn ==
  ASSUME NEW S, NEW Talks, Talks \subseteq [Dirs -> Seq(S)], NEW t, NEW k, NEW m, Fed(Talks, t, k),
         NEW d \in Dirs, NEW n \in 0..(Len(t[d]) - k[d]), m = [k EXCEPT ![d] = @ + n]
  PROVE  MovesOn(S, Talks, t, k, m, d, n)
<1>1. /\ t \in [Dirs -> Seq(S)] /\ k \in [Dirs -> Nat] /\ t[d] \in Seq(S)
      /\ \A e \in Dirs : Len(t[e]) \in Nat /\ k[e] <= Len(t[e])
  BY LenProperties DEF Fed
<1>2. k[d] \in 0..Len(t[d])
  BY <1>1
<1>3. m \in [Dirs -> Nat] /\ m[d] = k[d] + n /\ \A e \in Dirs \ {d} : m[e] = k[e]
  BY <1>1
<1>4. \A e \in Dirs : m[e] <= Len(t[e])
  <2> TAKE e \in Dirs
  <2>1. CASE e = d
    BY <1>1, <1>3, <2>1
  <2>2. CASE e # d
    BY <1>1, <1>3, <2>2
  <2> QED
    BY <2>1, <2>2
<1>5. Fed(Talks, t, m)
  BY <1>3, <1>4 DEF Fed
<1>6. /\ SubSeq(t[d], 1, k[d]) \in Seq(S) /\ SubSeq(t[d], k[d] + 1, k[d] + n) \in Seq(S)
      /\ Len(SubSeq(t[d], k[d] + 1, k[d] + n)) = n
      /\ SubSeq(t[d], 1, k[d] + n) = SubSeq(t[d], 1, k[d]) \o SubSeq(t[d], k[d] + 1, k[d] + n)
  <2> DEFINE s == t[d]
             a == k[d]
  <2>1. s \in Seq(S) /\ a \in 0..Len(s) /\ n \in 0..(Len(s) - a)
    BY <1>1, <1>2
  <2> HIDE DEF s, a
  <2>2. SubSeq(s, 1, a) \in Seq(S) /\ SubSeq(s, a + 1, a + n) \in Seq(S)
    BY <2>1, NextChunk
  <2>3. Len(SubSeq(s, a + 1, a + n)) = n
    BY <2>1, NextChunk
  <2>4. SubSeq(s, 1, a + n) = SubSeq(s, 1, a) \o SubSeq(s, a + 1, a + n)
    BY <2>1, ChunkJoins
  <2> QED
    BY <2>2, <2>3, <2>4 DEF s, a
<1> QED
  BY <1>3, <1>5, <1>6 DEF Came, MovesOn

LEMMA OpenVPNStep == StreamAssumption /\ OpenVPNInv /\ OpenVPN!Stream!Next => OpenVPNInv'
<1> SUFFICES ASSUME StreamAssumption, OpenVPNInv, OpenVPN!Stream!Next PROVE OpenVPNInv'
  OBVIOUS
<1>1. OpenVPNTalks \subseteq [Dirs -> Seq(0..255)]
  BY DEF StreamAssumption, OpenVPN!OpenVPNTCPAssumption, Dirs
<1>2. PICK d \in Dirs : \/ \E n \in 0..(Len(talk[d]) - pos[d]) : OpenVPN!Stream!Deliver(d, n)
                        \/ OpenVPN!Stream!Gap(d)
  BY DEF OpenVPN!Stream!Next, OpenVPN!Stream!Dirs, Dirs, OpenVPN!Dirs
<1>3. CASE OpenVPN!Stream!Gap(d)
  <2>1. /\ parser' = parser /\ talk' = talk /\ pos' = pos /\ shown' = shown /\ finished' = TRUE
    BY <1>3 DEF OpenVPN!Stream!Gap
  <2> QED
    BY <2>1 DEF OpenVPNInv
<1>4. CASE \E n \in 0..(Len(talk[d]) - pos[d]) : OpenVPN!Stream!Deliver(d, n)
  <2> PICK n \in 0..(Len(talk[d]) - pos[d]) : OpenVPN!Stream!Deliver(d, n)
    BY <1>4
  <2> DEFINE C == SubSeq(talk[d], pos[d] + 1, pos[d] + n)
             B == Came(talk, pos, d)
             z == OpenVPN!FeedTCP(d, parser, C)
  <2>1. /\ ~finished /\ talk' = talk /\ pos' = [pos EXCEPT ![d] = @ + n]
        /\ parser' = z.p /\ finished' = z.done
        /\ shown' = IF z.updated THEN z.p.cnt ELSE shown
    BY DEF OpenVPN!Stream!Deliver, OpenVPN!Counts
  <2>2. Fed(OpenVPNTalks, talk, pos) /\ pos \in [Dirs -> Nat]
    BY DEF OpenVPNInv, Fed
  <2>3. /\ Fed(OpenVPNTalks, talk, pos')
        /\ B \in Bytes /\ C \in Bytes /\ Len(C) = n /\ Came(talk, pos', d) = B \o C
        /\ \A e \in Dirs \ {d} : Came(talk, pos', e) = Came(talk, pos, e)
    <3> DEFINE m == pos'
               S == 0..255
    <3>1. m = [pos EXCEPT ![d] = @ + n] /\ OpenVPNTalks \subseteq [Dirs -> Seq(S)]
      BY <1>1, <2>1
    <3> HIDE DEF m, S
    <3>2. MovesOn(S, OpenVPNTalks, talk, pos, m, d, n)
      BY <2>2, <3>1, FedOn
    <3> QED
      BY <3>2 DEF MovesOn, Bytes, m, S
  <2>4. /\ parser \in SessionParser /\ shown = parser.cnt /\ ClientFirst(parser)
        /\ \A e \in Dirs : /\ Counted(parser, e)
                           /\ Reads(parser, e, EndsCame(talk, pos, e), Came(talk, pos, e))
    BY <2>1 DEF OpenVPNInv
  <2> HIDE DEF B, C, z
  <2>5. CASE C = <<>>
    <3>1. z = [p |-> parser, updated |-> FALSE, done |-> FALSE]
      BY <2>5 DEF OpenVPN!FeedTCP, OpenVPN!Unfed, z
    <3>2. n = 0
      BY <2>3, <2>5
    <3>3. pos' = pos
      BY <2>1, <2>2, <3>2
    <3>4. parser' = parser /\ shown' = shown /\ talk' = talk /\ ~finished
      BY <2>1, <3>1
    <3> QED
      BY <3>3, <3>4 DEF OpenVPNInv
  <2>6. CASE C # <<>>
    <3> DEFINE f == EndsCame(talk, pos, d)
               g == EndsCame(talk, pos', d)
    <3>1. IsEnds(f, B)
      BY <2>3, OpenVPNEnds DEF EndsCame, B
    <3>2. IsEnds(g, B \o C)
      <4>1. B \o C \in Bytes
        BY <2>3, ConcatProperties DEF Bytes
      <4> QED
        BY <2>3, <4>1, OpenVPNEnds DEF EndsCame
    <3>3. Counted(parser, d) /\ Reads(parser, d, f, B)
      BY <2>4 DEF B
    <3> HIDE DEF f, g
    <3>4. /\ z.p \in SessionParser /\ OthersSame(parser, z.p, d)
          /\ Counted(z.p, d) /\ Placed(g, B \o C, d, Number(z.p, d))
          /\ z.p.index["resp"] = 1 => z.p.index["req"] = 1
          /\ z.updated <=> z.p.cnt # parser.cnt
          /\ ~z.done => Reads(z.p, d, g, B \o C) /\ ClientFirst(z.p)
      BY <2>3, <2>4, <2>6, <3>1, <3>2, <3>3, FeedCounts DEF z
    <3>5. shown' = z.p.cnt
      BY <2>1, <2>4, <3>4
    <3>6. ASSUME NEW e \in Dirs
          PROVE  /\ Counted(z.p, e)
                 /\ Placed(EndsCame(talk, pos', e), Came(talk, pos', e), e, Number(z.p, e))
                 /\ ~z.done => Reads(z.p, e, EndsCame(talk, pos', e), Came(talk, pos', e))
      <4>1. CASE e = d
        BY <2>3, <3>4, <4>1 DEF g
      <4>2. CASE e # d
        <5>1. z.p.buf[e] = parser.buf[e] /\ z.p.cnt[e] = parser.cnt[e] /\ z.p.index[e] = parser.index[e]
          BY <3>4, <4>2 DEF OthersSame
        <5>2. Number(z.p, e) = Number(parser, e)
          BY <5>1 DEF Number
        <5>3. Came(talk, pos', e) = Came(talk, pos, e)
          BY <2>3, <4>2
        <5>4. EndsCame(talk, pos', e) = EndsCame(talk, pos, e)
          BY <5>3 DEF EndsCame
        <5>5. Counted(parser, e) /\ Reads(parser, e, EndsCame(talk, pos, e), Came(talk, pos, e))
          BY <2>4
        <5> QED
          BY <5>1, <5>2, <5>3, <5>4, <5>5 DEF Counted, Reads
      <4> QED
        BY <4>1, <4>2
    <3> QED
      BY <2>1, <2>3, <3>4, <3>5, <3>6 DEF OpenVPNInv
  <2> QED
    BY <2>5, <2>6
<1> QED
  BY <1>2, <1>3, <1>4

LEMMA OpenVPNCorrect == StreamAssumption /\ OpenVPNInv => OpenVPN!EveryPacketCountedOnce
<1> SUFFICES ASSUME StreamAssumption, OpenVPNInv PROVE OpenVPN!EveryPacketCountedOnce
  OBVIOUS
<1>1. \A d \in Dirs : OpenVPN!Stream!Given(d) = Came(talk, pos, d)
  BY DEF OpenVPN!Stream!Given, Came
<1>2. \A bytes, i : /\ OpenVPN!Stream!WholeBehind(bytes, i) <=> IsWhole(bytes, i)
                    /\ OpenVPN!Stream!EndBehind(bytes, i) = NextEnd(bytes, i)
  BY DEF OpenVPN!Stream!WholeBehind, OpenVPN!Stream!EndBehind, IsWhole, NextEnd
<1>3. \A d \in Dirs : OpenVPN!Taken(d) = Number(parser, d)
  BY DEF OpenVPN!Taken, Number
<1>4. parser.cnt \in [Dirs -> Nat] /\ parser.index \in [Dirs -> 0..1]
  BY DEF OpenVPNInv, SessionParser
<1>5. ASSUME NEW d \in Dirs
      PROVE  /\ parser.cnt[d] > 0 => parser.index[d] = 1
             /\ OpenVPN!InPlace(d, OpenVPN!Stream!Given(d), OpenVPN!Taken(d))
             /\ ~finished =>
                  parser.buf[d] = OpenVPN!After(OpenVPN!Stream!Given(d),
                                    OpenVPN!Stream!Ends(OpenVPN!Stream!Given(d))[OpenVPN!Taken(d)])
  <2> DEFINE B == Came(talk, pos, d)
             f == EndsCame(talk, pos, d)
             n == Number(parser, d)
  <2>1. Counted(parser, d) /\ Placed(f, B, d, n)
    BY DEF OpenVPNInv
  <2>2. ~finished => parser.buf[d] = Behind(B, f[n])
    BY DEF OpenVPNInv, Reads
  <2>3. B \in Bytes
    <3>1. talk[d] \in Seq(0..255) /\ pos[d] \in Nat /\ pos[d] <= Len(talk[d])
      BY DEF OpenVPNInv, Fed, StreamAssumption, OpenVPN!OpenVPNTCPAssumption, Dirs
    <3>2. Len(talk[d]) \in Nat
      BY <3>1, LenProperties
    <3>3. pos[d] \in 0..Len(talk[d]) /\ 0 \in 0..(Len(talk[d]) - pos[d])
      BY <3>1, <3>2
    <3> QED
      BY <3>1, <3>3, NextChunk DEF Came, Bytes
  <2>4. IsEnds(f, B)
    BY <2>3, OpenVPNEnds DEF EndsCame
  <2>5. n \in Nat
    BY <1>4 DEF Number
  <2>6. f = OpenVPN!Stream!Ends(B) /\ OpenVPN!Stream!Given(d) = B /\ OpenVPN!Taken(d) = n
    BY <1>1, <1>3 DEF EndsCame
  <2> HIDE DEF B, f, n
  <2>7. ASSUME NEW i \in 1..n
        PROVE  /\ IsWhole(B, f[i - 1]) /\ f[i] >= f[i - 1] + 2 + MinPktLen
               /\ OpenVPN!opcode(B[f[i - 1] + 3]) \in
                    IF i = 1 THEN OpenVPN!ResetOpcodes(d) ELSE OpenVPN!SessionOpcodes
    <3>1. /\ IsWhole(B, f[i - 1]) /\ NextEnd(B, f[i - 1]) >= f[i - 1] + 2 + MinPktLen
          /\ OpenVPN!opcode(B[f[i - 1] + 3]) \in
               IF i = 1 THEN OpenVPN!ResetOpcodes(d) ELSE OpenVPN!SessionOpcodes
      BY <2>1 DEF Placed
    <3>2. i \in Nat /\ i # 0
      BY <2>5
    <3>3. f[i] = NextEnd(B, f[i - 1])
      BY <2>4, <3>1, <3>2 DEF IsEnds, Unfolds
    <3> QED
      BY <3>1, <3>3
  <2>8. OpenVPN!InPlace(d, B, n)
    BY <1>2, <2>6, <2>7 DEF OpenVPN!InPlace, OpenVPN!OpcodeOf
  <2>9. parser.cnt[d] > 0 => parser.index[d] = 1
    BY <2>1 DEF Counted
  <2> QED
    BY <2>2, <2>6, <2>8, <2>9 DEF OpenVPN!After, Behind
<1>6. shown = parser.cnt /\ (parser.index["resp"] = 1 => parser.index["req"] = 1)
  BY DEF OpenVPNInv
<1> QED
  BY <1>5, <1>6 DEF OpenVPN!EveryPacketCountedOnce, Dirs

-----------------------------------------------------------------------------
(* DNS over TCP: the parser. *)

Messages == [message : Bytes] \cup {DNS!Nothing}

DNSOf(b, i, m, u, n, o) ==
  [buf |-> b, steps |-> [d \in Dirs |-> <<"length", "message">>], index |-> i, map |-> m,
   updated |-> u, done |-> o, msgLen |-> n]

\* The types of the fields of DNSOf.
Typed(b, i, m, u, n, o) ==
  /\ b \in [Dirs -> Bytes] /\ i \in [Dirs -> 0..1] /\ m \in [Dirs -> Messages]
  /\ u \in [Dirs -> BOOLEAN] /\ n \in [Dirs -> Nat] /\ o \in [Dirs -> BOOLEAN]

DNSParser ==
  [buf : [Dirs -> Bytes], steps : {[d \in Dirs |-> <<"length", "message">>]}, index : [Dirs -> 0..1],
   map : [Dirs -> Messages], updated : [Dirs -> BOOLEAN], done : [Dirs -> BOOLEAN],
   msgLen : [Dirs -> Nat]]

LEMMA DNSParts ==
  ASSUME NEW p \in DNSParser
  PROVE  /\ p = DNSOf(p.buf, p.index, p.map, p.updated, p.msgLen, p.done)
         /\ Typed(p.buf, p.index, p.map, p.updated, p.msgLen, p.done)
<1>1. Typed(p.buf, p.index, p.map, p.updated, p.msgLen, p.done)
  BY DEF DNSParser, Typed
<1>2. p.steps = [d \in Dirs |-> <<"length", "message">>]
  BY DEF DNSParser
<1>3. p = [buf |-> p.buf, steps |-> p.steps, index |-> p.index, map |-> p.map,
           updated |-> p.updated, done |-> p.done, msgLen |-> p.msgLen]
  BY DEF DNSParser
<1> QED
  BY <1>1, <1>2, <1>3 DEF DNSOf

LEMMA DNSFields ==
  ASSUME NEW b, NEW i, NEW m, NEW u, NEW n, NEW o
  PROVE  /\ DNSOf(b, i, m, u, n, o).buf = b /\ DNSOf(b, i, m, u, n, o).index = i
         /\ DNSOf(b, i, m, u, n, o).map = m /\ DNSOf(b, i, m, u, n, o).updated = u
         /\ DNSOf(b, i, m, u, n, o).msgLen = n /\ DNSOf(b, i, m, u, n, o).done = o
         /\ DNSOf(b, i, m, u, n, o).steps = [d \in Dirs |-> <<"length", "message">>]
         /\ Typed(b, i, m, u, n, o) => DNSOf(b, i, m, u, n, o) \in DNSParser
BY DEF DNSOf, DNSParser, Typed

\* Truth values, set and reset.
On(f, d)  == [f EXCEPT ![d] = TRUE]
Off(f, d) == [f EXCEPT ![d] = FALSE]

Report(p, d)   == [p EXCEPT !.updated[d] = TRUE]
Unreport(p, d) == [p EXCEPT !.updated[d] = FALSE]
Stop(p, d)     == [p EXCEPT !.done[d] = TRUE]
GoOn(p, d)     == [p EXCEPT !.done[d] = FALSE]

\* A chunk begins.
Opened(p, d, data) == [p EXCEPT !.buf[d] = @ \o data, !.updated[d] = FALSE]
Joined(b, d, data) == [b EXCEPT ![d] = b[d] \o data]

LEMMA WithReport ==
  ASSUME NEW b, NEW i, NEW m, NEW u, NEW n, NEW o, NEW d
  PROVE  Report(DNSOf(b, i, m, u, n, o), d) = DNSOf(b, i, m, On(u, d), n, o)
<1> DEFINE y == [u EXCEPT ![d] = TRUE]
           q == DNSOf(b, i, m, u, n, o)
<1>1. [q EXCEPT !.updated[d] = TRUE] = [q EXCEPT !.updated = [q.updated EXCEPT ![d] = TRUE]]
  OBVIOUS
<1>2. y = [q.updated EXCEPT ![d] = TRUE]
  BY DEF DNSOf
<1> HIDE DEF y
<1>3. [q EXCEPT !.updated = y] = DNSOf(b, i, m, y, n, o)
  BY DEF DNSOf
<1>4. [q EXCEPT !.updated[d] = TRUE] = [q EXCEPT !.updated = y]
  <2> HIDE DEF q
  <2> QED
    BY <1>1, <1>2
<1> QED
  BY <1>3, <1>4 DEF y, Report, On

LEMMA WithUnreport ==
  ASSUME NEW b, NEW i, NEW m, NEW u, NEW n, NEW o, NEW d
  PROVE  Unreport(DNSOf(b, i, m, u, n, o), d) = DNSOf(b, i, m, Off(u, d), n, o)
<1> DEFINE y == [u EXCEPT ![d] = FALSE]
           q == DNSOf(b, i, m, u, n, o)
<1>1. [q EXCEPT !.updated[d] = FALSE] = [q EXCEPT !.updated = [q.updated EXCEPT ![d] = FALSE]]
  OBVIOUS
<1>2. y = [q.updated EXCEPT ![d] = FALSE]
  BY DEF DNSOf
<1> HIDE DEF y
<1>3. [q EXCEPT !.updated = y] = DNSOf(b, i, m, y, n, o)
  BY DEF DNSOf
<1>4. [q EXCEPT !.updated[d] = FALSE] = [q EXCEPT !.updated = y]
  <2> HIDE DEF q
  <2> QED
    BY <1>1, <1>2
<1> QED
  BY <1>3, <1>4 DEF y, Unreport, Off

LEMMA WithStop ==
  ASSUME NEW b, NEW i, NEW m, NEW u, NEW n, NEW o, NEW d
  PROVE  Stop(DNSOf(b, i, m, u, n, o), d) = DNSOf(b, i, m, u, n, On(o, d))
<1> DEFINE y == [o EXCEPT ![d] = TRUE]
           q == DNSOf(b, i, m, u, n, o)
<1>1. [q EXCEPT !.done[d] = TRUE] = [q EXCEPT !.done = [q.done EXCEPT ![d] = TRUE]]
  OBVIOUS
<1>2. y = [q.done EXCEPT ![d] = TRUE]
  BY DEF DNSOf
<1> HIDE DEF y
<1>3. [q EXCEPT !.done = y] = DNSOf(b, i, m, u, n, y)
  BY DEF DNSOf
<1>4. [q EXCEPT !.done[d] = TRUE] = [q EXCEPT !.done = y]
  <2> HIDE DEF q
  <2> QED
    BY <1>1, <1>2
<1> QED
  BY <1>3, <1>4 DEF y, Stop, On

LEMMA WithGoOn ==
  ASSUME NEW b, NEW i, NEW m, NEW u, NEW n, NEW o, NEW d
  PROVE  GoOn(DNSOf(b, i, m, u, n, o), d) = DNSOf(b, i, m, u, n, Off(o, d))
<1> DEFINE y == [o EXCEPT ![d] = FALSE]
           q == DNSOf(b, i, m, u, n, o)
<1>1. [q EXCEPT !.done[d] = FALSE] = [q EXCEPT !.done = [q.done EXCEPT ![d] = FALSE]]
  OBVIOUS
<1>2. y = [q.done EXCEPT ![d] = FALSE]
  BY DEF DNSOf
<1> HIDE DEF y
<1>3. [q EXCEPT !.done = y] = DNSOf(b, i, m, u, n, y)
  BY DEF DNSOf
<1>4. [q EXCEPT !.done[d] = FALSE] = [q EXCEPT !.done = y]
  <2> HIDE DEF q
  <2> QED
    BY <1>1, <1>2
<1> QED
  BY <1>3, <1>4 DEF y, GoOn, Off

LEMMA DNSFill ==
  ASSUME NEW b, NEW i, NEW m, NEW u, NEW n, NEW o, NEW d, NEW v
  PROVE  DNS!Fill(DNSOf(b, i, m, u, n, o), d, v)
           = DNSOf(b, i, [m EXCEPT ![d] = v], On(u, d), n, o)
<1> DEFINE q == DNSOf(b, i, m, u, n, o)
           r == [q EXCEPT !.map[d] = v]
           x == [m EXCEPT ![d] = v]
<1>1. DNS!Fill(q, d, v) = Report(r, d)
  BY DEF DNS!Fill, Report
<1>2. r = DNSOf(b, i, x, u, n, o)
  BY DEF DNSOf
<1> HIDE DEF r, x
<1>3. Report(r, d) = DNSOf(b, i, x, On(u, d), n, o)
  BY <1>2, WithReport
<1> QED
  BY <1>1, <1>3 DEF x

LEMMA DNSOpened ==
  ASSUME NEW b, NEW i, NEW m, NEW u, NEW n, NEW o, NEW d, NEW data
  PROVE  Opened(DNSOf(b, i, m, u, n, o), d, data)
           = DNSOf(Joined(b, d, data), i, m, Off(u, d), n, o)
<1> DEFINE q == DNSOf(b, i, m, u, n, o)
           c == b[d] \o data
           r == [q EXCEPT !.buf[d] = c]
           x == [b EXCEPT ![d] = c]
<1>1. Opened(q, d, data) = Unreport(r, d)
  <2>1. q.buf = b
    BY DEF DNSOf
  <2> HIDE DEF q
  <2> QED
    BY <2>1 DEF Opened, Unreport
<1> HIDE DEF c
<1>2. r = DNSOf(x, i, m, u, n, o)
  BY DEF DNSOf
<1> HIDE DEF r, x
<1>3. Unreport(r, d) = DNSOf(x, i, m, Off(u, d), n, o)
  BY <1>2, WithUnreport
<1> QED
  BY <1>1, <1>3 DEF x, c, Joined

\* One round of the machine: the length of a message, or the message.
Result(a, p) == [act |-> a, p |-> p]

LengthOf(s) == 256 * s[1] + s[2]

OneRound(b, i, m, u, n, o, d) ==
  IF i[d] = 0
  THEN IF Len(b[d]) < 2 THEN Result("pause", DNSOf(b, i, m, u, n, o))
       ELSE Result("run", DNSOf([b EXCEPT ![d] = Behind(b[d], 2)], [i EXCEPT ![d] = 1], m, u,
                                [n EXCEPT ![d] = LengthOf(b[d])], o))
  ELSE IF Len(b[d]) < n[d] THEN Result("pause", DNSOf(b, i, m, u, n, o))
  ELSE IF ~DNS!decodes(SubSeq(b[d], 1, n[d]))
       THEN Result("cancel", DNSOf([b EXCEPT ![d] = Behind(b[d], n[d])], i, m, u, n, o))
  ELSE Result("run", DNSOf([b EXCEPT ![d] = Behind(b[d], n[d])], [i EXCEPT ![d] = 0],
                           [m EXCEPT ![d] = [message |-> SubSeq(b[d], 1, n[d])]],
                           On(u, d), n, o))

LEMMA DNSRound ==
  ASSUME NEW b, NEW i, NEW m, NEW u, NEW n, NEW o, Typed(b, i, m, u, n, o), NEW d \in Dirs
  PROVE  DNS!Round(DNS!Step, d, Result("run", DNSOf(b, i, m, u, n, o))) = OneRound(b, i, m, u, n, o, d)
<1> DEFINE p == DNSOf(b, i, m, u, n, o)
           z == DNS!Round(DNS!Step, d, Result("run", p))
           s == DNS!Step(d, p.steps[d][p.index[d] + 1], p)
<1>1. /\ p.buf = b /\ p.index = i /\ p.msgLen = n /\ p.steps[d] = <<"length", "message">>
      /\ Len(p.steps[d]) = 2
  BY DNSFields
<1>2. i[d] \in 0..1 /\ b[d] \in Bytes /\ Len(b[d]) \in Nat /\ n[d] \in Nat
  BY LenProperties DEF Typed, Bytes
<1>3. z = IF p.index[d] >= Len(p.steps[d]) THEN [act |-> "end", p |-> p]
          ELSE IF s.act = "next" THEN [act |-> "run", p |-> [s.p EXCEPT !.index[d] = @ + 1]]
          ELSE IF s.act = "reset" THEN [act |-> "run", p |-> [s.p EXCEPT !.index[d] = 0]]
          ELSE s
  BY DEF DNS!Round, DNS!Follow, Result
<1> HIDE DEF p, z, s
<1>4. z = IF s.act = "next" THEN [act |-> "run", p |-> [s.p EXCEPT !.index[d] = @ + 1]]
          ELSE IF s.act = "reset" THEN [act |-> "run", p |-> [s.p EXCEPT !.index[d] = 0]]
          ELSE s
  BY <1>1, <1>2, <1>3
<1>5. CASE i[d] = 0
  <2>1. s = IF ~(Len(b[d]) >= 2) THEN DNS!Pause(p)
            ELSE DNS!Go([DNS!Skip(p, d, 2) EXCEPT !.msgLen[d] = LengthOf(b[d])])
    BY <1>1, <1>5 DEF s, DNS!Step, DNS!getMessageLength, DNS!Enough, LengthOf
  <2>2. CASE Len(b[d]) < 2
    <3>1. s = Result("pause", p)
      BY <1>2, <2>1, <2>2 DEF DNS!Pause, Result
    <3>2. z = s
      BY <1>4, <3>1 DEF Result
    <3> QED
      BY <1>5, <2>2, <3>1, <3>2 DEF OneRound, z, p
  <2>3. CASE ~(Len(b[d]) < 2)
    <3> DEFINE c == [b EXCEPT ![d] = Behind(b[d], 2)]
               l == [n EXCEPT ![d] = LengthOf(b[d])]
    <3>1. DNS!Skip(p, d, 2) = DNSOf(c, i, m, u, n, o)
      <4>1. DNS!Skip(p, d, 2) = [p EXCEPT !.buf[d] = Behind(b[d], 2)]
        BY <1>1 DEF DNS!Skip, DNS!After, Behind
      <4> QED
        BY <4>1 DEF DNSOf, p
    <3> HIDE DEF c
    <3>2. [DNS!Skip(p, d, 2) EXCEPT !.msgLen[d] = LengthOf(b[d])] = DNSOf(c, i, m, u, l, o)
      BY <3>1 DEF DNSOf
    <3> HIDE DEF l
    <3> DEFINE q == DNSOf(c, i, m, u, l, o)
    <3>3. s.act = "next" /\ s.p = q
      BY <1>2, <2>1, <2>3, <3>2 DEF DNS!Go
    <3>4. z = [act |-> "run", p |-> [q EXCEPT !.index[d] = i[d] + 1]]
      <4>1. q.index = i
        BY DNSFields
      <4> HIDE DEF q
      <4> QED
        BY <1>4, <3>3, <4>1
    <3>5. [q EXCEPT !.index[d] = 1] = DNSOf(c, [i EXCEPT ![d] = 1], m, u, l, o)
      BY DEF DNSOf
    <3> HIDE DEF q
    <3>6. i[d] + 1 = 1
      BY <1>5
    <3>7. z = Result("run", DNSOf(c, [i EXCEPT ![d] = 1], m, u, l, o))
      BY <3>4, <3>5, <3>6 DEF Result
    <3> QED
      BY <1>5, <2>3, <3>7 DEF OneRound, z, p, c, l
  <2> QED
    BY <2>2, <2>3
<1>6. CASE i[d] # 0
  <2> DEFINE msg == SubSeq(b[d], 1, n[d])
             rest == DNS!Skip(p, d, n[d])
             c == [b EXCEPT ![d] = Behind(b[d], n[d])]
             v == DNS!parseDNSMessage(msg)
  <2>1. i[d] = 1
    BY <1>2, <1>6
  <2>2. s = IF ~(Len(b[d]) >= n[d]) THEN DNS!Pause(p)
            ELSE IF v = DNS!nil THEN DNS!Cancel(rest)
            ELSE DNS!Reset(DNS!Fill(rest, d, v))
    <3>1. p.steps[d][p.index[d] + 1] = "message"
      BY <1>1, <2>1
    <3> QED
      BY <1>1, <3>1 DEF s, DNS!Step, DNS!getMessage, DNS!Enough, DNS!First
  <2>3. rest = DNSOf(c, i, m, u, n, o)
    <3>1. rest = [p EXCEPT !.buf[d] = Behind(b[d], n[d])]
      BY <1>1 DEF DNS!Skip, DNS!After, Behind
    <3> QED
      BY <3>1 DEF DNSOf, p
  <2>4. /\ DNS!decodes(msg) => v = [message |-> msg] /\ v # DNS!nil
        /\ ~DNS!decodes(msg) => v = DNS!nil
    BY DEF DNS!parseDNSMessage, DNS!nil
  <2> HIDE DEF msg, c, rest, v
  <2>5. CASE Len(b[d]) < n[d]
    <3>1. s = Result("pause", p)
      BY <1>2, <2>2, <2>5 DEF DNS!Pause, Result
    <3>2. z = s
      BY <1>4, <3>1 DEF Result
    <3> QED
      BY <1>6, <2>5, <3>1, <3>2 DEF OneRound, z, p
  <2>6. CASE ~(Len(b[d]) < n[d]) /\ ~DNS!decodes(msg)
    <3>1. s = Result("cancel", DNSOf(c, i, m, u, n, o))
      BY <1>2, <2>2, <2>3, <2>4, <2>6 DEF DNS!Cancel, Result
    <3>2. z = s
      BY <1>4, <3>1 DEF Result
    <3> QED
      BY <1>6, <2>6, <3>1, <3>2 DEF OneRound, z, p, c, msg
  <2>7. CASE ~(Len(b[d]) < n[d]) /\ DNS!decodes(msg)
    <3> DEFINE w == [message |-> msg]
               x == [m EXCEPT ![d] = w]
               y == On(u, d)
    <3> HIDE DEF x, y
    <3>1. DNS!Fill(rest, d, v) = DNSOf(c, i, x, y, n, o)
      <4>1. v = w
        BY <2>4, <2>7
      <4> HIDE DEF w
      <4> QED
        BY <2>3, <4>1, DNSFill DEF x, y
    <3>2. s.act = "reset" /\ s.p = DNSOf(c, i, x, y, n, o)
      BY <1>2, <2>2, <2>4, <2>7, <3>1 DEF DNS!Reset
    <3>3. [DNSOf(c, i, x, y, n, o) EXCEPT !.index[d] = 0] = DNSOf(c, [i EXCEPT ![d] = 0], x, y, n, o)
      BY DEF DNSOf
    <3> HIDE DEF w
    <3>4. z = Result("run", DNSOf(c, [i EXCEPT ![d] = 0], x, y, n, o))
      BY <1>4, <3>2, <3>3 DEF Result
    <3> QED
      BY <1>6, <2>7, <3>4 DEF OneRound, z, p, c, w, x, y, msg
  <2> QED
    BY <2>5, <2>6, <2>7
<1> QED
  BY <1>5, <1>6 DEF z, p

LEMMA OnAndOff ==
  ASSUME NEW f \in [Dirs -> BOOLEAN], NEW d \in Dirs
  PROVE  /\ On(f, d) \in [Dirs -> BOOLEAN] /\ On(f, d)[d]
         /\ Off(f, d) \in [Dirs -> BOOLEAN] /\ ~Off(f, d)[d]
         /\ \A e \in Dirs \ {d} : (On(f, d)[e] <=> f[e]) /\ (Off(f, d)[e] <=> f[e])
BY DEF On, Off

-----------------------------------------------------------------------------
(* DNS over TCP: the machine. *)

\* The first bytes behind k.
LEMMA FirstBehind ==
  ASSUME NEW S, NEW s \in Seq(S), NEW k \in 0..Len(s), NEW n \in 0..(Len(s) - k)
  PROVE  SubSeq(Behind(s, k), 1, n) = SubSeq(s, k + 1, k + n)
<1> DEFINE t == Behind(s, k)
           x == SubSeq(t, 0 + 1, n)
           y == SubSeq(s, k + 1, k + n)
<1>1. Len(s) \in Nat /\ k + n \in Nat /\ k + 1 >= 1 /\ k + n <= Len(s) /\ k <= k + n /\ (k + n) - k = n
  BY LenProperties
<1>2. t \in Seq(S) /\ Len(t) = Len(s) - k /\ \A i \in 1..(Len(s) - k) : t[i] = s[k + i]
  BY Rest
<1>3. y \in Seq(S) /\ Len(y) = n /\ \A i \in 1..n : y[i] = s[k + i]
  <2>1. /\ y \in Seq(S) /\ Len(y) = (k + n) - k
        /\ \A i \in 1..((k + n) - k) : y[i] = s[k + i]
    BY <1>1, Part
  <2> HIDE DEF y
  <2> QED
    BY <1>1, <2>1
<1> HIDE DEF t
<1>4. x \in Seq(S) /\ Len(x) = n /\ \A i \in 1..n : x[i] = t[i]
  <2>1. 0 + 1 >= 1 /\ n <= Len(t) /\ 0 <= n /\ n \in Nat
    BY <1>1, <1>2
  <2>2. /\ x \in Seq(S) /\ Len(x) = n - 0
        /\ \A i \in 1..(n - 0) : x[i] = t[0 + i]
    BY <1>2, <2>1, Part
  <2>3. n - 0 = n /\ \A i \in 1..n : 0 + i = i
    OBVIOUS
  <2> HIDE DEF x
  <2> QED
    BY <2>2, <2>3
<1> HIDE DEF x, y
<1>5. \A i \in 1..n : i \in 1..(Len(s) - k)
  BY <1>1
<1>6. \A i \in 1..Len(x) : x[i] = y[i]
  BY <1>2, <1>3, <1>4, <1>5
<1>7. x = y
  BY <1>3, <1>4, <1>6, SeqEqual
<1> QED
  BY <1>7 DEF x, y, t

\* The messages of B, which end where f says, that have been read.
Msg(f, B, j) == SubSeq(B, f[j - 1] + 3, f[j])

Decoded(f, B, n) == \A j \in 1..n : IsWhole(B, f[j - 1]) /\ DNS!decodes(Msg(f, B, j))

\* The parser has the rest of B behind n messages, or behind the length of the next.
At(p, d, f, B, n) ==
  /\ p.index[d] = 0 => p.buf[d] = Behind(B, f[n])
  /\ p.index[d] = 1 => /\ f[n] + 2 <= Len(B) /\ p.buf[d] = Behind(B, f[n] + 2)
                       /\ NextEnd(B, f[n]) = f[n] + 2 + p.msgLen[d]

\* Only direction d has changed since p0.
Apart(p0, p, d) ==
  /\ p.done = p0.done
  /\ \A e \in Dirs \ {d} : /\ p.buf[e] = p0.buf[e] /\ p.index[e] = p0.index[e]
                           /\ p.map[e] = p0.map[e] /\ p.msgLen[e] = p0.msgLen[e]

\* n messages are read, and the map has the last, if any is new since p0, which
\* had read n0.
Known(p0, n0, p, n, d, f, B) ==
  /\ n = n0 => ~p.updated[d] /\ p.map[d] = p0.map[d]
  /\ n # n0 => p.updated[d] /\ p.map[d] = [message |-> Msg(f, B, n)]

\* What a number of rounds come to.
Stands(p0, n0, a, p, n, d, f, B) ==
  /\ p \in DNSParser /\ n >= n0 /\ Decoded(f, B, n) /\ Apart(p0, p, d)
  /\ Known(p0, n0, p, n, d, f, B)
  /\ a \in {"run", "pause", "cancel"}
  /\ a # "cancel" => At(p, d, f, B, n)
  /\ a = "pause" => ~IsWhole(B, f[n])
  /\ a = "cancel" => IsWhole(B, f[n]) /\ ~DNS!decodes(Msg(f, B, n + 1))

\* The length of a message.
LEMMA LengthRead ==
  ASSUME NEW B \in Bytes, NEW f, IsEnds(f, B), NEW d \in Dirs, NEW p0, NEW n0 \in Nat,
         NEW p, NEW n \in Nat, Stands(p0, n0, "run", p, n, d, f, B), p.index[d] = 0,
         NEW z, z = DNS!Round(DNS!Step, d, Result("run", p))
  PROVE  /\ Stands(p0, n0, z.act, z.p, n, d, f, B)
         /\ z.act = "run" => Len(z.p.buf[d]) < Len(p.buf[d])
<1> DEFINE e == f[n]
           c == [p.buf EXCEPT ![d] = Behind(p.buf[d], 2)]
           i == [p.index EXCEPT ![d] = 1]
           l == [p.msgLen EXCEPT ![d] = LengthOf(p.buf[d])]
           q == DNSOf(c, i, p.map, p.updated, l, p.done)
<1>1. /\ p \in DNSParser /\ n >= n0 /\ Decoded(f, B, n) /\ Apart(p0, p, d)
      /\ Known(p0, n0, p, n, d, f, B) /\ At(p, d, f, B, n)
  BY DEF Stands
<1>2. /\ p = DNSOf(p.buf, p.index, p.map, p.updated, p.msgLen, p.done)
      /\ Typed(p.buf, p.index, p.map, p.updated, p.msgLen, p.done)
  BY <1>1, DNSParts
<1>3. z = IF Len(p.buf[d]) < 2 THEN Result("pause", p) ELSE Result("run", q)
  <2>1. z = OneRound(p.buf, p.index, p.map, p.updated, p.msgLen, p.done, d)
    BY <1>2, DNSRound
  <2> QED
    BY <1>2, <2>1 DEF OneRound
<1>4. /\ e \in 0..Len(B) /\ Len(B) \in Nat /\ p.buf[d] = Behind(B, e)
      /\ p.buf[d] \in Bytes /\ Len(p.buf[d]) = Len(B) - e
      /\ \A j \in 1..(Len(B) - e) : p.buf[d][j] = B[e + j]
  <2>1. e \in 0..Len(B) /\ Len(B) \in Nat
    BY LenProperties DEF IsEnds, Bytes
  <2>2. p.buf[d] = Behind(B, e)
    BY <1>1 DEF At
  <2> HIDE DEF e
  <2> QED
    BY <2>1, <2>2, Rest DEF Bytes
<1> HIDE DEF e
<1>5. CASE Len(p.buf[d]) < 2
  <2>1. z.act = "pause" /\ z.p = p
    BY <1>3, <1>5 DEF Result
  <2>2. ~IsWhole(B, e)
    BY <1>4, <1>5 DEF IsWhole
  <2> QED
    BY <1>1, <2>1, <2>2 DEF Stands, e
<1>6. CASE ~(Len(p.buf[d]) < 2)
  <2>1. z.act = "run" /\ z.p = q
    BY <1>3, <1>6 DEF Result
  <2>2. e + 2 \in 0..Len(B) /\ 2 \in 0..(Len(B) - e) /\ 1 \in 1..(Len(B) - e) /\ 2 \in 1..(Len(B) - e)
    BY <1>4, <1>6
  <2>3. Behind(p.buf[d], 2) = Behind(B, e + 2)
    BY <1>4, <2>2, RestOfRest DEF Bytes
  <2>4. Behind(B, e + 2) \in Bytes /\ Len(Behind(B, e + 2)) = Len(B) - (e + 2)
    BY <2>2, Rest DEF Bytes
  <2>5. LengthOf(p.buf[d]) \in Nat /\ NextEnd(B, e) = e + 2 + LengthOf(p.buf[d])
    <3>1. e + 2 <= Len(B) /\ e \in 0..Len(B)
      BY <1>4, <2>2
    <3>2. PICK x \in 0..255, y \in 0..255 : x = B[e + 1] /\ y = B[e + 2]
      <4>1. B[e + 1] \in 0..255 /\ B[e + 2] \in 0..255
        BY <3>1, NextEndIn
      <4> QED
        BY <4>1
    <3>3. p.buf[d][1] = x /\ p.buf[d][2] = y
      BY <1>4, <2>2, <3>2
    <3>4. LengthOf(p.buf[d]) = 256 * x + y /\ NextEnd(B, e) = e + 2 + 256 * x + y
      BY <3>2, <3>3 DEF LengthOf, NextEnd
    <3>5. e \in Nat
      BY <1>4
    <3> QED
      BY <3>4, <3>5
  <2>6. /\ c \in [Dirs -> Bytes] /\ i \in [Dirs -> 0..1] /\ l \in [Dirs -> Nat]
        /\ c[d] = Behind(B, e + 2) /\ i[d] = 1 /\ l[d] = LengthOf(p.buf[d])
        /\ \A x \in Dirs \ {d} : c[x] = p.buf[x] /\ i[x] = p.index[x] /\ l[x] = p.msgLen[x]
    BY <1>2, <2>3, <2>4, <2>5 DEF Typed
  <2> HIDE DEF c, i, l
  <2>7. /\ q.buf = c /\ q.index = i /\ q.msgLen = l /\ q.map = p.map /\ q.updated = p.updated
        /\ q.done = p.done /\ q \in DNSParser
    <3>1. Typed(c, i, p.map, p.updated, l, p.done)
      BY <1>2, <2>6 DEF Typed
    <3> QED
      BY <3>1, DNSFields
  <2> HIDE DEF q
  <2>8. Apart(p0, q, d)
    BY <1>1, <2>6, <2>7 DEF Apart
  <2>9. Known(p0, n0, q, n, d, f, B)
    BY <1>1, <2>7 DEF Known
  <2>10. At(q, d, f, B, n)
    <3>1. q.index[d] = 1 /\ q.buf[d] = Behind(B, e + 2) /\ q.msgLen[d] = LengthOf(p.buf[d])
      BY <2>6, <2>7
    <3>2. e + 2 <= Len(B)
      BY <2>2
    <3> QED
      BY <2>5, <3>1, <3>2 DEF At, e
  <2>11. Len(q.buf[d]) < Len(p.buf[d])
    BY <1>4, <2>2, <2>4, <2>6, <2>7
  <2> QED
    BY <1>1, <2>1, <2>7, <2>8, <2>9, <2>10, <2>11 DEF Stands
<1> QED
  BY <1>5, <1>6

\* The message.
LEMMA MessageRead ==
  ASSUME NEW B \in Bytes, NEW f, IsEnds(f, B), NEW d \in Dirs, NEW p0, NEW n0 \in Nat,
         NEW p, NEW n \in Nat, Stands(p0, n0, "run", p, n, d, f, B), p.index[d] # 0,
         NEW z, z = DNS!Round(DNS!Step, d, Result("run", p))
  PROVE  /\ \/ Stands(p0, n0, z.act, z.p, n, d, f, B)
            \/ Stands(p0, n0, z.act, z.p, n + 1, d, f, B)
         /\ z.act = "run" => Len(z.p.buf[d]) < Len(p.buf[d])
<1> DEFINE e == f[n]
           L == p.msgLen[d]
           msg == SubSeq(p.buf[d], 1, L)
           c == [p.buf EXCEPT ![d] = Behind(p.buf[d], L)]
           i == [p.index EXCEPT ![d] = 0]
           m == [p.map EXCEPT ![d] = [message |-> msg]]
           u == On(p.updated, d)
           bad == DNSOf(c, p.index, p.map, p.updated, p.msgLen, p.done)
           q == DNSOf(c, i, m, u, p.msgLen, p.done)
<1>1. /\ p \in DNSParser /\ n >= n0 /\ Decoded(f, B, n) /\ Apart(p0, p, d)
      /\ Known(p0, n0, p, n, d, f, B) /\ At(p, d, f, B, n)
  BY DEF Stands
<1>2. /\ p = DNSOf(p.buf, p.index, p.map, p.updated, p.msgLen, p.done)
      /\ Typed(p.buf, p.index, p.map, p.updated, p.msgLen, p.done)
  BY <1>1, DNSParts
<1>3. z = IF Len(p.buf[d]) < L THEN Result("pause", p)
          ELSE IF ~DNS!decodes(msg) THEN Result("cancel", bad)
          ELSE Result("run", q)
  <2>1. z = OneRound(p.buf, p.index, p.map, p.updated, p.msgLen, p.done, d)
    BY <1>2, DNSRound
  <2> QED
    BY <1>2, <2>1 DEF OneRound
<1>4. /\ e \in 0..Len(B) /\ Len(B) \in Nat /\ L \in Nat /\ e + 2 <= Len(B)
      /\ p.buf[d] = Behind(B, e + 2) /\ NextEnd(B, e) = e + 2 + L
  <2>1. e \in 0..Len(B) /\ Len(B) \in Nat
    BY LenProperties DEF IsEnds, Bytes
  <2>2. p.index[d] = 1 /\ L \in Nat
    BY <1>2 DEF Typed
  <2> QED
    BY <1>1, <2>1, <2>2 DEF At
<1> HIDE DEF e, L
<1>5. e + 2 \in 0..Len(B) /\ p.buf[d] \in Bytes /\ Len(p.buf[d]) = Len(B) - (e + 2)
  <2>1. e + 2 \in 0..Len(B)
    BY <1>4
  <2> QED
    BY <1>4, <2>1, Rest DEF Bytes
<1>6. CASE Len(p.buf[d]) < L
  <2>1. z.act = "pause" /\ z.p = p
    BY <1>3, <1>6 DEF Result
  <2>2. ~IsWhole(B, e)
    BY <1>4, <1>5, <1>6 DEF IsWhole
  <2> QED
    BY <1>1, <2>1, <2>2 DEF Stands, e
<1>7. CASE ~(Len(p.buf[d]) < L)
  <2>1. IsWhole(B, e) /\ f[n + 1] = e + 2 + L
    <3>1. IsWhole(B, e)
      BY <1>4, <1>5, <1>7 DEF IsWhole
    <3>2. n + 1 \in Nat /\ n + 1 # 0 /\ (n + 1) - 1 = n
      OBVIOUS
    <3>3. f[n + 1] = NextEnd(B, e)
      BY <3>1, <3>2 DEF IsEnds, Unfolds, e
    <3> QED
      BY <1>4, <3>1, <3>3
  <2>2. L \in 0..(Len(B) - (e + 2))
    BY <1>4, <1>5, <1>7
  <2>3. msg = Msg(f, B, n + 1)
    <3>1. SubSeq(Behind(B, e + 2), 1, L) = SubSeq(B, (e + 2) + 1, (e + 2) + L)
      BY <1>5, <2>2, FirstBehind DEF Bytes
    <3>2. (n + 1) - 1 = n /\ (e + 2) + 1 = e + 3
      BY <1>4
    <3> QED
      BY <1>4, <2>1, <3>1, <3>2 DEF Msg, e
  <2>4. /\ Behind(p.buf[d], L) = Behind(B, f[n + 1])
        /\ Behind(p.buf[d], L) \in Bytes
        /\ Len(Behind(p.buf[d], L)) = Len(p.buf[d]) - L
        /\ msg \in Bytes /\ Len(msg) = L
    <3>1. p.buf[d] \in Seq(0..255) /\ L \in 0..Len(p.buf[d]) /\ 0 \in 0..(Len(p.buf[d]) - L)
      BY <1>4, <1>5, <1>7 DEF Bytes
    <3>2. Behind(p.buf[d], L) \in Seq(0..255) /\ Len(Behind(p.buf[d], L)) = Len(p.buf[d]) - L
      BY <3>1, Rest
    <3>3. Behind(p.buf[d], L) = Behind(B, (e + 2) + L)
      BY <1>4, <1>5, <2>2, RestOfRest DEF Bytes
    <3>4. msg \in Seq(0..255) /\ Len(msg) = L
      BY <3>1, FirstPart
    <3> QED
      BY <2>1, <3>2, <3>3, <3>4 DEF Bytes
  <2> HIDE DEF msg
  <2>5. /\ c \in [Dirs -> Bytes] /\ c[d] = Behind(p.buf[d], L)
        /\ \A x \in Dirs \ {d} : c[x] = p.buf[x]
    BY <1>2, <2>4 DEF Typed
  <2> HIDE DEF c
  <2>6. CASE ~DNS!decodes(msg)
    <3>1. z.act = "cancel" /\ z.p = bad
      BY <1>3, <1>7, <2>6 DEF Result
    <3>2. /\ bad.buf = c /\ bad.index = p.index /\ bad.msgLen = p.msgLen /\ bad.map = p.map
          /\ bad.updated = p.updated /\ bad.done = p.done /\ bad \in DNSParser
      <4>1. Typed(c, p.index, p.map, p.updated, p.msgLen, p.done)
        BY <1>2, <2>5 DEF Typed
      <4> QED
        BY <4>1, DNSFields
    <3> HIDE DEF bad
    <3>3. Apart(p0, bad, d)
      BY <1>1, <2>5, <3>2 DEF Apart
    <3>4. Known(p0, n0, bad, n, d, f, B)
      BY <1>1, <3>2 DEF Known
    <3>5. Stands(p0, n0, z.act, z.p, n, d, f, B)
      BY <1>1, <2>1, <2>3, <2>6, <3>1, <3>2, <3>3, <3>4 DEF Stands, e
    <3> QED
      BY <3>1, <3>5
  <2>7. CASE DNS!decodes(msg)
    <3>1. z.act = "run" /\ z.p = q
      BY <1>3, <1>7, <2>7 DEF Result
    <3>2. /\ i \in [Dirs -> 0..1] /\ m \in [Dirs -> Messages] /\ u \in [Dirs -> BOOLEAN]
          /\ i[d] = 0 /\ m[d] = [message |-> msg] /\ u[d]
          /\ \A x \in Dirs \ {d} : i[x] = p.index[x] /\ m[x] = p.map[x]
      <4>1. [message |-> msg] \in Messages
        BY <2>4 DEF Messages
      <4>2. i \in [Dirs -> 0..1] /\ i[d] = 0 /\ \A x \in Dirs \ {d} : i[x] = p.index[x]
        BY <1>2 DEF Typed
      <4>3. p.map \in [Dirs -> Messages] /\ p.updated \in [Dirs -> BOOLEAN]
        BY <1>2 DEF Typed
      <4> DEFINE w == [message |-> msg]
      <4> HIDE DEF w
      <4>4. m \in [Dirs -> Messages] /\ m[d] = w /\ \A x \in Dirs \ {d} : m[x] = p.map[x]
        BY <4>1, <4>3 DEF w
      <4>5. u \in [Dirs -> BOOLEAN] /\ u[d]
        BY <4>3, OnAndOff
      <4> QED
        BY <4>2, <4>4, <4>5 DEF w
    <3> HIDE DEF i, m, u
    <3>3. /\ q.buf = c /\ q.index = i /\ q.msgLen = p.msgLen /\ q.map = m
          /\ q.updated = u /\ q.done = p.done /\ q \in DNSParser
      <4>1. Typed(c, i, m, u, p.msgLen, p.done)
        BY <1>2, <2>5, <3>2 DEF Typed
      <4> QED
        BY <4>1, DNSFields
    <3> HIDE DEF q
    <3>4. Apart(p0, q, d)
      BY <1>1, <2>5, <3>2, <3>3 DEF Apart
    <3>5. Known(p0, n0, q, n + 1, d, f, B)
      <4>1. n + 1 # n0
        BY <1>1
      <4> QED
        BY <2>3, <3>2, <3>3, <4>1 DEF Known
    <3>6. At(q, d, f, B, n + 1)
      BY <2>4, <2>5, <3>2, <3>3 DEF At
    <3>7. Decoded(f, B, n + 1)
      <4>1. ASSUME NEW j \in 1..(n + 1) PROVE IsWhole(B, f[j - 1]) /\ DNS!decodes(Msg(f, B, j))
        <5>1. CASE j = n + 1
          <6>1. j - 1 = n
            BY <5>1
          <6> QED
            BY <2>1, <2>3, <2>7, <5>1, <6>1 DEF e
        <5>2. CASE j # n + 1
          <6>1. j \in 1..n
            BY <5>2
          <6> QED
            BY <1>1, <6>1 DEF Decoded
        <5> QED
          BY <5>1, <5>2
      <4> QED
        BY <4>1 DEF Decoded
    <3>8. Len(q.buf[d]) < Len(p.buf[d])
      <4>1. msg # <<>>
        BY <2>7 DEF DNS!decodes
      <4>2. L # 0
        BY <2>4, <4>1, EmptySeq DEF Bytes
      <4>3. q.buf[d] = Behind(p.buf[d], L)
        BY <2>5, <3>3
      <4>4. Len(q.buf[d]) = Len(p.buf[d]) - L
        BY <2>4, <4>3
      <4>5. Len(p.buf[d]) \in Nat
        BY <1>4, <1>5
      <4> QED
        BY <1>4, <4>2, <4>4, <4>5
    <3>9. n + 1 >= n0
      BY <1>1
    <3>10. Stands(p0, n0, z.act, z.p, n + 1, d, f, B)
      BY <3>1, <3>3, <3>4, <3>5, <3>6, <3>7, <3>9 DEF Stands
    <3> QED
      BY <3>1, <3>8, <3>10
  <2> QED
    BY <2>6, <2>7
<1> QED
  BY <1>6, <1>7

LEMMA BufLength ==
  ASSUME NEW p \in DNSParser, NEW d \in Dirs
  PROVE  p.buf[d] \in Bytes /\ Len(p.buf[d]) \in Nat
BY LenProperties DEF DNSParser, Bytes

\* The rounds of a run, one after the other.
NextRound(d, r) == DNS!Round(DNS!Step, d, r)

AreRounds(a, N, z, d) == a = [k \in 0..N |-> IF k = 0 THEN z ELSE NextRound(d, a[k - 1])]

LEMMA RoundsExist == ASSUME NEW N \in Nat, NEW d, NEW z PROVE \E a : AreRounds(a, N, z, d)
<1> DEFINE T == {m \in Nat : \E a : AreRounds(a, m, z, d)}
<1>1. 0 \in T
  <2> DEFINE a == [k \in 0..0 |-> z]
  <2>1. AreRounds(a, 0, z, d)
    <3>1. \A k \in 0..0 : k = 0
      OBVIOUS
    <3>2. a = [k \in 0..0 |-> IF k = 0 THEN z ELSE NextRound(d, a[k - 1])]
      BY <3>1
    <3> QED
      BY <3>2 DEF AreRounds
  <2> QED
    BY <2>1
<1>2. ASSUME NEW m \in Nat, m \in T PROVE m + 1 \in T
  <2>1. PICK a : AreRounds(a, m, z, d)
    BY <1>2
  <2> DEFINE v == NextRound(d, a[m])
             g == [k \in 0..(m + 1) |-> IF k = m + 1 THEN v ELSE a[k]]
  <2>2. ASSUME NEW k \in 0..(m + 1) PROVE g[k] = IF k = 0 THEN z ELSE NextRound(d, g[k - 1])
    <3>1. CASE k = m + 1
      <4>1. k - 1 = m /\ m \in 0..(m + 1) /\ m # m + 1 /\ k # 0
        BY <3>1
      <4>2. g[m] = a[m] /\ g[k] = v
        BY <3>1, <4>1
      <4> QED
        BY <4>1, <4>2
    <3>2. CASE k # m + 1
      <4>1. k \in 0..m /\ g[k] = a[k]
        BY <3>2
      <4>2. a[k] = IF k = 0 THEN z ELSE NextRound(d, a[k - 1])
        BY <2>1, <4>1 DEF AreRounds
      <4>3. CASE k = 0
        BY <4>1, <4>2, <4>3
      <4>4. CASE k # 0
        <5>1. k - 1 \in 0..(m + 1) /\ k - 1 # m + 1
          BY <4>1, <4>4
        <5>2. g[k - 1] = a[k - 1]
          BY <5>1
        <5> QED
          BY <4>1, <4>2, <4>4, <5>2
      <4> QED
        BY <4>3, <4>4
    <3> QED
      BY <3>1, <3>2
  <2>3. g = [k \in 0..(m + 1) |-> g[k]]
    OBVIOUS
  <2> HIDE DEF g
  <2>4. AreRounds(g, m + 1, z, d)
    BY <2>2, <2>3 DEF AreRounds
  <2> QED
    BY <2>4
<1>3. N \in T
  <2> HIDE DEF T
  <2> QED
    BY <1>1, <1>2, NatInduct
<1> QED
  BY <1>3

LEMMA DNSRuns ==
  ASSUME NEW p \in DNSParser, NEW d \in Dirs
  PROVE  \E a : /\ AreRounds(a, Len(p.buf[d]) + 3, Result("run", p), d)
                /\ DNS!RunSteps(DNS!Step, d, p) = a[Len(p.buf[d]) + 3]
<1> DEFINE N == DNS!Rounds(d, p)
           z == Result("run", p)
           a == CHOOSE after : AreRounds(after, N, z, d)
<1>1. N = Len(p.buf[d]) + 3 /\ N \in Nat
  <2>1. p.steps[d] = <<"length", "message">> /\ Len(p.steps[d]) = 2
    BY DEF DNSParser
  <2>2. Len(p.buf[d]) \in Nat
    BY LenProperties DEF DNSParser, Bytes
  <2> QED
    BY <2>1, <2>2 DEF DNS!Rounds
<1>2. DNS!RunSteps(DNS!Step, d, p) = a[N]
  BY DEF DNS!RunSteps, AreRounds, NextRound, Result
<1> HIDE DEF N, z
<1>3. AreRounds(a, N, z, d)
  BY <1>1, RoundsExist
<1> HIDE DEF a
<1> QED
  BY <1>1, <1>2, <1>3 DEF z

\* Every round that goes on has taken a byte.
LEMMA DNSRounds ==
  ASSUME NEW B \in Bytes, NEW f, IsEnds(f, B), NEW d \in Dirs, NEW p0, NEW n0 \in Nat, NEW p,
         Stands(p0, n0, "run", p, n0, d, f, B), NEW N \in Nat, NEW a,
         AreRounds(a, N, Result("run", p), d)
  PROVE  \A k \in 0..N : \E n \in Nat : /\ Stands(p0, n0, a[k].act, a[k].p, n, d, f, B)
                                        /\ a[k].act = "run" => Len(a[k].p.buf[d]) + k <= Len(p.buf[d])
<1> DEFINE M == Len(p.buf[d])
           S(k, n) == Stands(p0, n0, a[k].act, a[k].p, n, d, f, B)
           T == {k \in Nat : k <= N => \E n \in Nat : /\ S(k, n)
                                                      /\ a[k].act = "run" => Len(a[k].p.buf[d]) + k <= M}
<1>1. 0 \in T
  <2>1. a[0] = Result("run", p)
    BY DEF AreRounds
  <2>2. a[0].act = "run" /\ a[0].p = p
    BY <2>1 DEF Result
  <2>3. S(0, n0)
    BY <2>2
  <2>4. M \in Nat
    BY LenProperties DEF Stands, DNSParser, Bytes
  <2>5. Len(a[0].p.buf[d]) + 0 <= M
    BY <2>2, <2>4
  <2> HIDE DEF S
  <2> QED
    BY <2>3, <2>5
<1>2. ASSUME NEW k \in Nat, k \in T PROVE k + 1 \in T
  <2> SUFFICES ASSUME k + 1 <= N
               PROVE  \E n \in Nat : /\ S(k + 1, n)
                                     /\ a[k + 1].act = "run" => Len(a[k + 1].p.buf[d]) + (k + 1) <= M
    OBVIOUS
  <2>1. PICK n \in Nat : S(k, n) /\ (a[k].act = "run" => Len(a[k].p.buf[d]) + k <= M)
    BY <1>2
  <2>2. a[k + 1] = NextRound(d, a[k])
    <3>1. k + 1 \in 0..N /\ k + 1 # 0 /\ (k + 1) - 1 = k
      OBVIOUS
    <3> QED
      BY <3>1 DEF AreRounds
  <2>3. CASE a[k].act # "run"
    <3>1. a[k + 1] = a[k]
      BY <2>2, <2>3 DEF NextRound, DNS!Round
    <3> QED
      BY <2>1, <2>3, <3>1
  <2>4. CASE a[k].act = "run"
    <3> DEFINE q == a[k].p
               z == DNS!Round(DNS!Step, d, Result("run", q))
    <3>1. a[k + 1] = z
      BY <2>2, <2>4 DEF NextRound, DNS!Round, Result
    <3>2. Stands(p0, n0, "run", q, n, d, f, B)
      BY <2>1, <2>4
    <3>3. \E m \in Nat : /\ Stands(p0, n0, z.act, z.p, m, d, f, B)
                         /\ z.act = "run" => Len(z.p.buf[d]) < Len(q.buf[d])
      <4> HIDE DEF q, z
      <4>1. CASE q.index[d] = 0
        BY <3>2, <4>1, LengthRead DEF z
      <4>2. CASE q.index[d] # 0
        <5>1. n + 1 \in Nat
          OBVIOUS
        <5> QED
          BY <3>2, <4>2, <5>1, MessageRead DEF z
      <4> QED
        BY <4>1, <4>2
    <3>4. PICK m \in Nat : /\ Stands(p0, n0, z.act, z.p, m, d, f, B)
                           /\ z.act = "run" => Len(z.p.buf[d]) < Len(q.buf[d])
      BY <3>3
    <3>5. Len(z.p.buf[d]) \in Nat /\ Len(q.buf[d]) \in Nat /\ M \in Nat
      <4> HIDE DEF z, q
      <4>1. z.p \in DNSParser /\ q \in DNSParser /\ p \in DNSParser
        BY <3>2, <3>4 DEF Stands
      <4> QED
        BY <4>1, BufLength
    <3>6. Len(q.buf[d]) + k <= M
      BY <2>1, <2>4
    <3>7. z.act = "run" => Len(z.p.buf[d]) < Len(q.buf[d])
      BY <3>4
    <3> HIDE DEF z, q, M
    <3>8. z.act = "run" => Len(z.p.buf[d]) + (k + 1) <= M
      <4>1. PICK x \in Nat, y \in Nat, w \in Nat : x = Len(z.p.buf[d]) /\ y = Len(q.buf[d]) /\ w = M
        BY <3>5
      <4>2. y + k <= w /\ (z.act = "run" => x < y)
        BY <3>6, <3>7, <4>1
      <4>3. z.act = "run" => x + (k + 1) <= w
        BY <4>2
      <4> QED
        BY <4>1, <4>3
    <3> QED
      BY <3>1, <3>4, <3>8
  <2> QED
    BY <2>3, <2>4
<1>3. Nat \subseteq T
  <2> HIDE DEF T
  <2> QED
    BY <1>1, <1>2, NatInduct
<1> QED
  BY <1>3

\* How a run ends.
LEMMA RunEnds ==
  ASSUME NEW B \in Bytes, NEW f, IsEnds(f, B), NEW d \in Dirs, NEW p0, NEW n0 \in Nat, NEW p,
         Stands(p0, n0, "run", p, n0, d, f, B), NEW r, r = DNS!RunSteps(DNS!Step, d, p)
  PROVE  /\ r.act \in {"pause", "cancel"}
         /\ \E n \in Nat : Stands(p0, n0, r.act, r.p, n, d, f, B)
<1> DEFINE M == Len(p.buf[d])
           N == M + 3
<1>1. p \in DNSParser
  BY DEF Stands
<1>2. M \in Nat /\ N \in Nat /\ N \in 0..N
  BY <1>1, BufLength
<1>3. PICK a : AreRounds(a, N, Result("run", p), d) /\ r = a[N]
  BY <1>1, DNSRuns
<1> HIDE DEF N
<1>4. PICK n \in Nat : /\ Stands(p0, n0, a[N].act, a[N].p, n, d, f, B)
                       /\ a[N].act = "run" => Len(a[N].p.buf[d]) + N <= M
  BY <1>2, <1>3, DNSRounds
<1>5. r.act # "run"
  <2> SUFFICES ASSUME r.act = "run" PROVE FALSE
    OBVIOUS
  <2>1. Len(r.p.buf[d]) + N <= M
    BY <1>3, <1>4
  <2>2. r.p \in DNSParser
    BY <1>3, <1>4 DEF Stands
  <2>3. PICK x \in Nat, y \in Nat : x = Len(r.p.buf[d]) /\ y = M
    BY <1>2, <2>2, BufLength
  <2>4. x + (y + 3) <= y
    BY <2>1, <2>3 DEF N
  <2> QED
    BY <2>4
<1>6. Stands(p0, n0, r.act, r.p, n, d, f, B)
  BY <1>3, <1>4
<1>7. r.act \in {"run", "pause", "cancel"}
  BY <1>6 DEF Stands
<1> QED
  BY <1>5, <1>6, <1>7

\* Messages and their parts stay where they are when more comes.
LEMMA MsgStays ==
  ASSUME NEW B \in Bytes, NEW C \in Bytes, NEW f, NEW g, IsEnds(f, B), IsEnds(g, B \o C),
         NEW n \in Nat, Decoded(f, B, n)
  PROVE  /\ \A j \in 0..n : g[j] = f[j]
         /\ Decoded(g, B \o C, n)
         /\ \A j \in 1..n : Msg(g, B \o C, j) = Msg(f, B, j)
<1> DEFINE all == B \o C
<1>1. \A j \in 1..n : IsWhole(B, f[j - 1])
  BY DEF Decoded
<1>2. (\A j \in 0..n : g[j] = f[j]) /\ (\A j \in 1..n : IsWhole(all, g[j - 1]))
  BY <1>1, EndsGrow
<1>3. f \in [Nat -> 0..Len(B)] /\ Len(B) \in Nat /\ Len(C) \in Nat
  BY LenProperties DEF IsEnds, Bytes
<1>4. ASSUME NEW j \in 1..n PROVE Msg(g, all, j) = Msg(f, B, j)
  <2> DEFINE e == f[j - 1]
             h == f[j]
  <2>1. j \in Nat /\ j # 0 /\ j - 1 \in Nat /\ j \in 0..n /\ j - 1 \in 0..n
    OBVIOUS
  <2>2. e \in 0..Len(B) /\ h \in 0..Len(B) /\ g[j - 1] = e /\ g[j] = h
    BY <1>2, <1>3, <2>1
  <2>3. IsWhole(B, e) /\ h = NextEnd(B, e)
    BY <1>1, <2>1 DEF IsEnds, Unfolds
  <2> HIDE DEF e, h
  <2>4. h \in Nat /\ h >= e + 2 /\ e + 2 \in Nat
    BY <2>2, <2>3, <1>3, NextEndIn DEF IsWhole
  <2>5. SubSeq(all, (e + 2) + 1, h) = SubSeq(B, (e + 2) + 1, h)
    BY <1>3, <2>2, <2>4, PartStays DEF Bytes
  <2>6. (e + 2) + 1 = e + 3
    BY <1>3, <2>2
  <2> QED
    BY <2>2, <2>5, <2>6 DEF Msg, e, h
<1>5. Decoded(g, all, n)
  <2>1. \A j \in 1..n : DNS!decodes(Msg(f, B, j))
    BY DEF Decoded
  <2> QED
    BY <1>2, <1>4, <2>1 DEF Decoded
<1> QED
  BY <1>2, <1>4, <1>5

\* A parser that stands somewhere with a chunk behind its buffer.
LEMMA AtGrows ==
  ASSUME NEW B \in Bytes, NEW C \in Bytes, NEW f, NEW g, IsEnds(f, B), IsEnds(g, B \o C),
         NEW p \in DNSParser, NEW d \in Dirs, NEW n \in Nat, Decoded(f, B, n), At(p, d, f, B, n)
  PROVE  Stands(p, n, "run", Opened(p, d, C), n, d, g, B \o C)
<1> DEFINE all == B \o C
           b == [p.buf EXCEPT ![d] = p.buf[d] \o C]
           u == Off(p.updated, d)
           q == DNSOf(b, p.index, p.map, u, p.msgLen, p.done)
<1>1. /\ p = DNSOf(p.buf, p.index, p.map, p.updated, p.msgLen, p.done)
      /\ Typed(p.buf, p.index, p.map, p.updated, p.msgLen, p.done)
  BY DNSParts
<1>2. Opened(p, d, C) = q
  <2>1. Opened(DNSOf(p.buf, p.index, p.map, p.updated, p.msgLen, p.done), d, C)
          = DNSOf(Joined(p.buf, d, C), p.index, p.map, u, p.msgLen, p.done)
    BY DNSOpened
  <2>2. Joined(p.buf, d, C) = b
    BY DEF Joined
  <2> QED
    BY <1>1, <2>1, <2>2
<1>3. (\A j \in 0..n : g[j] = f[j]) /\ Decoded(g, all, n)
  BY MsgStays
<1>4. /\ b \in [Dirs -> Bytes] /\ b[d] = p.buf[d] \o C
      /\ \A e \in Dirs \ {d} : b[e] = p.buf[e]
  <2>1. p.buf[d] \in Seq(0..255) /\ C \in Seq(0..255)
    BY BufLength DEF Bytes
  <2>2. p.buf[d] \o C \in Bytes
    BY <2>1, ConcatProperties DEF Bytes
  <2> QED
    BY <1>1, <2>2 DEF Typed
<1>5. u \in [Dirs -> BOOLEAN] /\ ~u[d]
  BY <1>1, OnAndOff DEF Typed
<1> HIDE DEF b, u, all
<1>6. /\ q.buf = b /\ q.index = p.index /\ q.msgLen = p.msgLen /\ q.map = p.map
      /\ q.updated = u /\ q.done = p.done /\ q \in DNSParser
  <2>1. Typed(b, p.index, p.map, u, p.msgLen, p.done)
    BY <1>1, <1>4, <1>5 DEF Typed
  <2> QED
    BY <2>1, DNSFields
<1> HIDE DEF q
<1>7. Apart(p, q, d)
  BY <1>4, <1>6 DEF Apart
<1>8. Known(p, n, q, n, d, g, all)
  BY <1>5, <1>6 DEF Known
<1>9. g[n] = f[n] /\ f[n] \in 0..Len(B) /\ Len(B) \in Nat /\ Len(C) \in Nat
  <2>1. n \in 0..n
    OBVIOUS
  <2> QED
    BY <1>3, <2>1, LenProperties DEF IsEnds, Bytes
<1>10. Len(all) = Len(B) + Len(C) /\ \A j \in 1..Len(B) : all[j] = B[j]
  <2>1. /\ Len(B \o C) = Len(B) + Len(C)
        /\ \A j \in 1..(Len(B) + Len(C)) : (B \o C)[j] = IF j <= Len(B) THEN B[j] ELSE C[j - Len(B)]
    BY ConcatProperties DEF Bytes
  <2>2. \A j \in 1..Len(B) : j \in 1..(Len(B) + Len(C)) /\ j <= Len(B)
    BY <1>9
  <2> QED
    BY <2>1, <2>2 DEF all
<1>11. At(q, d, g, all, n)
  <2>1. CASE p.index[d] = 0
    <3>1. p.buf[d] = Behind(B, f[n])
      BY <2>1 DEF At
    <3>2. Behind(B, f[n]) \o C = Behind(all, f[n])
      BY <1>9, RestGrows DEF Bytes, all
    <3>3. q.buf[d] = Behind(all, g[n])
      BY <1>4, <1>6, <1>9, <3>1, <3>2
    <3> QED
      BY <1>6, <2>1, <3>3 DEF At
  <2>2. CASE p.index[d] # 0
    <3> DEFINE e == f[n]
    <3>1. p.index[d] = 1
      BY <1>1, <2>2 DEF Typed
    <3>2. e + 2 <= Len(B) /\ p.buf[d] = Behind(B, e + 2) /\ NextEnd(B, e) = e + 2 + p.msgLen[d]
      BY <3>1 DEF At
    <3> HIDE DEF e
    <3>3. e \in 0..Len(B) /\ g[n] = e
      BY <1>9 DEF e
    <3>4. e + 2 \in 0..Len(B) /\ e + 1 \in 1..Len(B) /\ e + 2 \in 1..Len(B)
      BY <1>9, <3>2, <3>3
    <3>5. Behind(B, e + 2) \o C = Behind(all, e + 2)
      BY <3>4, RestGrows DEF Bytes, all
    <3>6. NextEnd(all, e) = NextEnd(B, e)
      BY <1>10, <3>4 DEF NextEnd
    <3>7. e + 2 <= Len(all)
      BY <1>9, <1>10, <3>2, <3>3
    <3> QED
      BY <1>4, <1>6, <3>1, <3>2, <3>3, <3>5, <3>6, <3>7 DEF At
  <2> QED
    BY <2>1, <2>2
<1>12. n >= n
  OBVIOUS
<1> QED
  BY <1>2, <1>3, <1>6, <1>7, <1>8, <1>11, <1>12 DEF Stands, all

\* Feed: m messages have come now, where n had; the parser stands behind the last,
\* or is stopped by the next.
FedUpTo(p, n, z, m, d, g, B) ==
  /\ m >= n /\ Decoded(g, B, m)
  /\ z.p \in DNSParser
  /\ \A e \in Dirs \ {d} : /\ z.p.buf[e] = p.buf[e] /\ z.p.index[e] = p.index[e]
                           /\ z.p.msgLen[e] = p.msgLen[e]
  /\ z.updated <=> m # n
  /\ m # n => z.p.map[d] = [message |-> Msg(g, B, m)]
  /\ ~z.done => /\ At(z.p, d, g, B, m) /\ ~IsWhole(B, g[m])
                /\ \A e \in Dirs : ~z.p.done[e]
  /\ z.done => IsWhole(B, g[m]) /\ ~DNS!decodes(Msg(g, B, m + 1))

LEMMA DNSFed ==
  ASSUME NEW B \in Bytes, NEW C \in Bytes, C # <<>>, NEW f, NEW g, IsEnds(f, B), IsEnds(g, B \o C),
         NEW p \in DNSParser, NEW d \in Dirs, NEW n \in Nat, Decoded(f, B, n), At(p, d, f, B, n),
         \A e \in Dirs : ~p.done[e], NEW z, z = DNS!FeedDNS(d, p, C)
  PROVE  \E m \in Nat : FedUpTo(p, n, z, m, d, g, B \o C)
<1> DEFINE all == B \o C
           r == DNS!RunSteps(DNS!Step, d, Opened(p, d, C))
           q == [r.p EXCEPT !.done[d] = r.act # "pause", !.updated[d] = FALSE]
<1>1. /\ z.p = q
      /\ z.updated <=> r.p.updated[d]
      /\ z.done <=> r.act = "cancel" \/ \A e \in Dirs : q.done[e]
  BY DEF DNS!FeedDNS, DNS!FeedSteps, DNS!Tell, Opened, Dirs, OpenVPN!Dirs, DNS!Dirs
<1>2. Stands(p, n, "run", Opened(p, d, C), n, d, g, all)
  BY AtGrows
<1>3. all \in Bytes
  BY ConcatProperties DEF Bytes
<1> HIDE DEF r, q, all
<1>4. r.act \in {"pause", "cancel"} /\ \E m \in Nat : Stands(p, n, r.act, r.p, m, d, g, all)
  BY <1>2, <1>3, RunEnds DEF r, all
<1>5. PICK m \in Nat : Stands(p, n, r.act, r.p, m, d, g, all)
  BY <1>4
<1>6. /\ r.p \in DNSParser /\ m >= n /\ Decoded(g, all, m) /\ Apart(p, r.p, d)
      /\ Known(p, n, r.p, m, d, g, all)
  BY <1>5 DEF Stands
<1>7. /\ r.p = DNSOf(r.p.buf, r.p.index, r.p.map, r.p.updated, r.p.msgLen, r.p.done)
      /\ Typed(r.p.buf, r.p.index, r.p.map, r.p.updated, r.p.msgLen, r.p.done)
  BY <1>6, DNSParts
<1> DEFINE u == Off(r.p.updated, d)
           o == IF r.act = "pause" THEN Off(r.p.done, d) ELSE On(r.p.done, d)
           w == DNSOf(r.p.buf, r.p.index, r.p.map, u, r.p.msgLen, o)
<1>8. q = w
  <2>1. CASE r.act = "pause"
    <3> DEFINE v == DNSOf(r.p.buf, r.p.index, r.p.map, r.p.updated, r.p.msgLen, Off(r.p.done, d))
    <3>1. q = Unreport(GoOn(r.p, d), d)
      BY <2>1 DEF q, Unreport, GoOn
    <3>2. GoOn(r.p, d) = v
      BY <1>7, WithGoOn
    <3>3. Unreport(v, d) = DNSOf(r.p.buf, r.p.index, r.p.map, u, r.p.msgLen, Off(r.p.done, d))
      BY WithUnreport
    <3> QED
      BY <2>1, <3>1, <3>2, <3>3
  <2>2. CASE r.act # "pause"
    <3> DEFINE v == DNSOf(r.p.buf, r.p.index, r.p.map, r.p.updated, r.p.msgLen, On(r.p.done, d))
    <3>1. q = Unreport(Stop(r.p, d), d)
      BY <2>2 DEF q, Unreport, Stop
    <3>2. Stop(r.p, d) = v
      BY <1>7, WithStop
    <3>3. Unreport(v, d) = DNSOf(r.p.buf, r.p.index, r.p.map, u, r.p.msgLen, On(r.p.done, d))
      BY WithUnreport
    <3> QED
      BY <2>2, <3>1, <3>2, <3>3
  <2> QED
    BY <2>1, <2>2
<1>9. /\ u \in [Dirs -> BOOLEAN] /\ o \in [Dirs -> BOOLEAN]
      /\ r.act = "pause" => \A e \in Dirs : ~o[e]
  <2>1. /\ r.p.updated \in [Dirs -> BOOLEAN] /\ r.p.done \in [Dirs -> BOOLEAN]
        /\ r.p.done = p.done
    BY <1>6, <1>7 DEF Typed, Apart
  <2>2. u \in [Dirs -> BOOLEAN] /\ o \in [Dirs -> BOOLEAN]
    BY <2>1, OnAndOff
  <2>3. \A e \in Dirs : ~Off(r.p.done, d)[e]
    BY <2>1, OnAndOff
  <2> QED
    BY <2>2, <2>3
<1> HIDE DEF u, o
<1>10. /\ w.buf = r.p.buf /\ w.index = r.p.index /\ w.msgLen = r.p.msgLen /\ w.map = r.p.map
       /\ w.updated = u /\ w.done = o /\ w \in DNSParser
  <2>1. Typed(r.p.buf, r.p.index, r.p.map, u, r.p.msgLen, o)
    BY <1>7, <1>9 DEF Typed
  <2> QED
    BY <2>1, DNSFields
<1> HIDE DEF w
<1>11. z.p = w /\ z.p \in DNSParser
  BY <1>1, <1>8, <1>10
<1>12. \A e \in Dirs \ {d} : /\ z.p.buf[e] = p.buf[e] /\ z.p.index[e] = p.index[e]
                             /\ z.p.msgLen[e] = p.msgLen[e]
  BY <1>6, <1>10, <1>11 DEF Apart
<1>13. /\ z.updated <=> m # n
       /\ m # n => z.p.map[d] = [message |-> Msg(g, all, m)]
  BY <1>1, <1>6, <1>10, <1>11 DEF Known
<1>14. z.done <=> r.act = "cancel"
  <2>1. r.act = "pause" => ~(\A e \in Dirs : q.done[e])
    BY <1>8, <1>9, <1>10
  <2> QED
    BY <1>1, <1>4, <2>1
<1>15. ~z.done => /\ At(z.p, d, g, all, m) /\ ~IsWhole(all, g[m])
                  /\ \A e \in Dirs : ~z.p.done[e]
  <2> SUFFICES ASSUME ~z.done
               PROVE  /\ At(z.p, d, g, all, m) /\ ~IsWhole(all, g[m])
                      /\ \A e \in Dirs : ~z.p.done[e]
    OBVIOUS
  <2>1. r.act = "pause"
    BY <1>4, <1>14
  <2>2. At(r.p, d, g, all, m) /\ ~IsWhole(all, g[m])
    BY <1>5, <2>1 DEF Stands
  <2>3. At(z.p, d, g, all, m)
    BY <1>10, <1>11, <2>2 DEF At
  <2>4. \A e \in Dirs : ~z.p.done[e]
    BY <1>9, <1>10, <1>11, <2>1
  <2> QED
    BY <2>2, <2>3, <2>4
<1>16. z.done => IsWhole(all, g[m]) /\ ~DNS!decodes(Msg(g, all, m + 1))
  BY <1>5, <1>14 DEF Stands
<1>17. FedUpTo(p, n, z, m, d, g, all)
  BY <1>6, <1>11, <1>12, <1>13, <1>15, <1>16 DEF FedUpTo
<1> QED
  BY <1>17 DEF all

-----------------------------------------------------------------------------
(* DNS over TCP: what the bytes contain. *)

\* Each message that has come takes bytes.
LEMMA EndsFar ==
  ASSUME NEW B \in Bytes, NEW f, IsEnds(f, B), NEW n \in Nat, \A j \in 1..n : IsWhole(B, f[j - 1])
  PROVE  n <= f[n]
<1> DEFINE T == {m \in Nat : m <= n => m <= f[m]}
<1>1. 0 \in T
  BY DEF IsEnds, Unfolds
<1>2. ASSUME NEW m \in Nat, m \in T PROVE m + 1 \in T
  <2> SUFFICES ASSUME m + 1 <= n PROVE m + 1 <= f[m + 1]
    OBVIOUS
  <2>1. m + 1 \in Nat /\ m + 1 # 0 /\ (m + 1) - 1 = m /\ m + 1 \in 1..n /\ m <= f[m]
    BY <1>2
  <2>2. IsWhole(B, f[m]) /\ f[m] \in 0..Len(B)
    BY <2>1 DEF IsEnds
  <2>3. f[m + 1] = NextEnd(B, f[m])
    BY <2>1, <2>2 DEF IsEnds, Unfolds
  <2>4. NextEnd(B, f[m]) >= f[m] + 2 /\ Len(B) \in Nat
    <3> DEFINE e == f[m]
    <3>1. e \in 0..Len(B) /\ e + 2 <= Len(B)
      BY <2>2 DEF IsWhole
    <3> HIDE DEF e
    <3>2. NextEnd(B, e) >= e + 2 /\ Len(B) \in Nat
      BY <3>1, NextEndIn
    <3> QED
      BY <3>2 DEF e
  <2>5. PICK x \in 0..Len(B), y \in 0..Len(B) : x = f[m] /\ y = f[m + 1]
    BY <2>1, <2>2 DEF IsEnds
  <2>6. m <= x /\ y >= x + 2
    BY <2>1, <2>3, <2>4, <2>5
  <2>7. x \in Nat /\ y \in Nat
    BY <2>4, <2>5
  <2>8. m + 1 <= y
    BY <2>6, <2>7
  <2> QED
    BY <2>5, <2>8
<1>3. n \in T
  <2> HIDE DEF T
  <2> QED
    BY <1>1, <1>2, NatInduct
<1> QED
  BY <1>3

\* Those that can be read are the first n when the next cannot, ...
LEMMA ReadableAre ==
  ASSUME NEW B \in Bytes, NEW f, f = DNS!Stream!Ends(B), NEW n \in Nat, Decoded(f, B, n),
         ~IsWhole(B, f[n]) \/ ~DNS!decodes(Msg(f, B, n + 1))
  PROVE  /\ DNS!Readable(B) = 1..n
         /\ DNS!Unreadable(B) <=> IsWhole(B, f[n])
<1>1. IsEnds(f, B) /\ Len(B) \in Nat
  BY DNSEnds, LenProperties DEF Bytes
<1>2. \A i : DNS!Stream!WholeBehind(B, i) <=> IsWhole(B, i)
  BY DEF DNS!Stream!WholeBehind, DNS!Stream!EndBehind, IsWhole, NextEnd
<1>3. \A j : DNS!MessageOf(B, j) = Msg(f, B, j)
  BY DEF DNS!MessageOf, Msg
<1>4. \A k : DNS!Comes(B, k) <=> /\ \A j \in 1..k : IsWhole(B, f[j - 1])
                                 /\ \A j \in 1..(k - 1) : DNS!decodes(Msg(f, B, j))
  BY <1>2, <1>3 DEF DNS!Comes
<1>5. \A j \in 1..n : IsWhole(B, f[j - 1]) /\ DNS!decodes(Msg(f, B, j))
  BY DEF Decoded
<1>6. n <= Len(B)
  <2>1. n <= f[n]
    BY <1>1, <1>5, EndsFar
  <2>2. f[n] \in 0..Len(B)
    BY <1>1 DEF IsEnds
  <2> QED
    BY <1>1, <2>1, <2>2
<1>7. ASSUME NEW k \in 1..Len(B), DNS!Comes(B, k), k > n PROVE IsWhole(B, f[n])
  <2>1. n + 1 \in 1..k /\ (n + 1) - 1 = n
    BY <1>1, <1>7
  <2> QED
    BY <1>4, <1>7, <2>1
<1>8. ASSUME NEW k \in 1..Len(B), k \in DNS!Readable(B) PROVE k \in 1..n
  <2>1. DNS!Comes(B, k) /\ DNS!decodes(Msg(f, B, k))
    BY <1>3, <1>8 DEF DNS!Readable
  <2> SUFFICES ASSUME k > n PROVE FALSE
    BY <1>1
  <2>2. DNS!decodes(Msg(f, B, n + 1))
    <3>1. CASE k = n + 1
      BY <2>1, <3>1
    <3>2. CASE k # n + 1
      <4>1. n + 1 \in 1..(k - 1)
        BY <1>1, <3>2
      <4> QED
        BY <1>4, <2>1, <4>1
    <3> QED
      BY <3>1, <3>2
  <2> QED
    BY <1>7, <2>1, <2>2
<1>9. ASSUME NEW k \in 1..n PROVE k \in DNS!Readable(B)
  <2>1. k \in 1..Len(B) /\ (\A j \in 1..k : j \in 1..n) /\ (\A j \in 1..(k - 1) : j \in 1..n)
    BY <1>1, <1>6
  <2>2. DNS!Comes(B, k) /\ DNS!decodes(Msg(f, B, k))
    BY <1>4, <1>5, <2>1
  <2> QED
    BY <1>3, <2>1, <2>2 DEF DNS!Readable
<1>10. DNS!Readable(B) = 1..n
  <2>1. DNS!Readable(B) \subseteq 1..Len(B)
    BY DEF DNS!Readable
  <2> QED
    BY <1>8, <1>9, <2>1
<1>11. ASSUME DNS!Unreadable(B) PROVE IsWhole(B, f[n])
  <2>1. PICK k \in 1..Len(B) : DNS!Comes(B, k) /\ ~DNS!decodes(Msg(f, B, k))
    BY <1>3, <1>11 DEF DNS!Unreadable
  <2>2. k \notin 1..n
    BY <1>5, <2>1
  <2> QED
    BY <1>1, <1>7, <2>1, <2>2
<1>12. ASSUME IsWhole(B, f[n]) PROVE DNS!Unreadable(B)
  <2>1. ~DNS!decodes(Msg(f, B, n + 1))
    BY <1>12
  <2>2. \A j \in 1..(n + 1) : IsWhole(B, f[j - 1])
    <3> TAKE j \in 1..(n + 1)
    <3>1. CASE j = n + 1
      <4>1. j - 1 = n
        BY <3>1
      <4> QED
        BY <1>12, <4>1
    <3>2. CASE j # n + 1
      <4>1. j \in 1..n
        BY <3>2
      <4> QED
        BY <1>5, <4>1
    <3> QED
      BY <3>1, <3>2
  <2>3. n + 1 \in 1..Len(B)
    <3>1. n + 1 <= f[n + 1] /\ f[n + 1] \in 0..Len(B)
      <4>1. n + 1 \in Nat
        OBVIOUS
      <4> QED
        BY <1>1, <2>2, <4>1, EndsFar DEF IsEnds
    <3> QED
      BY <1>1, <3>1
  <2>4. (n + 1) - 1 = n
    OBVIOUS
  <2>5. DNS!Comes(B, n + 1)
    BY <1>4, <1>5, <2>2, <2>4
  <2> QED
    BY <1>3, <2>1, <2>3, <2>5 DEF DNS!Unreadable
<1> QED
  BY <1>10, <1>11, <1>12

-----------------------------------------------------------------------------
(* DNS over TCP: the invariant. *)

DNSCame(t, k, d) == DNS!Stream!Ends(Came(t, k, d))

\* The first n messages have been read, and the next has not come whole.
HasRead(p, t, k, d, n) ==
  /\ Decoded(DNSCame(t, k, d), Came(t, k, d), n)
  /\ ~IsWhole(Came(t, k, d), DNSCame(t, k, d)[n])
  /\ At(p, d, DNSCame(t, k, d), Came(t, k, d), n)

DNSInv ==
  /\ Fed(DNSTalks, talk, pos)
  /\ parser \in DNSParser
  /\ finished \in BOOLEAN /\ gap \in BOOLEAN
  /\ ~finished => /\ ~gap
                  /\ \A d \in Dirs : ~parser.done[d] /\ \E n \in Nat : HasRead(parser, talk, pos, d, n)
  /\ finished => gap \/ \E d \in Dirs : DNS!Unreadable(Came(talk, pos, d))

LEMMA NothingBehind == Behind(<<>>, 0) = <<>>
<1>1. <<>> \in Seq(0..255) /\ 0 \in 0..Len(<<>>) /\ Len(<<>>) - 0 = 0
  OBVIOUS
<1>2. Behind(<<>>, 0) \in Seq(0..255) /\ Len(Behind(<<>>, 0)) = 0
  BY <1>1, Rest
<1> QED
  BY <1>2, EmptySeq

\* At the beginning nothing has come and nothing is whole.
LEMMA NothingRead ==
  ASSUME NEW p \in DNSParser, NEW d \in Dirs, NEW f, IsEnds(f, <<>>),
         p.buf[d] = <<>>, p.index[d] = 0
  PROVE  Decoded(f, <<>>, 0) /\ ~IsWhole(<<>>, f[0]) /\ At(p, d, f, <<>>, 0)
<1>1. <<>> \in Bytes /\ Len(<<>>) = 0
  BY DEF Bytes
<1>2. f[0] = 0
  BY DEF IsEnds, Unfolds
<1>3. ~IsWhole(<<>>, f[0])
  BY <1>1, <1>2 DEF IsWhole
<1>4. Behind(<<>>, 0) = <<>>
  BY NothingBehind
<1>5. Decoded(f, <<>>, 0)
  BY DEF Decoded
<1>6. At(p, d, f, <<>>, 0)
  BY <1>2, <1>4 DEF At
<1> QED
  BY <1>3, <1>5, <1>6

LEMMA DNSInit == StreamAssumption /\ DNS!Stream!Init => DNSInv
<1> SUFFICES ASSUME StreamAssumption, DNS!Stream!Init PROVE DNSInv
  OBVIOUS
<1>1. /\ parser = DNS!newDNSTCPStream /\ talk \in DNSTalks
      /\ pos = [d \in Dirs |-> 0] /\ finished = FALSE /\ gap = FALSE
  BY DEF DNS!Stream!Init, DNS!Stream!Dirs, Dirs, DNS!Dirs, OpenVPN!Dirs
<1>2. talk \in [Dirs -> Bytes]
  BY <1>1 DEF StreamAssumption, DNS!DNSTCPAssumption, Bytes, Dirs, DNS!Dirs, OpenVPN!Dirs
<1>3. parser = DNSOf([d \in Dirs |-> <<>>], [d \in Dirs |-> 0], [d \in Dirs |-> DNS!Nothing],
                     [d \in Dirs |-> FALSE], [d \in Dirs |-> 0], [d \in Dirs |-> FALSE])
  BY <1>1 DEF DNS!newDNSTCPStream, DNS!NewParser, DNSOf, Dirs, DNS!Dirs, OpenVPN!Dirs
<1>4. Typed([d \in Dirs |-> <<>>], [d \in Dirs |-> 0], [d \in Dirs |-> DNS!Nothing],
            [d \in Dirs |-> FALSE], [d \in Dirs |-> 0], [d \in Dirs |-> FALSE])
  <2>1. <<>> \in Bytes
    BY DEF Bytes
  <2> QED
    BY <2>1 DEF Typed, Messages
<1>5. /\ parser \in DNSParser /\ parser.buf = [d \in Dirs |-> <<>>]
      /\ parser.index = [d \in Dirs |-> 0] /\ parser.done = [d \in Dirs |-> FALSE]
  BY <1>3, <1>4, DNSFields
<1>6. ASSUME NEW d \in Dirs PROVE pos[d] <= Len(talk[d]) /\ HasRead(parser, talk, pos, d, 0)
  <2>1. talk[d] \in Bytes /\ Len(talk[d]) \in Nat /\ pos[d] = 0
    BY <1>1, <1>2, LenProperties DEF Bytes
  <2>2. Came(talk, pos, d) = <<>>
    <3>1. Came(talk, pos, d) \in Seq(0..255) /\ Len(Came(talk, pos, d)) = 0
      <4>1. talk[d] \in Seq(0..255) /\ pos[d] \in 0..Len(talk[d]) /\ 0 \in 0..(Len(talk[d]) - pos[d])
        BY <2>1 DEF Bytes
      <4> QED
        BY <2>1, <4>1, NextChunk DEF Came
    <3> QED
      BY <3>1, EmptySeq
  <2> DEFINE f == DNSCame(talk, pos, d)
  <2>3. IsEnds(f, <<>>)
    <3>1. <<>> \in Bytes
      BY DEF Bytes
    <3> QED
      BY <2>2, <3>1, DNSEnds DEF DNSCame
  <2>4. parser.buf[d] = <<>> /\ parser.index[d] = 0
    BY <1>5
  <2> HIDE DEF f
  <2>5. Decoded(f, <<>>, 0) /\ ~IsWhole(<<>>, f[0]) /\ At(parser, d, f, <<>>, 0)
    BY <1>5, <2>3, <2>4, NothingRead
  <2> QED
    BY <2>1, <2>2, <2>5 DEF HasRead, f
<1>7. Fed(DNSTalks, talk, pos)
  BY <1>1, <1>6 DEF Fed
<1>8. \A d \in Dirs : ~parser.done[d] /\ \E n \in Nat : HasRead(parser, talk, pos, d, n)
  BY <1>5, <1>6
<1> QED
  BY <1>1, <1>5, <1>7, <1>8 DEF DNSInv

\* What a chunk does: k messages had been read of its direction, and now m have.
Delivers(d, n, k, m, z) ==
  /\ MovesOn(0..255, DNSTalks, talk, pos, pos', d, n) /\ talk' = talk /\ gap' = gap
  /\ parser' = z.p /\ finished' = z.done /\ z.done \in BOOLEAN
  /\ shown' = IF z.updated THEN z.p.map[d] ELSE shown
  /\ HasRead(parser, talk, pos, d, k)
  /\ FedUpTo(parser, k, z, m, d, DNSCame(talk, pos', d), Came(talk, pos', d))

LEMMA DNSDelivers ==
  ASSUME StreamAssumption, DNSInv, NEW d \in Dirs, NEW n \in 0..(Len(talk[d]) - pos[d]), n # 0,
         DNS!Stream!Deliver(d, n)
  PROVE  \E k \in Nat : \E m \in Nat : \E z : Delivers(d, n, k, m, z)
<1> DEFINE C == SubSeq(talk[d], pos[d] + 1, pos[d] + n)
           B == Came(talk, pos, d)
           A == Came(talk, pos', d)
           z == DNS!FeedDNS(d, parser, C)
           f == DNSCame(talk, pos, d)
           g == DNSCame(talk, pos', d)
<1>1. /\ ~finished /\ talk' = talk /\ pos' = [pos EXCEPT ![d] = @ + n] /\ gap' = gap
      /\ parser' = z.p /\ finished' = z.done
      /\ shown' = IF z.updated THEN z.p.map[d] ELSE shown
  BY DEF DNS!Stream!Deliver, DNS!Replace
<1>2. Fed(DNSTalks, talk, pos)
  BY DEF DNSInv
<1>3. MovesOn(0..255, DNSTalks, talk, pos, pos', d, n)
  <2> DEFINE j == pos'
             S == 0..255
  <2>1. j = [pos EXCEPT ![d] = @ + n]
    BY <1>1
  <2>2. DNSTalks \subseteq [Dirs -> Seq(S)]
    BY DEF StreamAssumption, DNS!DNSTCPAssumption, Dirs, DNS!Dirs, OpenVPN!Dirs
  <2> HIDE DEF j, S
  <2>3. MovesOn(S, DNSTalks, talk, pos, j, d, n)
    BY <1>2, <2>1, <2>2, FedOn
  <2> QED
    BY <2>3 DEF j, S
<1>4. B \in Bytes /\ C \in Bytes /\ Len(C) = n /\ A = B \o C
  BY <1>3 DEF MovesOn, Bytes
<1>5. /\ parser \in DNSParser /\ \A e \in Dirs : ~parser.done[e]
      /\ \E k \in Nat : HasRead(parser, talk, pos, d, k)
  BY <1>1 DEF DNSInv
<1>6. PICK k \in Nat : HasRead(parser, talk, pos, d, k)
  BY <1>5
<1>7. IsEnds(f, B)
  BY <1>4, DNSEnds DEF DNSCame
<1>8. IsEnds(g, B \o C)
  <2>1. B \o C \in Bytes
    BY <1>4, ConcatProperties DEF Bytes
  <2> QED
    BY <1>4, <2>1, DNSEnds DEF DNSCame
<1>9. Decoded(f, B, k) /\ At(parser, d, f, B, k)
  BY <1>6 DEF HasRead
<1>10. C # <<>>
  BY <1>4
<1> HIDE DEF f, g, B, C, z
<1>11. \E m \in Nat : FedUpTo(parser, k, z, m, d, g, B \o C)
  BY <1>4, <1>5, <1>7, <1>8, <1>9, <1>10, DNSFed DEF z
<1>12. PICK m \in Nat : FedUpTo(parser, k, z, m, d, g, B \o C)
  BY <1>11
<1>13. z.done \in BOOLEAN
  BY <1>10 DEF z, DNS!FeedDNS, DNS!FeedSteps, DNS!Tell
<1>14. FedUpTo(parser, k, z, m, d, g, A)
  BY <1>4, <1>12
<1>15. Delivers(d, n, k, m, z)
  BY <1>1, <1>3, <1>6, <1>13, <1>14 DEF Delivers, g
<1> QED
  BY <1>15

\* What Deliver does without a byte: nothing.
LEMMA DNSEmpty ==
  ASSUME DNSInv, NEW d \in Dirs, DNS!Stream!Deliver(d, 0)
  PROVE  UNCHANGED <<parser, talk, pos, shown, finished, gap>>
<1> DEFINE C == SubSeq(talk[d], pos[d] + 1, pos[d] + 0)
           z == DNS!FeedDNS(d, parser, C)
<1>1. /\ ~finished /\ talk' = talk /\ pos' = [pos EXCEPT ![d] = @ + 0] /\ gap' = gap
      /\ parser' = z.p /\ finished' = z.done
      /\ shown' = IF z.updated THEN z.p.map[d] ELSE shown
  BY DEF DNS!Stream!Deliver, DNS!Replace
<1>2. pos \in [Dirs -> Nat] /\ finished = FALSE
  BY <1>1 DEF DNSInv, Fed
<1>3. pos' = pos
  BY <1>1, <1>2
<1>4. C = <<>>
  <2>1. pos[d] \in Nat
    BY <1>2
  <2>2. PICK x \in Nat : x = pos[d]
    BY <2>1
  <2>3. SubSeq(talk[d], x + 1, x + 0) = <<>>
    OBVIOUS
  <2> QED
    BY <2>2, <2>3
<1> HIDE DEF C, z
<1>5. z = [p |-> parser, updated |-> FALSE, done |-> FALSE]
  BY <1>4 DEF DNS!FeedDNS, DNS!FeedSteps, z
<1>6. parser' = parser /\ shown' = shown
  BY <1>1, <1>5
<1>7. finished' = finished
  BY <1>1, <1>2, <1>5
<1> QED
  BY <1>1, <1>3, <1>6, <1>7

LEMMA DNSStep == StreamAssumption /\ DNSInv /\ DNS!Stream!Next => DNSInv'
<1> SUFFICES ASSUME StreamAssumption, DNSInv, DNS!Stream!Next PROVE DNSInv'
  OBVIOUS
<1>1. PICK d \in Dirs : \/ \E n \in 0..(Len(talk[d]) - pos[d]) : DNS!Stream!Deliver(d, n)
                        \/ DNS!Stream!Gap(d)
  BY DEF DNS!Stream!Next, DNS!Stream!Dirs, Dirs, DNS!Dirs, OpenVPN!Dirs
<1>2. CASE DNS!Stream!Gap(d)
  <2>1. /\ parser' = parser /\ talk' = talk /\ pos' = pos /\ finished' = TRUE /\ gap' = TRUE
    BY <1>2 DEF DNS!Stream!Gap
  <2> QED
    BY <2>1 DEF DNSInv
<1>3. CASE \E n \in 0..(Len(talk[d]) - pos[d]) : DNS!Stream!Deliver(d, n)
  <2> PICK n \in 0..(Len(talk[d]) - pos[d]) : DNS!Stream!Deliver(d, n)
    BY <1>3
  <2>1. CASE n = 0
    <3>1. UNCHANGED <<parser, talk, pos, shown, finished, gap>>
      BY <2>1, DNSEmpty
    <3> QED
      BY <3>1 DEF DNSInv
  <2>2. CASE n # 0
    <3>1. \E k \in Nat : \E m \in Nat : \E z : Delivers(d, n, k, m, z)
      BY <2>2, DNSDelivers
    <3> PICK k \in Nat, m \in Nat : \E z : Delivers(d, n, k, m, z)
      BY <3>1
    <3>2. PICK z : Delivers(d, n, k, m, z)
      OBVIOUS
    <3> DEFINE B == Came(talk, pos', d)
               g == DNSCame(talk, pos', d)
    <3>3. /\ Fed(DNSTalks, talk, pos')
          /\ \A e \in Dirs \ {d} : Came(talk, pos', e) = Came(talk, pos, e)
          /\ B \in Bytes
      <4>1. MovesOn(0..255, DNSTalks, talk, pos, pos', d, n)
        BY <3>2 DEF Delivers
      <4>2. /\ Came(talk, pos, d) \in Seq(0..255)
            /\ SubSeq(talk[d], pos[d] + 1, pos[d] + n) \in Seq(0..255)
            /\ B = Came(talk, pos, d) \o SubSeq(talk[d], pos[d] + 1, pos[d] + n)
        BY <4>1 DEF MovesOn
      <4>3. B \in Seq(0..255)
        BY <4>2, ConcatProperties
      <4> QED
        BY <4>1, <4>3 DEF MovesOn, Bytes
    <3>4. /\ talk' = talk /\ gap' = gap /\ parser' = z.p /\ finished' = z.done /\ z.done \in BOOLEAN
          /\ FedUpTo(parser, k, z, m, d, g, B)
      BY <3>2 DEF Delivers
    <3>5. g = DNS!Stream!Ends(B)
      BY DEF DNSCame
    <3>6. ~finished
      BY DEF DNS!Stream!Deliver
    <3>7. ~gap /\ \A e \in Dirs : \E j \in Nat : HasRead(parser, talk, pos, e, j)
      BY <3>6 DEF DNSInv
    <3> HIDE DEF B, g
    <3>8. /\ Decoded(g, B, m) /\ z.p \in DNSParser
          /\ \A e \in Dirs \ {d} : /\ z.p.buf[e] = parser.buf[e] /\ z.p.index[e] = parser.index[e]
                                   /\ z.p.msgLen[e] = parser.msgLen[e]
          /\ ~z.done => /\ At(z.p, d, g, B, m) /\ ~IsWhole(B, g[m])
                        /\ \A e \in Dirs : ~z.p.done[e]
          /\ z.done => IsWhole(B, g[m]) /\ ~DNS!decodes(Msg(g, B, m + 1))
      BY <3>4 DEF FedUpTo
    <3>9. z.done => DNS!Unreadable(B)
      BY <3>3, <3>5, <3>8, ReadableAre
    <3>10. ASSUME ~z.done, NEW e \in Dirs
           PROVE  \E j \in Nat : HasRead(z.p, talk, pos', e, j)
      <4>1. CASE e = d
        <5>1. HasRead(z.p, talk, pos', d, m)
          BY <3>8, <3>10 DEF HasRead, B, g
        <5> QED
          BY <4>1, <5>1
      <4>2. CASE e # d
        <5>1. PICK j \in Nat : HasRead(parser, talk, pos, e, j)
          BY <3>7
        <5>2. Came(talk, pos', e) = Came(talk, pos, e)
          BY <3>3, <4>2
        <5>3. DNSCame(talk, pos', e) = DNSCame(talk, pos, e)
          BY <5>2 DEF DNSCame
        <5>4. At(z.p, e, DNSCame(talk, pos, e), Came(talk, pos, e), j)
          <6>1. At(parser, e, DNSCame(talk, pos, e), Came(talk, pos, e), j)
            BY <5>1 DEF HasRead
          <6>2. /\ z.p.buf[e] = parser.buf[e] /\ z.p.index[e] = parser.index[e]
                /\ z.p.msgLen[e] = parser.msgLen[e]
            BY <3>8, <4>2
          <6> QED
            BY <6>1, <6>2 DEF At
        <5>5. HasRead(z.p, talk, pos', e, j)
          BY <5>1, <5>2, <5>3, <5>4 DEF HasRead
        <5> QED
          BY <5>5
      <4> QED
        BY <4>1, <4>2
    <3>11. gap \in BOOLEAN
      BY DEF DNSInv
    <3>12. /\ Fed(DNSTalks, talk', pos') /\ parser' \in DNSParser
           /\ finished' \in BOOLEAN /\ gap' \in BOOLEAN
      BY <3>3, <3>4, <3>8, <3>11
    <3>13. ASSUME ~finished'
           PROVE  /\ ~gap'
                  /\ \A e \in Dirs : /\ ~(parser').done[e]
                                     /\ \E j \in Nat : HasRead(parser', talk', pos', e, j)
      <4>1. ~z.done
        BY <3>4, <3>13
      <4> QED
        BY <3>4, <3>7, <3>8, <3>10, <4>1
    <3>14. finished' => \E e \in Dirs : DNS!Unreadable(Came(talk', pos', e))
      BY <3>4, <3>9 DEF B
    <3> QED
      BY <3>12, <3>13, <3>14 DEF DNSInv
  <2> QED
    BY <2>1, <2>2
<1> QED
  BY <1>1, <1>2, <1>3

\* What came of a conversation is bytes.
LEMMA CameBytes ==
  ASSUME StreamAssumption, NEW t, NEW k, Fed(DNSTalks, t, k), NEW d \in Dirs
  PROVE  Came(t, k, d) \in Bytes
<1>1. t[d] \in Seq(0..255) /\ k[d] \in Nat /\ k[d] <= Len(t[d])
  BY DEF Fed, StreamAssumption, DNS!DNSTCPAssumption, Dirs, DNS!Dirs, OpenVPN!Dirs
<1>2. Len(t[d]) \in Nat
  BY <1>1, LenProperties
<1>3. k[d] \in 0..Len(t[d]) /\ 0 \in 0..(Len(t[d]) - k[d])
  BY <1>1, <1>2
<1> QED
  BY <1>1, <1>3, NextChunk DEF Came, Bytes

LEMMA DNSCorrect == StreamAssumption /\ DNSInv => DNS!ReadsOnUntilGarbage
<1> SUFFICES ASSUME StreamAssumption, DNSInv PROVE DNS!ReadsOnUntilGarbage
  OBVIOUS
<1>1. \A d \in Dirs : DNS!Stream!Given(d) = Came(talk, pos, d)
  BY DEF DNS!Stream!Given, Came
<1>2. ASSUME ~finished, NEW d \in Dirs PROVE ~DNS!Unreadable(Came(talk, pos, d))
  <2> DEFINE B == Came(talk, pos, d)
             f == DNSCame(talk, pos, d)
  <2>1. PICK n \in Nat : HasRead(parser, talk, pos, d, n)
    BY <1>2 DEF DNSInv
  <2>2. Decoded(f, B, n) /\ ~IsWhole(B, f[n])
    BY <2>1 DEF HasRead
  <2>3. B \in Bytes
    BY CameBytes DEF DNSInv
  <2>4. f = DNS!Stream!Ends(B)
    BY DEF DNSCame
  <2> HIDE DEF B, f
  <2>5. DNS!Unreadable(B) <=> IsWhole(B, f[n])
    BY <2>2, <2>3, <2>4, ReadableAre
  <2> QED
    BY <2>2, <2>5 DEF B
<1>3. /\ finished \in BOOLEAN /\ gap \in BOOLEAN /\ ~finished => ~gap
      /\ finished => gap \/ \E d \in Dirs : DNS!Unreadable(Came(talk, pos, d))
  BY DEF DNSInv
<1>4. finished <=> gap \/ \E d \in Dirs : DNS!Unreadable(Came(talk, pos, d))
  <2> DEFINE U == \E d \in Dirs : DNS!Unreadable(Came(talk, pos, d))
  <2>1. ~finished => ~U
    BY <1>2
  <2>2. finished => gap \/ U
    BY <1>3
  <2>3. U => finished
    BY <1>3, <2>1
  <2> HIDE DEF U
  <2>4. (finished = TRUE \/ finished = FALSE) /\ (gap = TRUE \/ gap = FALSE)
    BY <1>3
  <2> QED
    BY <1>3, <2>2, <2>3, <2>4 DEF U
<1> QED
  BY <1>1, <1>4 DEF DNS!ReadsOnUntilGarbage, Dirs, DNS!Dirs, OpenVPN!Dirs

LEMMA DNSShows == StreamAssumption /\ DNSInv /\ DNS!Stream!Next => DNS!ShowsTheLast
<1> SUFFICES ASSUME StreamAssumption, DNSInv, DNS!Stream!Next PROVE DNS!ShowsTheLast
  OBVIOUS
<1>0. talk' = talk
  <2>1. PICK e \in Dirs : (\E n \in 0..(Len(talk[e]) - pos[e]) : DNS!Stream!Deliver(e, n))
                          \/ DNS!Stream!Gap(e)
    BY DEF DNS!Stream!Next, DNS!Stream!Dirs, Dirs, DNS!Dirs, OpenVPN!Dirs
  <2>2. \A n : DNS!Stream!Deliver(e, n) => talk' = talk
    BY DEF DNS!Stream!Deliver
  <2>3. DNS!Stream!Gap(e) => talk' = talk
    BY DEF DNS!Stream!Gap
  <2> QED
    BY <2>1, <2>2, <2>3
<1> SUFFICES ASSUME NEW d \in Dirs, pos'[d] # pos[d]
             PROVE  LET B == Came(talk, pos, d)
                        A == Came(talk, pos', d)
                    IN  /\ DNS!Readable(A) = DNS!Readable(B) => shown' = shown
                        /\ \A n \in DNS!Readable(A) :
                             n \notin DNS!Readable(B) /\ n + 1 \notin DNS!Readable(A) =>
                               shown' = [message |-> DNS!MessageOf(A, n)]
  <2>1. \A d \in Dirs : /\ DNS!Stream!Given(d) = Came(talk, pos, d)
                        /\ (DNS!Readable(DNS!Stream!Given(d)))' = DNS!Readable(Came(talk, pos', d))
                        /\ \A n : (DNS!MessageOf(DNS!Stream!Given(d), n))'
                                    = DNS!MessageOf(Came(talk, pos', d), n)
    BY <1>0 DEF DNS!Stream!Given, Came
  <2> QED
    BY <2>1 DEF DNS!ShowsTheLast, Dirs, DNS!Dirs, OpenVPN!Dirs
<1>1. PICK e \in Dirs : \E n \in 0..(Len(talk[e]) - pos[e]) : DNS!Stream!Deliver(e, n)
  <2>1. PICK e \in Dirs : \/ \E n \in 0..(Len(talk[e]) - pos[e]) : DNS!Stream!Deliver(e, n)
                          \/ DNS!Stream!Gap(e)
    BY DEF DNS!Stream!Next, DNS!Stream!Dirs, Dirs, DNS!Dirs, OpenVPN!Dirs
  <2>2. ~DNS!Stream!Gap(e)
    BY DEF DNS!Stream!Gap
  <2> QED
    BY <2>1, <2>2
<1> PICK n \in 0..(Len(talk[e]) - pos[e]) : DNS!Stream!Deliver(e, n)
  BY <1>1
<1>2. e = d /\ n # 0
  <2>1. pos' = [pos EXCEPT ![e] = @ + n] /\ pos \in [Dirs -> Nat]
    BY DEF DNS!Stream!Deliver, DNSInv, Fed
  <2> QED
    BY <2>1
<1>3. \E k \in Nat : \E m \in Nat : \E z : Delivers(d, n, k, m, z)
  BY <1>2, DNSDelivers
<1> PICK k \in Nat, m \in Nat : \E z : Delivers(d, n, k, m, z)
  BY <1>3
<1>4. PICK z : Delivers(d, n, k, m, z)
  OBVIOUS
<1> DEFINE B == Came(talk, pos, d)
           A == Came(talk, pos', d)
           f == DNSCame(talk, pos, d)
           g == DNSCame(talk, pos', d)
<1>5. B \in Bytes /\ A \in Bytes
  <2>1. Fed(DNSTalks, talk, pos) /\ Fed(DNSTalks, talk, pos')
    BY <1>4 DEF DNSInv, Delivers, MovesOn
  <2> QED
    BY <2>1, CameBytes
<1>6. f = DNS!Stream!Ends(B) /\ g = DNS!Stream!Ends(A)
  BY DEF DNSCame
<1>7. Decoded(f, B, k) /\ ~IsWhole(B, f[k])
  BY <1>4 DEF Delivers, HasRead
<1>8. FedUpTo(parser, k, z, m, d, g, A) /\ shown' = IF z.updated THEN z.p.map[d] ELSE shown
  BY <1>4 DEF Delivers
<1> HIDE DEF A, B, f, g
<1>9. DNS!Readable(B) = 1..k
  BY <1>5, <1>6, <1>7, ReadableAre
<1>10. DNS!Readable(A) = 1..m
  <2>1. Decoded(g, A, m) /\ (~IsWhole(A, g[m]) \/ ~DNS!decodes(Msg(g, A, m + 1)))
    BY <1>8 DEF FedUpTo
  <2> QED
    BY <1>5, <1>6, <2>1, ReadableAre
<1>11. m >= k /\ (z.updated <=> m # k) /\ (m # k => z.p.map[d] = [message |-> Msg(g, A, m)])
  BY <1>8 DEF FedUpTo
<1>12. ASSUME DNS!Readable(A) = DNS!Readable(B) PROVE shown' = shown
  <2>1. m = k
    BY <1>9, <1>10, <1>11, <1>12
  <2> QED
    BY <1>8, <1>11, <2>1
<1>13. ASSUME NEW j \in DNS!Readable(A), j \notin DNS!Readable(B), j + 1 \notin DNS!Readable(A)
       PROVE  shown' = [message |-> DNS!MessageOf(A, j)]
  <2>1. j \in 1..m /\ j \notin 1..k /\ j + 1 \notin 1..m
    BY <1>9, <1>10, <1>13
  <2>2. j = m /\ m # k
    BY <2>1
  <2>3. DNS!MessageOf(A, m) = Msg(g, A, m)
    BY <1>6 DEF DNS!MessageOf, Msg
  <2> QED
    BY <1>8, <1>11, <2>2, <2>3
<1> QED
  BY <1>12, <1>13 DEF A, B

-----------------------------------------------------------------------------
(* SSH: words and lines. *)

Text == Seq(STRING)

IsFirst(i, T) == i \in T /\ \A j \in T : i <= j

LEMMA Least ==
  ASSUME NEW T, T \subseteq Nat, T # {}
  PROVE  \E i : IsFirst(i, T)
<1> DEFINE R == OpToRel(<, Nat)
<1>1. IsWellFoundedOn(R, Nat)
  BY NatLessThanWellFounded
<1>2. PICK x \in T : \A y \in T : <<y, x>> \notin R
  <2> HIDE DEF R
  <2> QED BY <1>1, WFMin, Zenon
<1>3. ASSUME NEW y \in T PROVE x <= y
  <2>1. x \in Nat /\ y \in Nat
    OBVIOUS
  <2>2. y < x => <<y, x>> \in R
    BY <2>1 DEF OpToRel
  <2> HIDE DEF R
  <2>3. ~(y < x)
    BY <1>2, <2>2
  <2> QED
    BY <2>1, <2>3
<1>4. IsFirst(x, T)
  BY <1>3 DEF IsFirst
<1> QED
  BY <1>4

LEMMA Greatest ==
  ASSUME NEW n \in Nat, NEW T, T \subseteq 0..n, T # {}
  PROVE  \E i \in T : \A j \in T : j <= i
<1> DEFINE U == {k \in 0..n : n - k \in T}
<1>1. PICK j \in T : TRUE
  OBVIOUS
<1>2. n - j \in U
  <2>1. j \in 0..n /\ n - j \in 0..n /\ n - (n - j) = j
    OBVIOUS
  <2> QED
    BY <2>1
<1>3. U # {} /\ U \subseteq Nat
  BY <1>2
<1> HIDE DEF U
<1>4. PICK k : IsFirst(k, U)
  BY <1>3, Least
<1>5. k \in 0..n /\ n - k \in T
  BY <1>4 DEF IsFirst, U
<1>6. ASSUME NEW i \in T PROVE i <= n - k
  <2>1. i \in 0..n /\ n - i \in 0..n /\ n - (n - i) = i
    OBVIOUS
  <2>2. n - i \in U
    BY <2>1 DEF U
  <2>3. k <= n - i
    BY <1>4, <2>2 DEF IsFirst
  <2> QED
    BY <1>5, <2>1, <2>3
<1> QED
  BY <1>5, <1>6

LEMMA OneWord == ASSUME NEW S, NEW x \in Seq(S), Len(x) = 1, NEW c, x[1] = c PROVE x = <<c>>
OBVIOUS

\* What Index answers.
LEMMA IndexIs ==
  ASSUME NEW s \in Text, NEW sep, Len(sep) \in Nat, NEW T,
         T = {i \in 1..(Len(s) - Len(sep) + 1) : SubSeq(s, i, i + Len(sep) - 1) = sep}
  PROVE  (T = {} /\ SSH!Index(s, sep) = 0) \/ IsFirst(SSH!Index(s, sep), T)
<1>1. SSH!Index(s, sep) = IF T = {} THEN 0 ELSE CHOOSE i \in T : \A j \in T : i <= j
  BY DEF SSH!Index
<1>2. T # {} => \E i : IsFirst(i, T)
  <2>1. Len(s) \in Nat
    BY LenProperties DEF Text
  <2>2. T \subseteq Nat
    BY <2>1
  <2> QED
    BY <2>2, Least
<1>3. T # {} => IsFirst(CHOOSE i \in T : \A j \in T : i <= j, T)
  BY <1>2 DEF IsFirst
<1> QED
  BY <1>1, <1>3

\* The first word c of s.
FirstWord(s, c, e) ==
  \/ e = 0 /\ \A i \in 1..Len(s) : s[i] # c
  \/ e \in 1..Len(s) /\ s[e] = c /\ \A i \in 1..(e - 1) : s[i] # c

LEMMA IndexWord ==
  ASSUME NEW s \in Text, NEW c
  PROVE  FirstWord(s, c, SSH!Index(s, <<c>>))
<1> DEFINE T == {i \in 1..(Len(s) - Len(<<c>>) + 1) : SubSeq(s, i, i + Len(<<c>>) - 1) = <<c>>}
           e == SSH!Index(s, <<c>>)
<1>1. Len(s) \in Nat /\ Len(<<c>>) = 1
  BY LenProperties DEF Text
<1>2. ASSUME NEW i \in 1..Len(s) PROVE SubSeq(s, i, i) = <<c>> <=> s[i] = c
  <2>1. i - 1 \in Nat /\ (i - 1) + 1 = i /\ i <= Len(s) /\ i - 1 <= i /\ i \in Nat /\ i - (i - 1) = 1
    BY <1>1
  <2> DEFINE x == SubSeq(s, i, i)
  <2>2. x \in Seq(STRING) /\ Len(x) = 1 /\ x[1] = s[i]
    <3> DEFINE m == i - 1
    <3>1. m \in Nat /\ m + 1 = i /\ m + 1 >= 1 /\ m <= i /\ i - m = 1
      BY <2>1
    <3> HIDE DEF m
    <3>2. /\ SubSeq(s, m + 1, i) \in Seq(STRING) /\ Len(SubSeq(s, m + 1, i)) = i - m
          /\ \A j \in 1..(i - m) : SubSeq(s, m + 1, i)[j] = s[m + j]
      BY <2>1, <3>1, Part DEF Text
    <3> QED
      BY <3>1, <3>2
  <2> HIDE DEF x
  <2>3. x = <<c>> <=> x[1] = c
    <3>1. x[1] = c => x = <<c>>
      BY <2>2, OneWord
    <3>2. <<c>>[1] = c
      OBVIOUS
    <3> QED
      BY <3>1, <3>2
  <2> QED
    BY <2>2, <2>3 DEF x
<1>3. T = {i \in 1..Len(s) : s[i] = c}
  <2>1. Len(s) - Len(<<c>>) + 1 = Len(s)
    BY <1>1
  <2>2. \A i \in 1..Len(s) : i + Len(<<c>>) - 1 = i
    BY <1>1
  <2> QED
    BY <1>2, <2>1, <2>2
<1>4. (T = {} /\ e = 0) \/ IsFirst(e, T)
  <2> HIDE DEF T
  <2>1. T = {i \in 1..(Len(s) - Len(<<c>>) + 1) : SubSeq(s, i, i + Len(<<c>>) - 1) = <<c>>}
    BY DEF T
  <2>2. Len(<<c>>) \in Nat
    BY <1>1
  <2> QED
    BY <2>1, <2>2, IndexIs
<1> HIDE DEF e, T
<1>5. CASE T = {} /\ e = 0
  BY <1>3, <1>5 DEF FirstWord, e
<1>6. CASE IsFirst(e, T)
  <2>1. e \in 1..Len(s) /\ s[e] = c /\ \A j \in 1..Len(s) : s[j] = c => e <= j
    BY <1>3, <1>6 DEF IsFirst
  <2>2. \A j \in 1..(e - 1) : j \in 1..Len(s) /\ ~(e <= j)
    BY <1>1, <2>1
  <2> QED
    BY <2>1, <2>2 DEF FirstWord, e
<1> QED
  BY <1>4, <1>5, <1>6

\* A line ends at i.
EndsAt(t, i) == i \in 1..(Len(t) - 1) /\ t[i] = "CR" /\ t[i + 1] = "LF"

FirstEnd(t, e) ==
  \/ e = 0 /\ \A i \in Nat : ~EndsAt(t, i)
  \/ EndsAt(t, e) /\ \A i \in Nat : EndsAt(t, i) => e <= i

LEMMA LineEnds ==
  ASSUME NEW t \in Text, NEW i \in 1..(Len(t) - 1)
  PROVE  SubSeq(t, i, i + 1) = SSH!EndOfLine <=> EndsAt(t, i)
<1> DEFINE m == i - 1
           n == i + 1
           x == SubSeq(t, i, i + 1)
           y == <<"CR", "LF">>
<1>1. Len(t) \in Nat
  BY LenProperties DEF Text
<1>2. m \in Nat /\ n \in Nat /\ m + 1 = i /\ m + 1 >= 1 /\ m <= n /\ n <= Len(t) /\ n - m = 2 /\ m + 2 = n
  BY <1>1
<1>3. x \in Seq(STRING) /\ Len(x) = 2 /\ x[1] = t[i] /\ x[2] = t[i + 1]
  <2>1. x = SubSeq(t, m + 1, n) /\ t[i] = t[m + 1] /\ t[i + 1] = t[m + 2]
    BY <1>2
  <2> HIDE DEF m, n, x
  <2>2. /\ SubSeq(t, m + 1, n) \in Seq(STRING) /\ Len(SubSeq(t, m + 1, n)) = n - m
        /\ \A j \in 1..(n - m) : SubSeq(t, m + 1, n)[j] = t[m + j]
    BY <1>2, Part DEF Text
  <2>3. 1 \in 1..(n - m) /\ 2 \in 1..(n - m)
    BY <1>2
  <2> QED
    BY <1>2, <2>1, <2>2, <2>3
<1> HIDE DEF x
<1>4. y[1] = "CR" /\ y[2] = "LF"
  OBVIOUS
<1>5. x = y <=> x[1] = "CR" /\ x[2] = "LF"
  <2>1. x[1] = "CR" /\ x[2] = "LF" => x = y
    BY <1>3
  <2> HIDE DEF y
  <2> QED
    BY <1>4, <2>1
<1> QED
  BY <1>3, <1>4, <1>5 DEF EndsAt, SSH!EndOfLine, x, y

LEMMA LineFound ==
  ASSUME NEW t \in Text
  PROVE  FirstEnd(t, SSH!Index(t, SSH!EndOfLine))
<1> DEFINE sep == SSH!EndOfLine
           T == {i \in 1..(Len(t) - Len(sep) + 1) : SubSeq(t, i, i + Len(sep) - 1) = sep}
           e == SSH!Index(t, sep)
<1>1. Len(t) \in Nat
  BY LenProperties DEF Text
<1>2. Len(sep) = 2
  BY DEF SSH!EndOfLine
<1> HIDE DEF sep
<1>3. \A i \in 1..(Len(t) - 1) : SubSeq(t, i, i + 1) = sep <=> EndsAt(t, i)
  BY LineEnds DEF sep
<1>4. T = {i \in 1..(Len(t) - 1) : EndsAt(t, i)}
  <2>1. Len(t) - Len(sep) + 1 = Len(t) - 1
    BY <1>1, <1>2
  <2>2. \A i \in 1..(Len(t) - 1) : i + Len(sep) - 1 = i + 1
    BY <1>1, <1>2
  <2> QED
    BY <1>3, <2>1, <2>2
<1>5. (T = {} /\ e = 0) \/ IsFirst(e, T)
  <2> HIDE DEF T
  <2>1. T = {i \in 1..(Len(t) - Len(sep) + 1) : SubSeq(t, i, i + Len(sep) - 1) = sep}
    BY DEF T
  <2>2. Len(sep) \in Nat
    BY <1>2
  <2> QED
    BY <2>1, <2>2, IndexIs
<1> HIDE DEF e, T
<1>6. \A i : EndsAt(t, i) => i \in T
  BY <1>4 DEF EndsAt
<1>7. CASE T = {} /\ e = 0
  BY <1>6, <1>7 DEF FirstEnd, e, sep
<1>8. CASE IsFirst(e, T)
  <2>1. EndsAt(t, e) /\ \A i : EndsAt(t, i) => e <= i
    BY <1>4, <1>6, <1>8 DEF IsFirst
  <2> QED
    BY <2>1 DEF FirstEnd, e, sep
<1> QED
  BY <1>5, <1>7, <1>8

LineOf(t, e) == SubSeq(t, 1, e - 1)

\* A line that has come whole stays the first.
LEMMA LineStays ==
  ASSUME NEW t \in Text, NEW c \in Text, NEW e, FirstEnd(t, e), e # 0
  PROVE  /\ SSH!Index(t \o c, SSH!EndOfLine) = e
         /\ LineOf(t \o c, e) = LineOf(t, e)
<1> DEFINE u == t \o c
           i == SSH!Index(u, SSH!EndOfLine)
<1>1. Len(t) \in Nat /\ Len(c) \in Nat
  BY LenProperties DEF Text
<1>2. /\ u \in Text /\ Len(u) = Len(t) + Len(c)
      /\ \A j \in 1..(Len(t) + Len(c)) : u[j] = IF j <= Len(t) THEN t[j] ELSE c[j - Len(t)]
  BY ConcatProperties DEF Text
<1>3. EndsAt(t, e) /\ \A j \in Nat : EndsAt(t, j) => e <= j
  BY DEF FirstEnd
<1>4. e \in 1..(Len(t) - 1) /\ e \in Nat
  BY <1>1, <1>3 DEF EndsAt
<1> HIDE DEF u
<1>5. \A j \in 1..(Len(t) - 1) : EndsAt(t, j) <=> EndsAt(u, j)
  <2> TAKE j \in 1..(Len(t) - 1)
  <2>1. /\ j \in 1..(Len(t) + Len(c)) /\ j <= Len(t) /\ j \in 1..(Len(u) - 1)
        /\ j + 1 \in 1..(Len(t) + Len(c)) /\ j + 1 <= Len(t)
    BY <1>1, <1>2
  <2>2. u[j] = t[j] /\ u[j + 1] = t[j + 1]
    BY <1>2, <2>1
  <2> QED
    BY <2>1, <2>2 DEF EndsAt
<1>6. FirstEnd(u, i)
  BY <1>2, LineFound
<1> HIDE DEF i
<1>7. EndsAt(u, e)
  BY <1>3, <1>4, <1>5
<1>8. EndsAt(u, i) /\ i <= e
  BY <1>4, <1>6, <1>7 DEF FirstEnd
<1>9. i \in 1..(Len(t) - 1) /\ i \in Nat
  <2>1. i \in 1..(Len(u) - 1)
    BY <1>8 DEF EndsAt
  <2> QED
    BY <1>1, <1>2, <1>4, <1>8, <2>1
<1>10. e <= i
  BY <1>3, <1>5, <1>8, <1>9
<1>11. i = e
  BY <1>4, <1>8, <1>9, <1>10
<1>12. LineOf(u, e) = LineOf(t, e)
  <2> DEFINE n == e - 1
  <2>1. n \in Nat /\ 0 <= n /\ n <= Len(t) /\ 0 \in Nat
    BY <1>1, <1>4
  <2> HIDE DEF n
  <2>2. SubSeq(u, 0 + 1, n) = SubSeq(t, 0 + 1, n)
    BY <2>1, PartStays DEF u, Text
  <2>3. 0 + 1 = 1
    OBVIOUS
  <2>4. SubSeq(u, 1, n) = SubSeq(t, 1, n)
    BY <2>2, <2>3
  <2> QED
    BY <2>4 DEF LineOf, n
<1> QED
  BY <1>11, <1>12 DEF i, u

-----------------------------------------------------------------------------
(* SSH: what a version line says. *)

\* A part of a part.
LEMMA PartOfPart ==
  ASSUME NEW s \in Text, NEW m \in Nat, NEW n \in Nat, m <= n, n <= Len(s),
         NEW j \in Nat, NEW k \in Nat, j <= k, k <= n - m
  PROVE  SubSeq(SubSeq(s, m + 1, n), j + 1, k) = SubSeq(s, m + j + 1, m + k)
<1> DEFINE t == SubSeq(s, m + 1, n)
           a == m + j
           b == m + k
<1>1. t \in Text /\ Len(t) = n - m /\ \A i \in 1..(n - m) : t[i] = s[m + i]
  <2>1. m + 1 >= 1
    OBVIOUS
  <2> QED
    BY <2>1, Part DEF Text
<1>2. Len(s) \in Nat /\ a \in Nat /\ b \in Nat /\ a <= b /\ b <= Len(s) /\ b - a = k - j
  BY LenProperties DEF Text
<1>3. a + 1 >= 1 /\ j + 1 >= 1 /\ k <= Len(t)
  BY <1>1, <1>2
<1> HIDE DEF t, a, b
<1>4. /\ SubSeq(t, j + 1, k) \in Seq(STRING) /\ Len(SubSeq(t, j + 1, k)) = k - j
      /\ \A i \in 1..(k - j) : SubSeq(t, j + 1, k)[i] = t[j + i]
  BY <1>1, <1>3, Part DEF Text
<1>5. /\ SubSeq(s, a + 1, b) \in Seq(STRING) /\ Len(SubSeq(s, a + 1, b)) = b - a
      /\ \A i \in 1..(b - a) : SubSeq(s, a + 1, b)[i] = s[a + i]
  BY <1>2, <1>3, Part DEF Text
<1>6. \A i \in 1..(k - j) : j + i \in 1..(n - m) /\ m + (j + i) = a + i /\ i \in 1..(b - a)
  BY <1>2 DEF a
<1> HIDE DEF a, b
<1> DEFINE x == SubSeq(t, j + 1, k)
           y == SubSeq(s, a + 1, b)
<1> HIDE DEF x, y
<1>7. /\ x \in Seq(STRING) /\ Len(x) = k - j /\ \A i \in 1..(k - j) : x[i] = t[j + i]
      /\ y \in Seq(STRING) /\ Len(y) = b - a /\ \A i \in 1..(b - a) : y[i] = s[a + i]
  BY <1>4, <1>5 DEF x, y
<1>8. x = y
  <2>1. ASSUME NEW i \in 1..(k - j) PROVE x[i] = y[i]
    BY <1>1, <1>6, <1>7
  <2> QED
    BY <1>2, <1>7, <2>1, SeqEqual
<1> QED
  BY <1>8 DEF a, b, t, x, y

Blank(t, k) == t[k] = " "

\* The longest runs without a space.
Run(t, a, b) ==
  /\ a \in 1..Len(t) /\ b \in 1..Len(t) /\ a <= b
  /\ \A k \in a..b : ~Blank(t, k)
  /\ a = 1 \/ Blank(t, a - 1)
  /\ b = Len(t) \/ Blank(t, b + 1)

LEMMA FieldsAre ==
  ASSUME NEW t \in Text
  PROVE  /\ \A a, b : <<a, b>> \in SSH!Fields(t) <=> Run(t, a, b)
         /\ \A f \in SSH!Fields(t) : f = <<f[1], f[2]>>
<1>1. Len(t) \in Nat
  BY LenProperties DEF Text
<1> DEFINE free(i, j) == SSH!Places(t, " ") \cap (i..j) = {}
<1>2. SSH!Fields(t) = {f \in (1..Len(t)) \X (1..Len(t)) :
                         /\ f[1] <= f[2] /\ free(f[1], f[2])
                         /\ f[1] = 1 \/ ~free(f[1] - 1, f[1])
                         /\ f[2] = Len(t) \/ ~free(f[2], f[2] + 1)}
  BY DEF SSH!Fields
<1>3. \A i \in 1..Len(t), j \in 1..Len(t) : free(i, j) <=> \A k \in i..j : ~Blank(t, k)
  <2> TAKE i \in 1..Len(t), j \in 1..Len(t)
  <2>1. \A k \in i..j : k \in 1..Len(t)
    BY <1>1
  <2> QED
    BY <2>1 DEF SSH!Places, Blank
<1>4. ASSUME NEW a \in 1..Len(t), ~Blank(t, a), a # 1
      PROVE  ~free(a - 1, a) <=> Blank(t, a - 1)
  <2>1. a - 1 \in 1..Len(t) /\ a - 1 \in (a - 1)..a /\ \A k \in (a - 1)..a : k = a - 1 \/ k = a
    BY <1>1, <1>4
  <2> QED
    BY <1>3, <1>4, <2>1
<1>5. ASSUME NEW b \in 1..Len(t), ~Blank(t, b), b # Len(t)
      PROVE  ~free(b, b + 1) <=> Blank(t, b + 1)
  <2>1. b + 1 \in 1..Len(t) /\ b + 1 \in b..(b + 1) /\ \A k \in b..(b + 1) : k = b \/ k = b + 1
    BY <1>1, <1>5
  <2> QED
    BY <1>3, <1>5, <2>1
<1> HIDE DEF free
<1>6. ASSUME NEW a, NEW b PROVE <<a, b>> \in SSH!Fields(t) <=> Run(t, a, b)
  <2>1. <<a, b>> \in SSH!Fields(t) <=>
          /\ a \in 1..Len(t) /\ b \in 1..Len(t) /\ a <= b /\ free(a, b)
          /\ a = 1 \/ ~free(a - 1, a)
          /\ b = Len(t) \/ ~free(b, b + 1)
    BY <1>2
  <2>2. ASSUME a \in 1..Len(t), b \in 1..Len(t), a <= b PROVE a \in a..b /\ b \in a..b
    BY <1>1, <2>2
  <2> QED
    BY <1>3, <1>4, <1>5, <2>1, <2>2 DEF Run
<1>7. \A f \in SSH!Fields(t) : f = <<f[1], f[2]>>
  BY <1>2
<1> QED
  BY <1>6, <1>7

\* Every place without a space is in a run, ...
LEMMA RunAround ==
  ASSUME NEW t \in Text, NEW k \in 1..Len(t), ~Blank(t, k)
  PROVE  \E a, b \in 1..Len(t) : Run(t, a, b) /\ a <= k /\ k <= b
<1>1. Len(t) \in Nat
  BY LenProperties DEF Text
<1> DEFINE B == {j \in k..Len(t) : j = Len(t) \/ Blank(t, j + 1)}
           A == {j \in 1..k : j = 1 \/ Blank(t, j - 1)}
<1>2. \E b : IsFirst(b, B)
  <2>1. Len(t) \in B /\ B \subseteq Nat
    BY <1>1
  <2> HIDE DEF B
  <2> QED
    BY <2>1, Least
<1>3. \E a \in A : \A j \in A : j <= a
  <2>1. 1 \in A /\ A \subseteq 0..k /\ k \in Nat
    BY <1>1
  <2> HIDE DEF A
  <2>2. A # {}
    BY <2>1
  <2> QED
    BY <2>1, <2>2, Greatest
<1>4. PICK b : IsFirst(b, B)
  BY <1>2
<1>5. PICK a \in A : \A j \in A : j <= a
  BY <1>3
<1>6. /\ b \in k..Len(t) /\ a \in 1..k
      /\ b = Len(t) \/ Blank(t, b + 1)
      /\ a = 1 \/ Blank(t, a - 1)
  BY <1>4, <1>5 DEF IsFirst
<1>7. a \in 1..Len(t) /\ b \in 1..Len(t) /\ a <= b /\ a <= k /\ k <= b
  BY <1>1, <1>6
<1>8. ASSUME NEW x \in a..b, Blank(t, x) PROVE FALSE
  <2>1. x # k
    BY <1>8
  <2>2. CASE x > k
    <3>1. x - 1 \in k..Len(t) /\ (x - 1) + 1 = x /\ ~(b <= x - 1)
      BY <1>1, <1>6, <2>2
    <3>2. x - 1 \in B
      BY <1>8, <3>1
    <3> QED
      BY <1>4, <3>1, <3>2 DEF IsFirst
  <2>3. CASE x < k
    <3>1. x + 1 \in 1..k /\ (x + 1) - 1 = x /\ ~(x + 1 <= a)
      BY <1>1, <1>6, <2>3
    <3>2. x + 1 \in A
      BY <1>8, <3>1
    <3> QED
      BY <1>5, <3>1, <3>2
  <2> QED
    BY <1>1, <1>6, <2>1, <2>2, <2>3
<1>9. Run(t, a, b)
  BY <1>6, <1>7, <1>8 DEF Run
<1> QED
  BY <1>7, <1>9

\* ... and in one only: runs without a space between them are the same.
LEMMA RunsMeet ==
  ASSUME NEW t \in Text, NEW a, NEW b, NEW c, NEW d, Run(t, a, b), Run(t, c, d),
         a <= c, \A k \in a..c : ~Blank(t, k)
  PROVE  a = c /\ b = d
<1>1. /\ Len(t) \in Nat
      /\ a \in 1..Len(t) /\ b \in 1..Len(t) /\ c \in 1..Len(t) /\ d \in 1..Len(t) /\ a <= b /\ c <= d
  BY LenProperties DEF Text, Run
<1>2. a = c
  <2> SUFFICES ASSUME a # c PROVE FALSE
    OBVIOUS
  <2>1. c # 1 /\ c - 1 \in a..c
    BY <1>1
  <2>2. Blank(t, c - 1)
    BY <2>1 DEF Run
  <2> QED
    BY <2>1, <2>2
<1>3. ~(b < d)
  <2> SUFFICES ASSUME b < d PROVE FALSE
    OBVIOUS
  <2>1. b # Len(t) /\ b + 1 \in c..d
    BY <1>1, <1>2
  <2>2. Blank(t, b + 1)
    BY <2>1 DEF Run
  <2> QED
    BY <2>1, <2>2 DEF Run
<1>4. ~(d < b)
  <2> SUFFICES ASSUME d < b PROVE FALSE
    OBVIOUS
  <2>1. d # Len(t) /\ d + 1 \in a..b
    BY <1>1, <1>2
  <2>2. Blank(t, d + 1)
    BY <2>1 DEF Run
  <2> QED
    BY <2>1, <2>2 DEF Run
<1> QED
  BY <1>1, <1>2, <1>3, <1>4

\* The first run of what begins as a version line does.
Begins(t) == 2 <= Len(t) /\ t[1] = "SSH" /\ t[2] = "-"

LEMMA HasPrefix == ASSUME NEW t \in Text PROVE SSH!hasPrefix(t) <=> Begins(t)
<1>1. Len(t) \in Nat
  BY LenProperties DEF Text
<1>2. SSH!hasPrefix(t) <=> Len(t) >= 2 /\ SubSeq(t, 1, 2) = <<"SSH", "-">>
  BY DEF SSH!hasPrefix, SSH!Enough, SSH!First
<1>3. ASSUME Len(t) >= 2 PROVE SubSeq(t, 1, 2) = <<"SSH", "-">> <=> t[1] = "SSH" /\ t[2] = "-"
  <2> DEFINE x == SubSeq(t, 1, 2)
             y == <<"SSH", "-">>
  <2>1. x \in Seq(STRING) /\ Len(x) = 2 /\ x[1] = t[1] /\ x[2] = t[2]
    <3>1. /\ SubSeq(t, 0 + 1, 2) \in Seq(STRING) /\ Len(SubSeq(t, 0 + 1, 2)) = 2 - 0
          /\ \A i \in 1..(2 - 0) : SubSeq(t, 0 + 1, 2)[i] = t[0 + i]
      <4>1. t \in Seq(STRING) /\ 0 \in Nat /\ 2 \in Nat /\ 0 + 1 >= 1 /\ 2 <= Len(t) /\ 0 <= 2
        BY <1>1, <1>3 DEF Text
      <4> QED
        BY <4>1, Part
    <3>2. 0 + 1 = 1 /\ 1 \in 1..(2 - 0) /\ 2 \in 1..(2 - 0) /\ 0 + 2 = 2 /\ 2 - 0 = 2
      OBVIOUS
    <3> QED
      BY <3>1, <3>2
  <2> HIDE DEF x
  <2>2. y[1] = "SSH" /\ y[2] = "-"
    OBVIOUS
  <2>3. x[1] = "SSH" /\ x[2] = "-" => x = y
    BY <2>1
  <2> HIDE DEF y
  <2> QED
    BY <2>1, <2>2, <2>3 DEF x, y
<1> QED
  BY <1>2, <1>3 DEF Begins

LEMMA FirstRun ==
  ASSUME NEW t \in Text, Begins(t)
  PROVE  \E n \in 2..Len(t) : Run(t, 1, n)
<1>1. Len(t) \in Nat /\ 2 <= Len(t) /\ ~Blank(t, 1) /\ ~Blank(t, 2)
  BY LenProperties DEF Text, Begins, Blank
<1>5. 1 \in 1..Len(t)
  BY <1>1
<1>2. PICK a \in 1..Len(t), b \in 1..Len(t) : Run(t, a, b) /\ a <= 1 /\ 1 <= b
  BY <1>1, <1>5, RunAround
<1>3. a = 1
  BY <1>1, <1>2
<1>4. b # 1
  <2> SUFFICES ASSUME b = 1 PROVE FALSE
    OBVIOUS
  <2>1. b = Len(t) => 2 <= b
    BY <1>1
  <2>4. ~(2 <= b)
    OBVIOUS
  <2>2. Blank(t, b + 1)
    BY <1>2, <2>1, <2>4 DEF Run
  <2>3. b + 1 = 2
    OBVIOUS
  <2> QED
    BY <1>1, <2>2, <2>3
<1> QED
  BY <1>1, <1>2, <1>3, <1>4

Dash(t, k) == t[k] = "-"

\* Where the parts of a version line are: the first field ends at n, the second
\* dash is at i.
HasDash(t, n, i) ==
  /\ Run(t, 1, n) /\ i \in 3..n
  /\ Dash(t, i) /\ \A k \in 3..(i - 1) : ~Dash(t, k)

More(t, n) == {f \in SSH!Fields(t) : f[1] > n}

LEMMA BehindDash ==
  ASSUME NEW t \in Text, NEW n \in Nat, 2 <= n, n <= Len(t), NEW j \in 0..(n - 2)
  PROVE  SubSeq(SubSeq(t, 3, n), j + 1, n - 2) = SubSeq(t, (j + 2) + 1, n)
<1> DEFINE k == n - 2
<1>1. j \in Nat /\ j <= k /\ k \in Nat /\ 2 + k = n /\ k <= n - 2 /\ 2 \in Nat
  OBVIOUS
<1> HIDE DEF k
<1>2. SubSeq(SubSeq(t, 2 + 1, n), j + 1, k) = SubSeq(t, 2 + j + 1, 2 + k)
  BY <1>1, PartOfPart
<1>3. 2 + 1 = 3 /\ 2 + j + 1 = (j + 2) + 1
  OBVIOUS
<1> QED
  BY <1>1, <1>2, <1>3 DEF k

\* The dashes of the first field, as they are looked for.
LEMMA DashFound ==
  ASSUME NEW t \in Text, Begins(t), NEW n \in 2..Len(t), Run(t, 1, n), NEW rest, NEW dash,
         rest = SSH!After(SubSeq(t, 1, n), SSH!Index(SubSeq(t, 1, n), <<"-">>)),
         dash = SSH!Index(rest, <<"-">>)
  PROVE  /\ dash = 0 => \A i : ~HasDash(t, n, i)
         /\ dash # 0 => /\ HasDash(t, n, dash + 2)
                        /\ SSH!First(rest, dash - 1) = SubSeq(t, 3, (dash + 2) - 1)
                        /\ SSH!After(rest, dash) = SubSeq(t, (dash + 2) + 1, n)
<1> DEFINE first == SubSeq(t, 1, n)
           c == SSH!Index(first, <<"-">>)
<1>1. Len(t) \in Nat /\ n \in Nat /\ 2 <= n /\ n <= Len(t)
  BY LenProperties DEF Text
<1>2. first \in Text /\ Len(first) = n /\ \A i \in 1..n : first[i] = t[i]
  <2>1. /\ SubSeq(t, 0 + 1, n) \in Seq(STRING) /\ Len(SubSeq(t, 0 + 1, n)) = n - 0
        /\ \A i \in 1..(n - 0) : SubSeq(t, 0 + 1, n)[i] = t[0 + i]
    <3>1. 0 + 1 >= 1 /\ 0 \in Nat /\ 0 <= n /\ t \in Seq(STRING)
      BY <1>1 DEF Text
    <3> QED
      BY <1>1, <3>1, Part
  <2>2. 0 + 1 = 1 /\ n - 0 = n /\ \A i \in 1..n : 0 + i = i
    BY <1>1
  <2> QED
    BY <2>1, <2>2 DEF Text
<1> HIDE DEF first
<1>3. \A i \in 1..n : first[i] = "-" <=> Dash(t, i)
  BY <1>2 DEF Dash
<1>4. c = 2
  <2>1. FirstWord(first, "-", c)
    BY <1>2, IndexWord
  <2>2. ~Dash(t, 1) /\ Dash(t, 2)
    BY DEF Begins, Dash
  <2>3. \/ c = 0 /\ \A i \in 1..n : ~Dash(t, i)
        \/ c \in 1..n /\ Dash(t, c) /\ \A i \in 1..(c - 1) : ~Dash(t, i)
    <3>1. CASE c = 0
      BY <1>2, <1>3, <2>1, <3>1 DEF FirstWord
    <3>2. CASE c # 0
      <4>1. c \in 1..n /\ first[c] = "-" /\ \A i \in 1..(c - 1) : first[i] # "-"
        BY <1>2, <2>1, <3>2 DEF FirstWord
      <4>2. \A i \in 1..(c - 1) : i \in 1..n
        BY <1>1, <4>1
      <4> QED
        BY <1>3, <4>1, <4>2
    <3> QED
      BY <3>1, <3>2
  <2> HIDE DEF c
  <2>4. 2 \in 1..n
    BY <1>1
  <2>5. c \in 1..n /\ Dash(t, c) /\ \A i \in 1..(c - 1) : ~Dash(t, i)
    BY <2>2, <2>3, <2>4
  <2>6. c # 1
    BY <2>2, <2>5
  <2>7. ~(c > 2)
    <3> SUFFICES ASSUME c > 2 PROVE FALSE
      OBVIOUS
    <3>1. 2 \in 1..(c - 1)
      BY <2>5
    <3> QED
      BY <2>2, <2>5, <3>1
  <2> QED
    BY <2>5, <2>6, <2>7
<1> HIDE DEF c
<1>5. rest = SubSeq(t, 3, n)
  <2>1. rest = SubSeq(first, 3, n)
    BY <1>2, <1>4 DEF SSH!After, first, c
  <2>2. SubSeq(SubSeq(t, 0 + 1, n), 2 + 1, n) = SubSeq(t, 0 + 2 + 1, 0 + n)
    <3>1. 0 \in Nat /\ 2 \in Nat /\ 0 <= n /\ n <= n - 0
      BY <1>1
    <3> QED
      BY <1>1, <3>1, PartOfPart
  <2>3. 0 + 1 = 1 /\ 2 + 1 = 3 /\ 0 + 2 + 1 = 3 /\ 0 + n = n
    BY <1>1
  <2> QED
    BY <2>1, <2>2, <2>3 DEF first
<1>6. rest \in Text /\ Len(rest) = n - 2 /\ \A i \in 1..(n - 2) : rest[i] = t[2 + i]
  <2>1. /\ SubSeq(t, 2 + 1, n) \in Seq(STRING) /\ Len(SubSeq(t, 2 + 1, n)) = n - 2
        /\ \A i \in 1..(n - 2) : SubSeq(t, 2 + 1, n)[i] = t[2 + i]
    <3>1. 2 + 1 >= 1 /\ 2 \in Nat /\ t \in Seq(STRING)
      BY DEF Text
    <3> QED
      BY <1>1, <3>1, Part
  <2>2. 2 + 1 = 3
    OBVIOUS
  <2> QED
    BY <1>5, <2>1, <2>2 DEF Text
<1>7. \A i \in 1..(n - 2) : rest[i] = "-" <=> Dash(t, 2 + i)
  BY <1>6 DEF Dash
<1>8. FirstWord(rest, "-", dash)
  BY <1>6, IndexWord
<1>9. ASSUME dash = 0, NEW i, HasDash(t, n, i) PROVE FALSE
  <2>1. \A j \in 1..(n - 2) : rest[j] # "-"
    BY <1>6, <1>8, <1>9 DEF FirstWord
  <2>2. i \in 3..n /\ Dash(t, i)
    BY <1>9 DEF HasDash
  <2>3. i - 2 \in 1..(n - 2) /\ 2 + (i - 2) = i
    BY <1>1, <2>2
  <2> QED
    BY <1>7, <2>1, <2>2, <2>3
<1>10. ASSUME dash # 0
       PROVE  /\ HasDash(t, n, dash + 2)
              /\ SSH!First(rest, dash - 1) = SubSeq(t, 3, (dash + 2) - 1)
              /\ SSH!After(rest, dash) = SubSeq(t, (dash + 2) + 1, n)
  <2>1. dash \in 1..(n - 2) /\ rest[dash] = "-" /\ \A i \in 1..(dash - 1) : rest[i] # "-"
    BY <1>6, <1>8, <1>10 DEF FirstWord
  <2>2. dash \in 1..(n - 2) /\ Dash(t, 2 + dash) /\ \A i \in 1..(dash - 1) : ~Dash(t, 2 + i)
    <3>1. \A i \in 1..(dash - 1) : i \in 1..(n - 2)
      BY <1>1, <2>1
    <3> QED
      BY <1>7, <2>1, <3>1
  <2>3. HasDash(t, n, dash + 2)
    <3>1. dash + 2 \in 3..n /\ 2 + dash = dash + 2
      BY <1>1, <2>2
    <3>2. ASSUME NEW k \in 3..((dash + 2) - 1) PROVE ~Dash(t, k)
      <4>1. k - 2 \in 1..(dash - 1) /\ 2 + (k - 2) = k
        BY <1>1, <2>2
      <4> QED
        BY <2>2, <4>1
    <3> QED
      BY <2>2, <3>1, <3>2 DEF HasDash
  <2>4. SubSeq(rest, 1, dash - 1) = SubSeq(t, 3, (dash + 2) - 1)
    <3> DEFINE k == dash - 1
    <3>1. k \in Nat /\ k <= n - 2 /\ 2 + k = (dash + 2) - 1
      BY <1>1, <2>2
    <3> HIDE DEF k
    <3>2. SubSeq(SubSeq(t, 2 + 1, n), 0 + 1, k) = SubSeq(t, 2 + 0 + 1, 2 + k)
      <4>1. 0 \in Nat /\ 2 \in Nat /\ 0 <= k
        BY <3>1
      <4> QED
        BY <1>1, <3>1, <4>1, PartOfPart
    <3>3. 0 + 1 = 1 /\ 2 + 1 = 3 /\ 2 + 0 + 1 = 3
      OBVIOUS
    <3> QED
      BY <1>5, <3>1, <3>2, <3>3 DEF k
  <2>5. SubSeq(rest, dash + 1, Len(rest)) = SubSeq(t, (dash + 2) + 1, n)
    <3>1. dash \in 0..(n - 2)
      BY <1>1, <2>2
    <3> QED
      BY <1>1, <1>5, <1>6, <3>1, BehindDash
  <2> QED
    BY <2>3, <2>4, <2>5 DEF SSH!First, SSH!After
<1> QED
  BY <1>9, <1>10

\* Nothing but one run behind n, or nothing.
Alone(t, n) == \A f, g \in More(t, n) : f = g

\* What a version line says.
VersionOf(t, n, i) ==
  [protocol |-> SubSeq(t, 3, i - 1),
   software |-> SubSeq(t, i + 1, n),
   comments |-> {SubSeq(t, f[1], f[2]) : f \in More(t, n)}]

LEMMA VersionIsSome == ASSUME NEW t, NEW n, NEW i PROVE VersionOf(t, n, i) # SSH!None
<1>1. "protocol" \in DOMAIN VersionOf(t, n, i)
  BY DEF VersionOf
<1>2. "protocol" \notin DOMAIN SSH!None
  BY DEF SSH!None
<1> QED
  BY <1>1, <1>2

\* The first field is the run at the beginning.
LEMMA FirstField ==
  ASSUME NEW t \in Text, NEW n, Run(t, 1, n)
  PROVE  (CHOOSE m \in {f[2] : f \in SSH!Fields(t)} : <<1, m>> \in SSH!Fields(t)) = n
<1> DEFINE T == {f[2] : f \in SSH!Fields(t)}
<1>1. \A a, b : <<a, b>> \in SSH!Fields(t) <=> Run(t, a, b)
  BY FieldsAre
<1>2. <<1, n>> \in SSH!Fields(t)
  BY <1>1
<1>3. n \in T
  <2>1. <<1, n>>[2] = n
    OBVIOUS
  <2> QED
    BY <1>2, <2>1
<1>4. ASSUME NEW m, <<1, m>> \in SSH!Fields(t) PROVE m = n
  <2>1. Run(t, 1, m)
    BY <1>1, <1>4
  <2>2. \A k \in 1..1 : ~Blank(t, k)
    <3>1. n \in 1..Len(t) /\ 1 <= n /\ \A k \in 1..n : ~Blank(t, k)
      BY DEF Run
    <3>2. Len(t) \in Nat
      BY LenProperties DEF Text
    <3>3. \A k \in 1..1 : k \in 1..n
      BY <3>1, <3>2
    <3> QED
      BY <3>1, <3>3
  <2>3. 1 <= 1
    OBVIOUS
  <2> QED
    BY <2>1, <2>2, <2>3, RunsMeet
<1> HIDE DEF T
<1>5. \E m \in T : <<1, m>> \in SSH!Fields(t)
  BY <1>2, <1>3
<1>6. <<1, CHOOSE m \in T : <<1, m>> \in SSH!Fields(t)>> \in SSH!Fields(t)
  BY <1>5
<1> QED
  BY <1>4, <1>6 DEF T

\* What is read of a line that begins as a version line does.
LEMMA LineRead ==
  ASSUME NEW t \in Text, Begins(t), NEW n \in 2..Len(t), Run(t, 1, n)
  PROVE  \/ /\ SSH!versionLine(t) = SSH!None
            /\ ~Alone(t, n) \/ \A i : ~HasDash(t, n, i)
         \/ /\ Alone(t, n)
            /\ \E i : HasDash(t, n, i) /\ SSH!versionLine(t) = VersionOf(t, n, i)
<1> DEFINE first == SubSeq(t, 1, n)
           rest  == SSH!After(first, SSH!Index(first, <<"-">>))
           dash  == SSH!Index(rest, <<"-">>)
           more  == {f \in SSH!Fields(t) : f[1] > Len(first)}
<1>1. SSH!versionLine(t) =
        IF ~SSH!hasPrefix(t) THEN SSH!None
        ELSE IF \E f, g \in more : f # g THEN SSH!None
        ELSE IF dash = 0 THEN SSH!None
        ELSE [protocol |-> SSH!First(rest, dash - 1),
              software |-> SSH!After(rest, dash),
              comments |-> {SubSeq(t, f[1], f[2]) : f \in more}]
  BY FirstField DEF SSH!versionLine
<1>2. SSH!hasPrefix(t)
  BY HasPrefix
<1>3. Len(first) = n
  <2>1. Len(t) \in Nat /\ t \in Seq(STRING) /\ n \in Nat /\ n <= Len(t)
    BY LenProperties DEF Text
  <2> QED
    BY <2>1, FirstPart
<1>4. more = More(t, n)
  BY <1>3 DEF More
<1>5. /\ dash = 0 => \A i : ~HasDash(t, n, i)
      /\ dash # 0 => /\ HasDash(t, n, dash + 2)
                     /\ SSH!First(rest, dash - 1) = SubSeq(t, 3, (dash + 2) - 1)
                     /\ SSH!After(rest, dash) = SubSeq(t, (dash + 2) + 1, n)
  BY DashFound
<1> HIDE DEF first, rest, dash, more
<1>6. CASE \E f, g \in more : f # g
  BY <1>1, <1>2, <1>4, <1>6 DEF Alone
<1>7. CASE ~(\E f, g \in more : f # g) /\ dash = 0
  BY <1>1, <1>2, <1>5, <1>7
<1>8. CASE ~(\E f, g \in more : f # g) /\ dash # 0
  <2>1. SSH!versionLine(t) = [protocol |-> SSH!First(rest, dash - 1),
                              software |-> SSH!After(rest, dash),
                              comments |-> {SubSeq(t, f[1], f[2]) : f \in more}]
    BY <1>1, <1>2, <1>8
  <2>2. SSH!versionLine(t) = VersionOf(t, n, dash + 2)
    BY <1>4, <1>5, <1>8, <2>1 DEF VersionOf
  <2> QED
    BY <1>4, <1>5, <1>8, <2>2 DEF Alone
<1> QED
  BY <1>6, <1>7, <1>8

\* The words behind n, by their places.
WordBehind(t, n, k) == k \in (n + 1)..Len(t) /\ ~Blank(t, k)

LEMMA SaidIs ==
  ASSUME NEW t, NEW n
  PROVE  \A k : k \in SSH!Said(t, n) <=> WordBehind(t, n, k)
BY DEF SSH!Said, WordBehind, Blank

\* A word behind the first run is in a run behind it.
LEMMA InMore ==
  ASSUME NEW t \in Text, NEW n, Run(t, 1, n), NEW k, WordBehind(t, n, k)
  PROVE  \E a, b \in Nat : <<a, b>> \in More(t, n) /\ Run(t, a, b) /\ n < a /\ a <= k /\ k <= b
<1>1. Len(t) \in Nat /\ n \in Nat /\ 1 <= n /\ n <= Len(t) /\ \A j \in 1..n : ~Blank(t, j)
  BY LenProperties DEF Text, Run
<1>2. k \in 1..Len(t) /\ ~Blank(t, k) /\ n < k
  BY <1>1 DEF WordBehind
<1>3. PICK a \in 1..Len(t), b \in 1..Len(t) : Run(t, a, b) /\ a <= k /\ k <= b
  BY <1>2, RunAround
<1>4. n < a
  <2> SUFFICES ASSUME ~(n < a) PROVE FALSE
    OBVIOUS
  <2>1. 1 <= a /\ \A j \in 1..a : j \in 1..n
    BY <1>1, <1>3
  <2>2. \A j \in 1..a : ~Blank(t, j)
    BY <1>1, <2>1
  <2>3. b = n
    BY <1>3, <2>1, <2>2, RunsMeet
  <2> QED
    BY <1>1, <1>2, <1>3, <2>3
<1>5. <<a, b>> \in More(t, n)
  <2>1. <<a, b>> \in SSH!Fields(t)
    BY <1>3, FieldsAre
  <2>2. <<a, b>>[1] = a
    OBVIOUS
  <2>3. <<a, b>>[1] > n
    BY <1>1, <1>3, <1>4, <2>2
  <2> QED
    BY <2>1, <2>3 DEF More
<1>6. a \in Nat /\ b \in Nat
  BY <1>1
<1> QED
  BY <1>3, <1>4, <1>5, <1>6

\* Every word of a run behind n is behind n.
LEMMA MoreIsBehind ==
  ASSUME NEW t \in Text, NEW n \in Nat, NEW f \in More(t, n)
  PROVE  \E a, b \in Nat : /\ f = <<a, b>> /\ Run(t, a, b) /\ n < a /\ a <= b
                           /\ \A k \in a..b : WordBehind(t, n, k)
<1>1. Len(t) \in Nat
  BY LenProperties DEF Text
<1>2. f \in SSH!Fields(t) /\ f[1] > n
  BY DEF More
<1>3. PICK a, b : a = f[1] /\ b = f[2]
  OBVIOUS
<1>4. f = <<a, b>> /\ Run(t, a, b)
  BY <1>2, <1>3, FieldsAre
<1>5. a \in Nat /\ b \in Nat /\ n < a /\ a <= b /\ b <= Len(t) /\ \A k \in a..b : ~Blank(t, k)
  BY <1>1, <1>2, <1>3, <1>4 DEF Run
<1>6. \A k \in a..b : WordBehind(t, n, k)
  BY <1>1, <1>5 DEF WordBehind
<1> QED
  BY <1>4, <1>5, <1>6

\* Everything behind n is together.
Together(t, n) == \A k, l \in SSH!Said(t, n) : k..l \subseteq SSH!Said(t, n)

LEMMA AloneTogether ==
  ASSUME NEW t \in Text, NEW n \in Nat, Run(t, 1, n)
  PROVE  Alone(t, n) <=> Together(t, n)
<1>1. ASSUME Together(t, n), NEW f \in More(t, n), NEW g \in More(t, n) PROVE f = g
  <2>1. PICK a \in Nat, b \in Nat : /\ f = <<a, b>> /\ Run(t, a, b) /\ n < a /\ a <= b
                           /\ \A k \in a..b : WordBehind(t, n, k)
    BY MoreIsBehind
  <2>2. PICK c \in Nat, d \in Nat : /\ g = <<c, d>> /\ Run(t, c, d) /\ n < c /\ c <= d
                           /\ \A k \in c..d : WordBehind(t, n, k)
    BY MoreIsBehind
  <2>3. WordBehind(t, n, a) /\ WordBehind(t, n, c)
    BY <2>1, <2>2
  <2>4. \A k \in (a..c) \cup (c..a) : ~Blank(t, k)
    <3>1. a \in SSH!Said(t, n) /\ c \in SSH!Said(t, n)
      BY <2>3, SaidIs
    <3>2. \A k \in (a..c) \cup (c..a) : k \in SSH!Said(t, n)
      BY <1>1, <3>1 DEF Together
    <3> QED
      BY <3>2, SaidIs DEF WordBehind
  <2>5. CASE a <= c
    <3>1. \A k \in a..c : ~Blank(t, k)
      BY <2>4
    <3>2. a = c /\ b = d
      BY <2>1, <2>2, <2>5, <3>1, RunsMeet
    <3> QED
      BY <2>1, <2>2, <3>2
  <2>6. CASE c <= a
    <3>1. \A k \in c..a : ~Blank(t, k)
      BY <2>4
    <3>2. c = a /\ d = b
      BY <2>1, <2>2, <2>6, <3>1, RunsMeet
    <3> QED
      BY <2>1, <2>2, <3>2
  <2> QED
    BY <2>5, <2>6
<1>2. ASSUME Alone(t, n), NEW k \in SSH!Said(t, n), NEW l \in SSH!Said(t, n), NEW x \in k..l
      PROVE  x \in SSH!Said(t, n)
  <2>1. WordBehind(t, n, k) /\ WordBehind(t, n, l)
    BY SaidIs
  <2>2. PICK a \in Nat, b \in Nat : <<a, b>> \in More(t, n) /\ Run(t, a, b) /\ n < a /\ a <= k /\ k <= b
    BY <2>1, InMore
  <2>3. PICK c \in Nat, d \in Nat : <<c, d>> \in More(t, n) /\ Run(t, c, d) /\ n < c /\ c <= l /\ l <= d
    BY <2>1, InMore
  <2>4. <<a, b>> = <<c, d>>
    BY <1>2, <2>2, <2>3 DEF Alone
  <2>5. a = c /\ b = d
    BY <2>4
  <2>6. Len(t) \in Nat
    BY LenProperties DEF Text
  <2>7. k \in Nat /\ l \in Nat
    BY <2>1, <2>6 DEF WordBehind
  <2>8. x \in a..b /\ n < x
    BY <2>2, <2>3, <2>5, <2>7
  <2>9. ~Blank(t, x) /\ b <= Len(t)
    BY <2>2, <2>8 DEF Run
  <2>10. WordBehind(t, n, x)
    BY <2>6, <2>8, <2>9 DEF WordBehind
  <2> QED
    BY <2>10, SaidIs
<1> QED
  BY <1>1, <1>2 DEF Alone, Together

\* All of it, by its first and its last place.
AllSaid(t, n) ==
  {x \in SSH!Said(t, n) \X SSH!Said(t, n) : SSH!Said(t, n) = x[1]..x[2]}

LEMMA MoreIsAll ==
  ASSUME NEW t \in Text, NEW n \in Nat, Run(t, 1, n), Alone(t, n)
  PROVE  More(t, n) = AllSaid(t, n)
<1> DEFINE S == SSH!Said(t, n)
<1>1. Len(t) \in Nat
  BY LenProperties DEF Text
<1>2. \A k : k \in S <=> WordBehind(t, n, k)
  BY SaidIs
<1> HIDE DEF S
<1>3. ASSUME NEW a \in Nat, NEW b \in Nat, <<a, b>> \in More(t, n) PROVE S = a..b /\ a <= b
  <2>1. PICK c \in Nat, d \in Nat : /\ <<a, b>> = <<c, d>> /\ Run(t, c, d) /\ n < c /\ c <= d
                           /\ \A k \in c..d : WordBehind(t, n, k)
    BY <1>3, MoreIsBehind
  <2>2. a = c /\ b = d
    BY <2>1
  <2>3. ASSUME NEW k \in S PROVE k \in a..b
    <3>1. PICK x \in Nat, y \in Nat : <<x, y>> \in More(t, n) /\ Run(t, x, y) /\ n < x /\ x <= k /\ k <= y
      BY <1>2, InMore
    <3>2. <<x, y>> = <<a, b>>
      BY <1>3, <3>1 DEF Alone
    <3>3. x = a /\ y = b
      BY <3>2
    <3>4. k \in Nat
      BY <1>1, <1>2 DEF WordBehind
    <3> QED
      BY <3>1, <3>3, <3>4
  <2>4. \A k \in a..b : k \in S
    BY <1>2, <2>1, <2>2
  <2> QED
    BY <2>1, <2>2, <2>3, <2>4
<1>4. ASSUME NEW f \in More(t, n) PROVE f \in AllSaid(t, n)
  <2>1. PICK a \in Nat, b \in Nat : f = <<a, b>>
    BY MoreIsBehind
  <2>2. S = a..b /\ a <= b
    BY <1>3, <2>1
  <2>3. a \in S /\ b \in S
    BY <2>2
  <2>4. <<a, b>>[1] = a /\ <<a, b>>[2] = b
    OBVIOUS
  <2> QED
    BY <2>1, <2>2, <2>3, <2>4 DEF AllSaid, S
<1>5. ASSUME NEW f \in AllSaid(t, n) PROVE f \in More(t, n)
  <2>1. PICK k \in S, l \in S : f = <<k, l>>
    BY DEF AllSaid, S
  <2>2. S = k..l
    <3>1. <<k, l>>[1] = k /\ <<k, l>>[2] = l
      OBVIOUS
    <3>2. S = f[1]..f[2]
      BY DEF AllSaid, S
    <3> QED
      BY <2>1, <3>1, <3>2
  <2>3. WordBehind(t, n, k)
    BY <1>2
  <2>4. PICK a \in Nat, b \in Nat : <<a, b>> \in More(t, n) /\ Run(t, a, b) /\ n < a /\ a <= k /\ k <= b
    BY <2>3, InMore
  <2>5. S = a..b /\ a <= b
    BY <1>3, <2>4
  <2>6. a \in S /\ b \in S
    BY <2>5
  <2>7. a \in k..l /\ b \in k..l /\ k \in a..b /\ l \in a..b
    BY <2>2, <2>5, <2>6
  <2>8. k \in Nat /\ l \in Nat
    BY <2>7
  <2>9. a = k /\ b = l
    BY <2>7, <2>8
  <2> QED
    BY <2>1, <2>4, <2>9
<1> QED
  BY <1>4, <1>5

\* A version line, with the places of its dash and of the end of its first field.
LEMMA VersionIs ==
  ASSUME NEW t \in Text, NEW i \in 3..Len(t), NEW j \in 3..Len(t)
  PROVE  SSH!IsVersion(t, i, j) <=> Begins(t) /\ HasDash(t, j, i) /\ Alone(t, j)
<1> DEFINE noDash == \A k \in 3..(i - 1) : ~Dash(t, k)
           noBlank == \A k \in 3..j : ~Blank(t, k)
           ends == j = Len(t) \/ Blank(t, j + 1)
<1>1. Len(t) \in Nat /\ 3 <= i /\ i <= Len(t) /\ 3 <= j /\ j <= Len(t) /\ i \in Nat /\ j \in Nat
  BY LenProperties DEF Text
<1>2. SSH!Places(t, "-") \cap (3..(i - 1)) = {} <=> noDash
  <2>1. \A k \in 3..(i - 1) : k \in 1..Len(t)
    BY <1>1
  <2>2. \A k : k \in SSH!Places(t, "-") <=> k \in 1..Len(t) /\ Dash(t, k)
    BY DEF SSH!Places, Dash
  <2> QED
    BY <2>1, <2>2
<1>3. SSH!Places(t, " ") \cap (3..j) = {} <=> noBlank
  <2>1. \A k \in 3..j : k \in 1..Len(t)
    BY <1>1
  <2>2. \A k : k \in SSH!Places(t, " ") <=> k \in 1..Len(t) /\ Blank(t, k)
    BY DEF SSH!Places, Blank
  <2> QED
    BY <2>1, <2>2
<1>4. Begins(t) <=> t[1] = "SSH" /\ t[2] = "-"
  <2>1. 2 <= Len(t)
    BY <1>1
  <2> QED
    BY <2>1 DEF Begins
<1>5. SSH!IsVersion(t, i, j) <=>
        Begins(t) /\ Dash(t, i) /\ i <= j /\ noDash /\ noBlank /\ ends /\ Together(t, j)
  <2> HIDE DEF noDash, noBlank
  <2> QED
    BY <1>2, <1>3, <1>4 DEF SSH!IsVersion, Dash, Blank, Together
<1>6. Begins(t) => (Run(t, 1, j) <=> noBlank /\ ends)
  <2> SUFFICES ASSUME Begins(t) PROVE Run(t, 1, j) <=> noBlank /\ ends
    OBVIOUS
  <2>1. ~Blank(t, 1) /\ ~Blank(t, 2)
    BY DEF Begins, Blank
  <2>2. (\A k \in 1..j : ~Blank(t, k)) <=> noBlank
    <3>1. \A k \in 1..j : k = 1 \/ k = 2 \/ k \in 3..j
      BY <1>1
    <3>2. \A k \in 3..j : k \in 1..j
      BY <1>1
    <3> QED
      BY <2>1, <3>1, <3>2
  <2>3. 1 \in 1..Len(t) /\ j \in 1..Len(t) /\ 1 <= j
    BY <1>1
  <2> HIDE DEF noBlank, ends
  <2> QED
    BY <2>2, <2>3 DEF Run, ends
<1>7. i <= j <=> i \in 3..j
  BY <1>1
<1>8. Run(t, 1, j) => (Together(t, j) <=> Alone(t, j))
  BY <1>1, AloneTogether
<1> HIDE DEF noDash, noBlank, ends
<1> QED
  BY <1>5, <1>6, <1>7, <1>8 DEF HasDash, noDash

LEMMA ReadingIs ==
  ASSUME NEW t \in Text, NEW n \in Nat, Run(t, 1, n), Alone(t, n), NEW i
  PROVE  SSH!Reading(t, i, n) = VersionOf(t, n, i)
<1>1. More(t, n) = AllSaid(t, n)
  BY MoreIsAll
<1>2. {SubSeq(t, x[1], x[2]) : x \in AllSaid(t, n)} = {SubSeq(t, f[1], f[2]) : f \in More(t, n)}
  BY <1>1
<1> QED
  BY <1>2 DEF SSH!Reading, VersionOf, AllSaid

\* A line begins with one run and has one second dash.
LEMMA OneVersion ==
  ASSUME NEW t \in Text, NEW n, NEW i, NEW m, NEW k, Run(t, 1, n), Run(t, 1, m)
  PROVE  n = m /\ (HasDash(t, n, i) /\ HasDash(t, m, k) => i = k)
<1>1. Len(t) \in Nat /\ n \in Nat /\ 1 <= n /\ \A j \in 1..n : ~Blank(t, j)
  BY LenProperties DEF Text, Run
<1>2. \A j \in 1..1 : ~Blank(t, j)
  BY <1>1
<1>3. n = m
  BY <1>2, RunsMeet
<1>4. ASSUME HasDash(t, n, i), HasDash(t, m, k) PROVE i = k
  <2>1. /\ i \in 3..n /\ Dash(t, i) /\ \A j \in 3..(i - 1) : ~Dash(t, j)
        /\ k \in 3..n /\ Dash(t, k) /\ \A j \in 3..(k - 1) : ~Dash(t, j)
    BY <1>3, <1>4 DEF HasDash
  <2>2. ~(i < k)
    <3> SUFFICES ASSUME i < k PROVE FALSE
      OBVIOUS
    <3>1. i \in 3..(k - 1)
      BY <2>1
    <3> QED
      BY <2>1, <3>1
  <2>3. ~(k < i)
    <3> SUFFICES ASSUME k < i PROVE FALSE
      OBVIOUS
    <3>1. k \in 3..(i - 1)
      BY <2>1
    <3> QED
      BY <2>1, <3>1
  <2> QED
    BY <2>1, <2>2, <2>3
<1> QED
  BY <1>3, <1>4

\* What versionLine makes of a line is what the line says.
LEMMA VersionKnown ==
  ASSUME NEW t \in Text
  PROVE  (IF SSH!versionLine(t) = SSH!None THEN {} ELSE {SSH!versionLine(t)}) = SSH!Readings(t)
<1>1. Len(t) \in Nat
  BY LenProperties DEF Text
<1> DEFINE P(x) == x \in (3..Len(t)) \X (3..Len(t)) /\ SSH!IsVersion(t, x[1], x[2])
<1>2. \A r : r \in SSH!Readings(t) <=> \E x : P(x) /\ r = SSH!Reading(t, x[1], x[2])
  BY DEF SSH!Readings
<1>3. \A x : P(x) => /\ x[1] \in 3..Len(t) /\ x[2] \in 3..Len(t)
                     /\ Begins(t) /\ HasDash(t, x[2], x[1]) /\ Alone(t, x[2]) /\ Run(t, 1, x[2])
  <2> SUFFICES ASSUME NEW x, P(x)
               PROVE  /\ x[1] \in 3..Len(t) /\ x[2] \in 3..Len(t)
                      /\ Begins(t) /\ HasDash(t, x[2], x[1]) /\ Alone(t, x[2]) /\ Run(t, 1, x[2])
    OBVIOUS
  <2>1. x[1] \in 3..Len(t) /\ x[2] \in 3..Len(t) /\ SSH!IsVersion(t, x[1], x[2])
    OBVIOUS
  <2>2. Begins(t) /\ HasDash(t, x[2], x[1]) /\ Alone(t, x[2])
    BY <2>1, VersionIs
  <2> QED
    BY <2>1, <2>2 DEF HasDash
<1> HIDE DEF P
<1>4. CASE ~Begins(t)
  <2>1. SSH!versionLine(t) = SSH!None
    BY <1>4, HasPrefix DEF SSH!versionLine
  <2>2. SSH!Readings(t) = {}
    BY <1>2, <1>3, <1>4
  <2> QED
    BY <2>1, <2>2
<1>5. CASE Begins(t)
  <2>1. PICK n \in 2..Len(t) : Run(t, 1, n)
    BY <1>5, FirstRun
  <2>2. \A x : P(x) => x[2] = n
    BY <1>3, <2>1, OneVersion
  <2>3. CASE /\ SSH!versionLine(t) = SSH!None
             /\ ~Alone(t, n) \/ \A i : ~HasDash(t, n, i)
    <3>1. \A x : ~P(x)
      BY <1>3, <2>2, <2>3
    <3> QED
      BY <1>2, <2>3, <3>1
  <2>4. CASE /\ Alone(t, n)
             /\ \E i : HasDash(t, n, i) /\ SSH!versionLine(t) = VersionOf(t, n, i)
    <3>1. PICK i : HasDash(t, n, i) /\ SSH!versionLine(t) = VersionOf(t, n, i)
      BY <2>4
    <3>2. i \in 3..Len(t) /\ n \in 3..Len(t) /\ n \in Nat
      BY <1>1, <2>1, <3>1 DEF HasDash
    <3>3. SSH!IsVersion(t, i, n)
      BY <1>5, <2>4, <3>1, <3>2, VersionIs
    <3>4. P(<<i, n>>)
      BY <3>2, <3>3 DEF P
    <3>5. \A x : P(x) => x[1] = i /\ x[2] = n
      BY <1>3, <2>1, <2>2, <3>1, OneVersion
    <3>6. SSH!Reading(t, i, n) = VersionOf(t, n, i)
      BY <2>1, <2>4, <3>2, ReadingIs
    <3>7. \A r : r \in SSH!Readings(t) <=> r = VersionOf(t, n, i)
      <4>1. <<i, n>>[1] = i /\ <<i, n>>[2] = n
        OBVIOUS
      <4> QED
        BY <1>2, <3>4, <3>5, <3>6, <4>1
    <3>8. SSH!Readings(t) = {VersionOf(t, n, i)}
      BY <3>7
    <3> QED
      BY <3>1, <3>8, VersionIsSome
  <2> QED
    BY <1>5, <2>1, <2>3, <2>4, LineRead
<1> QED
  BY <1>4, <1>5

-----------------------------------------------------------------------------
(* SSH: the parser. *)

Versions == {SSH!versionLine(t) : t \in Text} \cup {SSH!None}

SSHOf(b, i, m, u, o) ==
  [buf |-> b, steps |-> [d \in Dirs |-> <<"line">>], index |-> i, map |-> m, updated |-> u, done |-> o]

SSHTyped(b, i, m, u, o) ==
  /\ b \in [Dirs -> Text] /\ i \in [Dirs -> 0..1] /\ m \in [Dirs -> Versions]
  /\ u \in [Dirs -> BOOLEAN] /\ o \in [Dirs -> BOOLEAN]

SSHParser ==
  [buf : [Dirs -> Text], steps : {[d \in Dirs |-> <<"line">>]}, index : [Dirs -> 0..1],
   map : [Dirs -> Versions], updated : [Dirs -> BOOLEAN], done : [Dirs -> BOOLEAN]]

LEMMA SSHParts ==
  ASSUME NEW p \in SSHParser
  PROVE  /\ p = SSHOf(p.buf, p.index, p.map, p.updated, p.done)
         /\ SSHTyped(p.buf, p.index, p.map, p.updated, p.done)
<1>1. SSHTyped(p.buf, p.index, p.map, p.updated, p.done)
  BY DEF SSHParser, SSHTyped
<1>2. p.steps = [d \in Dirs |-> <<"line">>]
  BY DEF SSHParser
<1>3. p = [buf |-> p.buf, steps |-> p.steps, index |-> p.index, map |-> p.map,
           updated |-> p.updated, done |-> p.done]
  BY DEF SSHParser
<1> QED
  BY <1>1, <1>2, <1>3 DEF SSHOf

LEMMA SSHFields ==
  ASSUME NEW b, NEW i, NEW m, NEW u, NEW o
  PROVE  /\ SSHOf(b, i, m, u, o).buf = b /\ SSHOf(b, i, m, u, o).index = i
         /\ SSHOf(b, i, m, u, o).map = m /\ SSHOf(b, i, m, u, o).updated = u
         /\ SSHOf(b, i, m, u, o).done = o
         /\ SSHOf(b, i, m, u, o).steps = [d \in Dirs |-> <<"line">>]
         /\ SSHTyped(b, i, m, u, o) => SSHOf(b, i, m, u, o) \in SSHParser
BY DEF SSHOf, SSHParser, SSHTyped

LEMMA SSHReport ==
  ASSUME NEW b, NEW i, NEW m, NEW u, NEW o, NEW d
  PROVE  Report(SSHOf(b, i, m, u, o), d) = SSHOf(b, i, m, On(u, d), o)
<1> DEFINE y == [u EXCEPT ![d] = TRUE]
           q == SSHOf(b, i, m, u, o)
<1>1. [q EXCEPT !.updated[d] = TRUE] = [q EXCEPT !.updated = [q.updated EXCEPT ![d] = TRUE]]
  OBVIOUS
<1>2. y = [q.updated EXCEPT ![d] = TRUE]
  BY DEF SSHOf
<1> HIDE DEF y
<1>3. [q EXCEPT !.updated = y] = SSHOf(b, i, m, y, o)
  BY DEF SSHOf
<1>4. [q EXCEPT !.updated[d] = TRUE] = [q EXCEPT !.updated = y]
  <2> HIDE DEF q
  <2> QED
    BY <1>1, <1>2
<1> QED
  BY <1>3, <1>4 DEF y, Report, On

LEMMA SSHUnreport ==
  ASSUME NEW b, NEW i, NEW m, NEW u, NEW o, NEW d
  PROVE  Unreport(SSHOf(b, i, m, u, o), d) = SSHOf(b, i, m, Off(u, d), o)
<1> DEFINE y == [u EXCEPT ![d] = FALSE]
           q == SSHOf(b, i, m, u, o)
<1>1. [q EXCEPT !.updated[d] = FALSE] = [q EXCEPT !.updated = [q.updated EXCEPT ![d] = FALSE]]
  OBVIOUS
<1>2. y = [q.updated EXCEPT ![d] = FALSE]
  BY DEF SSHOf
<1> HIDE DEF y
<1>3. [q EXCEPT !.updated = y] = SSHOf(b, i, m, y, o)
  BY DEF SSHOf
<1>4. [q EXCEPT !.updated[d] = FALSE] = [q EXCEPT !.updated = y]
  <2> HIDE DEF q
  <2> QED
    BY <1>1, <1>2
<1> QED
  BY <1>3, <1>4 DEF y, Unreport, Off

LEMMA SSHStop ==
  ASSUME NEW b, NEW i, NEW m, NEW u, NEW o, NEW d
  PROVE  Stop(SSHOf(b, i, m, u, o), d) = SSHOf(b, i, m, u, On(o, d))
<1> DEFINE y == [o EXCEPT ![d] = TRUE]
           q == SSHOf(b, i, m, u, o)
<1>1. [q EXCEPT !.done[d] = TRUE] = [q EXCEPT !.done = [q.done EXCEPT ![d] = TRUE]]
  OBVIOUS
<1>2. y = [q.done EXCEPT ![d] = TRUE]
  BY DEF SSHOf
<1> HIDE DEF y
<1>3. [q EXCEPT !.done = y] = SSHOf(b, i, m, u, y)
  BY DEF SSHOf
<1>4. [q EXCEPT !.done[d] = TRUE] = [q EXCEPT !.done = y]
  <2> HIDE DEF q
  <2> QED
    BY <1>1, <1>2
<1> QED
  BY <1>3, <1>4 DEF y, Stop, On

LEMMA SSHGoOn ==
  ASSUME NEW b, NEW i, NEW m, NEW u, NEW o, NEW d
  PROVE  GoOn(SSHOf(b, i, m, u, o), d) = SSHOf(b, i, m, u, Off(o, d))
<1> DEFINE y == [o EXCEPT ![d] = FALSE]
           q == SSHOf(b, i, m, u, o)
<1>1. [q EXCEPT !.done[d] = FALSE] = [q EXCEPT !.done = [q.done EXCEPT ![d] = FALSE]]
  OBVIOUS
<1>2. y = [q.done EXCEPT ![d] = FALSE]
  BY DEF SSHOf
<1> HIDE DEF y
<1>3. [q EXCEPT !.done = y] = SSHOf(b, i, m, u, y)
  BY DEF SSHOf
<1>4. [q EXCEPT !.done[d] = FALSE] = [q EXCEPT !.done = y]
  <2> HIDE DEF q
  <2> QED
    BY <1>1, <1>2
<1> QED
  BY <1>3, <1>4 DEF y, GoOn, Off

LEMMA SSHFill ==
  ASSUME NEW b, NEW i, NEW m, NEW u, NEW o, NEW d, NEW v
  PROVE  SSH!Fill(SSHOf(b, i, m, u, o), d, v) = SSHOf(b, i, [m EXCEPT ![d] = v], On(u, d), o)
<1> DEFINE q == SSHOf(b, i, m, u, o)
           r == [q EXCEPT !.map[d] = v]
           x == [m EXCEPT ![d] = v]
<1>1. SSH!Fill(q, d, v) = Report(r, d)
  BY DEF SSH!Fill, Report
<1>2. r = SSHOf(b, i, x, u, o)
  BY DEF SSHOf
<1> HIDE DEF r, x
<1>3. Report(r, d) = SSHOf(b, i, x, On(u, d), o)
  BY <1>2, SSHReport
<1> QED
  BY <1>1, <1>3 DEF x

LEMMA SSHOpened ==
  ASSUME NEW b, NEW i, NEW m, NEW u, NEW o, NEW d, NEW data
  PROVE  Opened(SSHOf(b, i, m, u, o), d, data) = SSHOf(Joined(b, d, data), i, m, Off(u, d), o)
<1> DEFINE q == SSHOf(b, i, m, u, o)
           c == b[d] \o data
           r == [q EXCEPT !.buf[d] = c]
           x == [b EXCEPT ![d] = c]
<1>1. Opened(q, d, data) = Unreport(r, d)
  <2>1. q.buf = b
    BY DEF SSHOf
  <2> HIDE DEF q
  <2> QED
    BY <2>1 DEF Opened, Unreport
<1> HIDE DEF c
<1>2. r = SSHOf(x, i, m, u, o)
  BY DEF SSHOf
<1> HIDE DEF r, x
<1>3. Unreport(r, d) = SSHOf(x, i, m, Off(u, d), o)
  BY <1>2, SSHUnreport
<1> QED
  BY <1>1, <1>3 DEF x, c, Joined

\* One round of the machine.
TheEnd(s) == SSH!Index(s, SSH!EndOfLine)

\* What a text of one side tells, when its first line has come whole.
ToldBy(s) == IF TheEnd(s) = 0 THEN SSH!None ELSE SSH!versionLine(LineOf(s, TheEnd(s)))

LineRound(b, i, m, u, o, d) ==
  IF i[d] = 1 THEN Result("end", SSHOf(b, i, m, u, o))
  ELSE IF TheEnd(b[d]) = 0 THEN Result("pause", SSHOf(b, i, m, u, o))
  ELSE IF ToldBy(b[d]) = SSH!None
       THEN Result("cancel", SSHOf([b EXCEPT ![d] = Behind(b[d], TheEnd(b[d]) + 1)], i, m, u, o))
  ELSE Result("run", SSHOf([b EXCEPT ![d] = Behind(b[d], TheEnd(b[d]) + 1)], [i EXCEPT ![d] = 1],
                           [m EXCEPT ![d] = ToldBy(b[d])], On(u, d), o))

LEMMA SSHRound ==
  ASSUME NEW b, NEW i, NEW m, NEW u, NEW o, SSHTyped(b, i, m, u, o), NEW d \in Dirs
  PROVE  SSH!Round(SSH!Step, d, Result("run", SSHOf(b, i, m, u, o))) = LineRound(b, i, m, u, o, d)
<1> DEFINE p == SSHOf(b, i, m, u, o)
           z == SSH!Round(SSH!Step, d, Result("run", p))
           s == SSH!Step(d, p.steps[d][p.index[d] + 1], p)
           e == TheEnd(b[d])
           v == SSH!versionLine(LineOf(b[d], e))
           c == [b EXCEPT ![d] = Behind(b[d], e + 1)]
           rest == SSH!Skip(p, d, e + 1)
<1>1. p.buf = b /\ p.index = i /\ Len(p.steps[d]) = 1
  BY SSHFields
<1>2. i[d] \in 0..1
  BY DEF SSHTyped
<1>3. z = IF p.index[d] >= Len(p.steps[d]) THEN [act |-> "end", p |-> p]
          ELSE IF s.act = "next" THEN [act |-> "run", p |-> [s.p EXCEPT !.index[d] = @ + 1]]
          ELSE IF s.act = "reset" THEN [act |-> "run", p |-> [s.p EXCEPT !.index[d] = 0]]
          ELSE s
  BY DEF SSH!Round, SSH!Follow, Result
<1>4. s = IF e = 0 THEN SSH!Pause(p) ELSE IF v = SSH!None THEN SSH!Cancel(rest)
          ELSE SSH!Go(SSH!Fill(rest, d, v))
  BY <1>1 DEF SSH!Step, SSH!parseExchangeLine, SSH!notSSH, TheEnd, LineOf, SSH!First
<1>5. rest = SSHOf(c, i, m, u, o)
  <2>1. rest = [p EXCEPT !.buf[d] = Behind(b[d], e + 1)]
    BY <1>1 DEF SSH!Skip, SSH!After, Behind
  <2> HIDE DEF e
  <2> QED
    BY <2>1 DEF SSHOf, p
<1> HIDE DEF p, z, s, v, c, rest
<1>6. CASE i[d] = 1
  <2>1. z = Result("end", p)
    BY <1>1, <1>3, <1>6 DEF Result
  <2> QED
    BY <1>6, <2>1 DEF LineRound, z, p
<1>7. CASE i[d] # 1
  <2>1. i[d] = 0 /\ ~(p.index[d] >= Len(p.steps[d]))
    BY <1>1, <1>2, <1>7
  <2>2. z = IF s.act = "next" THEN [act |-> "run", p |-> [s.p EXCEPT !.index[d] = @ + 1]]
            ELSE IF s.act = "reset" THEN [act |-> "run", p |-> [s.p EXCEPT !.index[d] = 0]]
            ELSE s
    BY <1>3, <2>1
  <2> HIDE DEF e
  <2>3. CASE e = 0
    <3>1. s = Result("pause", p)
      BY <1>4, <2>3 DEF SSH!Pause, Result
    <3>2. z = s
      BY <2>2, <3>1 DEF Result
    <3> QED
      BY <1>7, <2>3, <3>1, <3>2 DEF LineRound, z, p, e
  <2>4. CASE e # 0 /\ v = SSH!None
    <3>1. s = Result("cancel", SSHOf(c, i, m, u, o))
      BY <1>4, <1>5, <2>4 DEF SSH!Cancel, Result
    <3>2. z = s
      BY <2>2, <3>1 DEF Result
    <3>3. ToldBy(b[d]) = SSH!None
      BY <2>4 DEF ToldBy, e, v
    <3> QED
      BY <1>7, <2>4, <3>1, <3>2, <3>3 DEF LineRound, z, p, c, e
  <2>5. CASE e # 0 /\ v # SSH!None
    <3> DEFINE x == [m EXCEPT ![d] = v]
               y == On(u, d)
               q == SSHOf(c, i, x, y, o)
    <3>1. SSH!Fill(rest, d, v) = q
      BY <1>5, SSHFill
    <3> HIDE DEF x, y
    <3>2. s.act = "next" /\ s.p = q
      <4> HIDE DEF q
      <4> QED
        BY <1>4, <2>5, <3>1 DEF SSH!Go
    <3>3. z = [act |-> "run", p |-> [q EXCEPT !.index[d] = i[d] + 1]]
      <4>1. q.index = i
        BY SSHFields
      <4> HIDE DEF q
      <4> QED
        BY <2>2, <3>2, <4>1
    <3>4. [q EXCEPT !.index[d] = 1] = SSHOf(c, [i EXCEPT ![d] = 1], x, y, o)
      BY DEF SSHOf
    <3> HIDE DEF q
    <3>5. i[d] + 1 = 1
      BY <2>1
    <3>6. z = Result("run", SSHOf(c, [i EXCEPT ![d] = 1], x, y, o))
      BY <3>3, <3>4, <3>5 DEF Result
    <3>7. ToldBy(b[d]) = v
      BY <2>5 DEF ToldBy, e, v
    <3> QED
      BY <1>7, <2>5, <3>6, <3>7 DEF LineRound, z, p, c, e, x, y
  <2> QED
    BY <2>3, <2>4, <2>5
<1> QED
  BY <1>6, <1>7

\* A run of the machine: two rounds, of which the second has no step left.
SSHNext(d, r) == SSH!Round(SSH!Step, d, r)

SSHRounds(a, N, z, d) == a = [k \in 0..N |-> IF k = 0 THEN z ELSE SSHNext(d, a[k - 1])]

LEMMA TwoRounds ==
  ASSUME NEW N \in Nat, N >= 2, NEW d, NEW z, NEW r, r = SSHNext(d, SSHNext(d, z)), SSHNext(d, r) = r
  PROVE  /\ \E a : SSHRounds(a, N, z, d)
         /\ \A a : SSHRounds(a, N, z, d) => a[N] = r
<1>1. \E a : SSHRounds(a, N, z, d)
  <2> DEFINE q == SSHNext(d, z)
             a == [k \in 0..N |-> IF k = 0 THEN z ELSE IF k = 1 THEN q ELSE r]
  <2>1. ASSUME NEW k \in 0..N PROVE a[k] = IF k = 0 THEN z ELSE SSHNext(d, a[k - 1])
    <3>1. CASE k = 0
      BY <3>1
    <3>2. CASE k # 0
      <4>1. k - 1 \in 0..N /\ k \in Nat
        BY <3>2
      <4>2. a[k - 1] = IF k - 1 = 0 THEN z ELSE IF k - 1 = 1 THEN q ELSE r
        BY <4>1
      <4>3. a[k] = IF k = 1 THEN q ELSE r
        BY <3>2
      <4>4. CASE k = 1
        <5>1. k - 1 = 0
          BY <4>4
        <5> QED
          BY <3>2, <4>2, <4>3, <4>4, <5>1
      <4>5. CASE k = 2
        <5>1. k - 1 = 1 /\ k # 1
          BY <4>5
        <5> QED
          BY <3>2, <4>2, <4>3, <5>1
      <4>6. CASE k # 1 /\ k # 2
        <5>1. k - 1 # 0 /\ k - 1 # 1
          BY <4>1, <4>6
        <5> QED
          BY <3>2, <4>2, <4>3, <4>6, <5>1
      <4> QED
        BY <4>4, <4>5, <4>6
    <3> QED
      BY <3>1, <3>2
  <2>2. a = [k \in 0..N |-> a[k]]
    OBVIOUS
  <2> HIDE DEF a
  <2>3. SSHRounds(a, N, z, d)
    BY <2>1, <2>2 DEF SSHRounds
  <2> QED
    BY <2>3
<1>2. ASSUME NEW a, SSHRounds(a, N, z, d) PROVE a[N] = r
  <2> DEFINE T == {k \in Nat : k + 2 <= N => a[k + 2] = r}
  <2>1. \A k \in 0..N : a[k] = IF k = 0 THEN z ELSE SSHNext(d, a[k - 1])
    BY <1>2 DEF SSHRounds
  <2>2. a[2] = r
    <3>1. 0 \in 0..N /\ 1 \in 0..N /\ 2 \in 0..N /\ 1 - 1 = 0 /\ 2 - 1 = 1 /\ 1 # 0 /\ 2 # 0
      OBVIOUS
    <3>2. a[0] = z /\ a[1] = SSHNext(d, a[0]) /\ a[2] = SSHNext(d, a[1])
      BY <2>1, <3>1
    <3> QED
      BY <3>2
  <2>3. 0 \in T
    <3>1. 0 + 2 = 2
      OBVIOUS
    <3> QED
      BY <2>2, <3>1
  <2>4. ASSUME NEW k \in Nat, k \in T PROVE k + 1 \in T
    <3> SUFFICES ASSUME (k + 1) + 2 <= N PROVE a[(k + 1) + 2] = r
      OBVIOUS
    <3>1. (k + 1) + 2 \in 0..N /\ (k + 1) + 2 # 0 /\ ((k + 1) + 2) - 1 = k + 2 /\ k + 2 <= N
      OBVIOUS
    <3>2. a[k + 2] = r
      BY <2>4, <3>1
    <3>3. a[(k + 1) + 2] = SSHNext(d, a[k + 2])
      BY <2>1, <3>1
    <3> QED
      BY <3>2, <3>3
  <2>5. N - 2 \in T
    <3> HIDE DEF T
    <3>1. N - 2 \in Nat
      OBVIOUS
    <3> QED
      BY <2>3, <2>4, <3>1, NatInduct
  <2>6. N - 2 \in Nat /\ (N - 2) + 2 = N
    OBVIOUS
  <2> QED
    BY <2>5, <2>6
<1> QED
  BY <1>1, <1>2

\* What a run comes to.
LineRun(b, i, m, u, o, d) ==
  LET r == LineRound(b, i, m, u, o, d)
  IN  IF r.act = "run" THEN Result("end", r.p) ELSE r

LEMMA LineRoundTyped ==
  ASSUME NEW b, NEW i, NEW m, NEW u, NEW o, SSHTyped(b, i, m, u, o), NEW d \in Dirs,
         i[d] # 1, TheEnd(b[d]) # 0, ToldBy(b[d]) # SSH!None
  PROVE  SSHTyped([b EXCEPT ![d] = Behind(b[d], TheEnd(b[d]) + 1)], [i EXCEPT ![d] = 1],
                  [m EXCEPT ![d] = ToldBy(b[d])], On(u, d), o)
<1>1. b[d] \in Text /\ Len(b[d]) \in Nat
  BY LenProperties DEF SSHTyped, Text
<1>2. TheEnd(b[d]) \in 1..(Len(b[d]) - 1)
  <2>1. FirstEnd(b[d], TheEnd(b[d]))
    BY <1>1, LineFound DEF TheEnd
  <2> QED
    BY <2>1 DEF FirstEnd, EndsAt
<1>3. Behind(b[d], TheEnd(b[d]) + 1) \in Text
  <2> DEFINE e == TheEnd(b[d]) + 1
  <2>1. e \in 0..Len(b[d])
    BY <1>1, <1>2
  <2> HIDE DEF e
  <2>2. Behind(b[d], e) \in Seq(STRING)
    BY <1>1, <2>1, Rest DEF Text
  <2> QED
    BY <2>2 DEF e, Text
<1>4. LineOf(b[d], TheEnd(b[d])) \in Text
  <2> DEFINE e == TheEnd(b[d])
             k == e - 1
  <2>1. k \in 0..Len(b[d])
    BY <1>1, <1>2
  <2> HIDE DEF e, k
  <2>2. SubSeq(b[d], 1, k) \in Seq(STRING)
    BY <1>1, <2>1, FirstPart DEF Text
  <2> QED
    BY <2>2 DEF LineOf, Text, k, e
<1>5. ToldBy(b[d]) \in Versions
  BY <1>4 DEF ToldBy, Versions
<1> DEFINE x == Behind(b[d], TheEnd(b[d]) + 1)
           v == ToldBy(b[d])
<1>6. x \in Text /\ v \in Versions
  BY <1>3, <1>5
<1> HIDE DEF x, v
<1>7. [b EXCEPT ![d] = x] \in [Dirs -> Text] /\ [m EXCEPT ![d] = v] \in [Dirs -> Versions]
  BY <1>6 DEF SSHTyped
<1>8. [i EXCEPT ![d] = 1] \in [Dirs -> 0..1]
  BY DEF SSHTyped
<1>9. On(u, d) \in [Dirs -> BOOLEAN] /\ o \in [Dirs -> BOOLEAN]
  BY DEF SSHTyped, On
<1> QED
  BY <1>7, <1>8, <1>9 DEF SSHTyped, x, v

LEMMA SSHRuns ==
  ASSUME NEW b, NEW i, NEW m, NEW u, NEW o, SSHTyped(b, i, m, u, o), NEW d \in Dirs
  PROVE  SSH!RunSteps(SSH!Step, d, SSHOf(b, i, m, u, o)) = LineRun(b, i, m, u, o, d)
<1> DEFINE p == SSHOf(b, i, m, u, o)
           z == Result("run", p)
           N == SSH!Rounds(d, p)
           a == CHOOSE after : SSHRounds(after, N, z, d)
           r == LineRun(b, i, m, u, o, d)
<1>1. N \in Nat /\ N >= 2
  <2>1. Len(p.steps[d]) = 1 /\ p.buf = b
    BY SSHFields
  <2>2. Len(b[d]) \in Nat
    BY LenProperties DEF SSHTyped, Text
  <2> HIDE DEF p
  <2> QED
    BY <2>1, <2>2 DEF SSH!Rounds
<1>2. SSH!RunSteps(SSH!Step, d, p) = a[N]
  BY DEF SSH!RunSteps, SSHRounds, SSHNext, Result
<1>3. SSHNext(d, z) = LineRound(b, i, m, u, o, d)
  BY SSHRound DEF SSHNext
<1>4. \A y : y.act # "run" => SSHNext(d, y) = y
  BY DEF SSHNext, SSH!Round
<1> DEFINE q == LineRound(b, i, m, u, o, d)
<1>5. r = SSHNext(d, q) /\ SSHNext(d, r) = r
  <2>1. CASE q.act # "run"
    <3>1. r = q
      BY <2>1 DEF LineRun
    <3> HIDE DEF q, r
    <3> QED
      BY <1>4, <2>1, <3>1
  <2>2. CASE q.act = "run"
    <3> DEFINE c == [b EXCEPT ![d] = Behind(b[d], TheEnd(b[d]) + 1)]
               j == [i EXCEPT ![d] = 1]
               w == [m EXCEPT ![d] = ToldBy(b[d])]
               y == On(u, d)
    <3>1. i[d] # 1 /\ TheEnd(b[d]) # 0 /\ ToldBy(b[d]) # SSH!None /\ q = Result("run", SSHOf(c, j, w, y, o))
      BY <2>2 DEF LineRound, Result
    <3>2. SSHTyped(c, j, w, y, o)
      BY <3>1, LineRoundTyped
    <3>3. j[d] = 1
      BY DEF SSHTyped
    <3>4. r = Result("end", SSHOf(c, j, w, y, o))
      <4> HIDE DEF c, j, w, y
      <4>1. r = Result("end", q.p)
        BY <2>2 DEF LineRun
      <4>2. q.p = SSHOf(c, j, w, y, o)
        BY <3>1 DEF Result
      <4> QED
        BY <4>1, <4>2
    <3> HIDE DEF q, r, c, j, w, y
    <3>5. SSHNext(d, q) = LineRound(c, j, w, y, o, d)
      BY <3>1, <3>2, SSHRound DEF SSHNext
    <3>6. SSHNext(d, q) = r
      BY <3>3, <3>4, <3>5 DEF LineRound
    <3>7. r.act # "run"
      BY <3>4 DEF Result
    <3> QED
      BY <1>4, <3>6, <3>7
  <2> QED
    BY <2>1, <2>2
<1> HIDE DEF N, z, q, r
<1>6. r = SSHNext(d, SSHNext(d, z)) /\ SSHNext(d, r) = r
  BY <1>3, <1>5 DEF q
<1>7. /\ \E x : SSHRounds(x, N, z, d)
      /\ \A x : SSHRounds(x, N, z, d) => x[N] = r
  BY <1>1, <1>6, TwoRounds
<1>8. SSHRounds(a, N, z, d)
  BY <1>7
<1> HIDE DEF a, p
<1> QED
  BY <1>2, <1>7, <1>8 DEF r, p

\* What the Feed answers when a run came to r.
LEMMA SSHTold ==
  ASSUME NEW b, NEW i, NEW m, NEW u, NEW o, NEW act, NEW d \in Dirs,
         NEW r, r = Result(act, SSHOf(b, i, m, u, o)), NEW z, z = SSH!Tell(d, r)
  PROVE  /\ z.p = SSHOf(b, i, m, Off(u, d), IF act = "pause" THEN Off(o, d) ELSE On(o, d))
         /\ z.updated = u[d]
         /\ z.done <=> act = "cancel" \/ \A e \in Dirs : z.p.done[e]
<1> DEFINE q == [r.p EXCEPT !.done[d] = r.act # "pause", !.updated[d] = FALSE]
           p == SSHOf(b, i, m, u, o)
<1>1. r.act = act /\ r.p = p
  BY DEF Result
<1>2. /\ z.p = q /\ z.updated = r.p.updated[d]
      /\ z.done <=> r.act = "cancel" \/ \A e \in Dirs : q.done[e]
  BY DEF SSH!Tell, Dirs, SSH!Dirs, OpenVPN!Dirs
<1>3. r.p.updated = u
  BY <1>1, SSHFields
<1> HIDE DEF p
<1>4. q = SSHOf(b, i, m, Off(u, d), IF act = "pause" THEN Off(o, d) ELSE On(o, d))
  <2>1. CASE act = "pause"
    <3> DEFINE v == SSHOf(b, i, m, u, Off(o, d))
    <3>1. q = Unreport(GoOn(p, d), d)
      BY <1>1, <2>1 DEF q, Unreport, GoOn
    <3>2. GoOn(p, d) = v
      BY SSHGoOn DEF p
    <3>3. Unreport(v, d) = SSHOf(b, i, m, Off(u, d), Off(o, d))
      BY SSHUnreport
    <3> QED
      BY <2>1, <3>1, <3>2, <3>3
  <2>2. CASE act # "pause"
    <3> DEFINE v == SSHOf(b, i, m, u, On(o, d))
    <3>1. q = Unreport(Stop(p, d), d)
      BY <1>1, <2>2 DEF q, Unreport, Stop
    <3>2. Stop(p, d) = v
      BY SSHStop DEF p
    <3>3. Unreport(v, d) = SSHOf(b, i, m, Off(u, d), On(o, d))
      BY SSHUnreport
    <3> QED
      BY <2>2, <3>1, <3>2, <3>3
  <2> QED
    BY <2>1, <2>2
<1> HIDE DEF q
<1> QED
  BY <1>1, <1>2, <1>3, <1>4

\* A chunk of direction d, of which T has come with it; p is the parser before it.
Advanced(p, z, d, T) ==
  /\ \A e \in Dirs \ {d} : z.p.index[e] = p.index[e] /\ z.p.buf[e] = p.buf[e] /\ (z.p.done[e] <=> p.done[e])
  /\ p.index[d] = 1 =>
       /\ z.p \in SSHParser /\ z.p.index[d] = 1 /\ z.p.done[d] /\ ~z.updated
       /\ z.done <=> \A e \in Dirs \ {d} : p.done[e]
  /\ p.index[d] = 0 /\ TheEnd(T) = 0 =>
       /\ z.p \in SSHParser /\ z.p.index[d] = 0 /\ ~z.p.done[d] /\ z.p.buf[d] = T /\ ~z.updated /\ ~z.done
  /\ p.index[d] = 0 /\ TheEnd(T) # 0 /\ ToldBy(T) = SSH!None => ~z.updated /\ z.done
  /\ p.index[d] = 0 /\ TheEnd(T) # 0 /\ ToldBy(T) # SSH!None =>
       /\ z.p \in SSHParser /\ z.p.index[d] = 1 /\ z.p.done[d] /\ z.updated /\ z.p.map[d] = ToldBy(T)
       /\ z.done <=> \A e \in Dirs \ {d} : p.done[e]

LEMMA SSHFed ==
  ASSUME NEW p \in SSHParser, NEW d \in Dirs, NEW C \in Text, C # <<>>, NEW T,
         p.index[d] = 0 => T = p.buf[d] \o C, NEW z, z = SSH!FeedSSH(d, p, C)
  PROVE  Advanced(p, z, d, T) /\ z.done \in BOOLEAN
<1> DEFINE i == p.index
           m == p.map
           o == p.done
           b == Joined(p.buf, d, C)
           u == Off(p.updated, d)
           q == SSHOf(b, i, m, u, o)
           r == SSH!RunSteps(SSH!Step, d, q)
<1>1. /\ p = SSHOf(p.buf, i, m, p.updated, o)
      /\ SSHTyped(p.buf, i, m, p.updated, o)
  BY SSHParts
<1>2. z = SSH!Tell(d, SSH!RunSteps(SSH!Step, d, Opened(p, d, C)))
  BY DEF SSH!FeedSSH, SSH!FeedSteps, Opened
<1>3. Opened(p, d, C) = q
  BY <1>1, SSHOpened
<1>4. b[d] = p.buf[d] \o C /\ (\A e \in Dirs \ {d} : b[e] = p.buf[e]) /\ b \in [Dirs -> Text]
  <2>1. p.buf \in [Dirs -> Text] /\ p.buf[d] \o C \in Text
    BY <1>1, ConcatProperties DEF SSHTyped, Text
  <2> QED
    BY <2>1 DEF Joined
<1>5. /\ i \in [Dirs -> 0..1] /\ m \in [Dirs -> Versions] /\ o \in [Dirs -> BOOLEAN]
      /\ p.updated \in [Dirs -> BOOLEAN]
  BY <1>1 DEF SSHTyped
<1> HIDE DEF b, i, m, o
<1>6. u \in [Dirs -> BOOLEAN] /\ ~u[d]
  BY <1>5, OnAndOff
<1> HIDE DEF u
<1>7. SSHTyped(b, i, m, u, o)
  BY <1>4, <1>5, <1>6 DEF SSHTyped
<1>8. r = LineRun(b, i, m, u, o, d)
  BY <1>7, SSHRuns
<1>9. z = SSH!Tell(d, r)
  BY <1>2, <1>3
<1> HIDE DEF r, q
<1>10. /\ On(o, d) \in [Dirs -> BOOLEAN] /\ On(o, d)[d]
       /\ Off(o, d) \in [Dirs -> BOOLEAN] /\ ~Off(o, d)[d]
       /\ \A e \in Dirs \ {d} : (On(o, d)[e] <=> o[e]) /\ (Off(o, d)[e] <=> o[e])
       /\ Off(u, d) \in [Dirs -> BOOLEAN]
       /\ On(u, d) \in [Dirs -> BOOLEAN] /\ On(u, d)[d]
       /\ Off(On(u, d), d) \in [Dirs -> BOOLEAN]
  BY <1>5, <1>6, OnAndOff
<1>11. (\A e \in Dirs : On(o, d)[e]) <=> \A e \in Dirs \ {d} : o[e]
  BY <1>10
<1>12. ~(\A e \in Dirs : Off(o, d)[e])
  BY <1>10
<1>13. z.done \in BOOLEAN
  BY <1>9 DEF SSH!Tell
<1>14. CASE i[d] = 1
  <2>1. r = Result("end", SSHOf(b, i, m, u, o))
    BY <1>8, <1>14 DEF LineRun, LineRound, Result
  <2>2. /\ z.p = SSHOf(b, i, m, Off(u, d), On(o, d)) /\ z.updated = u[d]
        /\ z.done <=> \A e \in Dirs : z.p.done[e]
    BY <1>9, <2>1, SSHTold
  <2>3. SSHTyped(b, i, m, Off(u, d), On(o, d))
    BY <1>7, <1>10 DEF SSHTyped
  <2>4. z.p \in SSHParser /\ z.p.buf = b /\ z.p.index = i /\ z.p.done = On(o, d)
    BY <2>2, <2>3, SSHFields
  <2>5. z.done <=> \A e \in Dirs \ {d} : o[e]
    BY <1>11, <2>2, <2>4
  <2> QED
    BY <1>4, <1>6, <1>10, <1>13, <1>14, <2>2, <2>4, <2>5 DEF Advanced, i, o
<1>15. CASE i[d] # 1 /\ TheEnd(b[d]) = 0
  <2>1. r = Result("pause", SSHOf(b, i, m, u, o))
    BY <1>8, <1>15 DEF LineRun, LineRound, Result
  <2>2. /\ z.p = SSHOf(b, i, m, Off(u, d), Off(o, d)) /\ z.updated = u[d]
        /\ z.done <=> \A e \in Dirs : z.p.done[e]
    BY <1>9, <2>1, SSHTold
  <2>3. SSHTyped(b, i, m, Off(u, d), Off(o, d))
    BY <1>7, <1>10 DEF SSHTyped
  <2>4. z.p \in SSHParser /\ z.p.buf = b /\ z.p.index = i /\ z.p.done = Off(o, d)
    BY <2>2, <2>3, SSHFields
  <2>5. ~z.done
    BY <1>12, <2>2, <2>4
  <2>6. i[d] = 0 /\ T = b[d]
    BY <1>4, <1>5, <1>15 DEF i
  <2> QED
    BY <1>4, <1>6, <1>10, <1>13, <1>15, <2>2, <2>4, <2>5, <2>6 DEF Advanced, i, o
<1>16. CASE i[d] # 1 /\ TheEnd(b[d]) # 0 /\ ToldBy(b[d]) = SSH!None
  <2> DEFINE c == [b EXCEPT ![d] = Behind(b[d], TheEnd(b[d]) + 1)]
  <2>1. r = Result("cancel", SSHOf(c, i, m, u, o))
    BY <1>8, <1>16 DEF LineRun, LineRound, Result
  <2>2. \A e \in Dirs \ {d} : c[e] = b[e]
    BY <1>4
  <2> HIDE DEF c
  <2>3. z.p = SSHOf(c, i, m, Off(u, d), On(o, d)) /\ z.updated = u[d] /\ z.done
    BY <1>9, <2>1, SSHTold
  <2>4. z.p.buf = c /\ z.p.index = i /\ z.p.done = On(o, d)
    BY <2>3, SSHFields
  <2>5. i[d] = 0 /\ T = b[d]
    BY <1>4, <1>5, <1>16 DEF i
  <2> QED
    BY <1>4, <1>6, <1>10, <1>16, <2>2, <2>3, <2>4, <2>5 DEF Advanced, i, o
<1>17. CASE i[d] # 1 /\ TheEnd(b[d]) # 0 /\ ToldBy(b[d]) # SSH!None
  <2> DEFINE c == [b EXCEPT ![d] = Behind(b[d], TheEnd(b[d]) + 1)]
             j == [i EXCEPT ![d] = 1]
             w == [m EXCEPT ![d] = ToldBy(b[d])]
             y == On(u, d)
  <2>1. r = Result("end", SSHOf(c, j, w, y, o))
    <3>1. LineRound(b, i, m, u, o, d) = Result("run", SSHOf(c, j, w, y, o))
      BY <1>17 DEF LineRound
    <3> HIDE DEF c, j, w, y
    <3> QED
      BY <1>8, <3>1 DEF LineRun, Result
  <2>2. SSHTyped(c, j, w, y, o)
    BY <1>7, <1>17, LineRoundTyped
  <2>3. /\ \A e \in Dirs \ {d} : c[e] = b[e] /\ j[e] = i[e]
        /\ j[d] = 1 /\ w[d] = ToldBy(b[d])
    BY <1>4, <1>5
  <2>4. y[d]
    BY <1>10
  <2>5. Off(y, d) \in [Dirs -> BOOLEAN]
    BY <1>10
  <2> HIDE DEF c, j, w, y
  <2>6. /\ z.p = SSHOf(c, j, w, Off(y, d), On(o, d)) /\ z.updated = y[d]
        /\ z.done <=> \A e \in Dirs : z.p.done[e]
    BY <1>9, <2>1, SSHTold
  <2>7. SSHTyped(c, j, w, Off(y, d), On(o, d))
    BY <1>10, <2>2, <2>5 DEF SSHTyped
  <2>8. z.p \in SSHParser /\ z.p.buf = c /\ z.p.index = j /\ z.p.map = w /\ z.p.done = On(o, d)
    BY <2>6, <2>7, SSHFields
  <2>9. z.done <=> \A e \in Dirs \ {d} : o[e]
    BY <1>11, <2>6, <2>8
  <2>10. i[d] = 0 /\ T = b[d]
    BY <1>4, <1>5, <1>17 DEF i
  <2> QED
    BY <1>4, <1>10, <1>13, <1>17, <2>3, <2>4, <2>6, <2>8, <2>9, <2>10 DEF Advanced, i, o
<1> QED
  BY <1>14, <1>15, <1>16, <1>17, <1>13

-----------------------------------------------------------------------------
(* SSH: the invariant. *)

\* The first line has ended, and what it told.
Ended(t, k, d) == TheEnd(Came(t, k, d)) # 0
Tells(t, k, d) == ToldBy(Came(t, k, d))

\* Nothing can be added.
AllTold(t, k) ==
  (\A d \in Dirs : Ended(t, k, d)) \/ (\E d \in Dirs : Ended(t, k, d) /\ Tells(t, k, d) = SSH!None)

\* A side is read, or everything of it waits.
Waits(p, t, k, d) ==
  IF Ended(t, k, d) THEN p.index[d] = 1 /\ p.done[d]
  ELSE p.index[d] = 0 /\ p.buf[d] = Came(t, k, d) /\ ~p.done[d]

SSHInv ==
  /\ Fed(SSHTalks, talk, pos)
  /\ finished \in BOOLEAN /\ gap \in BOOLEAN
  /\ shown = [d \in Dirs |-> Tells(talk, pos, d)]
  /\ finished <=> gap \/ AllTold(talk, pos)
  /\ ~finished => parser \in SSHParser /\ \A d \in Dirs : Waits(parser, talk, pos, d)

LEMMA NothingTold == TheEnd(<<>>) = 0 /\ ToldBy(<<>>) = SSH!None
<1>1. <<>> \in Text
  BY DEF Text
<1>2. \A i : ~EndsAt(<<>>, i)
  BY DEF EndsAt
<1>3. TheEnd(<<>>) = 0
  BY <1>1, <1>2, LineFound DEF FirstEnd, TheEnd
<1> QED
  BY <1>3 DEF ToldBy

LEMMA SSHInit == StreamAssumption /\ SSH!Stream!Init => SSHInv
<1> SUFFICES ASSUME StreamAssumption, SSH!Stream!Init PROVE SSHInv
  OBVIOUS
<1>1. /\ parser = SSH!newSSHStream /\ talk \in SSHTalks /\ shown = [d \in Dirs |-> SSH!None]
      /\ pos = [d \in Dirs |-> 0] /\ finished = FALSE /\ gap = FALSE
  BY DEF SSH!Stream!Init, SSH!Stream!Dirs, Dirs, SSH!Dirs, OpenVPN!Dirs
<1>2. talk \in [Dirs -> Text]
  BY <1>1 DEF StreamAssumption, SSH!SSHAssumption, Text, Dirs, SSH!Dirs, OpenVPN!Dirs
<1>3. parser = SSHOf([d \in Dirs |-> <<>>], [d \in Dirs |-> 0], [d \in Dirs |-> SSH!None],
                     [d \in Dirs |-> FALSE], [d \in Dirs |-> FALSE])
  BY <1>1 DEF SSH!newSSHStream, SSH!NewParser, SSHOf, Dirs, SSH!Dirs, OpenVPN!Dirs
<1>4. SSHTyped([d \in Dirs |-> <<>>], [d \in Dirs |-> 0], [d \in Dirs |-> SSH!None],
               [d \in Dirs |-> FALSE], [d \in Dirs |-> FALSE])
  <2>1. <<>> \in Text /\ SSH!None \in Versions
    BY DEF Text, Versions
  <2> QED
    BY <2>1 DEF SSHTyped
<1>5. /\ parser \in SSHParser /\ parser.buf = [d \in Dirs |-> <<>>]
      /\ parser.index = [d \in Dirs |-> 0] /\ parser.done = [d \in Dirs |-> FALSE]
  BY <1>3, <1>4, SSHFields
<1>6. ASSUME NEW d \in Dirs
      PROVE  /\ pos[d] <= Len(talk[d]) /\ Waits(parser, talk, pos, d) /\ ~Ended(talk, pos, d)
             /\ Tells(talk, pos, d) = SSH!None
  <2>1. talk[d] \in Text /\ Len(talk[d]) \in Nat /\ pos[d] = 0
    BY <1>1, <1>2, LenProperties DEF Text
  <2>2. Came(talk, pos, d) = <<>>
    <3>1. Came(talk, pos, d) \in Seq(STRING) /\ Len(Came(talk, pos, d)) = 0
      <4>1. talk[d] \in Seq(STRING) /\ pos[d] \in 0..Len(talk[d]) /\ 0 \in 0..(Len(talk[d]) - pos[d])
        BY <2>1 DEF Text
      <4> QED
        BY <2>1, <4>1, NextChunk DEF Came
    <3> QED
      BY <3>1, EmptySeq
  <2>3. ~Ended(talk, pos, d) /\ Tells(talk, pos, d) = SSH!None
    BY <2>2, NothingTold DEF Ended, Tells
  <2>4. parser.index[d] = 0 /\ parser.buf[d] = <<>> /\ ~parser.done[d]
    BY <1>5
  <2> QED
    BY <2>1, <2>2, <2>3, <2>4 DEF Waits
<1>7. Fed(SSHTalks, talk, pos)
  BY <1>1, <1>6 DEF Fed
<1>8. ~AllTold(talk, pos)
  <2>1. "req" \in Dirs
    BY DEF Dirs, OpenVPN!Dirs
  <2> QED
    BY <1>6, <2>1 DEF AllTold
<1>9. shown = [d \in Dirs |-> Tells(talk, pos, d)]
  BY <1>1, <1>6
<1> QED
  BY <1>1, <1>5, <1>6, <1>7, <1>8, <1>9 DEF SSHInv

\* What a line told stays, whatever comes behind it.
LEMMA ToldStays ==
  ASSUME NEW B \in Text, NEW C \in Text, TheEnd(B) # 0
  PROVE  TheEnd(B \o C) = TheEnd(B) /\ ToldBy(B \o C) = ToldBy(B)
<1> DEFINE e == TheEnd(B)
<1>1. FirstEnd(B, e)
  BY LineFound DEF TheEnd
<1> HIDE DEF e
<1>2. e # 0
  BY DEF e
<1>3. SSH!Index(B \o C, SSH!EndOfLine) = e /\ LineOf(B \o C, e) = LineOf(B, e)
  BY <1>1, <1>2, LineStays
<1>4. TheEnd(B \o C) = e
  BY <1>3 DEF TheEnd
<1> QED
  BY <1>2, <1>3, <1>4 DEF ToldBy, e

\* A chunk of direction d with something in it.
SSHMoves(d, z) ==
  /\ Fed(SSHTalks, talk, pos') /\ talk' = talk /\ gap' = gap
  /\ parser' = z.p /\ finished' = z.done /\ z.done \in BOOLEAN
  /\ shown' = IF z.updated THEN [shown EXCEPT ![d] = z.p.map[d]] ELSE shown
  /\ Advanced(parser, z, d, Came(talk, pos', d))
  /\ \A e \in Dirs \ {d} : Came(talk, pos', e) = Came(talk, pos, e)
  /\ Ended(talk, pos, d) => /\ TheEnd(Came(talk, pos', d)) = TheEnd(Came(talk, pos, d))
                            /\ Tells(talk, pos', d) = Tells(talk, pos, d)

LEMMA SSHDelivers ==
  ASSUME StreamAssumption, SSHInv, NEW d \in Dirs, NEW n \in 0..(Len(talk[d]) - pos[d]), n # 0,
         SSH!Stream!Deliver(d, n)
  PROVE  \E z : SSHMoves(d, z)
<1> DEFINE C == SubSeq(talk[d], pos[d] + 1, pos[d] + n)
           B == Came(talk, pos, d)
           A == Came(talk, pos', d)
           z == SSH!FeedSSH(d, parser, C)
<1>1. /\ ~finished /\ talk' = talk /\ pos' = [pos EXCEPT ![d] = @ + n] /\ gap' = gap
      /\ parser' = z.p /\ finished' = z.done
      /\ shown' = IF z.updated THEN [shown EXCEPT ![d] = z.p.map[d]] ELSE shown
  BY DEF SSH!Stream!Deliver, SSH!Merge
<1>2. Fed(SSHTalks, talk, pos)
  BY DEF SSHInv
<1>3. MovesOn(STRING, SSHTalks, talk, pos, pos', d, n)
  <2> DEFINE j == pos'
  <2>1. j = [pos EXCEPT ![d] = @ + n]
    BY <1>1
  <2>2. SSHTalks \subseteq [Dirs -> Seq(STRING)]
    BY DEF StreamAssumption, SSH!SSHAssumption, Dirs, SSH!Dirs, OpenVPN!Dirs
  <2> HIDE DEF j
  <2>3. MovesOn(STRING, SSHTalks, talk, pos, j, d, n)
    BY <1>2, <2>1, <2>2, FedOn
  <2> QED
    BY <2>3 DEF j
<1>4. B \in Text /\ C \in Text /\ Len(C) = n /\ A = B \o C
  BY <1>3 DEF MovesOn, Text
<1>5. parser \in SSHParser /\ Waits(parser, talk, pos, d)
  BY <1>1 DEF SSHInv
<1>6. C # <<>>
  BY <1>4
<1>7. parser.index[d] = 0 => A = parser.buf[d] \o C
  <2>1. parser.index[d] = 0 => parser.buf[d] = Came(talk, pos, d)
    BY <1>5 DEF Waits
  <2>2. A = B \o C
    BY <1>4
  <2> HIDE DEF A, B, C
  <2>3. parser.index[d] = 0 => parser.buf[d] = B
    BY <2>1 DEF B
  <2> QED
    BY <2>2, <2>3
<1>8. Ended(talk, pos, d) => TheEnd(A) = TheEnd(B) /\ ToldBy(A) = ToldBy(B)
  <2> HIDE DEF A, B, C
  <2>1. Ended(talk, pos, d) => TheEnd(B) # 0
    BY DEF Ended, B
  <2> QED
    BY <1>4, <2>1, ToldStays
<1> HIDE DEF C, A, z
<1>9. Advanced(parser, z, d, A) /\ z.done \in BOOLEAN
  BY <1>4, <1>5, <1>6, <1>7, SSHFed DEF z
<1>10. /\ Fed(SSHTalks, talk, pos')
       /\ \A e \in Dirs \ {d} : Came(talk, pos', e) = Came(talk, pos, e)
  BY <1>3 DEF MovesOn
<1>11. SSHMoves(d, z)
  BY <1>1, <1>8, <1>9, <1>10 DEF SSHMoves, A, Tells
<1> QED
  BY <1>11

\* Without a byte nothing happens.
LEMMA SSHEmpty ==
  ASSUME SSHInv, NEW d \in Dirs, SSH!Stream!Deliver(d, 0)
  PROVE  UNCHANGED <<parser, talk, pos, shown, finished, gap>>
<1> DEFINE C == SubSeq(talk[d], pos[d] + 1, pos[d] + 0)
           z == SSH!FeedSSH(d, parser, C)
<1>1. /\ ~finished /\ talk' = talk /\ pos' = [pos EXCEPT ![d] = @ + 0] /\ gap' = gap
      /\ parser' = z.p /\ finished' = z.done
      /\ shown' = IF z.updated THEN [shown EXCEPT ![d] = z.p.map[d]] ELSE shown
  BY DEF SSH!Stream!Deliver, SSH!Merge
<1>2. pos \in [Dirs -> Nat] /\ finished = FALSE
  BY <1>1 DEF SSHInv, Fed
<1>3. pos' = pos
  BY <1>1, <1>2
<1>4. C = <<>>
  <2>1. pos[d] \in Nat
    BY <1>2
  <2>2. PICK x \in Nat : x = pos[d]
    BY <2>1
  <2>3. SubSeq(talk[d], x + 1, x + 0) = <<>>
    OBVIOUS
  <2> QED
    BY <2>2, <2>3
<1> HIDE DEF C, z
<1>5. z = [p |-> parser, updated |-> FALSE, done |-> FALSE]
  BY <1>4 DEF SSH!FeedSSH, SSH!FeedSteps, z
<1>6. parser' = parser /\ shown' = shown
  BY <1>1, <1>5
<1>7. finished' = finished
  BY <1>1, <1>2, <1>5
<1> QED
  BY <1>1, <1>3, <1>6, <1>7

\* k is how much was fed before a chunk of direction d, j with it.
LEMMA SSHGoesOn ==
  ASSUME NEW p, NEW z, NEW t, NEW k, NEW j, NEW s, NEW v, NEW d \in Dirs,
         s = [e \in Dirs |-> Tells(t, k, e)],
         v = IF z.updated THEN [s EXCEPT ![d] = z.p.map[d]] ELSE s,
         \A e \in Dirs : Waits(p, t, k, e), ~AllTold(t, k),
         Advanced(p, z, d, Came(t, j, d)),
         \A e \in Dirs \ {d} : Came(t, j, e) = Came(t, k, e),
         Ended(t, k, d) => /\ TheEnd(Came(t, j, d)) = TheEnd(Came(t, k, d))
                           /\ Tells(t, j, d) = Tells(t, k, d)
  PROVE  /\ v = [e \in Dirs |-> Tells(t, j, e)]
         /\ z.done <=> AllTold(t, j)
         /\ ~z.done => z.p \in SSHParser /\ \A e \in Dirs : Waits(z.p, t, j, e)
<1>1. ASSUME NEW e \in Dirs \ {d}
      PROVE  /\ Tells(t, j, e) = Tells(t, k, e) /\ (Ended(t, j, e) <=> Ended(t, k, e))
             /\ Waits(z.p, t, j, e) /\ (p.done[e] <=> Ended(t, k, e))
             /\ ~(Ended(t, k, e) /\ Tells(t, k, e) = SSH!None)
  <2>1. Came(t, j, e) = Came(t, k, e)
    OBVIOUS
  <2>2. Tells(t, j, e) = Tells(t, k, e) /\ (Ended(t, j, e) <=> Ended(t, k, e))
    BY <2>1 DEF Tells, Ended
  <2>3. z.p.index[e] = p.index[e] /\ z.p.buf[e] = p.buf[e] /\ (z.p.done[e] <=> p.done[e])
    BY DEF Advanced
  <2>4. Waits(p, t, k, e) /\ e \in Dirs
    OBVIOUS
  <2>5. Waits(z.p, t, j, e)
    BY <2>1, <2>2, <2>3, <2>4 DEF Waits
  <2>6. p.done[e] <=> Ended(t, k, e)
    BY <2>4 DEF Waits
  <2>7. ~(Ended(t, k, e) /\ Tells(t, k, e) = SSH!None)
    BY <2>4 DEF AllTold
  <2> QED
    BY <2>2, <2>5, <2>6, <2>7
<1>2. Waits(p, t, k, d)
  OBVIOUS
<1>3. /\ \A e \in Dirs \ {d} : Tells(t, j, e) = Tells(t, k, e)
      /\ (\A e \in Dirs \ {d} : p.done[e]) <=> \A e \in Dirs \ {d} : Ended(t, j, e)
      /\ \A e \in Dirs \ {d} : ~(Ended(t, j, e) /\ Tells(t, j, e) = SSH!None)
  BY <1>1
<1>4. AllTold(t, j) <=>
        \/ Ended(t, j, d) /\ \A e \in Dirs \ {d} : Ended(t, j, e)
        \/ Ended(t, j, d) /\ Tells(t, j, d) = SSH!None
  BY <1>3 DEF AllTold
<1>5. (Waits(z.p, t, j, d) => \A e \in Dirs : Waits(z.p, t, j, e))
  BY <1>1
<1>6. Tells(t, j, d) = ToldBy(Came(t, j, d)) /\ (Ended(t, j, d) <=> TheEnd(Came(t, j, d)) # 0)
  BY DEF Tells, Ended
<1>7. ~z.updated /\ Tells(t, j, d) = Tells(t, k, d) => v = [e \in Dirs |-> Tells(t, j, e)]
  BY <1>3
<1>8. z.updated /\ z.p.map[d] = Tells(t, j, d) => v = [e \in Dirs |-> Tells(t, j, e)]
  BY <1>3
<1>9. CASE Ended(t, k, d)
  <2>1. p.index[d] = 1
    BY <1>2, <1>9 DEF Waits
  <2>2. /\ z.p \in SSHParser /\ z.p.index[d] = 1 /\ z.p.done[d] /\ ~z.updated
        /\ z.done <=> \A e \in Dirs \ {d} : p.done[e]
    BY <2>1 DEF Advanced
  <2>3. Ended(t, j, d) /\ Tells(t, j, d) = Tells(t, k, d)
    BY <1>6, <1>9 DEF Ended
  <2>4. Waits(z.p, t, j, d)
    BY <2>2, <2>3 DEF Waits
  <2>5. Tells(t, j, d) # SSH!None
    BY <1>9, <2>3 DEF AllTold
  <2> QED
    BY <1>3, <1>4, <1>5, <1>7, <2>2, <2>3, <2>4, <2>5
<1>10. CASE ~Ended(t, k, d)
  <2>1. p.index[d] = 0
    BY <1>2, <1>10 DEF Waits
  <2>2. Tells(t, k, d) = SSH!None
    BY <1>10 DEF Tells, Ended, ToldBy
  <2>3. CASE ~Ended(t, j, d)
    <3>1. TheEnd(Came(t, j, d)) = 0
      BY <2>3 DEF Ended
    <3>2. /\ z.p \in SSHParser /\ z.p.index[d] = 0 /\ ~z.p.done[d] /\ z.p.buf[d] = Came(t, j, d)
          /\ ~z.updated /\ ~z.done
      BY <2>1, <3>1 DEF Advanced
    <3>3. Waits(z.p, t, j, d)
      BY <2>3, <3>2 DEF Waits
    <3>4. Tells(t, j, d) = SSH!None
      BY <3>1 DEF Tells, ToldBy
    <3> QED
      BY <1>4, <1>5, <1>7, <2>2, <2>3, <3>2, <3>3, <3>4
  <2>4. CASE Ended(t, j, d) /\ Tells(t, j, d) = SSH!None
    <3>1. TheEnd(Came(t, j, d)) # 0 /\ ToldBy(Came(t, j, d)) = SSH!None
      BY <1>6, <2>4
    <3>2. ~z.updated /\ z.done
      BY <2>1, <3>1 DEF Advanced
    <3> QED
      BY <1>4, <1>7, <2>2, <2>4, <3>2
  <2>5. CASE Ended(t, j, d) /\ Tells(t, j, d) # SSH!None
    <3>1. TheEnd(Came(t, j, d)) # 0 /\ ToldBy(Came(t, j, d)) # SSH!None
      BY <1>6, <2>5
    <3>2. /\ z.p \in SSHParser /\ z.p.index[d] = 1 /\ z.p.done[d] /\ z.updated
          /\ z.p.map[d] = Tells(t, j, d)
          /\ z.done <=> \A e \in Dirs \ {d} : p.done[e]
      BY <1>6, <2>1, <3>1 DEF Advanced
    <3>3. Waits(z.p, t, j, d)
      BY <2>5, <3>2 DEF Waits
    <3> QED
      BY <1>3, <1>4, <1>5, <1>8, <2>5, <3>2, <3>3
  <2> QED
    BY <2>3, <2>4, <2>5
<1> QED
  BY <1>9, <1>10

LEMMA SSHStep == StreamAssumption /\ SSHInv /\ SSH!Stream!Next => SSHInv'
<1> SUFFICES ASSUME StreamAssumption, SSHInv, SSH!Stream!Next PROVE SSHInv'
  OBVIOUS
<1>1. PICK d \in Dirs : \/ \E n \in 0..(Len(talk[d]) - pos[d]) : SSH!Stream!Deliver(d, n)
                        \/ SSH!Stream!Gap(d)
  BY DEF SSH!Stream!Next, SSH!Stream!Dirs, Dirs, SSH!Dirs, OpenVPN!Dirs
<1>2. CASE SSH!Stream!Gap(d)
  <2>1. /\ parser' = parser /\ talk' = talk /\ pos' = pos /\ shown' = shown
        /\ finished' = TRUE /\ gap' = TRUE
    BY <1>2 DEF SSH!Stream!Gap
  <2> QED
    BY <2>1 DEF SSHInv
<1>3. CASE \E n \in 0..(Len(talk[d]) - pos[d]) : SSH!Stream!Deliver(d, n)
  <2> PICK n \in 0..(Len(talk[d]) - pos[d]) : SSH!Stream!Deliver(d, n)
    BY <1>3
  <2>1. CASE n = 0
    <3>1. UNCHANGED <<parser, talk, pos, shown, finished, gap>>
      BY <2>1, SSHEmpty
    <3> QED
      BY <3>1 DEF SSHInv
  <2>2. CASE n # 0
    <3>1. PICK z : SSHMoves(d, z)
      BY <2>2, SSHDelivers
    <3>2. ~finished
      BY DEF SSH!Stream!Deliver
    <3>3. /\ ~gap /\ ~AllTold(talk, pos) /\ \A e \in Dirs : Waits(parser, talk, pos, e)
          /\ shown = [e \in Dirs |-> Tells(talk, pos, e)] /\ gap \in BOOLEAN
      BY <3>2 DEF SSHInv
    <3> DEFINE j == pos'
               v == shown'
    <3>4. /\ v = IF z.updated THEN [shown EXCEPT ![d] = z.p.map[d]] ELSE shown
          /\ Advanced(parser, z, d, Came(talk, j, d))
          /\ \A e \in Dirs \ {d} : Came(talk, j, e) = Came(talk, pos, e)
          /\ Ended(talk, pos, d) => /\ TheEnd(Came(talk, j, d)) = TheEnd(Came(talk, pos, d))
                                    /\ Tells(talk, j, d) = Tells(talk, pos, d)
      BY <3>1 DEF SSHMoves
    <3> HIDE DEF j, v
    <3>5. /\ v = [e \in Dirs |-> Tells(talk, j, e)]
          /\ z.done <=> AllTold(talk, j)
          /\ ~z.done => z.p \in SSHParser /\ \A e \in Dirs : Waits(z.p, talk, j, e)
      BY <3>3, <3>4, SSHGoesOn
    <3>6. /\ Fed(SSHTalks, talk, pos') /\ talk' = talk /\ gap' = gap
          /\ parser' = z.p /\ finished' = z.done /\ z.done \in BOOLEAN
      BY <3>1 DEF SSHMoves
    <3>7. /\ shown' = [e \in Dirs |-> Tells(talk, pos', e)]
          /\ z.done <=> AllTold(talk, pos')
          /\ ~z.done => z.p \in SSHParser /\ \A e \in Dirs : Waits(z.p, talk, pos', e)
      BY <3>5 DEF j, v
    <3> QED
      BY <3>3, <3>6, <3>7 DEF SSHInv
  <2> QED
    BY <2>1, <2>2
<1> QED
  BY <1>1, <1>2, <1>3

\* The first line of t, as a set.
LineIn(t) ==
  {SSH!First(t, e - 1) : e \in {e \in 1..(Len(t) - 1) :
     /\ SubSeq(t, e, e + 1) = SSH!EndOfLine
     /\ \A f \in 1..(e - 1) : SubSeq(t, f, f + 1) # SSH!EndOfLine}}

LEMMA LineIs ==
  ASSUME NEW t \in Text
  PROVE  /\ TheEnd(t) = 0 => LineIn(t) = {}
         /\ TheEnd(t) # 0 => LineIn(t) = {LineOf(t, TheEnd(t))} /\ LineOf(t, TheEnd(t)) \in Text
<1> DEFINE e == TheEnd(t)
           T == {i \in 1..(Len(t) - 1) : /\ SubSeq(t, i, i + 1) = SSH!EndOfLine
                                         /\ \A f \in 1..(i - 1) : SubSeq(t, f, f + 1) # SSH!EndOfLine}
<1>1. Len(t) \in Nat
  BY LenProperties DEF Text
<1>2. FirstEnd(t, e)
  BY LineFound DEF TheEnd
<1>3. \A i \in 1..(Len(t) - 1) : SubSeq(t, i, i + 1) = SSH!EndOfLine <=> EndsAt(t, i)
  BY LineEnds
<1>4. LineIn(t) = {LineOf(t, i) : i \in T}
  BY DEF LineIn, LineOf, SSH!First
<1>5. \A i : i \in T <=> EndsAt(t, i) /\ \A f \in 1..(i - 1) : ~EndsAt(t, f)
  <2>1. \A i : EndsAt(t, i) => i \in 1..(Len(t) - 1)
    BY DEF EndsAt
  <2>2. \A i \in 1..(Len(t) - 1) : \A f \in 1..(i - 1) : f \in 1..(Len(t) - 1)
    BY <1>1
  <2> QED
    BY <1>3, <2>1, <2>2
<1> HIDE DEF e, T
<1>6. CASE e = 0
  <2>1. \A i \in Nat : ~EndsAt(t, i)
    BY <1>6, <1>2 DEF FirstEnd, EndsAt
  <2>2. T = {}
    BY <1>1, <1>5, <2>1 DEF EndsAt
  <2> QED
    BY <1>4, <1>6, <2>2 DEF e
<1>7. CASE e # 0
  <2>1. EndsAt(t, e) /\ \A i \in Nat : EndsAt(t, i) => e <= i
    BY <1>2, <1>7 DEF FirstEnd
  <2>2. e \in 1..(Len(t) - 1)
    BY <2>1 DEF EndsAt
  <2>3. e \in T
    <3>1. \A f \in 1..(e - 1) : f \in Nat /\ ~(e <= f)
      BY <1>1, <2>2
    <3> QED
      BY <1>5, <2>1, <3>1
  <2>4. ASSUME NEW i \in T PROVE i = e
    <3>1. EndsAt(t, i) /\ \A f \in 1..(i - 1) : ~EndsAt(t, f)
      BY <1>5
    <3>2. i \in 1..(Len(t) - 1)
      BY <3>1 DEF EndsAt
    <3>3. e <= i
      BY <1>1, <2>1, <3>1, <3>2
    <3>4. ~(e < i)
      <4> SUFFICES ASSUME e < i PROVE FALSE
        OBVIOUS
      <4>1. e \in 1..(i - 1)
        BY <1>1, <2>2, <3>2
      <4> QED
        BY <2>1, <3>1, <4>1
    <3> QED
      BY <1>1, <2>2, <3>2, <3>3, <3>4
  <2>5. T = {e}
    BY <2>3, <2>4
  <2>6. LineOf(t, e) \in Text
    <3> DEFINE k == e - 1
    <3>1. k \in 0..Len(t)
      BY <1>1, <2>2
    <3> HIDE DEF k
    <3>2. SubSeq(t, 1, k) \in Seq(STRING)
      BY <3>1, FirstPart DEF Text
    <3> QED
      BY <3>2 DEF k, LineOf, Text
  <2> QED
    BY <1>4, <1>7, <2>5, <2>6 DEF e
<1> QED
  BY <1>6, <1>7

LEMMA SSHCorrect == StreamAssumption /\ SSHInv => SSH!ReadsVersionLines
<1> SUFFICES ASSUME StreamAssumption, SSHInv PROVE SSH!ReadsVersionLines
  OBVIOUS
<1>1. ASSUME NEW d \in Dirs PROVE Came(talk, pos, d) \in Text
  <2>1. talk[d] \in Seq(STRING) /\ pos[d] \in Nat /\ pos[d] <= Len(talk[d])
    BY DEF SSHInv, Fed, StreamAssumption, SSH!SSHAssumption, Dirs, SSH!Dirs, OpenVPN!Dirs
  <2>2. Len(talk[d]) \in Nat
    BY <2>1, LenProperties
  <2>3. pos[d] \in 0..Len(talk[d])
    BY <2>1, <2>2
  <2> QED
    BY <2>1, <2>3, FirstPart DEF Came, Text
<1>2. \A d \in Dirs : SSH!Line(d) = LineIn(Came(talk, pos, d))
  BY DEF SSH!Line, SSH!Stream!Given, LineIn, Came
<1>3. \A d \in Dirs : shown[d] = Tells(talk, pos, d)
  BY DEF SSHInv
<1>4. ASSUME NEW d \in Dirs
      PROVE  /\ SSH!Line(d) # {} <=> Ended(talk, pos, d)
             /\ (IF shown[d] = SSH!None THEN {} ELSE {shown[d]}) = UNION {SSH!Readings(l) : l \in SSH!Line(d)}
  <2> DEFINE t == Came(talk, pos, d)
  <2>1. t \in Text /\ SSH!Line(d) = LineIn(t) /\ shown[d] = ToldBy(t) /\ (Ended(talk, pos, d) <=> TheEnd(t) # 0)
    BY <1>1, <1>2, <1>3 DEF Tells, Ended
  <2> HIDE DEF t
  <2>2. CASE TheEnd(t) = 0
    <3>1. SSH!Line(d) = {} /\ shown[d] = SSH!None
      BY <2>1, <2>2, LineIs DEF ToldBy
    <3> QED
      BY <2>1, <2>2, <3>1
  <2>3. CASE TheEnd(t) # 0
    <3> DEFINE l == LineOf(t, TheEnd(t))
    <3>1. SSH!Line(d) = {l} /\ l \in Text /\ shown[d] = SSH!versionLine(l)
      BY <2>1, <2>3, LineIs DEF ToldBy
    <3> HIDE DEF l
    <3>2. UNION {SSH!Readings(x) : x \in SSH!Line(d)} = SSH!Readings(l)
      BY <3>1
    <3>3. (IF SSH!versionLine(l) = SSH!None THEN {} ELSE {SSH!versionLine(l)}) = SSH!Readings(l)
      BY <3>1, VersionKnown
    <3> QED
      BY <2>1, <2>3, <3>1, <3>2, <3>3
  <2> QED
    BY <2>2, <2>3
<1>5. finished <=> gap \/ AllTold(talk, pos)
  BY DEF SSHInv
<1>6. AllTold(talk, pos) <=> \/ \A d \in Dirs : SSH!Line(d) # {}
                             \/ \E d \in Dirs : SSH!Line(d) # {} /\ shown[d] = SSH!None
  BY <1>3, <1>4 DEF AllTold
<1>7. Dirs = SSH!Dirs
  BY DEF Dirs, SSH!Dirs, OpenVPN!Dirs
<1> QED
  BY <1>4, <1>5, <1>6, <1>7 DEF SSH!ReadsVersionLines

-----------------------------------------------------------------------------
(* All of them: one analyzer in each behaviour. *)

Inv ==
  /\ analyzer = "openvpn" => OpenVPNInv
  /\ analyzer = "dns"     => DNSInv
  /\ analyzer = "ssh"     => SSHInv

\* A step that changes nothing.
LEMMA InvStutters == ASSUME Inv, UNCHANGED vars PROVE Inv'
<1>1. /\ analyzer' = analyzer /\ parser' = parser /\ talk' = talk /\ pos' = pos
      /\ shown' = shown /\ finished' = finished /\ gap' = gap
  BY DEF vars
<1>2. OpenVPNInv => OpenVPNInv'
  BY <1>1 DEF OpenVPNInv
<1>3. DNSInv => DNSInv'
  BY <1>1 DEF DNSInv
<1>4. SSHInv => SSHInv'
  BY <1>1 DEF SSHInv
<1> QED
  BY <1>1, <1>2, <1>3, <1>4 DEF Inv

\* A step of one of them.
LEMMA InvStep == ASSUME StreamAssumption, Inv, Next PROVE Inv'
<1>1. ASSUME analyzer = "openvpn", UNCHANGED analyzer, OpenVPN!Stream!Next PROVE Inv'
  BY <1>1, OpenVPNStep DEF Inv
<1>2. ASSUME analyzer = "dns", UNCHANGED analyzer, DNS!Stream!Next PROVE Inv'
  BY <1>2, DNSStep DEF Inv
<1>3. ASSUME analyzer = "ssh", UNCHANGED analyzer, SSH!Stream!Next PROVE Inv'
  BY <1>3, SSHStep DEF Inv
<1> QED
  BY <1>1, <1>2, <1>3 DEF Next

\* The invariant holds in every reachable state, whichever analyzer it is.
THEOREM Invariance == ASSUME StreamAssumption PROVE Spec => []Inv
<1>1. Init => Inv
  BY OpenVPNInit, DNSInit, SSHInit DEF Init, Inv
<1>2. Inv /\ [Next]_vars => Inv'
  BY InvStep, InvStutters
<1> QED
  BY <1>1, <1>2, PTL DEF Spec

\* However the first lines of both sides are cut and interleaved, the rules know
\* what each says once it has come whole, taken apart as the format of a version
\* line says, and only then; the analyzer leaves exactly when both are read, one
\* is no version line, or data are missing (sshStream.Feed, parseExchangeLine).
THEOREM VersionLinesCorrect == ASSUME StreamAssumption PROVE Spec => []ReadsVersionLines
<1>1. Inv => ReadsVersionLines
  BY SSHCorrect DEF Inv, ReadsVersionLines
<1> QED
  BY <1>1, Invariance, PTL

\* Over TCP the packets of OpenVPN are found in the bytes however those are cut:
\* each that has been taken is counted once in its direction and has its place in
\* the session, the client's reset was the first, the rules know the counts, and
\* what is not taken yet waits in the buffer, all of it (openvpnTCPStream.Feed,
\* parseReq, parseResp).
THEOREM PacketsCorrect == ASSUME StreamAssumption PROVE Spec => []EveryPacketCountedOnce
<1>1. Inv => EveryPacketCountedOnce
  BY OpenVPNCorrect DEF Inv, EveryPacketCountedOnce
<1> QED
  BY <1>1, Invariance, PTL

\* Messages of DNS over TCP are read without end: only one that cannot be decoded
\* stops the analyzer, or missing data, at once and whatever is half read in the
\* other direction (dnsTCPStream.Feed, getReqMessage, getRespMessage).
THEOREM ReadsOnCorrect == ASSUME StreamAssumption PROVE Spec => []ReadsOnUntilGarbage
<1>1. Inv => ReadsOnUntilGarbage
  BY DNSCorrect DEF Inv, ReadsOnUntilGarbage
<1> QED
  BY <1>1, Invariance, PTL

\* A chunk that completes messages shows the last of them to the rules, and no
\* other step shows anything: nothing half, nothing twice (dnsTCPStream.Feed).
THEOREM LastMessageCorrect == ASSUME StreamAssumption PROVE Spec => ShowsTheLastMessage
<1>1. Inv /\ [Next]_vars => [analyzer = "dns" => DNS!ShowsTheLast]_vars
  <2> SUFFICES ASSUME Inv, Next, analyzer = "dns" PROVE DNS!ShowsTheLast
    OBVIOUS
  <2>1. DNS!Stream!Next
    BY DEF Next
  <2> QED
    BY <2>1, DNSShows DEF Inv
<1> QED
  BY <1>1, Invariance, PTL DEF Spec, ShowsTheLastMessage
=============================================================================
