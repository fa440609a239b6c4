--------------------------- MODULE DatagramProofs ---------------------------
(***************************************************************************)
(* Theorems about DatagramParsers, for all constants that are as           *)
(* DatagramAssumption says: any packets and chunks, in any number, any     *)
(* limits.                                                                 *)
(*                                                                         *)
(* An analyzer remembers little of what it was fed; its invariant says     *)
(* what that is of the history.                                            *)
(***************************************************************************)
EXTENDS DatagramParsers, FiniteSets, FiniteSetTheorems, NaturalsInduction,
        WellFoundedInduction, TLAPS

\* A set with 0 and the successors of its members has all natural numbers.
LEMMA NatInduct ==
  ASSUME NEW T, 0 \in T, \A n \in Nat : n \in T => n + 1 \in T
  PROVE  Nat \subseteq T
<1> DEFINE R == OpToRel(<, Nat)
           D == Nat \ T
<1>1. SUFFICES ASSUME D # {} PROVE FALSE
  OBVIOUS
<1>2. IsWellFoundedOn(R, Nat)
  BY NatLessThanWellFounded
<1>3. PICK x \in D : \A y \in D : <<y, x>> \notin R
  <2> HIDE DEF R
  <2> QED BY <1>1, <1>2, WFMin, Zenon
<1>4. x - 1 \in Nat /\ x \in Nat /\ x # 0 /\ x - 1 < x /\ (x - 1) + 1 = x
  OBVIOUS
<1>5. <<x - 1, x>> \in R
  BY <1>4 DEF OpToRel
<1>6. x - 1 \in T
  BY <1>3, <1>4, <1>5
<1> QED
  BY <1>4, <1>6

\* Of places in a sequence one is the last.
LEMMA LastPlace ==
  ASSUME NEW n \in Nat, NEW S, S \subseteq 1..n, S # {}
  PROVE  \E i \in S : \A j \in S : j <= i
<1> DEFINE T == {m \in Nat : \A D : D \subseteq 1..m /\ D # {} => \E i \in D : \A j \in D : j <= i}
<1>1. 0 \in T
  OBVIOUS
<1>2. ASSUME NEW m \in Nat, m \in T PROVE m + 1 \in T
  <2> SUFFICES ASSUME NEW D, D \subseteq 1..(m + 1), D # {} PROVE \E i \in D : \A j \in D : j <= i
    OBVIOUS
  <2>1. CASE m + 1 \in D
    BY <2>1
  <2>2. CASE m + 1 \notin D
    <3>1. D \subseteq 1..m
      BY <2>2
    <3> QED
      BY <1>2, <3>1
  <2> QED
    BY <2>1, <2>2
<1>3. n \in T
  <2> HIDE DEF T
  <2> QED
    BY <1>1, <1>2, NatInduct
<1> QED
  BY <1>3

-----------------------------------------------------------------------------
(* Counting what is not the protocol's. *)

\* The last c of n packets, and no more, are among the bad ones.
Streak(bad, n, c) ==
  /\ c \in 0..n
  /\ \A k \in (n - c + 1)..n : k \in bad
  /\ c < n => n - c \notin bad

\* One more in a row.
LEMMA StreakGrows ==
  ASSUME NEW n \in Nat, NEW c, NEW bad, NEW now, Streak(bad, n, c),
         now \cap (1..n) = bad \cap (1..n), n + 1 \in now
  PROVE  Streak(now, n + 1, c + 1)
<1>1. c \in 0..n
  BY DEF Streak
<1>2. \A k \in (n + 1 - (c + 1) + 1)..(n + 1) : k \in now
  <2> TAKE k \in (n + 1 - (c + 1) + 1)..(n + 1)
  <2>1. CASE k = n + 1
    BY <2>1
  <2>2. CASE k # n + 1
    <3>1. k \in (n - c + 1)..n /\ k \in 1..n
      BY <1>1, <2>2
    <3> QED
      BY <3>1 DEF Streak
  <2> QED
    BY <2>1, <2>2
<1>3. c + 1 < n + 1 => n + 1 - (c + 1) \notin now
  <2>1. c < n => n - c \in 1..n /\ n - c \notin bad
    BY <1>1 DEF Streak
  <2> QED
    BY <1>1, <2>1
<1> QED
  BY <1>1, <1>2, <1>3 DEF Streak

\* A good one ends them.
LEMMA StreakEnds ==
  ASSUME NEW n \in Nat, NEW now, n + 1 \notin now
  PROVE  Streak(now, n + 1, 0)
BY DEF Streak

\* They are so many exactly when so many packets came last.
LEMMA StreakLong ==
  ASSUME NEW n \in Nat, NEW c, NEW bad, Streak(bad, n, c), NEW t \in Nat \ {0}
  PROVE  c >= t <=> n >= t /\ \A k \in (n - t + 1)..n : k \in bad
<1>1. c \in 0..n
  BY DEF Streak
<1>2. CASE c >= t
  <2>1. (n - t + 1)..n \subseteq (n - c + 1)..n
    BY <1>1, <1>2
  <2> QED
    BY <1>1, <1>2, <2>1 DEF Streak
<1>3. CASE ~(c >= t) /\ n >= t
  <2>1. n - c \in (n - t + 1)..n /\ c < n
    BY <1>1, <1>3
  <2> QED
    BY <1>3, <2>1 DEF Streak
<1> QED
  BY <1>1, <1>2, <1>3

LEMMA SequenceIsFunction ==
  ASSUME NEW S, NEW s \in Seq(S)
  PROVE  s = [i \in 1..Len(s) |-> s[i]]
OBVIOUS

LEMMA ElementIn ==
  ASSUME NEW S, NEW s \in Seq(S), NEW i \in 1..Len(s)
  PROVE  s[i] \in S /\ Len(s) \in Nat
OBVIOUS

\* What a sequence is with one element more.
LEMMA Appended ==
  ASSUME NEW S, NEW s \in Seq(S), NEW e \in S
  PROVE  /\ Append(s, e) \in Seq(S) /\ Len(s) \in Nat /\ Len(Append(s, e)) = Len(s) + 1
         /\ Append(s, e)[Len(s) + 1] = e
         /\ \A i \in 1..Len(s) : Append(s, e)[i] = s[i] /\ s[i] \in S
OBVIOUS

Packet(Data) == [dir : {"req", "resp"}, data : Data]

-----------------------------------------------------------------------------
(* DNS. *)

NoMessages == {k \in 1..Len(fed) : ~fed[k].data.decodes}
Messages   == {k \in 1..Len(fed) : fed[k].data.decodes}

\* The packets of a row that were no messages are counted, each modifier has the
\* packet just sent, as the rule and it leave it, and the rules know the last
\* message.
DNSInv ==
  /\ fed \in Seq(Packet(DNSPackets))
  /\ Streak(NoMessages, Len(fed), parser.invalidCount)
  /\ finished <=> parser.invalidCount >= InvalidThreshold
  /\ fed # <<>> => parser.out = [i \in DNS!Modifiers |-> DNS!Delivered(i, fed[Len(fed)].data)]
  /\ Messages = {} => shown = <<>>
  /\ \A k \in Messages : (\A l \in Messages : l <= k) => shown = DNS!parseDNSMessage(fed[k].data)

\* What is no message has no properties, what is one has some.
LEMMA MessagesParsed ==
  ASSUME DNS!DNSAssumption, NEW pkt \in DNSPackets
  PROVE  /\ pkt.decodes \in BOOLEAN
         /\ DNS!parseDNSMessage(pkt) = DNS!nil <=> ~pkt.decodes
<1>1. CASE pkt.decodes = FALSE
  BY <1>1 DEF DNS!parseDNSMessage
<1>2. CASE pkt.decodes # FALSE
  <2>1. pkt.decodes = TRUE
    BY <1>2 DEF DNS!DNSAssumption
  <2>2. "qr" \in DOMAIN DNS!parseDNSMessage(pkt)
    BY <2>1 DEF DNS!parseDNSMessage
  <2>3. "qr" \notin DOMAIN DNS!nil
    BY DEF DNS!nil
  <2> QED
    BY <2>1, <2>2, <2>3
<1> QED
  BY <1>1, <1>2

LEMMA DNSInit == ASSUME DatagramAssumption, DNS!Stream!Init PROVE DNSInv
<1>1. fed = <<>> /\ shown = <<>> /\ finished = FALSE /\ parser.invalidCount = 0
  BY DEF DNS!Stream!Init, DNS!Stream!Nothing, DNS!newStream
<1>2. Len(fed) = 0 /\ NoMessages = {} /\ Messages = {} /\ fed \in Seq(Packet(DNSPackets))
  BY <1>1 DEF NoMessages, Messages
<1>3. InvalidThreshold \in Nat \ {0}
  BY DEF DatagramAssumption, DNS!DNSAssumption
<1> QED
  BY <1>1, <1>2, <1>3 DEF DNSInv, Streak

LEMMA DNSStep == ASSUME DatagramAssumption, DNSInv, DNS!Stream!Next PROVE DNSInv'
<1>1. PICK d \in {"req", "resp"}, pkt \in DNSPackets : DNS!Stream!Feed(d, pkt)
  BY DEF DNS!Stream!Next, DNS!Stream!Dirs, DNS!PacketsOf
<1> DEFINE n == Len(fed)
           m == DNS!parseDNSMessage(pkt)
<1>2. /\ fed' = Append(fed, [dir |-> d, data |-> pkt])
      /\ parser' = DNS!FeedDNS(d, parser, pkt).p
      /\ finished' = DNS!FeedDNS(d, parser, pkt).done
      /\ shown' = IF DNS!FeedDNS(d, parser, pkt).update.type = "replace"
                  THEN DNS!FeedDNS(d, parser, pkt).update.m ELSE shown
  BY <1>1 DEF DNS!Stream!Feed, DNS!FeedDNS
<1>3. /\ parser'.invalidCount = (IF m = DNS!nil THEN parser.invalidCount + 1 ELSE 0)
      /\ parser'.out = [i \in DNS!Modifiers |-> DNS!Delivered(i, pkt)]
      /\ finished' = (parser'.invalidCount >= InvalidThreshold)
      /\ shown' = IF m = DNS!nil THEN shown ELSE m
  BY <1>2 DEF DNS!FeedDNS
<1>4. /\ fed' \in Seq(Packet(DNSPackets)) /\ n \in Nat /\ Len(fed') = n + 1 /\ fed' # <<>>
      /\ fed'[n + 1] = [dir |-> d, data |-> pkt] /\ fed'[n + 1].data = pkt
      /\ \A i \in 1..n : fed'[i] = fed[i]
  BY <1>2, Appended DEF DNSInv, Packet
<1>5. /\ pkt.decodes \in BOOLEAN
      /\ m = DNS!nil <=> ~pkt.decodes
  BY MessagesParsed DEF DatagramAssumption
<1> HIDE DEF m, n
<1>6. /\ n + 1 \in NoMessages' <=> m = DNS!nil
      /\ n + 1 \in Messages' <=> m # DNS!nil
      /\ NoMessages' \cap (1..n) = NoMessages \cap (1..n)
      /\ \A k \in 1..n : k \in Messages' <=> k \in Messages
      /\ Messages \subseteq 1..n /\ Messages' \subseteq 1..(n + 1)
  BY <1>4, <1>5 DEF NoMessages, Messages, n
<1>7. Streak(NoMessages', n + 1, parser'.invalidCount)
  <2>1. Streak(NoMessages, n, parser.invalidCount)
    BY DEF DNSInv, n
  <2>2. CASE m = DNS!nil
    BY <1>3, <1>4, <1>6, <2>1, <2>2, StreakGrows
  <2>3. CASE m # DNS!nil
    BY <1>3, <1>4, <1>6, <2>3, StreakEnds
  <2> QED
    BY <2>2, <2>3
<1>8. /\ Messages' = {} => shown' = <<>>
      /\ \A k \in Messages' : (\A l \in Messages' : l <= k) => shown' = DNS!parseDNSMessage(fed'[k].data)
  <2>1. CASE m = DNS!nil
    <3>1. Messages' = Messages /\ shown' = shown
      <4>1. \A k \in Messages' : k \in 1..n
        BY <1>4, <1>6, <2>1
      <4> QED
        BY <1>3, <1>6, <2>1, <4>1
    <3>2. \A k \in Messages : fed'[k].data = fed[k].data
      BY <1>4, <1>6
    <3> QED
      BY <3>1, <3>2 DEF DNSInv
  <2>2. CASE m # DNS!nil
    <3>1. n + 1 \in Messages' /\ shown' = m
      BY <1>3, <1>6, <2>2
    <3>2. \A k \in Messages' : (\A l \in Messages' : l <= k) => k = n + 1
      BY <1>4, <1>6, <3>1
    <3> QED
      BY <1>4, <3>1, <3>2 DEF m
  <2> QED
    BY <2>1, <2>2
<1> QED
  BY <1>3, <1>4, <1>7, <1>8 DEF DNSInv

\* What goes on is what was sent, or that with one answer.
Rewritten(i, pkt, speaks, got) ==
  /\ ~speaks => got = pkt
  /\ speaks =>
       LET address == DNS!AddressFor(i, pkt.questions[1])
       IN  IF address = "nil" THEN got = pkt
           ELSE /\ {r.data : r \in {got.answers[k] : k \in DOMAIN got.answers}} = {address}
                /\ [got EXCEPT !.answers = pkt.answers] = pkt

LEMMA DNSRewrites ==
  ASSUME DatagramAssumption, NEW pkt \in DNSPackets, NEW i,
         NEW speaks, speaks = (/\ pkt.decodes /\ pkt.qr /\ pkt.rcode = "ok"
                               /\ \E k \in DOMAIN pkt.questions : pkt.questions[k].name = "x"),
         NEW got, got = DNS!Delivered(i, pkt)
  PROVE  Rewritten(i, pkt, speaks, got)
<1> DEFINE m == DNS!parseDNSMessage(pkt)
           address == DNS!AddressFor(i, pkt.questions[1])
<1>1. m = DNS!nil <=> ~pkt.decodes
  BY MessagesParsed DEF DatagramAssumption
<1>2. CASE ~pkt.decodes
  BY <1>1, <1>2 DEF DNS!Delivered, Rewritten
<1>3. CASE pkt.decodes
  <2>1. pkt \in [decodes : {TRUE}, qr : BOOLEAN, rcode : STRING,
                questions : Seq([name : STRING, type : STRING]),
                answers   : Seq([name : STRING, type : STRING, data : STRING])]
    BY <1>3 DEF DatagramAssumption, DNS!DNSAssumption
  <2>2. /\ m.qr = pkt.qr
        /\ "questions" \in DOMAIN m <=> pkt.questions # <<>>
        /\ pkt.questions # <<>> => m.questions = pkt.questions
    BY <1>3 DEF DNS!parseDNSMessage
  <2>3. DNS!Rule(m) <=> pkt.qr /\ \E k \in DOMAIN pkt.questions : pkt.questions[k].name = "x"
    BY <2>2 DEF DNS!Rule
  <2> HIDE DEF m
  <2>4. got = IF DNS!Rule(m) THEN DNS!Process(i, pkt) ELSE pkt
    BY <1>1, <1>3 DEF DNS!Delivered, m
  <2>5. CASE ~speaks
    BY <2>3, <2>4, <2>5 DEF DNS!Process, DNS!Unfit, Rewritten
  <2>6. CASE speaks
    <3>1. DNS!Rule(m) /\ ~DNS!Unfit(pkt)
      <4>1. pkt.questions # <<>>
        <5>1. \E k \in DOMAIN pkt.questions : TRUE
          BY <2>6, Zenon
        <5> QED
          BY <5>1
      <4> QED
        BY <1>3, <2>3, <2>6, <4>1, Zenon DEF DNS!Unfit
    <3>2. CASE address = "nil"
      BY <2>4, <2>6, <3>1, <3>2 DEF DNS!Process, Rewritten
    <3>3. CASE address # "nil"
      <4> DEFINE answer == [name |-> pkt.questions[1].name, type |-> pkt.questions[1].type, data |-> address]
      <4>1. got = [pkt EXCEPT !.answers = <<answer>>]
        BY <2>4, <3>1, <3>3 DEF DNS!Process
      <4>2. answer.data = address
        OBVIOUS
      <4> HIDE DEF address, answer
      <4>3. got.answers = <<answer>>
        BY <2>1, <4>1
      <4>4. {got.answers[k] : k \in DOMAIN got.answers} = {answer}
        BY <4>3
      <4>5. [got EXCEPT !.answers = pkt.answers] = pkt
        BY <2>1, <4>1
      <4>6. {r.data : r \in {got.answers[k] : k \in DOMAIN got.answers}} = {address}
        BY <4>2, <4>4
      <4> QED
        BY <2>6, <3>3, <4>5, <4>6, Zenon DEF address, Rewritten
    <3> QED
      BY <3>2, <3>3
  <2> QED
    BY <2>5, <2>6
<1> QED
  BY <1>2, <1>3

LEMMA DNSCorrect == ASSUME DatagramAssumption, DNSInv PROVE DNS!RewritesAnswers /\ DNS!KnowsTheLastMessage
<1>1. Len(fed) \in Nat /\ InvalidThreshold \in Nat \ {0}
  BY DEF DNSInv, DatagramAssumption, DNS!DNSAssumption
<1>2. DNS!RewritesAnswers
  <2> SUFFICES ASSUME fed # <<>>, NEW i \in DNS!Modifiers
               PROVE  Rewritten(i, DNS!Sent, DNS!SpeaksOfX, DNS!Got(i))
    BY DEF DNS!RewritesAnswers, Rewritten
  <2>1. DNS!Sent \in DNSPackets
    <3>1. fed \in Seq(Packet(DNSPackets)) /\ Len(fed) \in 1..Len(fed)
      BY <1>1 DEF DNSInv
    <3>2. fed[Len(fed)] \in Packet(DNSPackets)
      BY <3>1
    <3> QED
      BY <3>2 DEF Packet, DNS!Sent
  <2>2. DNS!Got(i) = DNS!Delivered(i, DNS!Sent)
    BY DEF DNSInv, DNS!Got, DNS!Sent
  <2>3. DNS!SpeaksOfX = (/\ DNS!Sent.decodes /\ DNS!Sent.qr /\ DNS!Sent.rcode = "ok"
                         /\ \E k \in DOMAIN DNS!Sent.questions : DNS!Sent.questions[k].name = "x")
    BY DEF DNS!SpeaksOfX
  <2> QED
    BY <2>1, <2>2, <2>3, DNSRewrites, Zenon
<1>3. DNS!KnowsTheLastMessage
  <2> DEFINE last == CHOOSE k \in Messages : \A l \in Messages : l <= k
  <2>1. IF Messages = {} THEN shown = <<>> ELSE shown = DNS!parseDNSMessage(fed[last].data)
    <3>1. CASE Messages = {}
      BY <3>1 DEF DNSInv
    <3>2. CASE Messages # {}
      <4>1. \E k \in Messages : \A l \in Messages : l <= k
        BY <1>1, <3>2, LastPlace DEF Messages
      <4>2. last \in Messages /\ \A l \in Messages : l <= last
        BY <4>1
      <4> HIDE DEF last
      <4> QED
        BY <3>2, <4>2 DEF DNSInv
    <3> QED
      BY <3>1, <3>2
  <2>2. finished <=> /\ Len(fed) >= InvalidThreshold
                     /\ \A k \in (Len(fed) - InvalidThreshold + 1)..Len(fed) : k \in NoMessages
    BY <1>1, StreakLong DEF DNSInv
  <2>3. Len(fed) >= InvalidThreshold =>
          \A k \in (Len(fed) - InvalidThreshold + 1)..Len(fed) : k \in NoMessages <=> k \notin Messages
    BY <1>1 DEF NoMessages, Messages
  <2> QED
    BY <2>1, <2>2, <2>3 DEF DNS!KnowsTheLastMessage, Messages
<1> QED
  BY <1>2, <1>3

-----------------------------------------------------------------------------
(* OpenVPN over UDP: one packet. *)

OpenVPNParser ==
  [buf : [OpenVPN!Dirs -> {<<>>}], curPkt : Seq(0..255), lastOpcode : Nat,
   index : [OpenVPN!Dirs -> 0..1], cnt : [OpenVPN!Dirs -> Nat]]

\* A reset is the side's own, the server's after the client's.
ResetInOrder(d, p, op) ==
  /\ op \in OpenVPN!ResetOpcodes(d)
  /\ d = "resp" => p.lastOpcode \in OpenVPN!ResetOpcodes("req")

\* The parser takes a packet with this opcode.
Takes(d, p, op) ==
  IF p.index[d] = 1 THEN op \in OpenVPN!SessionOpcodes ELSE ResetInOrder(d, p, op)

\* The functions of the parser over UDP.
Parses(d, p)    == OpenVPN!parsePkt("udp", d, p)
CountsOne(d, p) == OpenVPN!countPacket("udp", d, p)
Resets(d, p)    == OpenVPN!parseCtlHardReset("udp", d, p)

LEMMA FirstByte == ASSUME NEW S, NEW s \in Seq(S), s # <<>> PROVE s[1] \in S
<1>1. Len(s) >= 1
  OBVIOUS
<1> QED
  BY <1>1

LEMMA OpcodeIsNat == ASSUME NEW b \in 0..255 PROVE OpenVPN!opcode(b) \in Nat
<1>1. \A n \in 0..255 : n \div 8 \in Nat
  OBVIOUS
<1> QED
  BY <1>1 DEF OpenVPN!opcode

\* Updates of the parser, each with what it leaves alone.
WithPacket(p, pkt) == [p EXCEPT !.curPkt = pkt]
WithOpcode(p, op)  == [p EXCEPT !.lastOpcode = op]
WithIndex(p, d)    == [p EXCEPT !.index[d] = 1]
WithCount(p, d)    == [p EXCEPT !.cnt[d] = @ + 1]

LEMMA PacketTaken ==
  ASSUME NEW p \in OpenVPNParser, NEW pkt \in Seq(0..255)
  PROVE  /\ WithPacket(p, pkt) \in OpenVPNParser
         /\ WithPacket(p, pkt).curPkt = pkt /\ WithPacket(p, pkt).index = p.index
         /\ WithPacket(p, pkt).lastOpcode = p.lastOpcode /\ WithPacket(p, pkt).cnt = p.cnt
<1> DEFINE u == WithPacket(p, pkt)
<1>1. u \in OpenVPNParser
  BY DEF OpenVPNParser, WithPacket
<1>2. u.curPkt = pkt
  BY DEF OpenVPNParser, WithPacket
<1>3. u.index = p.index /\ u.lastOpcode = p.lastOpcode /\ u.cnt = p.cnt
  BY DEF OpenVPNParser, WithPacket
<1> QED
  BY <1>1, <1>2, <1>3

LEMMA OpcodeSet ==
  ASSUME NEW p \in OpenVPNParser, NEW op \in Nat
  PROVE  /\ WithOpcode(p, op) \in OpenVPNParser
         /\ WithOpcode(p, op).curPkt = p.curPkt /\ WithOpcode(p, op).index = p.index
         /\ WithOpcode(p, op).lastOpcode = op /\ WithOpcode(p, op).cnt = p.cnt
<1> DEFINE u == WithOpcode(p, op)
<1>1. u \in OpenVPNParser
  BY DEF OpenVPNParser, WithOpcode
<1>2. u.lastOpcode = op
  BY DEF OpenVPNParser, WithOpcode
<1>3. u.index = p.index /\ u.curPkt = p.curPkt /\ u.cnt = p.cnt
  BY DEF OpenVPNParser, WithOpcode
<1> QED
  BY <1>1, <1>2, <1>3

LEMMA IndexSet ==
  ASSUME NEW p \in OpenVPNParser, NEW d \in OpenVPN!Dirs
  PROVE  /\ WithIndex(p, d) \in OpenVPNParser
         /\ WithIndex(p, d).curPkt = p.curPkt /\ WithIndex(p, d).index = [p.index EXCEPT ![d] = 1]
         /\ WithIndex(p, d).lastOpcode = p.lastOpcode /\ WithIndex(p, d).cnt = p.cnt
<1> DEFINE u == WithIndex(p, d)
<1>1. u = [p EXCEPT !.index = [p.index EXCEPT ![d] = 1]]
  BY DEF OpenVPNParser, WithIndex
<1>2. [p.index EXCEPT ![d] = 1] \in [OpenVPN!Dirs -> 0..1]
  BY DEF OpenVPNParser, WithIndex
<1> DEFINE f == [p.index EXCEPT ![d] = 1]
<1> HIDE DEF f, u
<1>3. u = [p EXCEPT !.index = f] /\ f \in [OpenVPN!Dirs -> 0..1]
  BY <1>1, <1>2 DEF f
<1>4. u \in OpenVPNParser
  BY <1>3 DEF OpenVPNParser
<1>5. u.index = f
  BY <1>3 DEF OpenVPNParser
<1>6. u.lastOpcode = p.lastOpcode /\ u.curPkt = p.curPkt /\ u.cnt = p.cnt
  BY <1>3 DEF OpenVPNParser
<1> QED
  BY <1>4, <1>5, <1>6 DEF f, u

LEMMA CountSet ==
  ASSUME NEW p \in OpenVPNParser, NEW d \in OpenVPN!Dirs
  PROVE  /\ WithCount(p, d) \in OpenVPNParser
         /\ WithCount(p, d).curPkt = p.curPkt /\ WithCount(p, d).cnt = [p.cnt EXCEPT ![d] = @ + 1]
         /\ WithCount(p, d).lastOpcode = p.lastOpcode /\ WithCount(p, d).index = p.index
<1> DEFINE u == WithCount(p, d)
           f == [p.cnt EXCEPT ![d] = @ + 1]
<1>1. u = [p EXCEPT !.cnt = f]
  BY DEF OpenVPNParser, WithCount
<1>2. f \in [OpenVPN!Dirs -> Nat]
  BY DEF OpenVPNParser, WithCount
<1> HIDE DEF f, u
<1>4. u \in OpenVPNParser
  BY <1>1, <1>2 DEF OpenVPNParser
<1>5. u.cnt = f
  BY <1>1, <1>2 DEF OpenVPNParser
<1>6. u.lastOpcode = p.lastOpcode /\ u.curPkt = p.curPkt /\ u.index = p.index
  BY <1>1, <1>2 DEF OpenVPNParser
<1> QED
  BY <1>4, <1>5, <1>6 DEF f, u

LEMMA PacketParsed ==
  ASSUME NEW d, NEW p \in OpenVPNParser, p.curPkt # <<>>, NEW op, op = OpenVPN!opcode(p.curPkt[1])
  PROVE  /\ op \in Nat
         /\ op \notin OpenVPN!ValidOpcodes => Parses(d, p) = OpenVPN!Cancel(p)
         /\ op \in OpenVPN!ValidOpcodes => Parses(d, p) = OpenVPN!Packet(WithPacket(p, <<>>), op)
<1>1. p.curPkt \in Seq(0..255)
  BY DEF OpenVPNParser
<1>2. p.curPkt[1] \in 0..255
  BY <1>1, FirstByte
<1>3. op \in Nat
  BY <1>2, OpcodeIsNat
<1> QED
  BY <1>3 DEF Parses, OpenVPN!parsePkt, OpenVPN!parsePktUDP, WithPacket

LEMMA PacketCounted ==
  ASSUME NEW d \in OpenVPN!Dirs, NEW p \in OpenVPNParser, p.curPkt # <<>>,
         NEW op, op = OpenVPN!opcode(p.curPkt[1])
  PROVE  /\ op \notin OpenVPN!SessionOpcodes => CountsOne(d, p).act = "cancel"
         /\ op \in OpenVPN!SessionOpcodes =>
              /\ CountsOne(d, p).act = "pause" /\ CountsOne(d, p).p \in OpenVPNParser
              /\ CountsOne(d, p).p.index = p.index
              /\ CountsOne(d, p).p.lastOpcode = p.lastOpcode
              /\ CountsOne(d, p).p.cnt = [p.cnt EXCEPT ![d] = @ + 1]
<1> DEFINE r == CountsOne(d, p)
           x == Parses(d, p)
           u == WithPacket(p, <<>>)
<1>1. u \in OpenVPNParser /\ u.index = p.index /\ u.lastOpcode = p.lastOpcode /\ u.cnt = p.cnt
  <2>1. <<>> \in Seq(0..255)
    OBVIOUS
  <2> QED
    BY <2>1, PacketTaken
<1>2. op \notin OpenVPN!ValidOpcodes => x = OpenVPN!Cancel(p)
  BY PacketParsed
<1>3. op \in OpenVPN!ValidOpcodes => x = OpenVPN!Packet(u, op)
  BY PacketParsed
<1>4. r = IF x.act # "next" THEN x
          ELSE IF x.opcode \notin OpenVPN!SessionOpcodes THEN OpenVPN!Cancel(x.p)
          ELSE OpenVPN!Pause(WithCount(x.p, d))
  BY DEF Parses, CountsOne, OpenVPN!countPacket, WithCount
<1>5. OpenVPN!SessionOpcodes \subseteq OpenVPN!ValidOpcodes
  BY DEF OpenVPN!ValidOpcodes
<1> HIDE DEF x, u, r
<1>6. CASE op \notin OpenVPN!ValidOpcodes
  <2>1. r.act = "cancel"
    BY <1>2, <1>4, <1>6 DEF OpenVPN!Cancel
  <2> QED
    BY <1>5, <1>6, <2>1 DEF r
<1>7. CASE op \in OpenVPN!ValidOpcodes
  <2>1. x.act = "next" /\ x.p = u /\ x.opcode = op
    BY <1>3, <1>7 DEF OpenVPN!Packet
  <2>2. CASE op \notin OpenVPN!SessionOpcodes
    BY <1>4, <2>1, <2>2 DEF OpenVPN!Cancel, r
  <2>3. CASE op \in OpenVPN!SessionOpcodes
    <3> DEFINE w == WithCount(u, d)
    <3>1. r = OpenVPN!Pause(w)
      BY <1>4, <2>1, <2>3
    <3>2. /\ w \in OpenVPNParser
          /\ w.index = u.index /\ w.lastOpcode = u.lastOpcode /\ w.cnt = [u.cnt EXCEPT ![d] = @ + 1]
      BY <1>1, CountSet
    <3> HIDE DEF w
    <3>4. r.act = "pause" /\ r.p = w
      BY <3>1 DEF OpenVPN!Pause
    <3> QED
      BY <1>1, <2>3, <3>2, <3>4 DEF r
  <2> QED
    BY <2>2, <2>3
<1> QED
  BY <1>6, <1>7

LEMMA ResetTaken ==
  ASSUME NEW d \in OpenVPN!Dirs, NEW p \in OpenVPNParser, p.curPkt # <<>>,
         NEW op, op = OpenVPN!opcode(p.curPkt[1])
  PROVE  /\ ~ResetInOrder(d, p, op) => Resets(d, p).act = "cancel"
         /\ ResetInOrder(d, p, op) =>
              /\ Resets(d, p).act = "next" /\ Resets(d, p).p \in OpenVPNParser
              /\ Resets(d, p).p.curPkt = <<>> /\ Resets(d, p).p.index = p.index
              /\ Resets(d, p).p.lastOpcode = op /\ Resets(d, p).p.cnt = p.cnt
<1> DEFINE r == Resets(d, p)
           x == Parses(d, p)
           u == WithPacket(p, <<>>)
<1>1. /\ u \in OpenVPNParser /\ u.index = p.index /\ u.lastOpcode = p.lastOpcode /\ u.cnt = p.cnt
      /\ u.curPkt = <<>>
  <2>1. <<>> \in Seq(0..255)
    OBVIOUS
  <2> QED
    BY <2>1, PacketTaken
<1>2. op \notin OpenVPN!ValidOpcodes => x = OpenVPN!Cancel(p)
  BY PacketParsed
<1>3. op \in Nat /\ (op \in OpenVPN!ValidOpcodes => x = OpenVPN!Packet(u, op))
  BY PacketParsed
<1>4. r = IF d = "resp" /\ p.lastOpcode \notin OpenVPN!ResetOpcodes("req") THEN OpenVPN!Cancel(p)
          ELSE IF x.act # "next" THEN x
          ELSE IF x.opcode \notin OpenVPN!ResetOpcodes(d) THEN OpenVPN!Cancel(x.p)
          ELSE OpenVPN!Go(WithOpcode(x.p, x.opcode))
  BY DEF Parses, Resets, OpenVPN!parseCtlHardReset, WithOpcode
<1>5. OpenVPN!ResetOpcodes(d) \subseteq OpenVPN!ValidOpcodes
  BY DEF OpenVPN!ValidOpcodes, OpenVPN!ResetOpcodes, OpenVPN!Dirs
<1> HIDE DEF x, u, r
<1>6. CASE d = "resp" /\ p.lastOpcode \notin OpenVPN!ResetOpcodes("req")
  BY <1>4, <1>6 DEF OpenVPN!Cancel, ResetInOrder, r
<1>7. CASE ~(d = "resp" /\ p.lastOpcode \notin OpenVPN!ResetOpcodes("req")) /\ op \notin OpenVPN!ValidOpcodes
  <2>1. r.act = "cancel"
    BY <1>2, <1>4, <1>7 DEF OpenVPN!Cancel
  <2> QED
    BY <1>5, <1>7, <2>1 DEF ResetInOrder, r
<1>8. CASE ~(d = "resp" /\ p.lastOpcode \notin OpenVPN!ResetOpcodes("req")) /\ op \in OpenVPN!ValidOpcodes
  <2>1. x.act = "next" /\ x.p = u /\ x.opcode = op
    BY <1>3, <1>8 DEF OpenVPN!Packet
  <2>2. CASE op \notin OpenVPN!ResetOpcodes(d)
    BY <1>4, <1>8, <2>1, <2>2 DEF OpenVPN!Cancel, ResetInOrder, r
  <2>3. CASE op \in OpenVPN!ResetOpcodes(d)
    <3> DEFINE w == WithOpcode(u, op)
    <3>1. r = OpenVPN!Go(w)
      BY <1>4, <1>8, <2>1, <2>3
    <3>2. w \in OpenVPNParser /\ w.index = u.index /\ w.lastOpcode = op /\ w.cnt = u.cnt /\ w.curPkt = <<>>
      BY <1>1, <1>3, OpcodeSet
    <3> HIDE DEF w
    <3>4. r.act = "next" /\ r.p = w
      BY <3>1 DEF OpenVPN!Go
    <3> QED
      BY <1>1, <1>8, <2>3, <3>2, <3>4 DEF ResetInOrder, r
  <2> QED
    BY <2>2, <2>3
<1> QED
  BY <1>6, <1>7, <1>8

LEMMA OpenVPNFeeds ==
  ASSUME NEW d \in OpenVPN!Dirs, NEW p \in OpenVPNParser, NEW pkt \in Seq(0..255), pkt # <<>>,
         NEW op, op = OpenVPN!opcode(pkt[1]), NEW r, r = OpenVPN!FeedUDP(d, p, pkt)
  PROVE  /\ ~Takes(d, p, op) => r.done
         /\ Takes(d, p, op) =>
              /\ r.p \in OpenVPNParser /\ r.p.index = [p.index EXCEPT ![d] = 1]
              /\ r.p.cnt = IF p.index[d] = 1 THEN [p.cnt EXCEPT ![d] = @ + 1] ELSE p.cnt
              /\ r.p.lastOpcode = IF p.index[d] = 1 THEN p.lastOpcode ELSE op
              /\ r.updated <=> p.index[d] = 1
              /\ r.done <=> r.p.cnt["req"] + r.p.cnt["resp"] > PktLimit
<1> DEFINE q == WithPacket(p, pkt)
           z == OpenVPN!Run("udp", d, q)
           a == Resets(d, q)
           b == CountsOne(d, q)
<1>1. q \in OpenVPNParser /\ q.curPkt = pkt /\ q.index = p.index /\ q.lastOpcode = p.lastOpcode /\ q.cnt = p.cnt
  BY PacketTaken
<1>2. \E changed \in BOOLEAN, over \in BOOLEAN :
        /\ r = [p |-> z.p, updated |-> changed, done |-> over]
        /\ changed <=> z.p.cnt # q.cnt
        /\ over <=> z.act = "cancel" \/ z.p.cnt["req"] + z.p.cnt["resp"] > PktLimit
  BY Zenon DEF OpenVPN!FeedUDP, OpenVPN!Fed, WithPacket
<1>3. /\ r.p = z.p
      /\ r.updated <=> z.p.cnt # q.cnt
      /\ r.done <=> z.act = "cancel" \/ z.p.cnt["req"] + z.p.cnt["resp"] > PktLimit
  <2> HIDE DEF z, q
  <2> QED
    BY <1>2
<1>4. z = IF q.index[d] = 1 THEN b ELSE IF a.act # "next" THEN a
          ELSE CountsOne(d, WithIndex(a.p, d))
  BY DEF CountsOne, Resets, OpenVPN!Run, WithIndex
<1>5. p.index \in [OpenVPN!Dirs -> 0..1] /\ p.cnt \in [OpenVPN!Dirs -> Nat]
  BY DEF OpenVPNParser
<1> HIDE DEF q, z, a, b
<1>6. CASE p.index[d] = 1
  <2>1. /\ op \notin OpenVPN!SessionOpcodes => z.act = "cancel"
        /\ op \in OpenVPN!SessionOpcodes =>
              /\ z.act = "pause" /\ z.p \in OpenVPNParser
              /\ z.p.index = q.index /\ z.p.lastOpcode = q.lastOpcode
              /\ z.p.cnt = [q.cnt EXCEPT ![d] = @ + 1]
    <3>1. z = CountsOne(d, q) /\ q.curPkt # <<>> /\ op = OpenVPN!opcode(q.curPkt[1])
      BY <1>1, <1>4, <1>6 DEF b
    <3> QED
      BY <1>1, <3>1, PacketCounted
  <2>2. [p.cnt EXCEPT ![d] = @ + 1] # p.cnt /\ [p.index EXCEPT ![d] = 1] = p.index
    BY <1>5, <1>6
  <2> QED
    BY <1>1, <1>3, <1>6, <2>1, <2>2 DEF Takes
<1>7. CASE p.index[d] # 1
  <2>1. /\ ~ResetInOrder(d, q, op) => a.act = "cancel"
        /\ ResetInOrder(d, q, op) => /\ a.act = "next" /\ a.p \in OpenVPNParser /\ a.p.curPkt = <<>>
                   /\ a.p.index = q.index /\ a.p.lastOpcode = op /\ a.p.cnt = q.cnt
    BY <1>1, ResetTaken DEF a
  <2>2. Takes(d, p, op) <=> ResetInOrder(d, q, op)
    BY <1>1, <1>7 DEF Takes, ResetInOrder
  <2>3. CASE ~ResetInOrder(d, q, op)
    BY <1>1, <1>3, <1>4, <1>7, <2>1, <2>2, <2>3
  <2>4. CASE ResetInOrder(d, q, op)
    <3> DEFINE w == WithIndex(a.p, d)
    <3>1. z = CountsOne(d, w)
      BY <1>1, <1>4, <1>7, <2>1, <2>4
    <3>2. w \in OpenVPNParser
      BY <2>1, <2>4, IndexSet
    <3>3. /\ w.curPkt = <<>> /\ w.index = [q.index EXCEPT ![d] = 1] /\ w.lastOpcode = op /\ w.cnt = q.cnt
      <4>1. /\ w.curPkt = a.p.curPkt /\ w.index = [a.p.index EXCEPT ![d] = 1]
            /\ w.lastOpcode = a.p.lastOpcode /\ w.cnt = a.p.cnt
        BY <2>1, <2>4, IndexSet
      <4> HIDE DEF w
      <4> QED
        BY <2>1, <2>4, <4>1
    <3> HIDE DEF w
    <3>4. Parses(d, w) = OpenVPN!Pause(w)
      BY <3>3 DEF Parses, OpenVPN!parsePkt, OpenVPN!parsePktUDP
    <3>5. z = OpenVPN!Pause(w)
      BY <3>1, <3>4 DEF Parses, CountsOne, OpenVPN!countPacket, OpenVPN!Pause
    <3>6. z.act = "pause" /\ z.p = w
      BY <3>5 DEF OpenVPN!Pause
    <3> QED
      BY <1>1, <1>3, <1>7, <2>2, <2>4, <3>2, <3>3, <3>6
  <2> QED
    BY <2>3, <2>4
<1> QED
  BY <1>6, <1>7

-----------------------------------------------------------------------------
(* OpenVPN over UDP: what came. *)

\* One more packet.
LEMMA FedGrows ==
  ASSUME fed \in Seq(Packet(OpenVPNPackets)), NEW d \in OpenVPN!Dirs, NEW pkt \in OpenVPNPackets,
         NEW n, n = Len(fed), fed' = Append(fed, [dir |-> d, data |-> pkt])
  PROVE  /\ n \in Nat /\ fed' \in Seq(Packet(OpenVPNPackets)) /\ Len(fed') = n + 1
         /\ fed'[n + 1].dir = d /\ fed'[n + 1].data = pkt
         /\ \A i \in 1..n : fed'[i] = fed[i]
         /\ \A x : \A i \in 1..n : OpenVPN!Sent(x, i)' = OpenVPN!Sent(x, i)
         /\ \A x : OpenVPN!Sent(x, n) \subseteq 1..n
<1>1. [dir |-> d, data |-> pkt] \in Packet(OpenVPNPackets)
  BY DEF Packet, OpenVPN!Dirs
<1>2. /\ n \in Nat /\ fed' \in Seq(Packet(OpenVPNPackets)) /\ Len(fed') = n + 1
      /\ fed'[n + 1] = [dir |-> d, data |-> pkt]
      /\ \A i \in 1..n : fed'[i] = fed[i]
  BY <1>1, Appended
<1>3. fed'[n + 1].dir = d /\ fed'[n + 1].data = pkt
  BY <1>2
<1>4. \A x : \A i \in 1..n : OpenVPN!Sent(x, i)' = OpenVPN!Sent(x, i)
  BY <1>2 DEF OpenVPN!Sent
<1>5. \A x : OpenVPN!Sent(x, n) \subseteq 1..n
  BY DEF OpenVPN!Sent
<1> QED
  BY <1>2, <1>3, <1>4, <1>5

LEMMA SentGrows ==
  ASSUME fed \in Seq(Packet(OpenVPNPackets)), NEW d \in OpenVPN!Dirs, NEW pkt \in OpenVPNPackets,
         NEW n, n = Len(fed), fed' = Append(fed, [dir |-> d, data |-> pkt])
  PROVE  \A x : OpenVPN!Sent(x, n + 1)' =
                IF x = d /\ pkt # <<>> THEN OpenVPN!Sent(x, n) \cup {n + 1} ELSE OpenVPN!Sent(x, n)
<1> TAKE x
<1>1. /\ n \in Nat /\ fed'[n + 1].dir = d /\ fed'[n + 1].data = pkt
      /\ \A i \in 1..n : fed'[i] = fed[i]
  BY FedGrows
<1>2. \A j : j \in 1..(n + 1) <=> j \in 1..n \/ j = n + 1
  BY <1>1
<1>3. n + 1 \notin 1..n
  BY <1>1
<1> QED
  BY <1>1, <1>2, <1>3 DEF OpenVPN!Sent

\* Those that have no place.
Misfits == {i \in OpenVPN!Sent("req", Len(fed)) \cup OpenVPN!Sent("resp", Len(fed)) : ~OpenVPN!FitsIn(i)}

\* The next one has a place.
HasPlace(d, op) ==
  IF OpenVPN!Sent(d, Len(fed)) = {}
  THEN op \in OpenVPN!ResetOpcodes(d) /\ (d = "resp" => OpenVPN!Sent("req", Len(fed)) # {})
  ELSE op \in OpenVPN!SessionOpcodes

LEMMA MisfitsGrow ==
  ASSUME fed \in Seq(Packet(OpenVPNPackets)), NEW d \in OpenVPN!Dirs, NEW pkt \in OpenVPNPackets,
         fed' = Append(fed, [dir |-> d, data |-> pkt]), Misfits = {}
  PROVE  Misfits' = {} <=> (pkt # <<>> => HasPlace(d, OpenVPN!opcode(pkt[1])))
<1> PICK n : n = Len(fed)
  OBVIOUS
<1>1. /\ n \in Nat /\ Len(fed') = n + 1 /\ fed'[n + 1].dir = d /\ fed'[n + 1].data = pkt
      /\ \A i \in 1..n : fed'[i] = fed[i]
      /\ \A x : \A i \in 1..n : OpenVPN!Sent(x, i)' = OpenVPN!Sent(x, i)
      /\ \A x : OpenVPN!Sent(x, n) \subseteq 1..n
      /\ \A x : OpenVPN!Sent(x, n + 1)' =
                  IF x = d /\ pkt # <<>> THEN OpenVPN!Sent(x, n) \cup {n + 1} ELSE OpenVPN!Sent(x, n)
  <2>1. n \in Nat /\ Len(fed') = n + 1 /\ fed'[n + 1].dir = d /\ fed'[n + 1].data = pkt
    BY FedGrows
  <2>2. \A i \in 1..n : fed'[i] = fed[i]
    BY FedGrows
  <2>3. \A x : \A i \in 1..n : OpenVPN!Sent(x, i)' = OpenVPN!Sent(x, i)
    BY FedGrows
  <2>4. \A x : OpenVPN!Sent(x, n) \subseteq 1..n
    BY FedGrows
  <2>5. \A x : OpenVPN!Sent(x, n + 1)' =
                 IF x = d /\ pkt # <<>> THEN OpenVPN!Sent(x, n) \cup {n + 1} ELSE OpenVPN!Sent(x, n)
    BY SentGrows, Zenon
  <2> QED
    BY <2>1, <2>2, <2>3, <2>4, <2>5
<1> DEFINE op == OpenVPN!opcode(pkt[1])
           All == OpenVPN!Sent("req", n) \cup OpenVPN!Sent("resp", n)
<1>2. Misfits' = {i \in OpenVPN!Sent("req", n + 1)' \cup OpenVPN!Sent("resp", n + 1)' : ~OpenVPN!FitsIn(i)'}
  BY <1>1 DEF Misfits
<1>3. \A i \in All : OpenVPN!FitsIn(i)
  BY DEF Misfits
<1>4. \A i \in 1..n : OpenVPN!FitsIn(i)' <=> OpenVPN!FitsIn(i)
  <2> TAKE i \in 1..n
  <2>1. fed'[i] = fed[i] /\ \A x : OpenVPN!Sent(x, i)' = OpenVPN!Sent(x, i)
    BY <1>1
  <2> QED
    BY <2>1, Zenon DEF OpenVPN!FitsIn
<1>5. \A i \in All : OpenVPN!FitsIn(i)'
  BY <1>1, <1>3, <1>4
<1>6. CASE pkt = <<>>
  <2>1. OpenVPN!Sent("req", n + 1)' \cup OpenVPN!Sent("resp", n + 1)' = All
    BY <1>1, <1>6
  <2> QED
    BY <1>2, <1>5, <1>6, <2>1
<1>7. CASE pkt # <<>>
  <2>1. OpenVPN!Sent("req", n + 1)' \cup OpenVPN!Sent("resp", n + 1)' = All \cup {n + 1}
    <3>1. /\ OpenVPN!Sent("req", n + 1)' = IF d = "req" THEN OpenVPN!Sent("req", n) \cup {n + 1} ELSE OpenVPN!Sent("req", n)
          /\ OpenVPN!Sent("resp", n + 1)' = IF d = "resp" THEN OpenVPN!Sent("resp", n) \cup {n + 1} ELSE OpenVPN!Sent("resp", n)
      BY <1>1, <1>7
    <3> QED
      BY <3>1 DEF OpenVPN!Dirs
  <2>2. Misfits' = {} <=> OpenVPN!FitsIn(n + 1)'
    <3> HIDE DEF All
    <3> QED
      BY <1>2, <1>5, <2>1
  <2>3. OpenVPN!FitsIn(n + 1)' <=>
          IF OpenVPN!Sent(d, n + 1)' = {n + 1}
          THEN op \in OpenVPN!ResetOpcodes(d) /\ OpenVPN!Sent("req", n + 1)' # {}
          ELSE op \in OpenVPN!SessionOpcodes
    BY <1>1, Zenon DEF OpenVPN!FitsIn
  <2>4. OpenVPN!Sent(d, n + 1)' = {n + 1} <=> OpenVPN!Sent(d, n) = {}
    <3>1. OpenVPN!Sent(d, n + 1)' = OpenVPN!Sent(d, n) \cup {n + 1}
      BY <1>1, <1>7
    <3>2. OpenVPN!Sent(d, n) \subseteq 1..n
      BY <1>1
    <3>3. n + 1 \notin 1..n
      BY <1>1
    <3> QED
      BY <3>1, <3>2, <3>3
  <2>5. OpenVPN!Sent("req", n + 1)' # {} <=> (d = "resp" => OpenVPN!Sent("req", n) # {})
    BY <1>1, <1>7 DEF OpenVPN!Dirs
  <2>6. HasPlace(d, op) <=>
          IF OpenVPN!Sent(d, n) = {}
          THEN op \in OpenVPN!ResetOpcodes(d) /\ (d = "resp" => OpenVPN!Sent("req", n) # {})
          ELSE op \in OpenVPN!SessionOpcodes
    BY DEF HasPlace
  <2> HIDE DEF op
  <2>7. OpenVPN!FitsIn(n + 1)' <=> HasPlace(d, op)
    BY <2>3, <2>4, <2>5, <2>6
  <2> QED
    BY <1>7, <2>2, <2>7 DEF op
<1> QED
  BY <1>6, <1>7

\* Each module extends FiniteSets for itself.
LEMMA SameCardinalityOpenVPN ==
  ASSUME NEW S PROVE OpenVPN!Cardinality(S) = Cardinality(S)
BY DEF OpenVPN!Cardinality, Cardinality

LEMMA CountsGrow ==
  ASSUME fed \in Seq(Packet(OpenVPNPackets)), NEW d \in OpenVPN!Dirs, NEW pkt \in OpenVPNPackets,
         fed' = Append(fed, [dir |-> d, data |-> pkt])
  PROVE  \A x \in OpenVPN!Dirs :
           /\ OpenVPN!Count(x) \in Nat
           /\ OpenVPN!Sent(x, Len(fed)) = {} => OpenVPN!Count(x) = 0
           /\ OpenVPN!Count(x)' =
                IF x = d /\ pkt # <<>> /\ OpenVPN!Sent(x, Len(fed)) # {}
                THEN OpenVPN!Count(x) + 1 ELSE OpenVPN!Count(x)
<1> PICK n : n = Len(fed)
  OBVIOUS
<1>0. n \in Nat /\ Len(fed') = n + 1
  BY FedGrows
<1>01. \A y : OpenVPN!Sent(y, n) \subseteq 1..n
  BY FedGrows
<1>02. \A y : OpenVPN!Sent(y, n + 1)' =
                IF y = d /\ pkt # <<>> THEN OpenVPN!Sent(y, n) \cup {n + 1} ELSE OpenVPN!Sent(y, n)
  BY SentGrows, Zenon
<1> TAKE x \in OpenVPN!Dirs
<1> DEFINE S == OpenVPN!Sent(x, n)
           N(T) == IF Cardinality(T) = 0 THEN 0 ELSE Cardinality(T) - 1
<1>1. /\ n \in Nat /\ Len(fed') = n + 1
      /\ S \subseteq 1..n
      /\ OpenVPN!Sent(x, n + 1)' = IF x = d /\ pkt # <<>> THEN S \cup {n + 1} ELSE S
  BY <1>0, <1>01, <1>02
<1>2. OpenVPN!Count(x) = N(S)
  BY SameCardinalityOpenVPN, Zenon DEF OpenVPN!Count
<1>3. OpenVPN!Count(x)' = N(OpenVPN!Sent(x, n + 1)')
  BY <1>1, SameCardinalityOpenVPN, Zenon DEF OpenVPN!Count
<1> HIDE DEF S
<1>4. IsFiniteSet(S) /\ Cardinality(S) \in Nat
  <2>1. IsFiniteSet(1..n)
    BY <1>1, FS_Interval
  <2> QED
    BY <1>1, <2>1, FS_Subset, FS_CardinalityType
<1>5. Cardinality(S) = 0 <=> S = {}
  BY <1>4, FS_EmptySet
<1>6. Cardinality(S \cup {n + 1}) = Cardinality(S) + 1
  <2>1. n + 1 \notin S
    BY <1>1
  <2> QED
    BY <1>4, <2>1, FS_AddElement
<1>7. N(S) \in Nat /\ (S = {} => N(S) = 0) /\ N(S \cup {n + 1}) = IF S # {} THEN N(S) + 1 ELSE N(S)
  <2>1. S \cup {n + 1} # {}
    OBVIOUS
  <2>2. N(S \cup {n + 1}) = Cardinality(S)
    BY <1>4, <1>6
  <2> QED
    BY <1>4, <1>5, <2>2
<1> HIDE DEF N
<1>8. N(OpenVPN!Sent(x, n + 1)') = IF x = d /\ pkt # <<>> /\ S # {} THEN N(S) + 1 ELSE N(S)
  BY <1>1, <1>7
<1> QED
  BY <1>2, <1>3, <1>7, <1>8 DEF S

-----------------------------------------------------------------------------
(* OpenVPN over UDP: the counts. *)

Total == OpenVPN!Count("req") + OpenVPN!Count("resp")

\* While every packet had its place, the parser has what came of each side: how
\* many packets, whether a reset, and until the server's one whether the opcode
\* it keeps is a client's.
OpenVPNInv ==
  /\ fed \in Seq(Packet(OpenVPNPackets))
  /\ finished <=> Misfits # {} \/ Total > PktLimit
  /\ Misfits = {} =>
       /\ parser \in OpenVPNParser
       /\ \A x \in OpenVPN!Dirs : parser.cnt[x] = OpenVPN!Count(x)
       /\ \A x \in OpenVPN!Dirs : parser.index[x] = 1 <=> OpenVPN!Sent(x, Len(fed)) # {}
       /\ parser.index["resp"] # 1 =>
            (parser.lastOpcode \in OpenVPN!ResetOpcodes("req") <=> parser.index["req"] = 1)
       /\ shown = IF Total = 0 THEN <<>>
                  ELSE [rx_pkt_cnt |-> OpenVPN!Count("resp"), tx_pkt_cnt |-> OpenVPN!Count("req")]

LEMMA OpenVPNInit == ASSUME DatagramAssumption, OpenVPN!Stream!Init PROVE OpenVPNInv
<1>1. fed = <<>> /\ shown = <<>> /\ finished = FALSE /\ parser = OpenVPN!newOpenVPNStream
  BY DEF OpenVPN!Stream!Init, OpenVPN!Stream!Nothing
<1>2. Len(fed) = 0 /\ fed \in Seq(Packet(OpenVPNPackets)) /\ \A x : OpenVPN!Sent(x, Len(fed)) = {}
  BY <1>1 DEF OpenVPN!Sent
<1>3. Misfits = {}
  BY <1>2 DEF Misfits
<1>4. \A x : OpenVPN!Count(x) = 0
  <2>1. Cardinality({}) = 0
    BY FS_EmptySet
  <2> QED
    BY <1>2, <2>1, SameCardinalityOpenVPN, Zenon DEF OpenVPN!Count
<1>5. Total = 0 /\ PktLimit \in Nat
  BY <1>4 DEF Total, DatagramAssumption, OpenVPN!OpenVPNAssumption
<1>6. parser \in OpenVPNParser
  BY <1>1 DEF OpenVPN!newOpenVPNStream, OpenVPNParser
<1>7. /\ \A x \in OpenVPN!Dirs : parser.cnt[x] = 0 /\ parser.index[x] = 0
      /\ parser.lastOpcode \notin OpenVPN!ResetOpcodes("req")
  BY <1>1 DEF OpenVPN!newOpenVPNStream, OpenVPN!ResetOpcodes
<1>8. "req" \in OpenVPN!Dirs
  BY DEF OpenVPN!Dirs
<1> QED
  BY <1>1, <1>2, <1>3, <1>4, <1>5, <1>6, <1>7, <1>8 DEF OpenVPNInv

LEMMA OpenVPNStep == ASSUME DatagramAssumption, OpenVPNInv, OpenVPN!Stream!Next PROVE OpenVPNInv'
<1>1. PICK d \in OpenVPN!Dirs, pkt \in OpenVPNPackets : OpenVPN!Stream!Feed(d, pkt)
  BY DEF OpenVPN!Stream!Next, OpenVPN!Stream!Dirs, OpenVPN!PacketsOf, OpenVPN!Dirs
<1> DEFINE r == OpenVPN!FeedUDP(d, parser, pkt)
           op == OpenVPN!opcode(pkt[1])
           p == parser
<1>2. /\ ~finished
      /\ fed' = Append(fed, [dir |-> d, data |-> pkt])
      /\ parser' = r.p
      /\ finished' = r.done
      /\ shown' = IF r.updated THEN [rx_pkt_cnt |-> r.p.cnt["resp"], tx_pkt_cnt |-> r.p.cnt["req"]]
                  ELSE shown
  <2> HIDE DEF r
  <2>1. OpenVPN!FeedPacket(d, parser, pkt) =
          [p      |-> r.p,
           update |-> IF r.updated
                      THEN [type |-> "replace",
                            m |-> [rx_pkt_cnt |-> r.p.cnt["resp"], tx_pkt_cnt |-> r.p.cnt["req"]]]
                      ELSE [type |-> "none", m |-> <<>>],
           done   |-> r.done]
    BY DEF OpenVPN!FeedPacket, r
  <2> QED
    BY <1>1, <2>1 DEF OpenVPN!Stream!Feed
<1>3. PktLimit \in Nat /\ pkt \in Seq(0..255)
  BY DEF DatagramAssumption, OpenVPN!OpenVPNAssumption
<1>4. /\ Misfits = {} /\ Total <= PktLimit /\ fed \in Seq(Packet(OpenVPNPackets))
      /\ fed' \in Seq(Packet(OpenVPNPackets)) /\ Len(fed) \in Nat /\ Len(fed') = Len(fed) + 1
  <2>1. Misfits = {} /\ ~(Total > PktLimit) /\ fed \in Seq(Packet(OpenVPNPackets))
    BY <1>2 DEF OpenVPNInv
  <2>2. Total \in Nat
    BY <1>2, <2>1, CountsGrow DEF Total, OpenVPN!Dirs
  <2> QED
    BY <1>2, <1>3, <2>1, <2>2, FedGrows
<1>5. /\ p \in OpenVPNParser
      /\ \A x \in OpenVPN!Dirs : p.cnt[x] = OpenVPN!Count(x)
      /\ \A x \in OpenVPN!Dirs : p.index[x] = 1 <=> OpenVPN!Sent(x, Len(fed)) # {}
      /\ p.index["resp"] # 1 =>
           (p.lastOpcode \in OpenVPN!ResetOpcodes("req") <=> p.index["req"] = 1)
      /\ shown = IF Total = 0 THEN <<>>
                 ELSE [rx_pkt_cnt |-> OpenVPN!Count("resp"), tx_pkt_cnt |-> OpenVPN!Count("req")]
  BY <1>4 DEF OpenVPNInv
<1>6. \A x \in OpenVPN!Dirs :
        /\ OpenVPN!Count(x) \in Nat
        /\ OpenVPN!Sent(x, Len(fed)) = {} => OpenVPN!Count(x) = 0
        /\ OpenVPN!Count(x)' =
             IF x = d /\ pkt # <<>> /\ OpenVPN!Sent(x, Len(fed)) # {}
             THEN OpenVPN!Count(x) + 1 ELSE OpenVPN!Count(x)
  BY <1>2, <1>4, CountsGrow
<1>7. \A x : OpenVPN!Sent(x, Len(fed))' # {} <=> (x = d /\ pkt # <<>>) \/ OpenVPN!Sent(x, Len(fed)) # {}
  <2> PICK n : n = Len(fed)
    OBVIOUS
  <2>1. \A x : OpenVPN!Sent(x, n + 1)' =
                 IF x = d /\ pkt # <<>> THEN OpenVPN!Sent(x, n) \cup {n + 1} ELSE OpenVPN!Sent(x, n)
    <3>1. fed \in Seq(Packet(OpenVPNPackets)) /\ fed' = Append(fed, [dir |-> d, data |-> pkt])
      BY <1>2, <1>4
    <3> HIDE DEF op, r
    <3> QED
      BY <3>1, SentGrows, Zenon
  <2>2. \A x : OpenVPN!Sent(x, Len(fed))' = OpenVPN!Sent(x, n + 1)'
    BY <1>4
  <2> QED
    BY <2>1, <2>2
<1>8. Misfits' = {} <=> (pkt # <<>> => HasPlace(d, op))
  BY <1>2, <1>4, MisfitsGrow
<1>9. "req" \in OpenVPN!Dirs /\ "resp" \in OpenVPN!Dirs
  BY DEF OpenVPN!Dirs
<1>10. Total' = OpenVPN!Count("req")' + OpenVPN!Count("resp")' /\ Total = OpenVPN!Count("req") + OpenVPN!Count("resp")
  BY DEF Total
<1> HIDE DEF op
<1>11. CASE pkt = <<>>
  <2>1. r = OpenVPN!Unfed(p)
    BY <1>11 DEF OpenVPN!FeedUDP
  <2> HIDE DEF r
  <2>2. r.p = p /\ r.updated = FALSE /\ r.done = FALSE
    BY <2>1 DEF OpenVPN!Unfed
  <2>3. parser' = p /\ shown' = shown /\ finished' = FALSE
    BY <1>2, <2>2
  <2>4. /\ Misfits' = {} /\ Total' = Total
        /\ \A x \in OpenVPN!Dirs : OpenVPN!Count(x)' = OpenVPN!Count(x)
        /\ \A x : OpenVPN!Sent(x, Len(fed))' # {} <=> OpenVPN!Sent(x, Len(fed)) # {}
    BY <1>6, <1>7, <1>8, <1>9, <1>10, <1>11
  <2> QED
    BY <1>3, <1>4, <1>5, <1>6, <1>9, <1>10, <2>3, <2>4 DEF OpenVPNInv
<1>12. CASE pkt # <<>>
  <2>1. /\ ~Takes(d, p, op) => r.done
        /\ Takes(d, p, op) =>
              /\ r.p \in OpenVPNParser /\ r.p.index = [p.index EXCEPT ![d] = 1]
              /\ r.p.cnt = IF p.index[d] = 1 THEN [p.cnt EXCEPT ![d] = @ + 1] ELSE p.cnt
              /\ r.p.lastOpcode = IF p.index[d] = 1 THEN p.lastOpcode ELSE op
              /\ r.updated <=> p.index[d] = 1
              /\ r.done <=> r.p.cnt["req"] + r.p.cnt["resp"] > PktLimit
    BY <1>3, <1>5, <1>12, OpenVPNFeeds DEF op
  <2> HIDE DEF r
  <2>2. Takes(d, p, op) <=> HasPlace(d, op)
    BY <1>5, <1>9 DEF Takes, ResetInOrder, HasPlace, OpenVPN!Dirs
  <2>3. Misfits' = {} <=> Takes(d, p, op)
    BY <1>8, <1>12, <2>2
  <2>4. CASE ~Takes(d, p, op)
    BY <1>2, <1>4, <2>1, <2>3, <2>4 DEF OpenVPNInv
  <2>5. CASE Takes(d, p, op)
    <3>1. /\ parser' \in OpenVPNParser /\ parser'.index = [p.index EXCEPT ![d] = 1]
          /\ parser'.cnt = IF p.index[d] = 1 THEN [p.cnt EXCEPT ![d] = @ + 1] ELSE p.cnt
          /\ parser'.lastOpcode = IF p.index[d] = 1 THEN p.lastOpcode ELSE op
          /\ finished' <=> parser'.cnt["req"] + parser'.cnt["resp"] > PktLimit
          /\ shown' = IF p.index[d] = 1
                      THEN [rx_pkt_cnt |-> parser'.cnt["resp"], tx_pkt_cnt |-> parser'.cnt["req"]]
                      ELSE shown
      BY <1>2, <2>1, <2>5
    <3>2. p.cnt \in [OpenVPN!Dirs -> Nat] /\ p.index \in [OpenVPN!Dirs -> 0..1]
      BY <1>5 DEF OpenVPNParser
    <3>3. \A x \in OpenVPN!Dirs : parser'.cnt[x] = OpenVPN!Count(x)'
      <4> TAKE x \in OpenVPN!Dirs
      <4>1. parser'.cnt[x] = p.cnt[x] + IF x = d /\ p.index[d] = 1 THEN 1 ELSE 0
        BY <3>1, <3>2
      <4>2. OpenVPN!Count(x)' = p.cnt[x] + IF x = d /\ p.index[d] = 1 THEN 1 ELSE 0
        BY <1>5, <1>6, <1>12
      <4> QED
        BY <4>1, <4>2
    <3>4. \A x \in OpenVPN!Dirs : parser'.index[x] = 1 <=> OpenVPN!Sent(x, Len(fed))' # {}
      <4> TAKE x \in OpenVPN!Dirs
      <4>1. parser'.index[x] = IF x = d THEN 1 ELSE p.index[x]
        BY <3>1, <3>2
      <4>2. OpenVPN!Sent(x, Len(fed))' # {} <=> x = d \/ p.index[x] = 1
        BY <1>5, <1>7, <1>12
      <4> QED
        BY <4>1, <4>2
    <3>5. parser'.index["resp"] # 1 =>
            (parser'.lastOpcode \in OpenVPN!ResetOpcodes("req") <=> parser'.index["req"] = 1)
      <4> SUFFICES ASSUME parser'.index["resp"] # 1
                   PROVE  parser'.lastOpcode \in OpenVPN!ResetOpcodes("req") <=> parser'.index["req"] = 1
        OBVIOUS
      <4>1. d = "req" /\ p.index["resp"] # 1 /\ parser'.index["req"] = 1
        BY <1>9, <3>1, <3>2 DEF OpenVPN!Dirs
      <4>2. CASE p.index["req"] = 1
        BY <1>5, <3>1, <4>1, <4>2
      <4>3. CASE p.index["req"] # 1
        <5>1. op \in OpenVPN!ResetOpcodes("req")
          BY <2>5, <4>1, <4>3 DEF Takes, ResetInOrder
        <5> QED
          BY <3>1, <4>1, <4>3, <5>1
      <4> QED
        BY <4>2, <4>3
    <3>6. finished' <=> Total' > PktLimit
      BY <1>9, <1>10, <3>1, <3>3
    <3>7. shown' = IF Total' = 0 THEN <<>>
                   ELSE [rx_pkt_cnt |-> OpenVPN!Count("resp")', tx_pkt_cnt |-> OpenVPN!Count("req")']
      <4>1. CASE p.index[d] = 1
        <5>1. OpenVPN!Count(d)' = OpenVPN!Count(d) + 1
          BY <1>5, <1>6, <1>12, <4>1
        <5>2. Total' # 0
          BY <1>6, <1>9, <1>10, <5>1 DEF OpenVPN!Dirs
        <5> QED
          BY <1>9, <3>1, <3>3, <4>1, <5>2
      <4>2. CASE p.index[d] # 1
        <5>1. \A x \in OpenVPN!Dirs : OpenVPN!Count(x)' = OpenVPN!Count(x)
          BY <1>5, <1>6, <4>2
        <5> QED
          BY <1>5, <1>9, <1>10, <3>1, <4>2, <5>1
      <4> QED
        BY <4>1, <4>2
    <3> QED
      BY <1>4, <2>3, <2>5, <3>1, <3>3, <3>4, <3>5, <3>6, <3>7 DEF OpenVPNInv
  <2> QED
    BY <2>4, <2>5
<1> QED
  BY <1>11, <1>12

LEMMA OpenVPNCorrect == ASSUME OpenVPNInv PROVE OpenVPN!CountsWhatFitsIn
<1> DEFINE all == OpenVPN!Sent("req", Len(fed)) \cup OpenVPN!Sent("resp", Len(fed))
<1>1. (\E i \in all : ~OpenVPN!FitsIn(i)) <=> Misfits # {}
  BY DEF Misfits
<1>2. /\ finished <=> Misfits # {} \/ Total > PktLimit
      /\ Misfits = {} =>
           shown = IF Total = 0 THEN <<>>
                   ELSE [rx_pkt_cnt |-> OpenVPN!Count("resp"), tx_pkt_cnt |-> OpenVPN!Count("req")]
  BY DEF OpenVPNInv
<1> HIDE DEF all
<1> QED
  BY <1>1, <1>2, Zenon DEF OpenVPN!CountsWhatFitsIn, Total, all

-----------------------------------------------------------------------------
(* WireGuard: the ring of indexes. *)

\* Announcements from a on.
Since(A, a) == Cardinality({k \in A : k >= a})

\* What stands j places after the position.
Slot(p, j) == p.ring[(p.at + j) % RememberedIndexCount]

\* The places after the position have the announcements of A from the last one
\* back, as many as fit in, and nothing was written behind them.
RingInv(p, A, entry) ==
  /\ p.at \in WireGuard!Slots /\ DOMAIN p.ring = WireGuard!Slots
  /\ \A a \in A : Since(A, a) <= RememberedIndexCount => Slot(p, Since(A, a)) = entry[a]
  /\ \A j \in 1..RememberedIndexCount :
       Slot(p, j) # WireGuard!Empty => \E a \in A : Since(A, a) = j
  /\ \A j \in 1..RememberedIndexCount : \A i \in 1..j :
       Slot(p, j) # WireGuard!Empty => Slot(p, i) # WireGuard!Empty

Entries == [index : Nat, dir : {"req", "resp"}]

LEMMA EntriesNotEmpty == ASSUME NEW e \in Entries PROVE e # WireGuard!Empty
BY DEF Entries, WireGuard!Empty

\* Places in a ring.
LEMMA Around ==
  ASSUME NEW R \in Nat \ {0}, NEW at \in 0..(R - 1)
  PROVE  /\ (at - 1) % R \in 0..(R - 1)
         /\ (((at - 1) % R) + 1) % R = at
         /\ \A j \in 1..R : (at + j) % R \in 0..(R - 1)
         /\ \A j \in 1..(R - 1) : /\ (at + j) % R # at
                                  /\ (((at - 1) % R) + (j + 1)) % R = (at + j) % R
<1>1. (at - 1) % R = IF at = 0 THEN R - 1 ELSE at - 1
  OBVIOUS
<1>2. \A x \in 0..(R - 1) : x % R = x
  OBVIOUS
<1>3. \A x \in R..(2 * R - 1) : x % R = x - R
  OBVIOUS
<1>4. (((at - 1) % R) + 1) % R = at
  <2>1. CASE at = 0
    <3>1. ((at - 1) % R) + 1 = R /\ R \in R..(2 * R - 1) /\ R - R = 0
      BY <1>1, <2>1
    <3> QED
      BY <1>3, <2>1, <3>1
  <2>2. CASE at # 0
    <3>1. ((at - 1) % R) + 1 = at
      BY <1>1, <2>2
    <3> QED
      BY <1>2, <3>1
  <2> QED
    BY <2>1, <2>2
<1>5. ASSUME NEW j \in 1..R
      PROVE  (at + j) % R = (IF at + j < R THEN at + j ELSE at + j - R) /\ (at + j) % R \in 0..(R - 1)
  <2>1. CASE at + j < R
    <3>1. at + j \in 0..(R - 1)
      BY <2>1
    <3> QED
      BY <1>2, <2>1, <3>1
  <2>2. CASE ~(at + j < R)
    <3>1. at + j \in R..(2 * R - 1) /\ at + j - R \in 0..(R - 1)
      BY <2>2
    <3> QED
      BY <1>3, <2>2, <3>1
  <2> QED
    BY <2>1, <2>2
<1>6. ASSUME NEW j \in 1..(R - 1)
      PROVE  (at + j) % R # at /\ (((at - 1) % R) + (j + 1)) % R = (at + j) % R
  <2>1. (at + j) % R = IF at + j < R THEN at + j ELSE at + j - R
    BY <1>5
  <2>2. CASE at = 0
    <3>1. ((at - 1) % R) + (j + 1) = R + j
      BY <1>1, <2>2
    <3>2. R + j \in R..(2 * R - 1) /\ (R + j) - R = j
      OBVIOUS
    <3> QED
      BY <1>3, <2>1, <2>2, <3>1, <3>2
  <2>3. CASE at # 0
    <3>1. ((at - 1) % R) + (j + 1) = at + j
      BY <1>1, <2>3
    <3> QED
      BY <2>1, <3>1
  <2> QED
    BY <2>2, <2>3
<1> QED
  BY <1>1, <1>4, <1>5, <1>6

\* How many announcements there are since another one, with one more.
LEMMA SinceGrows ==
  ASSUME NEW n \in Nat, NEW A, A \subseteq 1..n
  PROVE  /\ Since(A \cup {n + 1}, n + 1) = 1
         /\ \A a \in A : /\ Since(A, a) \in Nat \ {0}
                         /\ Since(A \cup {n + 1}, a) = Since(A, a) + 1
<1>1. {k \in A \cup {n + 1} : k >= n + 1} = {n + 1}
  <2>1. \A k \in A : ~(k >= n + 1)
    OBVIOUS
  <2>2. n + 1 >= n + 1
    OBVIOUS
  <2> QED
    BY <2>1, <2>2, Zenon
<1>2. Cardinality({n + 1}) = 1
  BY FS_Singleton
<1>3. ASSUME NEW a \in A
      PROVE  Since(A, a) \in Nat \ {0} /\ Since(A \cup {n + 1}, a) = Since(A, a) + 1
  <2> DEFINE S == {k \in A : k >= a}
  <2>1. IsFiniteSet(S)
    <3>1. IsFiniteSet(1..n)
      BY FS_Interval
    <3>2. S \subseteq 1..n
      OBVIOUS
    <3> QED
      BY <3>1, <3>2, FS_Subset
  <2>2. n + 1 \notin S /\ a \in S
    OBVIOUS
  <2>3. {k \in A \cup {n + 1} : k >= a} = S \cup {n + 1}
    OBVIOUS
  <2>4. Cardinality(S \cup {n + 1}) = Cardinality(S) + 1
    BY <2>1, <2>2, FS_AddElement
  <2>5. Cardinality(S) \in Nat /\ Cardinality(S) # 0
    BY <2>1, <2>2, FS_CardinalityType, FS_EmptySet
  <2> QED
    BY <2>3, <2>4, <2>5 DEF Since
<1> QED
  BY <1>1, <1>2, <1>3 DEF Since

\* putSenderIndex writes to the ring what is announced.
LEMMA PutKeepsRing ==
  ASSUME RememberedIndexCount \in Nat \ {0}, NEW p, NEW n \in Nat, NEW A, A \subseteq 1..n,
         NEW entry, RingInv(p, A, entry), NEW d, NEW index,
         p = [invalidCount |-> p.invalidCount, ring |-> p.ring, at |-> p.at],
         NEW now, now[n + 1] = [index |-> index, dir |-> d], now[n + 1] \in Entries,
         \A a \in A : now[a] = entry[a]
  PROVE  RingInv(WireGuard!putSenderIndex(p, d, index), A \cup {n + 1}, now)
<1> DEFINE q == WireGuard!putSenderIndex(p, d, index)
           B == A \cup {n + 1}
           R == RememberedIndexCount
<1>1. /\ p.at \in 0..(R - 1) /\ DOMAIN p.ring = 0..(R - 1)
      /\ q.at = (p.at - 1) % R
      /\ q.ring = [p.ring EXCEPT ![p.at] = [index |-> index, dir |-> d]]
  BY DEF RingInv, WireGuard!Slots, WireGuard!putSenderIndex
<1> HIDE DEF q
<1>2. /\ q.at \in 0..(R - 1) /\ DOMAIN q.ring = 0..(R - 1)
      /\ Slot(q, 1) = now[n + 1]
  BY <1>1, Around DEF Slot
<1>3. ASSUME NEW j \in 1..(R - 1) PROVE Slot(q, j + 1) = Slot(p, j)
  <2>1. /\ (q.at + (j + 1)) % R = (p.at + j) % R
        /\ (p.at + j) % R # p.at /\ (p.at + j) % R \in 0..(R - 1)
    <3>1. j \in 1..R
      OBVIOUS
    <3> QED
      BY <1>1, <3>1, Around
  <2> QED
    BY <1>1, <2>1 DEF Slot
<1>4. /\ Since(B, n + 1) = 1
      /\ \A a \in A : Since(A, a) \in Nat \ {0} /\ Since(B, a) = Since(A, a) + 1
  BY SinceGrows
<1>5. now[n + 1] # WireGuard!Empty
  BY EntriesNotEmpty
<1>6. ASSUME NEW a \in B, Since(B, a) <= R PROVE Slot(q, Since(B, a)) = now[a]
  <2>1. CASE a = n + 1
    BY <1>2, <1>4, <2>1
  <2>2. CASE a \in A
    <3>1. Since(A, a) \in 1..(R - 1) /\ Since(B, a) = Since(A, a) + 1
      <4>1. Since(A, a) \in Nat \ {0} /\ Since(B, a) = Since(A, a) + 1
        BY <1>4, <2>2
      <4> HIDE DEF B
      <4> QED
        BY <1>6, <4>1
    <3>2. Slot(p, Since(A, a)) = entry[a]
      BY <2>2, <3>1 DEF RingInv
    <3> QED
      BY <1>3, <2>2, <3>1, <3>2
  <2> QED
    BY <2>1, <2>2
<1>7. ASSUME NEW j \in 1..R, Slot(q, j) # WireGuard!Empty PROVE \E a \in B : Since(B, a) = j
  <2>1. CASE j = 1
    BY <1>4, <2>1
  <2>2. CASE j # 1
    <3>1. j - 1 \in 1..(R - 1) /\ (j - 1) + 1 = j
      BY <2>2
    <3>2. Slot(p, j - 1) # WireGuard!Empty
      BY <1>3, <1>7, <3>1
    <3>3. PICK a \in A : Since(A, a) = j - 1
      BY <3>1, <3>2 DEF RingInv
    <3> QED
      BY <1>4, <3>1, <3>3
  <2> QED
    BY <2>1, <2>2
<1>8. ASSUME NEW j \in 1..R, NEW i \in 1..j, Slot(q, j) # WireGuard!Empty
      PROVE  Slot(q, i) # WireGuard!Empty
  <2>1. CASE i = 1
    BY <1>2, <1>5, <2>1
  <2>2. CASE i # 1
    <3>1. /\ j - 1 \in 1..(R - 1) /\ (j - 1) + 1 = j
          /\ i - 1 \in 1..(R - 1) /\ (i - 1) + 1 = i /\ i - 1 \in 1..(j - 1)
      BY <2>2
    <3>2. Slot(q, j) = Slot(p, j - 1) /\ Slot(q, i) = Slot(p, i - 1)
      BY <1>3, <3>1
    <3> QED
      BY <1>8, <3>1, <3>2 DEF RingInv
  <2> QED
    BY <2>1, <2>2
<1> QED
  BY <1>2, <1>6, <1>7, <1>8, Zenon DEF RingInv, WireGuard!Slots, q

\* matchReceiverIndex finds what the other side has announced lately.
LEMMA MatchFinds ==
  ASSUME RememberedIndexCount \in Nat \ {0}, NEW p, NEW A, NEW entry, RingInv(p, A, entry),
         \A a \in A : entry[a] \in Entries /\ Since(A, a) \in Nat \ {0}, NEW d, NEW index
  PROVE  WireGuard!matchReceiverIndex(p, d, index) <=>
           \E a \in A : /\ entry[a].dir # d /\ entry[a].index = index
                        /\ Since(A, a) < RememberedIndexCount
<1> DEFINE R == RememberedIndexCount
<1>1. WireGuard!matchReceiverIndex(p, d, index) <=>
        \E i \in 1..(R - 1) : /\ \A j \in 1..i : Slot(p, j) # WireGuard!Empty
                              /\ Slot(p, i).index = index /\ Slot(p, i).dir # d
  BY DEF WireGuard!matchReceiverIndex, Slot
<1>2. \A a \in A : Since(A, a) \in Nat \ {0}
  OBVIOUS
<1>3. ASSUME NEW i \in 1..(R - 1), \A j \in 1..i : Slot(p, j) # WireGuard!Empty
      PROVE  \E a \in A : Since(A, a) = i /\ Slot(p, i) = entry[a]
  <2>1. i \in 1..R /\ i \in 1..i /\ i <= R
    OBVIOUS
  <2>2. PICK a \in A : Since(A, a) = i
    BY <1>3, <2>1 DEF RingInv
  <2> QED
    BY <2>1, <2>2 DEF RingInv
<1>4. ASSUME NEW a \in A, Since(A, a) < R
      PROVE  /\ Since(A, a) \in 1..(R - 1)
             /\ Slot(p, Since(A, a)) = entry[a]
             /\ \A j \in 1..Since(A, a) : Slot(p, j) # WireGuard!Empty
  <2>1. Since(A, a) \in 1..(R - 1) /\ Since(A, a) \in 1..R /\ Since(A, a) <= R
    BY <1>2, <1>4
  <2>2. Slot(p, Since(A, a)) = entry[a]
    BY <2>1 DEF RingInv
  <2>3. Slot(p, Since(A, a)) # WireGuard!Empty
    BY <2>2, EntriesNotEmpty
  <2> QED
    BY <2>1, <2>2, <2>3 DEF RingInv
<1>5. ASSUME NEW i \in 1..(R - 1), \A j \in 1..i : Slot(p, j) # WireGuard!Empty,
             Slot(p, i).index = index, Slot(p, i).dir # d
      PROVE  \E a \in A : entry[a].dir # d /\ entry[a].index = index /\ Since(A, a) < R
  <2>1. PICK a \in A : Since(A, a) = i /\ Slot(p, i) = entry[a]
    BY <1>3, <1>5
  <2>2. i < R
    OBVIOUS
  <2> QED
    BY <1>5, <2>1, <2>2
<1>6. ASSUME NEW a \in A, entry[a].dir # d, entry[a].index = index, Since(A, a) < R
      PROVE  \E i \in 1..(R - 1) : /\ \A j \in 1..i : Slot(p, j) # WireGuard!Empty
                                   /\ Slot(p, i).index = index /\ Slot(p, i).dir # d
  BY <1>4, <1>6
<1> QED
  BY <1>1, <1>5, <1>6

-----------------------------------------------------------------------------
(* WireGuard: what is known of the session. *)

Heard  == {i \in 1..Len(fed) : WireGuard!Good(i)}
Noise  == {i \in 1..Len(fed) : ~WireGuard!Good(i)}
Starts == {i \in Heard : fed[i].data.kind = "handshake_initiation"}

\* The messages since the last initiation.
Session == {i \in Heard : \A s \in Starts : s <= i}

\* Those that announce an index.
Announcers == {i \in Heard : fed[i].data.kind \in WireGuard!Announcements}

\* What the ring keeps of each packet that announces an index.
Announced == [i \in 1..Len(fed) |-> [index |-> fed[i].data.sender, dir |-> fed[i].dir]]

\* The rules know of i's kind what i says.
Told(i) ==
  LET k == fed[i].data.kind
  IN  /\ k # "handshake_initiation" =>
           /\ shown[k].receiver_index = fed[i].data.receiver
           /\ shown[k].receiver_index_matched = WireGuard!LatelyAnnounced(i)
      /\ k \in WireGuard!Announcements => shown[k].sender_index = fed[i].data.sender

\* The packets of a row that were no messages are counted, the ring has the
\* indexes announced last, and the rules know the last message, and the last of
\* each kind in the session.
WireGuardInv ==
  /\ fed \in Seq(Packet(WireGuardPackets))
  /\ parser = [invalidCount |-> parser.invalidCount, ring |-> parser.ring, at |-> parser.at]
  /\ Streak(Noise, Len(fed), parser.invalidCount)
  /\ finished <=> parser.invalidCount >= InvalidThreshold
  /\ RingInv(parser, Announcers, Announced)
  /\ DOMAIN shown = {fed[i].data.kind : i \in Session}
                       \cup (IF Heard = {} THEN {} ELSE {"message_type"})
  /\ \A i \in Heard : (\A j \in Heard : j <= i) => shown.message_type = fed[i].data.kind
  /\ \A i \in Session :
       (\A j \in Session : fed[j].data.kind = fed[i].data.kind => j <= i) => Told(i)

LEMMA KindsOfGood ==
  ASSUME NEW kind, NEW size, WireGuard!goodSize(kind, size)
  PROVE  kind \in WireGuard!Kinds /\ kind # "message_type"
BY DEF WireGuard!goodSize, WireGuard!Kinds

LEMMA WireGuardInit == ASSUME DatagramAssumption, WireGuard!Stream!Init PROVE WireGuardInv
<1>1. /\ fed = <<>> /\ shown = <<>> /\ finished = FALSE
      /\ parser = [invalidCount |-> 0, ring |-> [i \in WireGuard!Slots |-> WireGuard!Empty], at |-> 0]
  BY DEF WireGuard!Stream!Init, WireGuard!Stream!Nothing, WireGuard!newWireGuardUDPStream
<1>2. RememberedIndexCount \in Nat \ {0} /\ InvalidThreshold \in Nat \ {0}
  BY DEF DatagramAssumption, WireGuard!WireGuardAssumption
<1>3. /\ Len(fed) = 0 /\ Heard = {} /\ Noise = {} /\ Session = {} /\ Announcers = {}
      /\ fed \in Seq(Packet(WireGuardPackets)) /\ DOMAIN shown = {}
  BY <1>1 DEF Heard, Noise, Session, Announcers
<1>4. Streak(Noise, Len(fed), parser.invalidCount)
  BY <1>1, <1>3 DEF Streak
<1>5. RingInv(parser, {}, Announced)
  <2>1. 0 \in WireGuard!Slots
    BY <1>2 DEF WireGuard!Slots
  <2>2. \A j \in 1..RememberedIndexCount : Slot(parser, j) = WireGuard!Empty
    <3> TAKE j \in 1..RememberedIndexCount
    <3>1. (0 + j) % RememberedIndexCount \in WireGuard!Slots
      BY <1>2, Around DEF WireGuard!Slots
    <3> QED
      BY <1>1, <3>1 DEF Slot
  <2> QED
    BY <1>1, <1>2, <2>1, <2>2 DEF RingInv
<1>6. DOMAIN shown = {fed[i].data.kind : i \in Session}
                        \cup (IF Heard = {} THEN {} ELSE {"message_type"})
  BY <1>3
<1>7. finished <=> parser.invalidCount >= InvalidThreshold
  BY <1>1, <1>2
<1>8. parser = [invalidCount |-> parser.invalidCount, ring |-> parser.ring, at |-> parser.at]
  BY <1>1
<1> QED
  BY <1>3, <1>4, <1>5, <1>6, <1>7, <1>8 DEF WireGuardInv

\* What was fed before stays as it is.
LEMMA PastStays ==
  ASSUME fed \in Seq(Packet(WireGuardPackets)), NEW n, n = Len(fed),
         NEW e \in Packet(WireGuardPackets), fed' = Append(fed, e)
  PROVE  /\ fed' \in Seq(Packet(WireGuardPackets)) /\ n \in Nat /\ Len(fed') = n + 1
         /\ fed'[n + 1] = e
         /\ \A i \in 1..n :
              /\ fed'[i] = fed[i]
              /\ WireGuard!Good(i)' <=> WireGuard!Good(i)
              /\ WireGuard!Announcing(i)' = WireGuard!Announcing(i)
              /\ WireGuard!LatelyAnnounced(i)' = WireGuard!LatelyAnnounced(i)
<1>1. /\ fed' \in Seq(Packet(WireGuardPackets)) /\ n \in Nat /\ Len(fed') = n + 1
      /\ fed'[n + 1] = e
      /\ \A i \in 1..n : fed'[i] = fed[i]
  BY Appended
<1>2. \A i \in 1..n : /\ WireGuard!Good(i)' <=> WireGuard!Good(i)
                      /\ WireGuard!Pkt(i)' = WireGuard!Pkt(i)
  BY <1>1 DEF WireGuard!Good, WireGuard!Pkt
<1>3. ASSUME NEW i \in 0..n PROVE WireGuard!Announcing(i)' = WireGuard!Announcing(i)
  <2>1. ASSUME NEW j \in 1..i
        PROVE  /\ WireGuard!Good(j)' <=> WireGuard!Good(j)
               /\ WireGuard!Pkt(j)' = WireGuard!Pkt(j)
    <3>1. j \in 1..n
      BY <1>1
    <3> QED
      BY <1>2, <3>1
  <2> QED
    BY <2>1, Zenon DEF WireGuard!Announcing
<1>4. ASSUME NEW i \in 1..n PROVE WireGuard!LatelyAnnounced(i)' = WireGuard!LatelyAnnounced(i)
  <2>1. i \in 0..n /\ \A j \in 1..i : j \in 1..n
    BY <1>1
  <2>2. WireGuard!Announcing(i)' = WireGuard!Announcing(i)
    BY <1>3, <2>1
  <2>3. \A j \in WireGuard!Announcing(i) : j \in 1..n
    BY <2>1 DEF WireGuard!Announcing
  <2>4. \A j \in WireGuard!Announcing(i) : /\ fed'[j] = fed[j]
                                            /\ WireGuard!Pkt(j)' = WireGuard!Pkt(j)
    BY <1>1, <1>2, <2>3
  <2>5. fed'[i] = fed[i] /\ WireGuard!Pkt(i)' = WireGuard!Pkt(i)
    BY <1>1, <1>2
  <2>6. WireGuard!LatelyAnnounced(i)' <=> WireGuard!LatelyAnnounced(i)
    BY <2>2, <2>4, <2>5, Zenon DEF WireGuard!LatelyAnnounced
  <2> QED
    BY <2>6, Zenon DEF WireGuard!LatelyAnnounced
<1>5. ASSUME NEW i \in 1..n
      PROVE  /\ fed'[i] = fed[i]
             /\ WireGuard!Good(i)' <=> WireGuard!Good(i)
             /\ WireGuard!Announcing(i)' = WireGuard!Announcing(i)
             /\ WireGuard!LatelyAnnounced(i)' = WireGuard!LatelyAnnounced(i)
  <2>1. i \in 0..n
    OBVIOUS
  <2>2. WireGuard!Announcing(i)' = WireGuard!Announcing(i)
    BY <1>3, <2>1
  <2>3. WireGuard!LatelyAnnounced(i)' = WireGuard!LatelyAnnounced(i)
    BY <1>4
  <2> QED
    BY <1>1, <1>2, <2>2, <2>3
<1> QED
  BY <1>1, <1>5

\* A message of the protocol.
Fits(pkt) == WireGuard!goodSize(pkt.kind, pkt.size)

\* The sets of messages, with one packet more.
LEMMA OneMore ==
  ASSUME DatagramAssumption, fed \in Seq(Packet(WireGuardPackets)), NEW n, n = Len(fed),
         NEW d \in {"req", "resp"}, NEW pkt \in WireGuardPackets,
         fed' = Append(fed, [dir |-> d, data |-> pkt])
  PROVE  /\ n \in Nat /\ Len(fed') = n + 1 /\ Heard \subseteq 1..n /\ Announcers \subseteq 1..n
         /\ n + 1 \in Noise' <=> ~Fits(pkt)
         /\ Noise' \cap (1..n) = Noise \cap (1..n)
         /\ Heard' = IF Fits(pkt) THEN Heard \cup {n + 1} ELSE Heard
         /\ Starts' = IF Fits(pkt) /\ pkt.kind = "handshake_initiation" THEN Starts \cup {n + 1} ELSE Starts
         /\ Announcers' = IF Fits(pkt) /\ pkt.kind \in WireGuard!Announcements
                          THEN Announcers \cup {n + 1} ELSE Announcers
         /\ Announced'[n + 1] = [index |-> pkt.sender, dir |-> d] /\ Announced'[n + 1] \in Entries
         /\ \A a \in 1..n : Announced'[a] = Announced[a] /\ Announced'[a] \in Entries
<1> DEFINE e == [dir |-> d, data |-> pkt]
<1>1. e \in Packet(WireGuardPackets) /\ e.dir = d /\ e.data = pkt
  BY DEF Packet
<1>2. /\ fed' \in Seq(Packet(WireGuardPackets)) /\ n \in Nat /\ Len(fed') = n + 1 /\ fed'[n + 1] = e
      /\ \A i \in 1..n : fed'[i] = fed[i] /\ (WireGuard!Good(i)' <=> WireGuard!Good(i))
  <2> HIDE DEF e
  <2> QED
    BY <1>1, PastStays DEF e
<1> HIDE DEF e
<1>3. WireGuard!Good(n + 1)' <=> Fits(pkt)
  BY <1>1, <1>2 DEF WireGuard!Good, WireGuard!Pkt, Fits
<1>4. /\ Heard' = {i \in 1..(n + 1) : WireGuard!Good(i)'}
      /\ Noise' = {i \in 1..(n + 1) : ~WireGuard!Good(i)'}
  BY <1>2 DEF Heard, Noise
<1>5. /\ Heard \subseteq 1..n /\ Starts \subseteq 1..n /\ Announcers \subseteq 1..n /\ n + 1 \notin 1..n
      /\ n + 1 \in 1..(n + 1) /\ \A i \in 1..n : i \in 1..(n + 1)
      /\ \A i \in 1..(n + 1) : i \in 1..n \/ i = n + 1
  BY <1>2 DEF Heard, Starts, Announcers
<1>6. Heard' = IF Fits(pkt) THEN Heard \cup {n + 1} ELSE Heard
  <2>1. \A i \in 1..n : i \in Heard' <=> i \in Heard
    BY <1>2, <1>4, <1>5 DEF Heard
  <2>2. n + 1 \in Heard' <=> Fits(pkt)
    BY <1>3, <1>4, <1>5
  <2> QED
    BY <1>4, <1>5, <2>1, <2>2
<1>7. /\ n + 1 \in Noise' <=> ~Fits(pkt)
      /\ Noise' \cap (1..n) = Noise \cap (1..n)
  <2>1. \A i \in 1..n : i \in Noise' <=> i \in Noise
    BY <1>2, <1>4, <1>5 DEF Noise
  <2> QED
    BY <1>3, <1>4, <1>5, <2>1
<1>8. /\ \A i \in 1..n : fed'[i].data = fed[i].data /\ fed'[i].dir = fed[i].dir
      /\ fed'[n + 1].data = pkt
  BY <1>1, <1>2
<1>9. Starts' = IF Fits(pkt) /\ pkt.kind = "handshake_initiation" THEN Starts \cup {n + 1} ELSE Starts
  <2>1. \A i \in Heard : fed'[i].data = fed[i].data
    BY <1>5, <1>8
  <2> QED
    BY <1>6, <1>8, <2>1, Zenon DEF Starts
<1>10. Announcers' = IF Fits(pkt) /\ pkt.kind \in WireGuard!Announcements
                     THEN Announcers \cup {n + 1} ELSE Announcers
  <2>1. \A i \in Heard : fed'[i].data = fed[i].data
    BY <1>5, <1>8
  <2> QED
    BY <1>6, <1>8, <2>1, Zenon DEF Announcers
<1>11. \A i \in 1..(n + 1) :
         /\ Announced'[i] = [index |-> fed'[i].data.sender, dir |-> fed'[i].dir]
         /\ Announced'[i] \in Entries
  <2> TAKE i \in 1..(n + 1)
  <2>1. fed'[i] \in Packet(WireGuardPackets)
    BY <1>2
  <2>2. fed'[i].data.sender \in Nat /\ fed'[i].dir \in {"req", "resp"}
    BY <2>1 DEF Packet, DatagramAssumption, WireGuard!WireGuardAssumption
  <2>3. Announced'[i] = [index |-> fed'[i].data.sender, dir |-> fed'[i].dir]
    BY <1>2 DEF Announced
  <2> QED
    BY <2>2, <2>3 DEF Entries
<1>12. \A i \in 1..n : Announced[i] = [index |-> fed[i].data.sender, dir |-> fed[i].dir]
  BY DEF Announced
<1>13. \A i \in 1..n : Announced'[i] = Announced[i] /\ Announced'[i] \in Entries
  <2> TAKE i \in 1..n
  <2>1. i \in 1..(n + 1)
    BY <1>5
  <2>2. /\ Announced'[i] = [index |-> fed'[i].data.sender, dir |-> fed'[i].dir]
        /\ Announced'[i] \in Entries
    BY <1>11, <2>1
  <2> QED
    BY <1>8, <1>12, <2>2
<1>14. Announced'[n + 1] = [index |-> pkt.sender, dir |-> d] /\ Announced'[n + 1] \in Entries
  BY <1>1, <1>2, <1>5, <1>11
<1> QED
  BY <1>2, <1>5, <1>6, <1>7, <1>9, <1>10, <1>13, <1>14

\* What the ring's invariant is about is the same.
LEMMA RingSame ==
  ASSUME NEW p, NEW q, NEW A, NEW entry, NEW now, RingInv(p, A, entry),
         q.ring = p.ring, q.at = p.at, \A a \in A : now[a] = entry[a]
  PROVE  RingInv(q, A, now)
BY DEF RingInv, Slot

\* Each module extends FiniteSets for itself.
LEMMA SameCardinality ==
  ASSUME NEW S PROVE WireGuard!Cardinality(S) = Cardinality(S)
BY DEF WireGuard!Cardinality, Cardinality

\* The ring after a message, and whether its receiver is known.
LEMMA RingStep ==
  ASSUME DatagramAssumption, WireGuardInv, NEW n, n = Len(fed),
         NEW d \in {"req", "resp"}, NEW pkt \in WireGuardPackets,
         fed' = Append(fed, [dir |-> d, data |-> pkt]),
         Fits(pkt),
         NEW q, q = IF pkt.kind \in WireGuard!Announcements
                    THEN WireGuard!putSenderIndex(parser, d, pkt.sender) ELSE parser
  PROVE  /\ RingInv(q, Announcers', Announced')
         /\ WireGuard!matchReceiverIndex(q, d, pkt.receiver) <=> WireGuard!LatelyAnnounced(n + 1)'
<1>1. /\ n \in Nat /\ Len(fed') = n + 1 /\ Announcers \subseteq 1..n
      /\ Announcers' = IF pkt.kind \in WireGuard!Announcements
                       THEN Announcers \cup {n + 1} ELSE Announcers
      /\ Announced'[n + 1] = [index |-> pkt.sender, dir |-> d] /\ Announced'[n + 1] \in Entries
      /\ \A a \in 1..n : Announced'[a] = Announced[a] /\ Announced'[a] \in Entries
  <2>1. fed \in Seq(Packet(WireGuardPackets))
    BY DEF WireGuardInv
  <2> QED
    BY <2>1, OneMore
<1>2. RememberedIndexCount \in Nat \ {0}
  BY DEF DatagramAssumption, WireGuard!WireGuardAssumption
<1>3. \A a \in Announcers : Announced'[a] = Announced[a]
  BY <1>1
<1>4. RingInv(parser, Announcers, Announced)
  BY DEF WireGuardInv
<1>5. RingInv(q, Announcers', Announced')
  <2>1. CASE pkt.kind \in WireGuard!Announcements
    <3>1. parser = [invalidCount |-> parser.invalidCount, ring |-> parser.ring, at |-> parser.at]
      BY DEF WireGuardInv
    <3>2. RingInv(WireGuard!putSenderIndex(parser, d, pkt.sender), Announcers \cup {n + 1}, Announced')
      BY <1>1, <1>2, <1>3, <1>4, <3>1, PutKeepsRing
    <3> QED
      BY <1>1, <2>1, <3>2
  <2>2. CASE pkt.kind \notin WireGuard!Announcements
    BY <1>1, <1>3, <1>4, <2>2, RingSame
  <2> QED
    BY <2>1, <2>2
<1>6. Announcers' \subseteq 1..(n + 1) /\ n + 1 \in Nat /\ \A a \in Announcers' : Announced'[a] \in Entries
  <2>1. \A a \in Announcers' : a = n + 1 \/ a \in 1..n
    BY <1>1
  <2>2. \A a \in Announcers' : Announced'[a] \in Entries
    BY <1>1, <2>1
  <2>3. n + 1 \in Nat /\ n + 1 \in 1..(n + 1) /\ \A a \in 1..n : a \in 1..(n + 1)
    BY <1>1
  <2> QED
    BY <2>1, <2>2, <2>3, Zenon
<1>7. WireGuard!matchReceiverIndex(q, d, pkt.receiver) <=>
        \E a \in Announcers' : /\ Announced'[a].dir # d /\ Announced'[a].index = pkt.receiver
                               /\ Since(Announcers', a) < RememberedIndexCount
  <2>1. \A a \in Announcers' : Announced'[a] \in Entries /\ Since(Announcers', a) \in Nat \ {0}
    BY <1>6, SinceGrows
  <2> QED
    BY <1>2, <1>5, <2>1, MatchFinds
<1>8. /\ fed'[n + 1].dir = d /\ fed'[n + 1].data = pkt
      /\ \A a \in 1..(n + 1) : /\ Announced'[a].index = fed'[a].data.sender
                               /\ Announced'[a].dir = fed'[a].dir
  <2>1. fed'[n + 1] = [dir |-> d, data |-> pkt]
    <3>1. [dir |-> d, data |-> pkt] \in Packet(WireGuardPackets)
      BY DEF Packet
    <3> QED
      BY <3>1, Appended DEF WireGuardInv
  <2> QED
    BY <1>1, <2>1 DEF Announced
<1>9. WireGuard!Announcing(n + 1)' = Announcers'
  <2>1. Heard' = {i \in 1..(n + 1) : WireGuard!Good(i)'}
    BY <1>1 DEF Heard
  <2> QED
    BY <2>1, Zenon DEF Announcers, WireGuard!Announcing, WireGuard!Pkt
<1>10. WireGuard!LatelyAnnounced(n + 1)' <=>
         \E a \in Announcers' : /\ fed'[a].dir # d /\ fed'[a].data.sender = pkt.receiver
                                /\ Since(Announcers', a) < RememberedIndexCount
  BY <1>8, <1>9, SameCardinality, Zenon DEF WireGuard!LatelyAnnounced, WireGuard!Pkt, Since
<1>11. \A a \in Announcers' : /\ Announced'[a].dir = fed'[a].dir
                              /\ Announced'[a].index = fed'[a].data.sender
  <2> TAKE a \in Announcers'
  <2>1. a \in 1..(n + 1)
    BY <1>6
  <2> QED
    BY <1>8, <2>1
<1> QED
  BY <1>5, <1>7, <1>10, <1>11, Zenon

\* The properties of a message the rules come to know: those of Told.
Tells(m, pkt, known) ==
  /\ DOMAIN m = {"message_type", pkt.kind} /\ m.message_type = pkt.kind
  /\ pkt.kind # "handshake_initiation" =>
       /\ m[pkt.kind].receiver_index = pkt.receiver
       /\ m[pkt.kind].receiver_index_matched = known
  /\ pkt.kind \in WireGuard!Announcements => m[pkt.kind].sender_index = pkt.sender

LEMMA Describes ==
  ASSUME NEW p, NEW d, NEW pkt, Fits(pkt), NEW r,
         r = WireGuard!Described(p, d, pkt)
  PROVE  /\ r.p = IF pkt.kind \in WireGuard!Announcements
                  THEN WireGuard!putSenderIndex(p, d, pkt.sender) ELSE p
         /\ Tells(r.m, pkt, WireGuard!matchReceiverIndex(r.p, d, pkt.receiver))
<1> DEFINE q == IF pkt.kind \in WireGuard!Announcements
                THEN WireGuard!putSenderIndex(p, d, pkt.sender) ELSE p
           matched == WireGuard!matchReceiverIndex(q, d, pkt.receiver)
           says == IF pkt.kind = "handshake_initiation" THEN [sender_index |-> pkt.sender]
                   ELSE IF pkt.kind = "handshake_response"
                   THEN [sender_index           |-> pkt.sender,
                         receiver_index         |-> pkt.receiver,
                         receiver_index_matched |-> matched]
                   ELSE [receiver_index         |-> pkt.receiver,
                         receiver_index_matched |-> matched]
<1>1. /\ r.p = q
      /\ r.m = [x \in {"message_type", pkt.kind} |-> IF x = "message_type" THEN pkt.kind ELSE says]
  BY DEF WireGuard!Described
<1>2. pkt.kind # "message_type" /\ pkt.kind \in WireGuard!Kinds
  BY KindsOfGood DEF Fits
<1>3. DOMAIN r.m = {"message_type", pkt.kind} /\ r.m.message_type = pkt.kind /\ r.m[pkt.kind] = says
  BY <1>1, <1>2
<1>4. /\ pkt.kind # "handshake_initiation" =>
           /\ says.receiver_index = pkt.receiver
           /\ says.receiver_index_matched = matched
      /\ pkt.kind \in WireGuard!Announcements => says.sender_index = pkt.sender
  <2> HIDE DEF matched
  <2> QED
    BY <1>2 DEF WireGuard!Announcements
<1> HIDE DEF says, matched
<1> QED
  BY <1>1, <1>3, <1>4 DEF Tells, matched

\* What the rules know after a packet.
LEMMA SessionStep ==
  ASSUME DatagramAssumption, WireGuardInv, NEW n, n = Len(fed),
         NEW d \in {"req", "resp"}, NEW pkt \in WireGuardPackets,
         fed' = Append(fed, [dir |-> d, data |-> pkt]), NEW m,
         Fits(pkt) => Tells(m, pkt, WireGuard!LatelyAnnounced(n + 1)'),
         shown' = IF ~Fits(pkt) THEN shown
                  ELSE IF pkt.kind = "handshake_initiation" THEN m
                  ELSE WireGuard!Stream!Merged(m, shown)
  PROVE  /\ DOMAIN shown' = {fed'[i].data.kind : i \in Session'}
                              \cup (IF Heard' = {} THEN {} ELSE {"message_type"})
         /\ \A i \in Heard' : (\A j \in Heard' : j <= i) => shown'.message_type = fed'[i].data.kind
         /\ \A i \in Session' :
              (\A j \in Session' : fed'[j].data.kind = fed'[i].data.kind => j <= i) => Told(i)'
<1> DEFINE e == [dir |-> d, data |-> pkt]
<1>1. fed \in Seq(Packet(WireGuardPackets)) /\ e \in Packet(WireGuardPackets) /\ e.data = pkt /\ e.dir = d
  BY DEF WireGuardInv, Packet
<1>2. /\ n \in Nat /\ Len(fed') = n + 1 /\ Heard \subseteq 1..n /\ Session \subseteq Heard
      /\ Starts \subseteq Heard
      /\ Heard' = IF Fits(pkt) THEN Heard \cup {n + 1} ELSE Heard
      /\ Starts' = IF Fits(pkt) /\ pkt.kind = "handshake_initiation" THEN Starts \cup {n + 1} ELSE Starts
  <2>1. Session \subseteq Heard /\ Starts \subseteq Heard
    BY DEF Session, Starts
  <2>2. /\ n \in Nat /\ Len(fed') = n + 1 /\ Heard \subseteq 1..n
        /\ Heard' = IF Fits(pkt) THEN Heard \cup {n + 1} ELSE Heard
        /\ Starts' = IF Fits(pkt) /\ pkt.kind = "handshake_initiation" THEN Starts \cup {n + 1} ELSE Starts
    <3>1. fed \in Seq(Packet(WireGuardPackets))
      BY DEF WireGuardInv
    <3> QED
      BY <3>1, OneMore
  <2> QED
    BY <2>1, <2>2
<1>3. /\ fed'[n + 1] = e
      /\ \A i \in 1..n : fed'[i] = fed[i] /\ WireGuard!LatelyAnnounced(i)' = WireGuard!LatelyAnnounced(i)
  <2> HIDE DEF e
  <2> QED
    BY <1>1, PastStays DEF e
<1> HIDE DEF e
<1>4. fed'[n + 1].data = pkt /\ \A i \in Heard : fed'[i] = fed[i] /\ fed'[i].data.kind = fed[i].data.kind
  BY <1>1, <1>2, <1>3
<1>5. \A i \in Heard : i < n + 1 /\ i <= n + 1 /\ ~(n + 1 <= i)
  BY <1>2
<1>6. CASE ~Fits(pkt)
  <2>1. Heard' = Heard /\ Starts' = Starts /\ shown' = shown
    BY <1>2, <1>6
  <2>2. Session' = Session
    BY <2>1, Zenon DEF Session
  <2>3. ASSUME NEW i \in Session, Told(i) PROVE Told(i)'
    <3>1. fed'[i] = fed[i] /\ WireGuard!LatelyAnnounced(i)' = WireGuard!LatelyAnnounced(i)
      BY <1>2, <1>3
    <3> QED
      BY <2>1, <2>3, <3>1 DEF Told
  <2>4. {fed'[i].data.kind : i \in Session} = {fed[i].data.kind : i \in Session}
    <3>1. \A i \in Session : fed'[i].data.kind = fed[i].data.kind
      BY <1>2, <1>4
    <3> QED
      BY <3>1
  <2> QED
    BY <1>2, <1>4, <2>1, <2>2, <2>3, <2>4 DEF WireGuardInv
<1>7. CASE Fits(pkt) /\ pkt.kind = "handshake_initiation"
  <2>1. /\ Heard' = Heard \cup {n + 1} /\ Starts' = Starts \cup {n + 1} /\ shown' = m
        /\ DOMAIN m = {"message_type", pkt.kind} /\ m.message_type = pkt.kind
        /\ m[pkt.kind].sender_index = pkt.sender
    BY <1>2, <1>7 DEF Tells, WireGuard!Announcements
  <2>2. Session' = {n + 1}
    <3>1. \A i \in Session' : i = n + 1
      BY <1>5, <2>1 DEF Session
    <3>2. n + 1 \in Session'
      BY <1>2, <1>5, <2>1 DEF Session
    <3> QED
      BY <3>1, <3>2
  <2>3. Told(n + 1)'
    BY <1>4, <1>7, <2>1 DEF Told
  <2>4. \A i \in Heard' : (\A j \in Heard' : j <= i) => i = n + 1
    BY <1>5, <2>1
  <2> QED
    BY <1>4, <2>1, <2>2, <2>3, <2>4
<1>8. CASE Fits(pkt) /\ pkt.kind # "handshake_initiation"
  <2>1. /\ Heard' = Heard \cup {n + 1} /\ Starts' = Starts
        /\ shown' = WireGuard!Stream!Merged(m, shown)
        /\ Tells(m, pkt, WireGuard!LatelyAnnounced(n + 1)')
    BY <1>2, <1>8
  <2>2. Session' = Session \cup {n + 1}
    <3>1. \A i \in Heard : i \in Session' <=> i \in Session
      BY <1>5, <2>1 DEF Session
    <3>2. n + 1 \in Session'
      BY <1>2, <1>5, <2>1 DEF Session
    <3>3. \A i \in Session' : i \in Heard \/ i = n + 1
      BY <2>1 DEF Session
    <3> QED
      BY <1>2, <3>1, <3>2, <3>3
  <2>3. /\ DOMAIN shown' = {"message_type", pkt.kind} \cup DOMAIN shown
        /\ shown'.message_type = pkt.kind /\ shown'[pkt.kind] = m[pkt.kind]
        /\ \A x \in DOMAIN shown : x # "message_type" /\ x # pkt.kind => shown'[x] = shown[x]
    BY <2>1 DEF Tells, WireGuard!Stream!Merged
  <2>4. DOMAIN shown' = {fed'[i].data.kind : i \in Session'} \cup {"message_type"}
    <3>1. {fed'[i].data.kind : i \in Session'} = {fed[i].data.kind : i \in Session} \cup {pkt.kind}
      BY <1>2, <1>4, <2>2
    <3> QED
      BY <2>3, <3>1 DEF WireGuardInv
  <2>5. Told(n + 1)'
    BY <1>4, <2>1, <2>3 DEF Told, Tells
  <2>6. ASSUME NEW i \in Session, Told(i), fed[i].data.kind # pkt.kind PROVE Told(i)'
    <3>1. /\ i \in Heard /\ i \in 1..n /\ fed[i].data.kind \in DOMAIN shown
          /\ fed[i].data.kind # "message_type"
      <4>1. i \in Heard /\ i \in 1..n
        BY <1>2
      <4>2. fed[i].data.kind # "message_type"
        BY <4>1, KindsOfGood DEF Heard, WireGuard!Good, WireGuard!Pkt
      <4> QED
        BY <4>1, <4>2 DEF WireGuardInv
    <3>2. shown'[fed[i].data.kind] = shown[fed[i].data.kind]
      BY <2>3, <2>6, <3>1
    <3>3. fed'[i] = fed[i] /\ WireGuard!LatelyAnnounced(i)' = WireGuard!LatelyAnnounced(i)
      BY <1>3, <3>1
    <3> QED
      BY <2>6, <3>2, <3>3 DEF Told
  <2>7. \A i \in Heard' : (\A j \in Heard' : j <= i) => i = n + 1
    BY <1>5, <2>1
  <2>8. ASSUME NEW i \in Session',
               \A j \in Session' : fed'[j].data.kind = fed'[i].data.kind => j <= i
        PROVE  Told(i)'
    <3>1. CASE i = n + 1
      BY <2>5, <3>1
    <3>2. CASE i \in Session
      <4>1. i \in Heard /\ fed'[i].data.kind = fed[i].data.kind /\ fed[i].data.kind # pkt.kind
        BY <1>2, <1>4, <1>5, <2>2, <2>8, <3>2
      <4>2. \A j \in Session : fed[j].data.kind = fed[i].data.kind => j <= i
        BY <1>2, <1>4, <2>2, <2>8, <4>1
      <4> QED
        BY <2>6, <3>2, <4>1, <4>2 DEF WireGuardInv
    <3> QED
      BY <2>2, <3>1, <3>2
  <2> QED
    BY <1>4, <2>1, <2>3, <2>4, <2>7, <2>8
<1> QED
  BY <1>6, <1>7, <1>8

LEMMA WireGuardStep == ASSUME DatagramAssumption, WireGuardInv, WireGuard!Stream!Next PROVE WireGuardInv'
<1>1. PICK d \in {"req", "resp"}, pkt \in WireGuardPackets : WireGuard!Stream!Feed(d, pkt)
  BY DEF WireGuard!Stream!Next, WireGuard!Stream!Dirs, WireGuard!PacketsOf
<1>2. PICK n : n = Len(fed)
  OBVIOUS
<1> DEFINE r == WireGuard!Described(parser, d, pkt)
<1>3. /\ fed' = Append(fed, [dir |-> d, data |-> pkt])
      /\ parser' = WireGuard!FeedWireGuard(d, parser, pkt).p
      /\ finished' = WireGuard!FeedWireGuard(d, parser, pkt).done
      /\ shown' = IF WireGuard!FeedWireGuard(d, parser, pkt).update.type = "merge"
                  THEN WireGuard!Stream!Merged(WireGuard!FeedWireGuard(d, parser, pkt).update.m, shown)
                  ELSE IF WireGuard!FeedWireGuard(d, parser, pkt).update.type = "replace"
                  THEN WireGuard!FeedWireGuard(d, parser, pkt).update.m ELSE shown
  BY <1>1 DEF WireGuard!Stream!Feed
<1>4. Fits(pkt) => /\ r.p = (IF pkt.kind \in WireGuard!Announcements
                             THEN WireGuard!putSenderIndex(parser, d, pkt.sender) ELSE parser)
                   /\ Tells(r.m, pkt, WireGuard!matchReceiverIndex(r.p, d, pkt.receiver))
  BY Describes
<1> HIDE DEF r
<1>5. /\ parser' = IF ~Fits(pkt) THEN [parser EXCEPT !.invalidCount = @ + 1]
                   ELSE [r.p EXCEPT !.invalidCount = 0]
      /\ finished' = IF ~Fits(pkt) THEN parser.invalidCount + 1 >= InvalidThreshold ELSE FALSE
      /\ shown' = IF ~Fits(pkt) THEN shown
                  ELSE IF pkt.kind = "handshake_initiation" THEN r.m
                  ELSE WireGuard!Stream!Merged(r.m, shown)
  <2>1. CASE Fits(pkt)
    BY <1>3, <2>1 DEF WireGuard!FeedWireGuard, WireGuard!valid, Fits, r
  <2>2. CASE ~Fits(pkt)
    BY <1>3, <2>2 DEF WireGuard!FeedWireGuard, Fits, r
  <2> QED
    BY <2>1, <2>2
<1>6. fed \in Seq(Packet(WireGuardPackets))
  BY DEF WireGuardInv
<1>7. /\ n \in Nat /\ Len(fed') = n + 1
      /\ n + 1 \in Noise' <=> ~Fits(pkt)
      /\ Noise' \cap (1..n) = Noise \cap (1..n)
      /\ ~Fits(pkt) => Announcers' = Announcers
      /\ Announcers \subseteq 1..n
      /\ \A a \in 1..n : Announced'[a] = Announced[a]
  BY <1>2, <1>3, <1>6, OneMore
<1>8. fed' \in Seq(Packet(WireGuardPackets))
  <2>1. [dir |-> d, data |-> pkt] \in Packet(WireGuardPackets)
    BY DEF Packet
  <2> QED
    BY <1>3, <1>6, <2>1, Appended
<1>9. /\ parser = [invalidCount |-> parser.invalidCount, ring |-> parser.ring, at |-> parser.at]
      /\ Streak(Noise, n, parser.invalidCount) /\ parser.invalidCount \in 0..n
      /\ InvalidThreshold \in Nat \ {0}
  BY <1>2 DEF WireGuardInv, Streak, DatagramAssumption, WireGuard!WireGuardAssumption
<1>10. Fits(pkt) => r.p = [invalidCount |-> r.p.invalidCount, ring |-> r.p.ring, at |-> r.p.at]
  BY <1>4, <1>9 DEF WireGuard!putSenderIndex
<1>11. /\ parser' = [invalidCount |-> parser'.invalidCount, ring |-> parser'.ring, at |-> parser'.at]
       /\ parser'.invalidCount = IF ~Fits(pkt) THEN parser.invalidCount + 1 ELSE 0
       /\ ~Fits(pkt) => parser'.ring = parser.ring /\ parser'.at = parser.at
       /\ Fits(pkt) => parser'.ring = r.p.ring /\ parser'.at = r.p.at
  BY <1>5, <1>9, <1>10
<1>12. Streak(Noise', n + 1, parser'.invalidCount)
  <2>1. CASE ~Fits(pkt)
    BY <1>7, <1>9, <1>11, <2>1, StreakGrows
  <2>2. CASE Fits(pkt)
    BY <1>7, <1>11, <2>2, StreakEnds
  <2> QED
    BY <2>1, <2>2
<1>13. finished' <=> parser'.invalidCount >= InvalidThreshold
  <2>1. CASE ~Fits(pkt)
    BY <1>5, <1>11, <2>1
  <2>2. CASE Fits(pkt)
    BY <1>5, <1>9, <1>11, <2>2
  <2> QED
    BY <2>1, <2>2
<1>14. Fits(pkt) => /\ RingInv(r.p, Announcers', Announced')
                    /\ WireGuard!matchReceiverIndex(r.p, d, pkt.receiver) <=>
                         WireGuard!LatelyAnnounced(n + 1)'
  BY <1>2, <1>3, <1>4, RingStep
<1>15. RingInv(parser', Announcers', Announced')
  <2>1. CASE ~Fits(pkt)
    <3>1. \A a \in Announcers : Announced'[a] = Announced[a]
      BY <1>7
    <3>2. RingInv(parser, Announcers, Announced)
      BY DEF WireGuardInv
    <3> QED
      BY <1>7, <1>11, <2>1, <3>1, <3>2, RingSame
  <2>2. CASE Fits(pkt)
    BY <1>11, <1>14, <2>2, RingSame
  <2> QED
    BY <2>1, <2>2
<1>16. Fits(pkt) => Tells(r.m, pkt, WireGuard!LatelyAnnounced(n + 1)')
  <2> SUFFICES ASSUME Fits(pkt) PROVE Tells(r.m, pkt, WireGuard!LatelyAnnounced(n + 1)')
    OBVIOUS
  <2>1. WireGuard!matchReceiverIndex(r.p, d, pkt.receiver) \in BOOLEAN
    BY Zenon DEF WireGuard!matchReceiverIndex
  <2>2. WireGuard!LatelyAnnounced(n + 1)' \in BOOLEAN
    BY Zenon DEF WireGuard!LatelyAnnounced
  <2>3. WireGuard!matchReceiverIndex(r.p, d, pkt.receiver) = WireGuard!LatelyAnnounced(n + 1)'
    BY <1>14, <2>1, <2>2
  <2> QED
    BY <1>4, <2>3
<1>17. /\ DOMAIN shown' = {fed'[i].data.kind : i \in Session'}
                            \cup (IF Heard' = {} THEN {} ELSE {"message_type"})
       /\ \A i \in Heard' : (\A j \in Heard' : j <= i) => shown'.message_type = fed'[i].data.kind
       /\ \A i \in Session' :
            (\A j \in Session' : fed'[j].data.kind = fed'[i].data.kind => j <= i) => Told(i)'
  BY <1>2, <1>3, <1>5, <1>16, SessionStep
<1> QED
  BY <1>7, <1>8, <1>11, <1>12, <1>13, <1>15, <1>17 DEF WireGuardInv

\* CHOOSE finds the last place.
LEMMA GreatestIsLast ==
  ASSUME NEW n \in Nat, NEW S, S \subseteq 1..n, S # {}
  PROVE  WireGuard!Greatest(S) \in S /\ \A j \in S : j <= WireGuard!Greatest(S)
<1>1. \E i \in S : \A j \in S : j <= i
  BY LastPlace
<1> QED
  BY <1>1 DEF WireGuard!Greatest

LEMMA WireGuardCorrect ==
  ASSUME DatagramAssumption, WireGuardInv
  PROVE  WireGuard!KnowsTheSession /\ WireGuard!GivesUpAfterGarbage
<1>1. /\ Len(fed) \in Nat /\ InvalidThreshold \in Nat \ {0}
      /\ Heard \subseteq 1..Len(fed) /\ Starts \subseteq Heard /\ Session \subseteq Heard
      /\ Starts \subseteq 1..Len(fed) /\ Session \subseteq 1..Len(fed)
  BY DEF WireGuardInv, DatagramAssumption, WireGuard!WireGuardAssumption, Heard, Starts, Session
<1>2. WireGuard!GivesUpAfterGarbage
  <2>1. finished <=> /\ Len(fed) >= InvalidThreshold
                     /\ \A k \in (Len(fed) - InvalidThreshold + 1)..Len(fed) : k \in Noise
    BY <1>1, StreakLong DEF WireGuardInv
  <2>2. Len(fed) >= InvalidThreshold =>
          \A k \in (Len(fed) - InvalidThreshold + 1)..Len(fed) : k \in Noise <=> ~WireGuard!Good(k)
    BY <1>1 DEF Noise
  <2> QED
    BY <2>1, <2>2 DEF WireGuard!GivesUpAfterGarbage
<1>3. WireGuard!KnowsTheSession
  <2> DEFINE session == {i \in Heard : Starts # {} => i >= WireGuard!Greatest(Starts)}
             last(k) == {i \in session : WireGuard!Pkt(i).kind = k}
  <2>1. session = Session
    <3>1. CASE Starts = {}
      BY <3>1 DEF Session
    <3>2. CASE Starts # {}
      <4>1. /\ WireGuard!Greatest(Starts) \in Starts
            /\ \A s \in Starts : s <= WireGuard!Greatest(Starts)
        BY <1>1, <3>2, GreatestIsLast
      <4>2. ASSUME NEW i \in Heard
            PROVE  (\A s \in Starts : s <= i) <=> i >= WireGuard!Greatest(Starts)
        <5>1. /\ i \in Nat /\ WireGuard!Greatest(Starts) \in Nat
              /\ \A s \in Starts : s \in Nat
          <6>1. \A k \in 1..Len(fed) : k \in Nat
            BY <1>1
          <6> QED
            BY <1>1, <4>1, <6>1, Zenon
        <5> HIDE DEF Starts
        <5> QED
          BY <4>1, <5>1
      <4> QED
        BY <3>2, <4>2 DEF Session
    <3> QED
      BY <3>1, <3>2
  <2> HIDE DEF session
  <2>2. /\ \A i : WireGuard!Pkt(i) = fed[i].data
        /\ Heard = {i \in 1..Len(fed) : WireGuard!Good(i)}
        /\ Starts = {i \in Heard : WireGuard!Pkt(i).kind = "handshake_initiation"}
    BY DEF WireGuard!Pkt, Heard, Starts
  <2>3. DOMAIN shown = {WireGuard!Pkt(i).kind : i \in session}
                         \cup (IF Heard = {} THEN {} ELSE {"message_type"})
    BY <2>1, <2>2 DEF WireGuardInv
  <2>4. Heard # {} => shown.message_type = WireGuard!Pkt(WireGuard!Greatest(Heard)).kind
    BY <1>1, <2>2, GreatestIsLast DEF WireGuardInv
  <2>5. ASSUME NEW k \in WireGuard!Kinds, last(k) # {}, NEW i, i = WireGuard!Greatest(last(k))
        PROVE  /\ k # "handshake_initiation" =>
                    /\ shown[k].receiver_index = WireGuard!Pkt(i).receiver
                    /\ shown[k].receiver_index_matched = WireGuard!LatelyAnnounced(i)
               /\ i \in WireGuard!Announcing(i) => shown[k].sender_index = WireGuard!Pkt(i).sender
    <3>1. last(k) \subseteq 1..Len(fed) /\ last(k) \subseteq Session
      BY <1>1, <2>1
    <3>2. i \in last(k) /\ \A j \in last(k) : j <= i
      BY <1>1, <2>5, <3>1, GreatestIsLast
    <3>3. /\ i \in Session /\ fed[i].data.kind = k
          /\ \A j \in Session : fed[j].data.kind = k => j <= i
      BY <2>1, <2>2, <3>2
    <3>4. Told(i)
      BY <3>3 DEF WireGuardInv
    <3>5. i \in WireGuard!Announcing(i) => k \in WireGuard!Announcements
      BY <2>2, <3>3 DEF WireGuard!Announcing
    <3> QED
      BY <2>2, <3>3, <3>4, <3>5 DEF Told
  <2> QED
    BY <2>2, <2>3, <2>4, <2>5, Zenon DEF WireGuard!KnowsTheSession, session
<1> QED
  BY <1>2, <1>3

-----------------------------------------------------------------------------
(* Recursive functions of the places in a sequence. *)

Follows(f, n, z, F) == f[0] = z /\ \A i \in 1..n : f[i] = F[<<f[i - 1], i>>]

LEMMA Recursion ==
  ASSUME NEW n \in Nat, NEW S, NEW z \in S, NEW F \in [S \X (1..n) -> S]
  PROVE  \E f \in [0..n -> S] : Follows(f, n, z, F)
<1> DEFINE Upto(m, f) == f[0] = z /\ \A i \in 1..m : f[i] = F[<<f[i - 1], i>>]
           T == {m \in Nat : m <= n => \E f \in [0..m -> S] : Upto(m, f)}
<1>1. 0 \in T
  <2>1. Upto(0, [i \in 0..0 |-> z]) /\ [i \in 0..0 |-> z] \in [0..0 -> S]
    OBVIOUS
  <2> HIDE DEF Upto
  <2> QED
    BY <2>1
<1>2. ASSUME NEW m \in Nat, m \in T PROVE m + 1 \in T
  <2> SUFFICES ASSUME m + 1 <= n PROVE \E f \in [0..(m + 1) -> S] : Upto(m + 1, f)
    OBVIOUS
  <2>1. PICK f \in [0..m -> S] : Upto(m, f)
    BY <1>2
  <2> DEFINE v == F[<<f[m], m + 1>>]
             g == [i \in 0..(m + 1) |-> IF i = m + 1 THEN v ELSE f[i]]
  <2>2. v \in S
    <3>1. f[m] \in S /\ m + 1 \in 1..n
      OBVIOUS
    <3> QED
      BY <3>1
  <2>3. g \in [0..(m + 1) -> S]
    <3>1. \A i \in 0..(m + 1) : i # m + 1 => i \in 0..m
      OBVIOUS
    <3> HIDE DEF v
    <3> QED
      BY <2>1, <2>2, <3>1
  <2>4. g[0] = z
    BY <2>1
  <2>5. ASSUME NEW i \in 1..(m + 1) PROVE g[i] = F[<<g[i - 1], i>>]
    <3>1. i - 1 \in 0..m /\ i - 1 \in 0..(m + 1) /\ i - 1 # m + 1 /\ i \in 0..(m + 1)
      OBVIOUS
    <3>2. g[i - 1] = f[i - 1]
      BY <3>1
    <3>3. CASE i = m + 1
      <4>1. i - 1 = m
        BY <3>3
      <4> QED
        BY <3>1, <3>2, <3>3, <4>1
    <3>4. CASE i # m + 1
      <4>1. i \in 1..m
        BY <3>4
      <4>2. g[i] = f[i] /\ f[i] = F[<<f[i - 1], i>>]
        BY <2>1, <3>1, <3>4, <4>1
      <4> QED
        BY <3>2, <4>2
    <3> QED
      BY <3>3, <3>4
  <2> HIDE DEF g
  <2> QED
    BY <2>3, <2>4, <2>5
<1>3. n \in T
  <2> HIDE DEF T
  <2> QED
    BY <1>1, <1>2, NatInduct
<1> QED
  BY <1>3 DEF Follows

-----------------------------------------------------------------------------
(* FET: the measures of a chunk. *)

Bytes == Seq(0..255)

\* Each module extends FiniteSets for itself.
LEMMA SameCardinalityFET ==
  ASSUME NEW S PROVE FET!Cardinality(S) = Cardinality(S)
BY DEF FET!Cardinality, Cardinality

\* popCount is the sum of the bits.
LEMMA PopCount ==
  ASSUME NEW b \in 0..255
  PROVE  FET!popCount[b] = (b % 2) + ((b \div 2) % 2) + ((b \div 4) % 2) + ((b \div 8) % 2)
           + ((b \div 16) % 2) + ((b \div 32) % 2) + ((b \div 64) % 2) + ((b \div 128) % 2)
<1> DEFINE sum(x) == (x % 2) + ((x \div 2) % 2) + ((x \div 4) % 2) + ((x \div 8) % 2)
             + ((x \div 16) % 2) + ((x \div 32) % 2) + ((x \div 64) % 2) + ((x \div 128) % 2)
           count(f) == [x \in 0..255 |-> IF x = 0 THEN 0 ELSE (x % 2) + f[x \div 2]]
           w == [x \in 0..255 |-> sum(x)]
<1>1. \A x \in 0..255 : x \div 2 \in 0..255 /\ sum(0) = 0 /\ sum(x) = (x % 2) + sum(x \div 2)
  <2> TAKE x \in 0..255
  <2>1. /\ (x \div 2) \div 2 = x \div 4 /\ (x \div 2) \div 4 = x \div 8 /\ (x \div 2) \div 8 = x \div 16
        /\ (x \div 2) \div 16 = x \div 32 /\ (x \div 2) \div 32 = x \div 64
        /\ (x \div 2) \div 64 = x \div 128 /\ (x \div 2) \div 128 = 0
    OBVIOUS
  <2>2. sum(0) = 0 /\ x \div 2 \in 0..255 /\ 0 % 2 = 0
    OBVIOUS
  <2>3. sum(x \div 2) = ((x \div 2) % 2) + ((x \div 4) % 2) + ((x \div 8) % 2) + ((x \div 16) % 2)
          + ((x \div 32) % 2) + ((x \div 64) % 2) + ((x \div 128) % 2) + (0 % 2)
    BY <2>1
  <2> QED
    BY <2>2, <2>3
<1>2. w = count(w)
  <2> HIDE DEF sum
  <2> QED
    BY <1>1
<1>3. FET!popCount = CHOOSE f : f = count(f)
  BY DEF FET!popCount
<1>4. FET!popCount = count(FET!popCount)
  <2> HIDE DEF count, w
  <2> QED
    BY <1>2, <1>3
<1> DEFINE p == FET!popCount
<1>5. \A x \in 0..255 : p[x] = IF x = 0 THEN 0 ELSE (x % 2) + p[x \div 2]
  BY <1>4
<1> HIDE DEF p
<1>6. \A x \in 0..255 : x \div 2 \in 0..255 /\ p[x] = (x % 2) + p[x \div 2]
  <2>1. p[0] = 0 /\ 0 % 2 = 0 /\ 0 \div 2 = 0 /\ \A x \in 0..255 : x \div 2 \in 0..255
    BY <1>5
  <2> QED
    BY <1>5, <2>1
<1> DEFINE h1 == b \div 2
           h2 == b \div 4
           h3 == b \div 8
           h4 == b \div 16
           h5 == b \div 32
           h6 == b \div 64
           h7 == b \div 128
<1>7. /\ h1 = b \div 2 /\ h1 \in 0..255 /\ h1 % 2 \in 0..1
      /\ h2 = h1 \div 2 /\ h2 \in 0..255 /\ h2 % 2 \in 0..1
      /\ h3 = h2 \div 2 /\ h3 \in 0..255 /\ h3 % 2 \in 0..1
      /\ h4 = h3 \div 2 /\ h4 \in 0..255 /\ h4 % 2 \in 0..1
      /\ h5 = h4 \div 2 /\ h5 \in 0..255 /\ h5 % 2 \in 0..1
      /\ h6 = h5 \div 2 /\ h6 \in 0..255 /\ h6 % 2 \in 0..1
      /\ h7 = h6 \div 2 /\ h7 \in 0..255 /\ h7 % 2 \in 0..1
      /\ h7 \div 2 = 0 /\ b % 2 \in 0..1
  OBVIOUS
<1> HIDE DEF h1, h2, h3, h4, h5, h6, h7
<1>8. p[0] = 0
  BY <1>5
<1>9. p[b] = (b % 2) + p[h1]
  BY <1>6, <1>7
<1>10. p[h1] = (h1 % 2) + p[h2]
  BY <1>6, <1>7
<1>11. p[h2] = (h2 % 2) + p[h3]
  BY <1>6, <1>7
<1>12. p[h3] = (h3 % 2) + p[h4]
  BY <1>6, <1>7
<1>13. p[h4] = (h4 % 2) + p[h5]
  BY <1>6, <1>7
<1>14. p[h5] = (h5 % 2) + p[h6]
  BY <1>6, <1>7
<1>15. p[h6] = (h6 % 2) + p[h7]
  BY <1>6, <1>7
<1>16. p[h7] = (h7 % 2) + 0
  <2>1. h7 \in 0..255 /\ h7 \div 2 = 0
    BY <1>7
  <2>2. p[h7] = (h7 % 2) + p[h7 \div 2]
    BY <1>6, <2>1
  <2> QED
    BY <1>8, <2>1, <2>2
<1> QED
  BY <1>7, <1>9, <1>10, <1>11, <1>12, <1>13, <1>14, <1>15, <1>16 DEF p, h1, h2, h3, h4, h5, h6, h7

\* Bit k of byte i, and the ones before it: in bytes before i, and below k.
Bit(bytes, i, k) == (bytes[i] \div 2 ^ k) % 2
Places(i) == (1..i) \X (0..7)
OnesUpto(bytes, i) == {x \in Places(i) : Bit(bytes, x[1], x[2]) = 1}
OnesBelow(bytes, i, k) == {x \in OnesUpto(bytes, i) : x[1] < i \/ x[2] < k}

LEMMA Powers ==
  /\ 2 ^ 0 = 1 /\ 2 ^ 1 = 2 /\ 2 ^ 2 = 4 /\ 2 ^ 3 = 8
  /\ 2 ^ 4 = 16 /\ 2 ^ 5 = 32 /\ 2 ^ 6 = 64 /\ 2 ^ 7 = 128
OBVIOUS

LEMMA BitValue ==
  ASSUME NEW bytes \in Bytes, NEW i \in 1..Len(bytes), NEW k \in 0..7
  PROVE  Bit(bytes, i, k) \in {0, 1}
<1> DEFINE c == bytes[i]
<1>1. c \in 0..255
  BY ElementIn DEF Bytes
<1> HIDE DEF c
<1>2. /\ (c \div 1) % 2 \in {0, 1} /\ (c \div 2) % 2 \in {0, 1} /\ (c \div 4) % 2 \in {0, 1}
      /\ (c \div 8) % 2 \in {0, 1} /\ (c \div 16) % 2 \in {0, 1} /\ (c \div 32) % 2 \in {0, 1}
      /\ (c \div 64) % 2 \in {0, 1} /\ (c \div 128) % 2 \in {0, 1}
  BY <1>1
<1>3. k = 0 \/ k = 1 \/ k = 2 \/ k = 3 \/ k = 4 \/ k = 5 \/ k = 6 \/ k = 7
  OBVIOUS
<1>4. (c \div 2 ^ k) % 2 \in {0, 1}
  <2>1. CASE k = 0 \/ k = 1 \/ k = 2 \/ k = 3
    BY <1>2, <2>1, Powers
  <2>2. CASE k = 4 \/ k = 5
    BY <1>2, <2>2, Powers
  <2>3. CASE k = 6
    BY <1>2, <2>3, Powers
  <2>4. CASE k = 7
    BY <1>2, <2>4, Powers
  <2> QED
    BY <1>3, <2>1, <2>2, <2>3, <2>4
<1> QED
  BY <1>4 DEF Bit, c

LEMMA OnesFinite ==
  ASSUME NEW i \in Nat, NEW S, S \subseteq Places(i)
  PROVE  IsFiniteSet(S) /\ Cardinality(S) \in Nat
<1>1. IsFiniteSet(1..i)
  BY FS_Interval
<1>2. IsFiniteSet(0..7)
  <2>1. PICK m \in Nat : m = 7
    OBVIOUS
  <2>2. IsFiniteSet(0..m)
    BY FS_Interval
  <2> QED
    BY <2>1, <2>2
<1>3. IsFiniteSet(Places(i))
  BY <1>1, <1>2, FS_Product DEF Places
<1> QED
  BY <1>3, FS_Subset, FS_CardinalityType

\* One bit more.
LEMMA BitCounts ==
  ASSUME NEW bytes \in Bytes, NEW i \in 1..Len(bytes), NEW k \in 0..7
  PROVE  Cardinality(OnesBelow(bytes, i, k + 1)) = Cardinality(OnesBelow(bytes, i, k)) + Bit(bytes, i, k)
<1> DEFINE S == OnesBelow(bytes, i, k)
           N == OnesBelow(bytes, i, k + 1)
<1>1. IsFiniteSet(S) /\ Cardinality(S) \in Nat
  BY OnesFinite DEF OnesBelow, OnesUpto
<1>2. <<i, k>> \in Places(i) /\ <<i, k>> \notin S
  BY DEF Places, OnesBelow
<1>3. \A x \in Places(i) : /\ x[1] \in 1..i /\ x[2] \in 0..7 /\ x = <<x[1], x[2]>>
                           /\ (x[1] < i \/ x[1] = i)
                           /\ x[2] < k + 1 <=> x[2] < k \/ x[2] = k
  BY DEF Places
<1>4. CASE Bit(bytes, i, k) = 1
  <2>1. N = S \cup {<<i, k>>}
    <3>1. <<i, k>> \in N
      BY <1>2, <1>4 DEF OnesBelow, OnesUpto
    <3>2. \A x \in N : x \in S \/ x = <<i, k>>
      BY <1>3 DEF OnesBelow, OnesUpto
    <3>3. \A x \in S : x \in N
      BY <1>3 DEF OnesBelow, OnesUpto
    <3> HIDE DEF S, N
    <3> QED
      BY <3>1, <3>2, <3>3
  <2> HIDE DEF S, N
  <2> QED
    BY <1>1, <1>2, <1>4, <2>1, FS_AddElement DEF S, N
<1>5. CASE Bit(bytes, i, k) = 0
  <2>1. N = S
    <3>1. <<i, k>> \notin N
      BY <1>5 DEF OnesBelow, OnesUpto
    <3>2. \A x \in N : x \in S \/ x = <<i, k>>
      BY <1>3 DEF OnesBelow, OnesUpto
    <3>3. \A x \in S : x \in N
      BY <1>3 DEF OnesBelow, OnesUpto
    <3> HIDE DEF S, N
    <3> QED
      BY <3>1, <3>2, <3>3
  <2> HIDE DEF S, N
  <2> QED
    BY <1>1, <1>5, <2>1 DEF S, N
<1> QED
  BY <1>4, <1>5, BitValue

LEMMA EightMore ==
  ASSUME NEW c \in [0..8 -> Nat], NEW b \in [0..7 -> Nat], \A k \in 0..7 : c[k + 1] = c[k] + b[k]
  PROVE  c[8] = c[0] + (b[0] + b[1] + b[2] + b[3] + b[4] + b[5] + b[6] + b[7])
<1>1. c[2] = c[0] + (b[0] + b[1])
  <2>1. c[1] = c[0] + b[0] /\ c[2] = c[1] + b[1]
    OBVIOUS
  <2> QED
    BY <2>1
<1>2. c[4] = c[2] + (b[2] + b[3])
  <2>1. c[3] = c[2] + b[2] /\ c[4] = c[3] + b[3]
    OBVIOUS
  <2> QED
    BY <2>1
<1>3. c[6] = c[4] + (b[4] + b[5])
  <2>1. c[5] = c[4] + b[4] /\ c[6] = c[5] + b[5]
    OBVIOUS
  <2> QED
    BY <2>1
<1>4. c[8] = c[6] + (b[6] + b[7])
  <2>1. c[7] = c[6] + b[6] /\ c[8] = c[7] + b[7]
    OBVIOUS
  <2> QED
    BY <2>1
<1> QED
  BY <1>1, <1>2, <1>3, <1>4

\* One byte more.
LEMMA ByteCounts ==
  ASSUME NEW bytes \in Bytes, NEW i \in 1..Len(bytes)
  PROVE  Cardinality(OnesUpto(bytes, i)) = Cardinality(OnesUpto(bytes, i - 1)) + FET!popCount[bytes[i]]
<1> DEFINE c == [k \in 0..8 |-> Cardinality(OnesBelow(bytes, i, k))]
           b == [k \in 0..7 |-> Bit(bytes, i, k)]
           byte == bytes[i]
<1>1. byte \in 0..255 /\ i \in Nat
  BY ElementIn DEF Bytes
<1>2. OnesBelow(bytes, i, 0) = OnesUpto(bytes, i - 1)
  <2>1. \A x \in Places(i) : /\ x[1] \in 1..i /\ x[2] \in 0..7 /\ x = <<x[1], x[2]>>
                             /\ x[1] < i <=> x \in Places(i - 1)
                             /\ ~(x[2] < 0)
    BY DEF Places
  <2>2. \A x \in Places(i - 1) : x \in Places(i)
    BY DEF Places
  <2> QED
    BY <2>1, <2>2 DEF OnesBelow, OnesUpto
<1>3. OnesBelow(bytes, i, 8) = OnesUpto(bytes, i)
  <2>1. \A x \in Places(i) : x[2] < 8
    BY DEF Places
  <2> QED
    BY <2>1 DEF OnesBelow, OnesUpto
<1>4. c \in [0..8 -> Nat]
  <2>1. \A k \in 0..8 : Cardinality(OnesBelow(bytes, i, k)) \in Nat
    BY <1>1, OnesFinite DEF OnesBelow, OnesUpto
  <2> QED
    BY <2>1
<1>5. b \in [0..7 -> Nat]
  BY BitValue
<1>6. \A k \in 0..7 : c[k + 1] = c[k] + b[k]
  <2> TAKE k \in 0..7
  <2>1. k + 1 \in 0..8 /\ k \in 0..8
    OBVIOUS
  <2> QED
    BY <2>1, BitCounts
<1>7. FET!popCount[byte] = b[0] + b[1] + b[2] + b[3] + b[4] + b[5] + b[6] + b[7]
  <2>1. byte \div 1 = byte
    <3>1. \A x \in 0..255 : x \div 1 = x
      OBVIOUS
    <3> QED
      BY <1>1, <3>1
  <2>2. b[0] = byte % 2 /\ b[1] = (byte \div 2) % 2 /\ b[2] = (byte \div 4) % 2
    BY <2>1, Powers DEF Bit
  <2>3. b[3] = (byte \div 8) % 2 /\ b[4] = (byte \div 16) % 2 /\ b[5] = (byte \div 32) % 2
    BY Powers DEF Bit
  <2>4. b[6] = (byte \div 64) % 2 /\ b[7] = (byte \div 128) % 2
    BY Powers DEF Bit
  <2> HIDE DEF b, byte
  <2>5. FET!popCount[byte] = (byte % 2) + ((byte \div 2) % 2) + ((byte \div 4) % 2)
          + ((byte \div 8) % 2) + ((byte \div 16) % 2) + ((byte \div 32) % 2)
          + ((byte \div 64) % 2) + ((byte \div 128) % 2)
    BY <1>1, PopCount
  <2> QED
    BY <2>2, <2>3, <2>4, <2>5, Zenon
<1>8. c[8] = c[0] + FET!popCount[byte]
  <2> HIDE DEF b, c
  <2> QED
    BY <1>4, <1>5, <1>6, <1>7, EightMore
<1> QED
  BY <1>2, <1>3, <1>8

\* totalPopCount counts the ones.
LEMMA TotalPopCount ==
  ASSUME NEW bytes \in Bytes
  PROVE  FET!totalPopCount(bytes) = Cardinality(OnesUpto(bytes, Len(bytes)))
<1> DEFINE n == Len(bytes)
           ones(f) == [i \in 0..n |-> IF i = 0 THEN 0 ELSE f[i - 1] + FET!popCount[bytes[i]]]
           g == [i \in 0..n |-> Cardinality(OnesUpto(bytes, i))]
<1>1. n \in Nat
  BY DEF Bytes
<1>2. Cardinality(OnesUpto(bytes, 0)) = 0
  <2>1. OnesUpto(bytes, 0) = {}
    BY DEF OnesUpto, Places
  <2> QED
    BY <2>1, FS_EmptySet
<1>3. g = ones(g)
  <2>1. ASSUME NEW i \in 0..n
        PROVE  g[i] = IF i = 0 THEN 0 ELSE g[i - 1] + FET!popCount[bytes[i]]
    <3>1. CASE i = 0
      BY <1>2, <3>1
    <3>2. CASE i # 0
      <4>1. i \in 1..n /\ i - 1 \in 0..n
        BY <1>1, <3>2
      <4> QED
        BY <3>2, <4>1, ByteCounts
    <3> QED
      BY <3>1, <3>2
  <2> QED
    BY <2>1
<1> DEFINE f == CHOOSE h : h = ones(h)
<1>4. f = ones(f)
  <2> HIDE DEF ones, g
  <2> QED
    BY <1>3
<1>5. FET!totalPopCount(bytes) = f[n]
  BY DEF FET!totalPopCount
<1> HIDE DEF f
<1>6. \A i \in 0..n : f[i] = IF i = 0 THEN 0 ELSE f[i - 1] + FET!popCount[bytes[i]]
  BY <1>4
<1> DEFINE T == {i \in Nat : i <= n => f[i] = Cardinality(OnesUpto(bytes, i))}
<1>7. 0 \in T
  BY <1>1, <1>2, <1>6
<1>8. ASSUME NEW i \in Nat, i \in T PROVE i + 1 \in T
  <2> SUFFICES ASSUME i + 1 <= n PROVE f[i + 1] = Cardinality(OnesUpto(bytes, i + 1))
    OBVIOUS
  <2>1. i + 1 \in 1..n /\ i + 1 \in 0..n /\ i + 1 # 0 /\ (i + 1) - 1 = i /\ i <= n
    BY <1>1
  <2>2. f[i + 1] = f[i] + FET!popCount[bytes[i + 1]]
    BY <1>6, <2>1
  <2>3. Cardinality(OnesUpto(bytes, i + 1)) = Cardinality(OnesUpto(bytes, i)) + FET!popCount[bytes[i + 1]]
    BY <2>1, ByteCounts
  <2> QED
    BY <1>8, <2>1, <2>2, <2>3
<1>9. n \in T
  <2> HIDE DEF T
  <2> QED
    BY <1>1, <1>7, <1>8, NatInduct
<1> QED
  BY <1>1, <1>5, <1>9

PrintableBytes(bytes) == {k \in 1..Len(bytes) : FET!isPrintable(bytes[k])}

\* From j on, and somewhere up to i, there are 21 printable bytes in a row.
RunAt(bytes, j)   == \A k \in j..(j + 20) : k \in PrintableBytes(bytes)
LongRun(bytes, i) == \E j \in 1..(i - 20) : RunAt(bytes, j)

\* What the loop of ex4 knows after i bytes.
Scanned(bytes, i, s) ==
  /\ Streak(PrintableBytes(bytes), i, s.current)
  /\ s.maxCount \in Nat
  /\ s.current > 20 \/ s.maxCount > 20 <=> LongRun(bytes, i)

Counts == [current : Nat, maxCount : Nat]

ScanStep(bytes, i, s) ==
  IF FET!isPrintable(bytes[i]) THEN [s EXCEPT !.current = @ + 1]
  ELSE [current |-> 0, maxCount |-> IF s.current > s.maxCount THEN s.current ELSE s.maxCount]

LEMMA ScanSteps ==
  ASSUME NEW bytes \in Bytes, NEW i \in Nat, i + 1 <= Len(bytes), NEW s \in Counts, Scanned(bytes, i, s)
  PROVE  Scanned(bytes, i + 1, ScanStep(bytes, i + 1, s))
<1> DEFINE P == PrintableBytes(bytes)
           t == ScanStep(bytes, i + 1, s)
<1>1. Streak(P, i, s.current) /\ s.current \in 0..i /\ s.current \in Nat /\ s.maxCount \in Nat
  BY DEF Scanned, Streak, Counts
<1>2. i + 1 \in P <=> FET!isPrintable(bytes[i + 1])
  <2>1. i + 1 \in 1..Len(bytes)
    BY DEF Bytes
  <2> QED
    BY <2>1 DEF PrintableBytes
<1> HIDE DEF P
<1>3. LongRun(bytes, i + 1) <=> LongRun(bytes, i) \/ (i + 1 >= 21 /\ RunAt(bytes, i - 19))
  <2>1. /\ \A j \in 1..(i + 1 - 20) : j \in 1..(i - 20) \/ (j = i - 19 /\ i + 1 >= 21)
        /\ \A j \in 1..(i - 20) : j \in 1..(i + 1 - 20)
        /\ i + 1 >= 21 => i - 19 \in 1..(i + 1 - 20)
    OBVIOUS
  <2> QED
    BY <2>1 DEF LongRun
<1>4. CASE FET!isPrintable(bytes[i + 1])
  <2>1. t.current = s.current + 1 /\ t.maxCount = s.maxCount
    BY <1>4 DEF ScanStep, Counts
  <2>2. Streak(P, i + 1, s.current + 1)
    BY <1>1, <1>2, <1>4, StreakGrows
  <2>3. s.current + 1 >= 21 <=> (i + 1 >= 21 /\ RunAt(bytes, i - 19))
    <3>1. i + 1 \in Nat /\ 21 \in Nat \ {0} /\ i + 1 - 21 + 1 = i - 19 /\ i - 19 + 20 = i + 1
      OBVIOUS
    <3>2. s.current + 1 >= 21 <=> (i + 1 >= 21 /\ \A k \in (i + 1 - 21 + 1)..(i + 1) : k \in P)
      BY <2>2, <3>1, StreakLong
    <3> QED
      BY <3>1, <3>2 DEF RunAt, P
  <2>4. s.current + 1 > 20 \/ s.maxCount > 20 <=> LongRun(bytes, i + 1)
    <3>1. s.current > 20 => s.current + 1 >= 21
      BY <1>1
    <3>2. s.current + 1 > 20 <=> s.current + 1 >= 21
      BY <1>1
    <3> QED
      BY <1>3, <2>3, <3>1, <3>2, Zenon DEF Scanned
  <2> HIDE DEF t
  <2> QED
    BY <1>1, <2>1, <2>2, <2>4 DEF Scanned, P, t
<1>5. CASE ~FET!isPrintable(bytes[i + 1])
  <2>1. t.current = 0 /\ t.maxCount = IF s.current > s.maxCount THEN s.current ELSE s.maxCount
    BY <1>5 DEF ScanStep
  <2>2. Streak(P, i + 1, 0)
    BY <1>2, <1>5, StreakEnds
  <2>3. ~(i + 1 >= 21 /\ RunAt(bytes, i - 19))
    <3>1. i + 1 \in (i - 19)..(i - 19 + 20)
      OBVIOUS
    <3> QED
      BY <1>2, <1>5, <3>1 DEF RunAt, P
  <2>4. t.maxCount \in Nat /\ (t.maxCount > 20 <=> s.current > 20 \/ s.maxCount > 20) /\ ~(0 > 20)
    <3> HIDE DEF t
    <3> QED
      BY <1>1, <2>1
  <2>5. 0 > 20 \/ t.maxCount > 20 <=> LongRun(bytes, i + 1)
    BY <1>3, <2>3, <2>4, Zenon DEF Scanned
  <2> HIDE DEF t
  <2> QED
    BY <2>1, <2>2, <2>4, <2>5 DEF Scanned, P, t
<1> QED
  BY <1>4, <1>5

\* contiguousPrintable finds a long run wherever it is.
LEMMA ContiguousPrintable ==
  ASSUME NEW bytes \in Bytes
  PROVE  FET!contiguousPrintable(bytes) > 20 <=> LongRun(bytes, Len(bytes))
<1> DEFINE n == Len(bytes)
           none == [current |-> 0, maxCount |-> 0]
           scan(f) == [i \in 0..n |-> IF i = 0 THEN none ELSE ScanStep(bytes, i, f[i - 1])]
           F == [x \in Counts \X (1..n) |-> ScanStep(bytes, x[2], x[1])]
<1>1. n \in Nat
  BY DEF Bytes
<1>2. \A s \in Counts : \A i \in 1..n : ScanStep(bytes, i, s) \in Counts
  BY DEF Counts, ScanStep
<1>3. none \in Counts
  BY DEF Counts
<1>4. PICK g \in [0..n -> Counts] : Follows(g, n, none, F)
  <2>1. F \in [Counts \X (1..n) -> Counts]
    BY <1>2
  <2> HIDE DEF F, n, none
  <2> QED
    BY <1>1, <1>3, <2>1, Recursion
<1>5. g = scan(g)
  <2>1. ASSUME NEW i \in 0..n PROVE g[i] = IF i = 0 THEN none ELSE ScanStep(bytes, i, g[i - 1])
    <3>1. CASE i = 0
      BY <1>4, <3>1 DEF Follows
    <3>2. CASE i # 0
      <4>1. i \in 1..n /\ i - 1 \in 0..n
        BY <1>1, <3>2
      <4>2. <<g[i - 1], i>> \in Counts \X (1..n) /\ g[i] = F[<<g[i - 1], i>>]
        BY <1>4, <4>1 DEF Follows
      <4> QED
        BY <3>2, <4>2
    <3> QED
      BY <3>1, <3>2
  <2> QED
    BY <2>1
<1> DEFINE f == CHOOSE h : h = scan(h)
<1>6. f = scan(f)
  <2> HIDE DEF scan
  <2> QED
    BY <1>5
<1>7. FET!Scan(bytes) = f[n]
  BY DEF FET!Scan, ScanStep
<1> HIDE DEF f
<1>8. \A i \in 0..n : f[i] = IF i = 0 THEN none ELSE ScanStep(bytes, i, f[i - 1])
  BY <1>6
<1> DEFINE T == {i \in Nat : i <= n => f[i] \in Counts /\ Scanned(bytes, i, f[i])}
<1>9. 0 \in T
  <2>1. f[0] = none /\ none.current = 0 /\ none.maxCount = 0
    BY <1>1, <1>8
  <2>2. Streak(PrintableBytes(bytes), 0, 0)
    BY DEF Streak
  <2>3. ~LongRun(bytes, 0)
    BY DEF LongRun
  <2> QED
    BY <1>3, <2>1, <2>2, <2>3 DEF Scanned
<1>10. ASSUME NEW i \in Nat, i \in T PROVE i + 1 \in T
  <2> SUFFICES ASSUME i + 1 <= n PROVE f[i + 1] \in Counts /\ Scanned(bytes, i + 1, f[i + 1])
    OBVIOUS
  <2>1. i + 1 \in 1..n /\ i + 1 \in 0..n /\ i + 1 # 0 /\ (i + 1) - 1 = i /\ i <= n
    BY <1>1
  <2>2. f[i + 1] = ScanStep(bytes, i + 1, f[i])
    BY <1>8, <2>1
  <2>3. f[i] \in Counts /\ Scanned(bytes, i, f[i])
    BY <1>10, <2>1
  <2> QED
    BY <1>2, <2>1, <2>2, <2>3, ScanSteps
<1>11. n \in T
  <2> HIDE DEF T
  <2> QED
    BY <1>1, <1>9, <1>10, NatInduct
<1>12. f[n] \in Counts /\ (f[n].current > 20 \/ f[n].maxCount > 20 <=> LongRun(bytes, n))
  BY <1>1, <1>11 DEF Scanned
<1>13. f[n].current \in Nat /\ f[n].maxCount \in Nat
  BY <1>12 DEF Counts
<1> HIDE DEF T, n
<1>14. FET!contiguousPrintable(bytes) > 20 <=> f[n].current > 20 \/ f[n].maxCount > 20
  BY <1>7, <1>13 DEF FET!contiguousPrintable
<1> QED
  BY <1>12, <1>14 DEF n

\* The five measures are those of the paper.
LEMMA MeasuresEncrypted ==
  ASSUME NEW bytes \in Bytes
  PROVE  FET!exempt(bytes) <=> ~FET!Encrypted(bytes)
<1> DEFINE n == Len(bytes)
           printable == {i \in 1..n : FET!isPrintable(bytes[i])}
           set == {x \in (1..n) \X (0..7) : (bytes[x[1]] \div 2 ^ x[2]) % 2 = 1}
<1>1. n \in Nat
  BY DEF Bytes
<1>2. FET!Cardinality(set) = FET!totalPopCount(bytes) /\ FET!Cardinality(set) \in Nat
  <2>1. set = OnesUpto(bytes, n)
    BY DEF OnesUpto, Places, Bit
  <2>2. Cardinality(OnesUpto(bytes, n)) \in Nat
    BY <1>1, OnesFinite DEF OnesUpto
  <2> HIDE DEF set
  <2> QED
    BY <2>1, <2>2, TotalPopCount, SameCardinalityFET
<1>3. FET!Cardinality(printable) \in Nat
  <2>1. IsFiniteSet(1..n)
    BY <1>1, FS_Interval
  <2>2. printable \subseteq 1..n
    OBVIOUS
  <2> HIDE DEF printable
  <2>3. Cardinality(printable) \in Nat
    BY <2>1, <2>2, FS_Subset, FS_CardinalityType
  <2> QED
    BY <2>3, SameCardinalityFET
<1> HIDE DEF printable, set
<1>4. FET!looksRandom(bytes) <=> 17 * n < 5 * FET!Cardinality(set) /\ 5 * FET!Cardinality(set) < 23 * n
  <2> DEFINE c == FET!Cardinality(set)
  <2>1. FET!looksRandom(bytes) <=> 10 * c > 34 * n /\ 10 * c < 46 * n
    BY <1>2 DEF FET!looksRandom
  <2> HIDE DEF c, n
  <2>2. c \in Nat
    BY <1>2 DEF c
  <2>3. 10 * c > 34 * n <=> 17 * n < 5 * c
    BY <1>1, <2>2
  <2>4. 10 * c < 46 * n <=> 5 * c < 23 * n
    BY <1>1, <2>2
  <2> QED
    BY <2>1, <2>3, <2>4 DEF c
<1>5. FET!isFirstSixPrintable(bytes) <=> n >= 6 /\ FET!Printable(bytes, 1, 6)
  BY DEF FET!isFirstSixPrintable, FET!Printable
<1>6. FET!mostlyPrintable(bytes) <=> ~(FET!Cardinality(printable) <= n \div 2)
  <2> DEFINE c == FET!Cardinality(printable)
  <2>1. FET!mostlyPrintable(bytes) <=> 2 * c > n
    BY DEF FET!mostlyPrintable, printable
  <2> HIDE DEF c, n
  <2>2. c \in Nat
    BY <1>3 DEF c
  <2>3. 2 * c > n <=> ~(c <= n \div 2)
    BY <1>1, <2>2
  <2> QED
    BY <2>1, <2>3 DEF c
<1>7. FET!contiguousPrintable(bytes) > 20 <=> \E i \in 1..(n - 20) : FET!Printable(bytes, i, i + 20)
  <2>1. ASSUME NEW i \in 1..(n - 20) PROVE RunAt(bytes, i) <=> FET!Printable(bytes, i, i + 20)
    <3>1. \A k \in i..(i + 20) : k \in 1..n
      BY <1>1
    <3> QED
      BY <3>1 DEF RunAt, FET!Printable, PrintableBytes
  <2> QED
    BY <2>1, ContiguousPrintable DEF LongRun
<1>8. FET!Encrypted(bytes) <=>
        /\ \A i \in 1..(n - 20) : ~FET!Printable(bytes, i, i + 20)
        /\ n >= 6 => ~FET!Printable(bytes, 1, 6)
        /\ FET!Cardinality(printable) <= n \div 2
        /\ 17 * n < 5 * FET!Cardinality(set) /\ 5 * FET!Cardinality(set) < 23 * n
        /\ ~FET!isTLSorHTTP(bytes)
  BY Zenon DEF FET!Encrypted, printable, set
<1> HIDE DEF n
<1> QED
  BY <1>4, <1>5, <1>6, <1>7, <1>8, Zenon DEF FET!exempt

-----------------------------------------------------------------------------
(* FET: the verdict. *)

Judged == {i \in 1..Len(fed) : fed[i].data.bytes # <<>> /\ ~fed[i].data.skip}
Gaps   == {i \in 1..Len(fed) : fed[i].data.skip}

\* The first chunk with data was judged, and the analyzer is done with it or
\* with a gap.
FETInv ==
  /\ fed \in Seq(Packet(FETChunks))
  /\ finished <=> Gaps # {} \/ Judged # {}
  /\ Judged = {} => shown = <<>>
  /\ \A i \in Judged : shown = [yes |-> FET!Encrypted(fed[i].data.bytes)]

LEMMA FETInit == FET!Stream!Init => FETInv
BY DEF FET!Stream!Init, FET!Stream!Nothing, FETInv, Judged, Gaps

LEMMA FETStep == ASSUME DatagramAssumption, FETInv, FET!Stream!Next PROVE FETInv'
<1>1. PICK d \in {"req", "resp"}, chunk \in FETChunks : FET!Stream!Feed(d, chunk)
  BY DEF FET!Stream!Next, FET!Stream!Dirs, FET!ChunksOf
<1> DEFINE n == Len(fed)
           r == FET!FeedFET(d, parser, chunk)
<1>2. /\ ~finished /\ fed' = Append(fed, [dir |-> d, data |-> chunk])
      /\ shown' = (IF r.update.type = "merge" THEN FET!Stream!Merged(r.update.m, shown)
                   ELSE IF r.update.type = "replace" THEN r.update.m ELSE shown)
      /\ finished' = r.done
  BY <1>1 DEF FET!Stream!Feed
<1>3. chunk.bytes \in Bytes /\ chunk.skip \in BOOLEAN
  BY DEF DatagramAssumption, FET!FETAssumption, Bytes
<1>4. /\ finished' <=> chunk.skip \/ chunk.bytes # <<>>
      /\ shown' = IF chunk.skip \/ chunk.bytes = <<>> THEN shown
                  ELSE [yes |-> FET!Encrypted(chunk.bytes)]
  <2>1. CASE chunk.skip
    BY <1>2, <2>1 DEF FET!FeedFET, FET!Answer
  <2>2. CASE ~chunk.skip /\ chunk.bytes = <<>>
    BY <1>2, <2>2 DEF FET!FeedFET, FET!Answer
  <2>3. CASE ~chunk.skip /\ chunk.bytes # <<>>
    <3>1. r.done = TRUE /\ r.update.type = "replace" /\ r.update.m = [yes |-> ~FET!exempt(chunk.bytes)]
      BY <2>3 DEF FET!FeedFET, FET!Answer
    <3> HIDE DEF r
    <3>2. (~FET!exempt(chunk.bytes)) = FET!Encrypted(chunk.bytes)
      <4>1. FET!Encrypted(chunk.bytes) \in BOOLEAN
        BY Zenon DEF FET!Encrypted
      <4> QED
        BY <1>3, <4>1, MeasuresEncrypted
    <3> QED
      BY <1>2, <2>3, <3>1, <3>2
  <2> QED
    BY <2>1, <2>2, <2>3
<1>5. /\ fed' \in Seq(Packet(FETChunks)) /\ n \in Nat /\ Len(fed') = n + 1
      /\ fed'[n + 1] = [dir |-> d, data |-> chunk]
      /\ \A i \in 1..n : fed'[i] = fed[i]
  <2>1. [dir |-> d, data |-> chunk] \in Packet(FETChunks)
    BY DEF Packet
  <2> QED
    BY <1>2, <2>1, Appended DEF FETInv
<1> HIDE DEF n
<1>6. Judged = {} /\ Gaps = {} /\ shown = <<>>
  BY <1>2 DEF FETInv
<1>7. /\ Judged' = IF chunk.skip \/ chunk.bytes = <<>> THEN {} ELSE {n + 1}
      /\ Gaps' = IF chunk.skip THEN {n + 1} ELSE {}
  <2>1. \A i \in 1..n : ~(fed[i].data.bytes # <<>> /\ ~fed[i].data.skip) /\ ~fed[i].data.skip
    BY <1>6 DEF Judged, Gaps, n
  <2>2. \A i \in 1..(n + 1) : i = n + 1 \/ i \in 1..n
    BY <1>5
  <2>3. n + 1 \in 1..(n + 1) /\ fed'[n + 1].data = chunk
    BY <1>5
  <2>4. /\ Judged' = {i \in 1..(n + 1) : fed'[i].data.bytes # <<>> /\ ~fed'[i].data.skip}
        /\ Gaps' = {i \in 1..(n + 1) : fed'[i].data.skip}
    BY <1>5 DEF Judged, Gaps
  <2>5. \A i \in 1..(n + 1) : /\ i \in Judged' <=> i = n + 1 /\ ~(chunk.skip \/ chunk.bytes = <<>>)
                              /\ i \in Gaps' <=> i = n + 1 /\ chunk.skip
    BY <1>5, <2>1, <2>2, <2>3, <2>4
  <2>6. \A i : i \in Judged' \/ i \in Gaps' => i \in 1..(n + 1)
    BY <2>4
  <2> QED
    BY <2>3, <2>5, <2>6
<1>8. fed'[n + 1].data = chunk
  BY <1>5
<1> QED
  BY <1>4, <1>5, <1>6, <1>7, <1>8 DEF FETInv

LEMMA FETCorrect == FETInv => FET!JudgesFirstChunk
<1> SUFFICES ASSUME FETInv PROVE FET!JudgesFirstChunk
  OBVIOUS
<1>1. Judged # {} => (CHOOSE i \in Judged : TRUE) \in Judged
  OBVIOUS
<1>2. shown = IF Judged = {} THEN <<>>
              ELSE [yes |-> FET!Encrypted(fed[CHOOSE i \in Judged : TRUE].data.bytes)]
  BY <1>1 DEF FETInv
<1>3. finished <=> (\E i \in 1..Len(fed) : fed[i].data.skip) \/ Judged # {}
  BY DEF FETInv, Gaps
<1> QED
  BY <1>2, <1>3, Zenon DEF FET!JudgesFirstChunk, Judged

-----------------------------------------------------------------------------
(* Trojan: the turns. *)

\* Each module extends FiniteSets for itself.
LEMMA SameCardinalityTrojan ==
  ASSUME NEW S PROVE Trojan!Cardinality(S) = Cardinality(S)
BY DEF Trojan!Cardinality, Cardinality

Sums(h, s) == [i \in 0..Len(s) |-> IF i = 0 THEN 0 ELSE h[i - 1] + s[i]]

\* Total is what its recursive function says.
LEMMA TotalSums ==
  ASSUME NEW s \in Seq(Nat)
  PROVE  \E f : f = Sums(f, s) /\ Trojan!Total(s) = f[Len(s)]
<1> DEFINE n == Len(s)
           F == [x \in Nat \X (1..n) |-> x[1] + s[x[2]]]
<1>1. n \in Nat /\ \A i \in 1..n : s[i] \in Nat
  OBVIOUS
<1>2. PICK g \in [0..n -> Nat] : Follows(g, n, 0, F)
  <2>1. F \in [Nat \X (1..n) -> Nat]
    BY <1>1
  <2> HIDE DEF F, n
  <2> QED
    BY <1>1, <2>1, Recursion
<1>3. g = Sums(g, s)
  <2>1. ASSUME NEW i \in 0..n PROVE g[i] = IF i = 0 THEN 0 ELSE g[i - 1] + s[i]
    <3>1. CASE i = 0
      BY <1>2, <3>1 DEF Follows
    <3>2. CASE i # 0
      <4>1. i \in 1..n /\ i - 1 \in 0..n
        BY <1>1, <3>2
      <4>2. <<g[i - 1], i>> \in Nat \X (1..n) /\ g[i] = F[<<g[i - 1], i>>]
        BY <1>2, <4>1 DEF Follows
      <4> QED
        BY <3>2, <4>2
    <3> QED
      BY <3>1, <3>2
  <2> QED
    BY <2>1 DEF Sums
<1> DEFINE f == CHOOSE h : h = Sums(h, s)
<1>4. f = Sums(f, s)
  BY <1>3
<1>5. Trojan!Total(s) = f[n]
  BY DEF Trojan!Total, Sums
<1> QED
  BY <1>4, <1>5

LEMMA TotalOfAppended ==
  ASSUME NEW s \in Seq(Nat), NEW x \in Nat
  PROVE  /\ Trojan!Total(s) \in Nat /\ Trojan!Total(<<>>) = 0
         /\ Trojan!Total(Append(s, x)) = Trojan!Total(s) + x
<1> DEFINE n == Len(s)
           t == Append(s, x)
<1>1. /\ n \in Nat /\ t \in Seq(Nat) /\ Len(t) = n + 1 /\ t[n + 1] = x
      /\ \A i \in 1..n : t[i] = s[i] /\ s[i] \in Nat
  BY Appended
<1>2. PICK f : f = Sums(f, s) /\ Trojan!Total(s) = f[n]
  BY TotalSums
<1>3. PICK g : g = Sums(g, t) /\ Trojan!Total(t) = g[Len(t)]
  BY <1>1, TotalSums
<1>4. Trojan!Total(<<>>) = 0
  <2>1. <<>> \in Seq(Nat) /\ Len(<<>>) = 0
    OBVIOUS
  <2>2. PICK e : e = Sums(e, <<>>) /\ Trojan!Total(<<>>) = e[0]
    BY <2>1, TotalSums
  <2> QED
    BY <2>1, <2>2 DEF Sums
<1> HIDE DEF n, t
<1>5. \A i \in 0..n : f[i] = IF i = 0 THEN 0 ELSE f[i - 1] + s[i]
  BY <1>2 DEF Sums, n
<1>6. \A i \in 0..(n + 1) : g[i] = IF i = 0 THEN 0 ELSE g[i - 1] + t[i]
  BY <1>1, <1>3 DEF Sums
<1> DEFINE T == {i \in Nat : i <= n => f[i] \in Nat /\ g[i] = f[i]}
<1>7. 0 \in T
  BY <1>1, <1>5, <1>6
<1>8. ASSUME NEW i \in Nat, i \in T PROVE i + 1 \in T
  <2> SUFFICES ASSUME i + 1 <= n PROVE f[i + 1] \in Nat /\ g[i + 1] = f[i + 1]
    OBVIOUS
  <2>1. i + 1 \in 1..n /\ i + 1 \in 0..n /\ i + 1 \in 0..(n + 1) /\ i + 1 # 0 /\ (i + 1) - 1 = i /\ i <= n
    BY <1>1
  <2>2. f[i] \in Nat /\ g[i] = f[i]
    BY <1>8, <2>1
  <2>3. f[i + 1] = f[i] + s[i + 1] /\ g[i + 1] = g[i] + t[i + 1]
    BY <1>5, <1>6, <2>1
  <2> QED
    BY <1>1, <2>1, <2>2, <2>3
<1>9. n \in T
  <2> HIDE DEF T
  <2> QED
    BY <1>1, <1>7, <1>8, NatInduct
<1>10. f[n] \in Nat /\ g[n] = f[n]
  BY <1>1, <1>9
<1>11. g[n + 1] = g[n] + x
  <2>1. n + 1 \in 0..(n + 1) /\ n + 1 # 0 /\ (n + 1) - 1 = n
    BY <1>1
  <2> QED
    BY <1>1, <1>6, <2>1
<1> QED
  BY <1>1, <1>2, <1>3, <1>4, <1>10, <1>11 DEF t

\* The chunks that begin a turn, but the first.
Changes ==
  {j \in Trojan!Counted : \E k \in Trojan!Counted :
     /\ k < j /\ fed[k].dir # fed[j].dir
     /\ ~\E l \in Trojan!Counted : k < l /\ l < j}

\* The chunk is one of those that count.
Enters(d, c) == c.len > 0 /\ ~c.skip /\ (Trojan!Counted # {} \/ (d = "req" /\ c.ccs))

\* The last of those before comes from the other side.
Turned(d) == \E k \in Trojan!Counted : (\A j \in Trojan!Counted : j <= k) /\ fed[k].dir # d

LEMMA CountedGrows ==
  ASSUME fed \in Seq(Packet(TrojanChunks)), NEW n, n = Len(fed), \A i \in 1..n : ~fed[i].data.skip,
         NEW d \in {"req", "resp"}, NEW c \in TrojanChunks, fed' = Append(fed, [dir |-> d, data |-> c])
  PROVE  /\ n \in Nat /\ Len(fed') = n + 1 /\ fed'[n + 1].dir = d /\ fed'[n + 1].data = c
         /\ fed' \in Seq(Packet(TrojanChunks))
         /\ \A i \in 1..n : fed'[i] = fed[i]
         /\ Trojan!Counted \subseteq 1..n
         /\ Trojan!Counted' = IF Enters(d, c) THEN Trojan!Counted \cup {n + 1} ELSE Trojan!Counted
<1> DEFINE e == [dir |-> d, data |-> c]
           C == Trojan!Counted
<1>1. e \in Packet(TrojanChunks) /\ e.dir = d /\ e.data = c
  BY DEF Packet
<1> HIDE DEF e
<1>2. /\ n \in Nat /\ Len(fed') = n + 1 /\ fed'[n + 1] = e /\ fed' \in Seq(Packet(TrojanChunks))
      /\ \A i \in 1..n : fed'[i] = fed[i]
  BY <1>1, Appended DEF e
<1>3. C \subseteq 1..n
  BY DEF Trojan!Counted
<1> DEFINE Opens(i)  == fed[i].dir = "req" /\ fed[i].data.ccs /\ fed[i].data.len > 0
           opens     == d = "req" /\ c.ccs /\ c.len > 0
<1>4. C # {} <=> \E j \in 1..n : Opens(j)
  <2>1. ASSUME NEW j \in 1..n, Opens(j) PROVE j \in C
    <3>1. j \in 1..j
      BY <1>2
    <3> QED
      BY <2>1, <3>1 DEF Trojan!Counted
  <2>2. ASSUME NEW i \in C PROVE \E j \in 1..n : Opens(j)
    <3>1. PICK j \in 1..i : Opens(j)
      BY DEF Trojan!Counted
    <3>2. j \in 1..n
      BY <1>2, <1>3
    <3> QED
      BY <3>1, <3>2
  <2> QED
    BY <2>1, <2>2
<1>5. ASSUME NEW i \in 1..n PROVE i \in C' <=> i \in C
  <2>1. /\ i \in 1..(n + 1) /\ fed'[i] = fed[i] /\ \A j \in 1..i : j \in 1..n
    BY <1>2
  <2>2. \A j \in 1..i : fed'[j] = fed[j]
    BY <1>2, <2>1
  <2> QED
    BY <1>2, <2>1, <2>2 DEF Trojan!Counted
<1>6. n + 1 \in C' <=> Enters(d, c)
  <2>1. n + 1 \in 1..(n + 1) /\ fed'[n + 1].data = c /\ fed'[n + 1].dir = d
    BY <1>1, <1>2
  <2>2. n + 1 \in C' <=> c.len > 0 /\ ~c.skip /\ \E j \in 1..(n + 1) :
          fed'[j].dir = "req" /\ fed'[j].data.ccs /\ fed'[j].data.len > 0
    BY <1>2, <2>1 DEF Trojan!Counted
  <2>3. (\E j \in 1..(n + 1) : fed'[j].dir = "req" /\ fed'[j].data.ccs /\ fed'[j].data.len > 0)
          <=> (\E j \in 1..n : Opens(j)) \/ opens
    <3>1. \A j \in 1..(n + 1) : j = n + 1 \/ j \in 1..n
      BY <1>2
    <3>2. \A j \in 1..n : j \in 1..(n + 1) /\ fed'[j] = fed[j]
      BY <1>2
    <3> QED
      BY <2>1, <3>1, <3>2
  <2> HIDE DEF C
  <2> QED
    BY <1>4, <2>2, <2>3 DEF Enters, C
<1>7. \A i \in C' : i \in 1..n \/ i = n + 1
  <2>1. C' \subseteq 1..(n + 1)
    BY <1>2 DEF Trojan!Counted
  <2> QED
    BY <1>2, <2>1
<1>8. C' = IF Enters(d, c) THEN C \cup {n + 1} ELSE C
  <2>1. \A i \in C : i \in C'
    BY <1>3, <1>5
  <2>2. \A i \in C' : i \in C \/ (i = n + 1 /\ Enters(d, c))
    BY <1>5, <1>6, <1>7
  <2> HIDE DEF C
  <2> QED
    BY <1>6, <2>1, <2>2
<1> QED
  BY <1>1, <1>2, <1>3, <1>8

LEMMA ChangesGrow ==
  ASSUME fed \in Seq(Packet(TrojanChunks)), NEW n, n = Len(fed), \A i \in 1..n : ~fed[i].data.skip,
         NEW d \in {"req", "resp"}, NEW c \in TrojanChunks, fed' = Append(fed, [dir |-> d, data |-> c])
  PROVE  /\ Changes \subseteq Trojan!Counted
         /\ Changes' = IF Enters(d, c) /\ Turned(d) THEN Changes \cup {n + 1} ELSE Changes
<1> DEFINE C == Trojan!Counted
           Begins(j) == \E k \in C : k < j /\ fed[k].dir # fed[j].dir /\ ~\E l \in C : k < l /\ l < j
<1>1. /\ n \in Nat /\ fed'[n + 1].dir = d /\ C \subseteq 1..n
      /\ \A i \in 1..n : fed'[i] = fed[i]
      /\ C' = IF Enters(d, c) THEN C \cup {n + 1} ELSE C
  BY CountedGrows
<1>2. Changes = {j \in C : Begins(j)} /\ Changes' = {j \in C' : Begins(j)'}
  BY DEF Changes
<1>3. ASSUME NEW j \in C PROVE Begins(j)' <=> Begins(j)
  <2>1. /\ j \in 1..n /\ fed'[j] = fed[j]
        /\ \A k \in C' : k < j => k \in C
        /\ \A k \in C : k \in C' /\ fed'[k] = fed[k]
    <3>1. j \in 1..n /\ ~(n + 1 < j)
      BY <1>1
    <3>2. \A k \in C : k \in C' /\ k \in 1..n
      BY <1>1
    <3>3. \A k \in C' : k \in C \/ k = n + 1
      BY <1>1
    <3> HIDE DEF C
    <3> QED
      BY <1>1, <3>1, <3>2, <3>3
  <2> HIDE DEF C
  <2> QED
    BY <2>1
<1>4. Enters(d, c) => (Begins(n + 1)' <=> Turned(d))
  <2> SUFFICES ASSUME Enters(d, c) PROVE Begins(n + 1)' <=> Turned(d)
    OBVIOUS
  <2>1. C' = C \cup {n + 1} /\ ~(n + 1 < n + 1)
    BY <1>1
  <2>2. \A k \in C : /\ k < n + 1 /\ fed'[k] = fed[k]
                     /\ (\A l \in C : l <= k) <=> ~\E l \in C : k < l /\ l < n + 1
    <3> TAKE k \in C
    <3>1. \A i \in C : i \in 1..n
      BY <1>1
    <3> HIDE DEF C
    <3>2. k \in 1..n /\ k < n + 1 /\ fed'[k] = fed[k]
      BY <1>1, <3>1
    <3>3. ASSUME NEW l \in C PROVE l < n + 1 /\ (l <= k <=> ~(k < l))
      <4>1. l \in 1..n
        BY <3>1
      <4> QED
        BY <1>1, <3>2, <4>1
    <3> QED
      BY <3>2, <3>3
  <2>3. ASSUME NEW k PROVE (\E l \in C' : k < l /\ l < n + 1) <=> (\E l \in C : k < l /\ l < n + 1)
    <3> HIDE DEF C
    <3> QED
      BY <2>1
  <2>4. Begins(n + 1)' <=> \E k \in C' : /\ k < n + 1 /\ fed'[k].dir # d
                                         /\ ~\E l \in C' : k < l /\ l < n + 1
    BY <1>1
  <2> HIDE DEF C, Begins
  <2> QED
    BY <2>1, <2>2, <2>3, <2>4 DEF Turned, C
<1>5. \A j \in C : j # n + 1 /\ j \in C'
  BY <1>1
<1> HIDE DEF C, Begins
<1> QED
  BY <1>1, <1>2, <1>3, <1>4, <1>5 DEF C

Upto(i) == {j \in Changes : j <= i}

LEMMA TurnsGrow ==
  ASSUME fed \in Seq(Packet(TrojanChunks)), NEW n, n = Len(fed), \A i \in 1..n : ~fed[i].data.skip,
         NEW d \in {"req", "resp"}, NEW c \in TrojanChunks, fed' = Append(fed, [dir |-> d, data |-> c])
  PROVE  /\ \A i \in 1..n : Trojan!TurnOf(i)' = Trojan!TurnOf(i) /\ Trojan!TurnOf(i) \in Nat \ {0}
         /\ Enters(d, c) /\ Trojan!Counted = {} => Trojan!TurnOf(n + 1)' = 1
         /\ Enters(d, c) => \A k \in Trojan!Counted : (\A j \in Trojan!Counted : j <= k) =>
              Trojan!TurnOf(n + 1)' = Trojan!TurnOf(k) + IF fed[k].dir # d THEN 1 ELSE 0
<1>1. /\ n \in Nat /\ Trojan!Counted \subseteq 1..n
      /\ Changes \subseteq Trojan!Counted
      /\ Changes' = IF Enters(d, c) /\ Turned(d) THEN Changes \cup {n + 1} ELSE Changes
  BY CountedGrows, ChangesGrow
<1>2. ASSUME NEW i
      PROVE  /\ Trojan!TurnOf(i) = 1 + Cardinality(Upto(i))
             /\ Trojan!TurnOf(i)' = 1 + Cardinality(Upto(i)')
  <2>1. /\ {j \in Trojan!Counted : j <= i /\ \E k \in Trojan!Counted :
               k < j /\ fed[k].dir # fed[j].dir /\ ~\E l \in Trojan!Counted : k < l /\ l < j} = Upto(i)
    BY Zenon DEF Upto, Changes
  <2>2. Trojan!TurnOf(i) = 1 + Cardinality(Upto(i))
    BY <2>1, SameCardinalityTrojan DEF Trojan!TurnOf
  <2>3. /\ {j \in Trojan!Counted' : j <= i /\ \E k \in Trojan!Counted' :
               k < j /\ fed'[k].dir # fed'[j].dir /\ ~\E l \in Trojan!Counted' : k < l /\ l < j} = Upto(i)'
    BY Zenon DEF Upto, Changes
  <2>4. Trojan!TurnOf(i)' = 1 + Cardinality(Upto(i)')
    BY <2>3, SameCardinalityTrojan DEF Trojan!TurnOf
  <2> QED
    BY <2>2, <2>4
<1>3. \A i : IsFiniteSet(Upto(i)) /\ Cardinality(Upto(i)) \in Nat
  <2> TAKE i
  <2>1. IsFiniteSet(1..n)
    BY <1>1, FS_Interval
  <2>2. Upto(i) \subseteq 1..n
    BY <1>1 DEF Upto
  <2> QED
    BY <2>1, <2>2, FS_Subset, FS_CardinalityType
<1>4. ASSUME NEW i \in 1..n PROVE Trojan!TurnOf(i)' = Trojan!TurnOf(i) /\ Trojan!TurnOf(i) \in Nat \ {0}
  <2>1. Upto(i)' = Upto(i)
    <3>1. ~(n + 1 <= i)
      BY <1>1
    <3> QED
      BY <1>1, <3>1 DEF Upto
  <2> QED
    BY <1>2, <1>3, <2>1
<1>5. ASSUME Enters(d, c), Trojan!Counted = {} PROVE Trojan!TurnOf(n + 1)' = 1
  <2>1. ~Turned(d)
    BY <1>5 DEF Turned
  <2>2. Upto(n + 1)' = {}
    BY <1>1, <1>5, <2>1 DEF Upto
  <2> QED
    <3>1. Cardinality(Upto(n + 1)') = 0
      BY <2>2, FS_EmptySet
    <3> QED
      BY <1>2, <3>1
<1>6. ASSUME Enters(d, c), NEW k \in Trojan!Counted, \A j \in Trojan!Counted : j <= k
      PROVE  Trojan!TurnOf(n + 1)' = Trojan!TurnOf(k) + IF fed[k].dir # d THEN 1 ELSE 0
  <2>1. Turned(d) <=> fed[k].dir # d
    <3>1. ASSUME NEW l \in Trojan!Counted, \A j \in Trojan!Counted : j <= l PROVE l = k
      <4>1. l \in Nat /\ k \in Nat /\ l <= k /\ k <= l
        BY <1>1, <1>6, <3>1
      <4> QED
        BY <4>1
    <3> QED
      BY <1>6, <3>1 DEF Turned
  <2>2. Upto(k) = Changes /\ n + 1 \notin Changes
    <3>1. \A j \in Changes : j <= k /\ j \in 1..n
      BY <1>1, <1>6
    <3>2. n + 1 \notin 1..n
      BY <1>1
    <3> QED
      BY <3>1, <3>2 DEF Upto
  <2>3. Upto(n + 1)' = Changes'
    <3>1. \A j \in Changes' : j <= n + 1
      BY <1>1
    <3> QED
      BY <3>1 DEF Upto
  <2>4. CASE fed[k].dir # d
    <3>1. Upto(n + 1)' = Upto(k) \cup {n + 1}
      BY <1>1, <1>6, <2>1, <2>2, <2>3, <2>4
    <3>2. Cardinality(Upto(n + 1)') = Cardinality(Upto(k)) + 1
      BY <1>3, <2>2, <3>1, FS_AddElement
    <3> QED
      BY <1>2, <1>3, <2>4, <3>2
  <2>5. CASE fed[k].dir = d
    <3>1. Upto(n + 1)' = Upto(k)
      BY <1>1, <2>1, <2>2, <2>3, <2>5
    <3> QED
      BY <1>2, <1>3, <2>5, <3>1
  <2> QED
    BY <2>4, <2>5
<1> QED
  BY <1>4, <1>5, <1>6

\* A chunk that counts makes its turn longer, and no other.
LEMMA TurnsAdd ==
  ASSUME DatagramAssumption,
         fed \in Seq(Packet(TrojanChunks)), NEW n, n = Len(fed), \A i \in 1..n : ~fed[i].data.skip,
         NEW d \in {"req", "resp"}, NEW c \in TrojanChunks, fed' = Append(fed, [dir |-> d, data |-> c]),
         NEW m
  PROVE  /\ Trojan!Turn(m) \in Nat
         /\ Trojan!Turn(m)' = Trojan!Turn(m)
              + IF Enters(d, c) /\ Trojan!TurnOf(n + 1)' = m THEN c.len ELSE 0
<1> DEFINE x == IF Enters(d, c) /\ Trojan!TurnOf(n + 1)' = m THEN c.len ELSE 0
<1>1. /\ n \in Nat /\ Len(fed') = n + 1 /\ fed'[n + 1].data = c
      /\ \A i \in 1..n : fed'[i] = fed[i]
      /\ Trojan!Counted \subseteq 1..n
      /\ Trojan!Counted' = IF Enters(d, c) THEN Trojan!Counted \cup {n + 1} ELSE Trojan!Counted
  BY CountedGrows
<1>2. \A i \in 1..n : Trojan!TurnOf(i)' = Trojan!TurnOf(i)
  BY TurnsGrow
<1>3. c.len \in Nat /\ \A i \in 1..n : fed[i].data.len \in Nat
  <2>1. \A i \in 1..n : fed[i] \in Packet(TrojanChunks)
    BY ElementIn
  <2> QED
    BY <2>1 DEF Packet, DatagramAssumption, Trojan!TrojanAssumption
<1>4. x \in Nat
  BY <1>3
<1> DEFINE p == Trojan!Parts(m)
           part(i) == IF i \in Trojan!Counted /\ Trojan!TurnOf(i) = m THEN fed[i].data.len ELSE 0
<1>5. p = [i \in 1..n |-> part(i)] /\ p \in Seq(Nat) /\ Len(p) = n
  <2>1. p = [i \in 1..n |-> part(i)]
    BY DEF Trojan!Parts
  <2>2. \A i \in 1..n : part(i) \in Nat
    BY <1>3
  <2> HIDE DEF p, part
  <2> QED
    BY <1>1, <2>1, <2>2
<1>6. p' = [i \in 1..(n + 1) |-> part(i)']
  BY <1>1 DEF Trojan!Parts
<1>7. \A i \in 1..n : part(i)' = part(i)
  <2>1. \A i \in 1..n : i \in Trojan!Counted' <=> i \in Trojan!Counted
    BY <1>1
  <2> QED
    BY <1>1, <1>2, <2>1
<1>8. part(n + 1)' = x
  <2>1. n + 1 \in Trojan!Counted' <=> Enters(d, c)
    BY <1>1
  <2> QED
    BY <1>1, <2>1
<1>9. p' = Append(p, x)
  <2> HIDE DEF p, part, x
  <2>1. Append(p, x) = [i \in 1..(n + 1) |-> IF i = n + 1 THEN x ELSE p[i]]
    <3>1. /\ Append(p, x) \in Seq(Nat) /\ Len(Append(p, x)) = n + 1 /\ Append(p, x)[n + 1] = x
          /\ \A i \in 1..n : Append(p, x)[i] = p[i]
      BY <1>4, <1>5, Appended
    <3>2. Append(p, x) = [i \in 1..(n + 1) |-> Append(p, x)[i]]
      BY <3>1, SequenceIsFunction
    <3>3. \A i \in 1..(n + 1) : i = n + 1 \/ i \in 1..n
      BY <1>1
    <3>4. \A i \in 1..(n + 1) : Append(p, x)[i] = IF i = n + 1 THEN x ELSE p[i]
      BY <3>1, <3>3
    <3> QED
      BY <3>2, <3>4
  <2>2. \A i \in 1..(n + 1) : part(i)' = IF i = n + 1 THEN x ELSE p[i]
    <3>1. \A i \in 1..(n + 1) : i = n + 1 \/ i \in 1..n
      BY <1>1
    <3> QED
      BY <1>5, <1>7, <1>8, <3>1
  <2> QED
    BY <1>6, <2>1, <2>2
<1>10. Trojan!Turn(m) = Trojan!Total(p) /\ Trojan!Turn(m)' = Trojan!Total(p')
  BY DEF Trojan!Turn
<1> HIDE DEF p, x
<1> QED
  BY <1>4, <1>5, <1>9, <1>10, TotalOfAppended DEF x

TrojanParser ==
  [first : BOOLEAN, count : BOOLEAN, rev : {"req", "resp"}, seq : [1..4 -> Nat], seqIndex : 0..4]

\* The parser is in the turn of the last chunk that counted, with the lengths
\* of the first four; the verdict was given when the fifth began.
TrojanInv ==
  /\ fed \in Seq(Packet(TrojanChunks))
  /\ parser \in TrojanParser /\ parser.first = FALSE
  /\ parser.count <=> Trojan!Counted # {}
  /\ Trojan!Counted = {} => parser.rev = "req" /\ parser.seqIndex = 0
  /\ \A i \in Trojan!Counted : Trojan!TurnOf(i) \in 1..(parser.seqIndex + 1)
  /\ \A k \in Trojan!Counted : (\A j \in Trojan!Counted : j <= k) =>
       /\ Trojan!TurnOf(k) = parser.seqIndex + 1
       /\ parser.seqIndex < 4 => parser.rev = fed[k].dir
  /\ \A m \in 1..4 : parser.seq[m] = Trojan!Turn(m)
  /\ finished <=> parser.seqIndex = 4 \/ Gaps # {}
  /\ shown = IF parser.seqIndex = 4
             THEN [seq |-> parser.seq, yes |-> IsTrojanSeq(parser.seq)] ELSE <<>>

LEMMA TrojanInit == ASSUME Trojan!Stream!Init PROVE TrojanInv
<1>1. /\ fed = <<>> /\ shown = <<>> /\ finished = FALSE
      /\ parser = [first |-> FALSE, count |-> FALSE, rev |-> "req", seq |-> <<0, 0, 0, 0>>, seqIndex |-> 0]
  BY DEF Trojan!Stream!Init, Trojan!Stream!Nothing, Trojan!newTrojanStream
<1>2. /\ fed \in Seq(Packet(TrojanChunks)) /\ Len(fed) = 0 /\ 1..Len(fed) = {}
      /\ Trojan!Counted = {} /\ Gaps = {}
  BY <1>1 DEF Trojan!Counted, Gaps
<1>3. ASSUME NEW m \in 1..4 PROVE parser.seq[m] = Trojan!Turn(m)
  <2>1. Trojan!Parts(m) = <<>>
    BY <1>2 DEF Trojan!Parts
  <2>2. Trojan!Total(<<>>) = 0
    <3>1. <<>> \in Seq(Nat) /\ 0 \in Nat
      OBVIOUS
    <3> QED
      BY <3>1, TotalOfAppended
  <2> QED
    BY <1>1, <2>1, <2>2 DEF Trojan!Turn
<1>4. parser \in TrojanParser
  <2>1. <<0, 0, 0, 0>> \in [1..4 -> Nat]
    OBVIOUS
  <2> QED
    BY <1>1, <2>1 DEF TrojanParser
<1> QED
  BY <1>1, <1>2, <1>3, <1>4 DEF TrojanInv

\* Feed counts the chunk.
Joins(d, p, c) == c.len > 0 /\ ~c.skip /\ (p.count \/ (d = "req" /\ c.ccs))

LEMMA TurnedParser ==
  ASSUME NEW d \in {"req", "resp"}, NEW p \in TrojanParser, p.seqIndex < 4, NEW t, t = Trojan!turn(d, p)
  PROVE  /\ t \in TrojanParser /\ t.first = p.first /\ t.count = p.count
         /\ t.rev = d /\ t.seq = p.seq /\ t.seqIndex = p.seqIndex + 1
<1> DEFINE i == p.seqIndex + 1
<1>1. i \in 0..4 /\ t = [p EXCEPT !.seqIndex = i, !.rev = d]
  BY DEF Trojan!turn, TrojanParser
<1>2. t.seqIndex = p.seqIndex + 1
  BY <1>1 DEF TrojanParser
<1> HIDE DEF i
<1>3. t \in TrojanParser
  BY <1>1 DEF TrojanParser
<1> QED
  BY <1>1, <1>2, <1>3 DEF TrojanParser

LEMMA TrojanSkips ==
  ASSUME NEW d \in {"req", "resp"}, NEW c \in [len : Nat, tls : BOOLEAN, ccs : BOOLEAN, skip : BOOLEAN],
         NEW p \in TrojanParser, p.first = FALSE, ~Joins(d, p, c)
  PROVE  \E f \in BOOLEAN : /\ Trojan!FeedTrojan(d, p, c) = Trojan!Answer(p, Trojan!Silent, f)
                            /\ f <=> c.skip
<1>1. ~Trojan!notTLS(d, p, c)
  BY DEF Trojan!notTLS
<1>2. CASE c.skip
  BY <1>2 DEF Trojan!FeedTrojan
<1>3. CASE ~c.skip
  <2>1. Trojan!FeedTrojan(d, p, c) = Trojan!Answer(p, Trojan!Silent, FALSE)
    <3>1. CASE c.len = 0
      BY <1>3, <3>1 DEF Trojan!FeedTrojan
    <3>2. CASE c.len # 0
      <4>1. p.count = FALSE /\ ~(d = "req" /\ c.ccs)
        BY <1>3, <3>2 DEF Joins, TrojanParser
      <4>2. Trojan!startCounting(d, p, c) = p
        BY <4>1 DEF Trojan!startCounting, TrojanParser
      <4> QED
        BY <1>1, <1>3, <3>2, <4>1, <4>2 DEF Trojan!FeedTrojan
    <3> QED
      BY <3>1, <3>2
  <2> QED
    BY <1>3, <2>1
<1> QED
  BY <1>2, <1>3

LEMMA TrojanCounts ==
  ASSUME NEW d \in {"req", "resp"}, NEW c \in [len : Nat, tls : BOOLEAN, ccs : BOOLEAN, skip : BOOLEAN],
         NEW p \in TrojanParser, p.first = FALSE, p.seqIndex < 4, Joins(d, p, c),
         NEW r, r = Trojan!FeedTrojan(d, p, c)
  PROVE  /\ r.p \in TrojanParser /\ r.p.first = FALSE /\ r.p.count = TRUE
         /\ d = p.rev =>
              /\ r.p.rev = p.rev /\ r.p.seqIndex = p.seqIndex
              /\ r.p.seq = [p.seq EXCEPT ![p.seqIndex + 1] = @ + c.len]
              /\ r.update.type = "none" /\ r.done = FALSE
         /\ d # p.rev /\ p.seqIndex < 3 =>
              /\ r.p.rev = d /\ r.p.seqIndex = p.seqIndex + 1
              /\ r.p.seq = [p.seq EXCEPT ![p.seqIndex + 2] = @ + c.len]
              /\ r.update.type = "none" /\ r.done = FALSE
         /\ d # p.rev /\ p.seqIndex = 3 =>
              /\ r.p.seqIndex = 4 /\ r.p.seq = p.seq
              /\ r.update = [type |-> "replace", m |-> [seq |-> p.seq, yes |-> IsTrojanSeq(p.seq)]]
              /\ r.done = TRUE
<1> DEFINE q == Trojan!startCounting(d, p, c)
           t == Trojan!turn(d, q)
<1>1. /\ p.count \in BOOLEAN /\ p.seqIndex \in 0..3 /\ p.rev \in {"req", "resp"}
      /\ p.seq \in [1..4 -> Nat] /\ c.len \in Nat /\ c.len # 0 /\ c.skip = FALSE
  BY DEF TrojanParser, Joins
<1>2. (p.count \/ (d = "req" /\ c.ccs)) = TRUE
  BY DEF Joins
<1>3. /\ q \in TrojanParser /\ q.first = FALSE /\ q.count = TRUE
      /\ q.rev = p.rev /\ q.seq = p.seq /\ q.seqIndex = p.seqIndex
  <2>1. q = [p EXCEPT !.first = FALSE, !.count = TRUE]
    BY <1>2, Zenon DEF Trojan!startCounting
  <2>2. q \in TrojanParser
    BY <2>1 DEF TrojanParser
  <2> QED
    BY <2>1, <2>2 DEF TrojanParser
<1>4. /\ t \in TrojanParser /\ t.first = FALSE /\ t.count = TRUE
      /\ t.rev = d /\ t.seq = p.seq /\ t.seqIndex = p.seqIndex + 1
  <2> HIDE DEF q
  <2> QED
    BY <1>3, TurnedParser
<1>5. r = IF d = q.rev
          THEN Trojan!Answer([q EXCEPT !.seq[q.seqIndex + 1] = @ + c.len], Trojan!Silent, FALSE)
          ELSE IF t.seqIndex = 4
          THEN Trojan!Answer([q EXCEPT !.seqIndex = 4],
                             [type |-> "replace", m |-> [seq |-> q.seq, yes |-> IsTrojanSeq(q.seq)]],
                             TRUE)
          ELSE Trojan!Answer([t EXCEPT !.seq[t.seqIndex + 1] = @ + c.len], Trojan!Silent, FALSE)
  <2>1. ~Trojan!notTLS(d, p, c) /\ q.count
    BY <1>3, Zenon DEF Trojan!notTLS
  <2> QED
    BY <1>1, <2>1, Zenon DEF Trojan!FeedTrojan
<1> HIDE DEF q, t
<1>8. CASE d = p.rev
  <2> DEFINE w == [q EXCEPT !.seq[q.seqIndex + 1] = @ + c.len]
  <2>1. r.p = w /\ r.update.type = "none" /\ r.done = FALSE
    <3>1. r = Trojan!Answer(w, Trojan!Silent, FALSE)
      BY <1>3, <1>5, <1>8, Zenon
    <3> HIDE DEF w
    <3> QED
      BY <3>1 DEF Trojan!Answer, Trojan!Silent
  <2>2. q.seqIndex + 1 \in 1..4
    BY <1>1, <1>3
  <2>3. /\ w \in TrojanParser /\ w.first = q.first /\ w.count = q.count /\ w.rev = q.rev
        /\ w.seq = [q.seq EXCEPT ![q.seqIndex + 1] = @ + c.len] /\ w.seqIndex = q.seqIndex
    <3> DEFINE i == q.seqIndex + 1
               x == c.len
    <3>1. w = [q EXCEPT !.seq[i] = @ + x] /\ x \in Nat
      BY <1>1
    <3>2. i \in 1..4
      BY <2>2
    <3> HIDE DEF w, i, x
    <3>3. /\ w \in TrojanParser /\ w.first = q.first /\ w.count = q.count /\ w.rev = q.rev
          /\ w.seq = [q.seq EXCEPT ![i] = @ + x] /\ w.seqIndex = q.seqIndex
      <4>1. w \in TrojanParser
        BY <1>3, <3>1, <3>2 DEF TrojanParser
      <4> QED
        BY <1>3, <3>1, <3>2, <4>1 DEF TrojanParser
    <3> QED
      BY <3>3 DEF i, x
  <2> HIDE DEF w
  <2> QED
    BY <1>3, <1>8, <2>1, <2>3, Zenon
<1>9. CASE d # p.rev /\ p.seqIndex < 3
  <2> DEFINE i == t.seqIndex + 1
             w == [t EXCEPT !.seq[i] = @ + c.len]
  <2>1. d # q.rev /\ t.seqIndex # 4 /\ i \in 1..4 /\ i = p.seqIndex + 2 /\ p.seqIndex # 3
    BY <1>1, <1>3, <1>4, <1>9
  <2>2. r = Trojan!Answer(w, Trojan!Silent, FALSE)
    BY <1>5, <2>1, Zenon
  <2> HIDE DEF i
  <2>3. /\ w \in TrojanParser /\ w.first = t.first /\ w.count = t.count /\ w.rev = t.rev
        /\ w.seq = [t.seq EXCEPT ![i] = @ + c.len] /\ w.seqIndex = t.seqIndex
    <3> DEFINE x == c.len
    <3>1. w = [t EXCEPT !.seq[i] = @ + x] /\ x \in Nat
      BY <1>1
    <3> HIDE DEF w, x
    <3>2. /\ w \in TrojanParser /\ w.first = t.first /\ w.count = t.count /\ w.rev = t.rev
          /\ w.seq = [t.seq EXCEPT ![i] = @ + x] /\ w.seqIndex = t.seqIndex
      <4>1. w \in TrojanParser
        BY <1>4, <2>1, <3>1 DEF TrojanParser
      <4> QED
        BY <1>4, <2>1, <3>1, <4>1 DEF TrojanParser
    <3> QED
      BY <3>2 DEF x
  <2> HIDE DEF w
  <2>4. r.p = w /\ r.update.type = "none" /\ r.done = FALSE
    BY <2>2 DEF Trojan!Answer, Trojan!Silent
  <2> QED
    BY <1>4, <1>9, <2>1, <2>3, <2>4, Zenon
<1>10. CASE d # p.rev /\ p.seqIndex = 3
  <2> DEFINE w == [q EXCEPT !.seqIndex = 4]
             u == [type |-> "replace", m |-> [seq |-> q.seq, yes |-> IsTrojanSeq(q.seq)]]
  <2>1. d # q.rev /\ t.seqIndex = 4 /\ ~(p.seqIndex < 3)
    BY <1>3, <1>4, <1>10
  <2>2. r = Trojan!Answer(w, u, TRUE)
    BY <1>5, <2>1, Zenon
  <2>3. w \in TrojanParser /\ w.first = FALSE /\ w.count = TRUE /\ w.seq = p.seq /\ w.seqIndex = 4
    BY <1>3 DEF TrojanParser
  <2> HIDE DEF w, u
  <2>4. r.p = w /\ r.update = u /\ r.done = TRUE
    BY <2>2 DEF Trojan!Answer, Trojan!Silent
  <2> QED
    BY <1>3, <1>10, <2>1, <2>3, <2>4, Zenon DEF u
<1>11. d = p.rev \/ (d # p.rev /\ p.seqIndex < 3) \/ (d # p.rev /\ p.seqIndex = 3)
  BY <1>1
<1> QED
  BY <1>8, <1>9, <1>10, <1>11, Zenon

\* A chunk counts for the parser exactly when it does in the history; what it
\* then begins or continues is the turn of the parser.
LEMMA TrojanTurns ==
  ASSUME TrojanInv, parser.seqIndex < 4, NEW n, n = Len(fed), \A i \in 1..n : ~fed[i].data.skip,
         NEW d \in {"req", "resp"}, NEW c \in TrojanChunks, fed' = Append(fed, [dir |-> d, data |-> c])
  PROVE  /\ Joins(d, parser, c) <=> Enters(d, c)
         /\ Enters(d, c) => Trojan!TurnOf(n + 1)' = parser.seqIndex + 1 + IF d # parser.rev THEN 1 ELSE 0
<1>1. /\ fed \in Seq(Packet(TrojanChunks)) /\ parser.seqIndex \in 0..4
      /\ parser.count <=> Trojan!Counted # {}
      /\ Trojan!Counted = {} => parser.rev = "req" /\ parser.seqIndex = 0
      /\ \A k \in Trojan!Counted : (\A j \in Trojan!Counted : j <= k) =>
           Trojan!TurnOf(k) = parser.seqIndex + 1 /\ parser.rev = fed[k].dir
  BY DEF TrojanInv, TrojanParser
<1>2. n \in Nat /\ Trojan!Counted \subseteq 1..n
  BY <1>1, CountedGrows
<1>3. /\ Enters(d, c) /\ Trojan!Counted = {} => Trojan!TurnOf(n + 1)' = 1
      /\ Enters(d, c) => \A k \in Trojan!Counted : (\A j \in Trojan!Counted : j <= k) =>
           Trojan!TurnOf(n + 1)' = Trojan!TurnOf(k) + IF fed[k].dir # d THEN 1 ELSE 0
  BY <1>1, TurnsGrow
<1>4. Joins(d, parser, c) <=> Enters(d, c)
  BY <1>1, Zenon DEF Joins, Enters
<1>5. ASSUME Enters(d, c), Trojan!Counted = {}
      PROVE  Trojan!TurnOf(n + 1)' = parser.seqIndex + 1 + IF d # parser.rev THEN 1 ELSE 0
  <2>1. d = "req" /\ parser.rev = "req" /\ parser.seqIndex = 0
    BY <1>1, <1>5 DEF Enters
  <2> QED
    BY <1>3, <1>5, <2>1
<1>6. ASSUME Enters(d, c), Trojan!Counted # {}
      PROVE  Trojan!TurnOf(n + 1)' = parser.seqIndex + 1 + IF d # parser.rev THEN 1 ELSE 0
  <2>1. PICK k \in Trojan!Counted : \A j \in Trojan!Counted : j <= k
    BY <1>2, <1>6, LastPlace
  <2> QED
    BY <1>1, <1>3, <1>6, <2>1
<1> QED
  BY <1>4, <1>5, <1>6

LEMMA TrojanStep == ASSUME DatagramAssumption, TrojanInv, Trojan!Stream!Next PROVE TrojanInv'
<1>1. PICK d \in {"req", "resp"}, c \in TrojanChunks : Trojan!Stream!Feed(d, c)
  BY DEF Trojan!Stream!Next, Trojan!Stream!Dirs, Trojan!ChunksOf
<1>0. PICK n : n = Len(fed)
  OBVIOUS
<1> DEFINE r == Trojan!FeedTrojan(d, parser, c)
           C == Trojan!Counted
           Last(k) == \A j \in C : j <= k
           b == Trojan!TurnOf(n + 1)'
<1>2. /\ ~finished /\ fed' = Append(fed, [dir |-> d, data |-> c]) /\ parser' = r.p
      /\ shown' = (IF r.update.type = "merge" THEN Trojan!Stream!Merged(r.update.m, shown)
                   ELSE IF r.update.type = "replace" THEN r.update.m ELSE shown)
      /\ finished' = r.done
  BY <1>1 DEF Trojan!Stream!Feed
<1>3. /\ fed \in Seq(Packet(TrojanChunks)) /\ parser \in TrojanParser /\ parser.first = FALSE
      /\ parser.seqIndex < 4 /\ Gaps = {} /\ shown = <<>>
      /\ \A i \in 1..n : ~fed[i].data.skip
  <2>1. parser.seqIndex # 4 /\ Gaps = {} /\ parser.seqIndex \in 0..4
    BY <1>2 DEF TrojanInv, TrojanParser
  <2> QED
    BY <1>0, <2>1 DEF TrojanInv, Gaps
<1>4. c \in [len : Nat, tls : BOOLEAN, ccs : BOOLEAN, skip : BOOLEAN]
  BY DEF DatagramAssumption, Trojan!TrojanAssumption
<1>5. /\ n \in Nat /\ Len(fed') = n + 1 /\ fed'[n + 1].dir = d /\ fed'[n + 1].data = c
      /\ fed' \in Seq(Packet(TrojanChunks))
      /\ \A i \in 1..n : fed'[i] = fed[i]
      /\ C \subseteq 1..n
      /\ C' = IF Enters(d, c) THEN C \cup {n + 1} ELSE C
  BY <1>0, <1>2, <1>3, CountedGrows
<1>6. \A i \in 1..n : Trojan!TurnOf(i)' = Trojan!TurnOf(i) /\ Trojan!TurnOf(i) \in Nat
  BY <1>0, <1>2, <1>3, TurnsGrow
<1>7. \A m : /\ Trojan!Turn(m) \in Nat
             /\ Trojan!Turn(m)' = Trojan!Turn(m) + IF Enters(d, c) /\ b = m THEN c.len ELSE 0
  <2> TAKE m
  <2> QED
    BY <1>0, <1>2, <1>3, TurnsAdd
<1>8. /\ Joins(d, parser, c) <=> Enters(d, c)
      /\ Enters(d, c) => b = parser.seqIndex + 1 + IF d # parser.rev THEN 1 ELSE 0
  BY <1>0, <1>2, <1>3, TrojanTurns
<1>9. Gaps' = IF c.skip THEN {n + 1} ELSE {}
  <2>1. Gaps' = {i \in 1..(n + 1) : fed'[i].data.skip}
    BY <1>5 DEF Gaps
  <2>2. \A i \in 1..(n + 1) : i = n + 1 \/ i \in 1..n
    BY <1>5
  <2>3. n + 1 \in 1..(n + 1)
    BY <1>5
  <2>4. \A i \in 1..(n + 1) : i \in Gaps' <=> i = n + 1 /\ c.skip
    BY <1>3, <1>5, <2>1, <2>2
  <2>5. \A i \in Gaps' : i \in 1..(n + 1)
    BY <2>1
  <2> QED
    BY <2>3, <2>4, <2>5
<1>10. /\ parser.count <=> C # {}
       /\ C = {} => parser.rev = "req" /\ parser.seqIndex = 0
       /\ \A i \in C : Trojan!TurnOf(i) \in 1..(parser.seqIndex + 1)
       /\ \A k \in C : Last(k) => /\ Trojan!TurnOf(k) = parser.seqIndex + 1
                                  /\ parser.seqIndex < 4 => parser.rev = fed[k].dir
       /\ \A m \in 1..4 : parser.seq[m] = Trojan!Turn(m)
  BY DEF TrojanInv
<1> HIDE DEF r, b
<1>11. CASE ~Enters(d, c)
  <2>1. r.p = parser /\ r.update.type = "none" /\ (r.done <=> c.skip)
    <3>1. ~Joins(d, parser, c) /\ r = Trojan!FeedTrojan(d, parser, c)
      BY <1>8, <1>11 DEF r
    <3>2. PICK f \in BOOLEAN : r = Trojan!Answer(parser, Trojan!Silent, f) /\ (f <=> c.skip)
      BY <1>3, <1>4, <3>1, TrojanSkips
    <3> QED
      BY <3>2 DEF Trojan!Answer, Trojan!Silent
  <2>2. parser' = parser /\ shown' = <<>> /\ (finished' <=> c.skip) /\ C' = C
    BY <1>2, <1>3, <1>5, <1>11, <2>1
  <2>3. \A i \in C : fed'[i] = fed[i] /\ Trojan!TurnOf(i)' = Trojan!TurnOf(i)
    BY <1>5, <1>6
  <2>4. \A m : Trojan!Turn(m)' = Trojan!Turn(m)
    BY <1>7, <1>11
  <2>5. (finished <=> parser.seqIndex = 4 \/ Gaps # {})' /\ ~(parser.seqIndex = 4)'
    BY <1>3, <1>4, <1>9, <2>2
  <2> HIDE DEF C
  <2>6. \A k \in C' : Last(k)' <=> Last(k)
    BY <2>2
  <2>7. \A k \in C' : Last(k)' => /\ Trojan!TurnOf(k)' = parser'.seqIndex + 1
                                  /\ parser'.seqIndex < 4 => parser'.rev = fed'[k].dir
    BY <1>10, <2>2, <2>3, <2>6
  <2>8. /\ (parser.count <=> C # {})'
        /\ (C = {} => parser.rev = "req" /\ parser.seqIndex = 0)'
        /\ (\A i \in C : Trojan!TurnOf(i) \in 1..(parser.seqIndex + 1))'
        /\ (\A m \in 1..4 : parser.seq[m] = Trojan!Turn(m))'
    BY <1>10, <2>2, <2>3, <2>4
  <2> QED
    BY <1>3, <1>5, <2>2, <2>5, <2>7, <2>8 DEF TrojanInv, C
<1>12. CASE Enters(d, c)
  <2> DEFINE p == parser
  <2>1. /\ Joins(d, p, c) /\ c.skip = FALSE /\ c.len \in Nat
        /\ p.seqIndex \in 0..3 /\ p.rev \in {"req", "resp"} /\ p.seq \in [1..4 -> Nat]
    BY <1>3, <1>4, <1>8, <1>12 DEF Enters, TrojanParser
  <2>2. /\ r.p \in TrojanParser /\ r.p.first = FALSE /\ r.p.count = TRUE
        /\ d = p.rev =>
              /\ r.p.rev = p.rev /\ r.p.seqIndex = p.seqIndex
              /\ r.p.seq = [p.seq EXCEPT ![p.seqIndex + 1] = @ + c.len]
              /\ r.update.type = "none" /\ r.done = FALSE
        /\ d # p.rev /\ p.seqIndex < 3 =>
              /\ r.p.rev = d /\ r.p.seqIndex = p.seqIndex + 1
              /\ r.p.seq = [p.seq EXCEPT ![p.seqIndex + 2] = @ + c.len]
              /\ r.update.type = "none" /\ r.done = FALSE
        /\ d # p.rev /\ p.seqIndex = 3 =>
              /\ r.p.seqIndex = 4 /\ r.p.seq = p.seq
              /\ r.update = [type |-> "replace", m |-> [seq |-> p.seq, yes |-> IsTrojanSeq(p.seq)]]
              /\ r.done = TRUE
    BY <1>3, <1>4, <2>1, TrojanCounts DEF r
  <2>3. C' = C \cup {n + 1} /\ Gaps' = {} /\ n + 1 \in C'
    BY <1>5, <1>9, <1>12, <2>1
  <2>4. \A k \in C' : Last(k)' => k = n + 1
    <3>1. \A k \in C' : k \in 1..n \/ k = n + 1
      BY <1>5, <2>3
    <3>2. \A k \in 1..n : ~(n + 1 <= k)
      BY <1>5
    <3> QED
      BY <2>3, <3>1, <3>2
  <2>5. \A i \in C : Trojan!TurnOf(i)' \in 1..(p.seqIndex + 1)
    BY <1>5, <1>6, <1>10
  <2>6. \A m \in 1..4 : Trojan!Turn(m)' = p.seq[m] + IF b = m THEN c.len ELSE 0
    BY <1>7, <1>10, <1>12
  <2>7. b = p.seqIndex + 1 + IF d # p.rev THEN 1 ELSE 0
    BY <1>8, <1>12
  <2>8. /\ parser'.seqIndex \in 0..4 /\ b = parser'.seqIndex + 1 /\ p.seqIndex <= parser'.seqIndex
        /\ parser'.seqIndex < 4 => parser'.rev = d
        /\ \A m \in 1..4 : parser'.seq[m] = Trojan!Turn(m)'
        /\ finished' <=> parser'.seqIndex = 4
        /\ shown' = IF parser'.seqIndex = 4
                    THEN [seq |-> parser'.seq, yes |-> IsTrojanSeq(parser'.seq)] ELSE <<>>
    <3>1. CASE d = p.rev
      <4>1. /\ parser'.rev = d /\ parser'.seqIndex = p.seqIndex
            /\ parser'.seq = [p.seq EXCEPT ![p.seqIndex + 1] = @ + c.len]
            /\ shown' = <<>> /\ finished' = FALSE
        BY <1>2, <1>3, <2>2, <3>1
      <4>2. b = p.seqIndex + 1 /\ p.seqIndex # 4
        BY <2>1, <2>7, <3>1
      <4>3. \A m \in 1..4 : parser'.seq[m] = Trojan!Turn(m)'
        BY <2>1, <2>6, <4>1, <4>2
      <4> QED
        BY <2>1, <4>1, <4>2, <4>3
    <3>2. CASE d # p.rev /\ p.seqIndex < 3
      <4>1. /\ parser'.rev = d /\ parser'.seqIndex = p.seqIndex + 1
            /\ parser'.seq = [p.seq EXCEPT ![p.seqIndex + 2] = @ + c.len]
            /\ shown' = <<>> /\ finished' = FALSE
        BY <1>2, <1>3, <2>2, <3>2
      <4>2. b = p.seqIndex + 2 /\ p.seqIndex + 1 # 4
        BY <2>1, <2>7, <3>2
      <4>3. \A m \in 1..4 : parser'.seq[m] = Trojan!Turn(m)'
        <5> TAKE m \in 1..4
        <5>1. parser'.seq[m] = p.seq[m] + IF m = p.seqIndex + 2 THEN c.len ELSE 0
          BY <2>1, <3>2, <4>1
        <5> QED
          BY <2>6, <4>2, <5>1
      <4> QED
        BY <2>1, <3>2, <4>1, <4>2, <4>3
    <3>3. CASE d # p.rev /\ p.seqIndex = 3
      <4>1. /\ parser'.seqIndex = 4 /\ parser'.seq = p.seq
            /\ shown' = [seq |-> p.seq, yes |-> IsTrojanSeq(p.seq)] /\ finished' = TRUE
        BY <1>2, <2>2, <3>3
      <4>2. b = 5
        BY <2>7, <3>3
      <4>3. \A m \in 1..4 : parser'.seq[m] = Trojan!Turn(m)'
        BY <2>1, <2>6, <4>1, <4>2
      <4> QED
        BY <2>1, <3>3, <4>1, <4>2, <4>3
    <3> QED
      BY <2>1, <3>1, <3>2, <3>3
  <2>9. parser' \in TrojanParser /\ parser'.first = FALSE /\ parser'.count = TRUE
    BY <1>2, <2>2
  <2> HIDE DEF C
  <2>10. \A i \in C' : Trojan!TurnOf(i)' \in 1..(parser'.seqIndex + 1)
    <3>1. Trojan!TurnOf(n + 1)' \in 1..(parser'.seqIndex + 1)
      BY <2>8 DEF b
    <3>2. \A i \in C : Trojan!TurnOf(i)' \in 1..(parser'.seqIndex + 1)
      BY <2>1, <2>5, <2>8
    <3> QED
      BY <2>3, <3>1, <3>2
  <2>11. \A k \in C' : Last(k)' => /\ Trojan!TurnOf(k)' = parser'.seqIndex + 1
                                   /\ parser'.seqIndex < 4 => parser'.rev = fed'[k].dir
    BY <1>5, <2>4, <2>8 DEF b
  <2>12. /\ (parser.count <=> C # {})'
         /\ (C = {} => parser.rev = "req" /\ parser.seqIndex = 0)'
         /\ (finished <=> parser.seqIndex = 4 \/ Gaps # {})'
    BY <2>3, <2>8, <2>9
  <2> QED
    BY <1>5, <2>8, <2>9, <2>10, <2>11, <2>12 DEF TrojanInv, C
<1> QED
  BY <1>11, <1>12

LEMMA TrojanCorrect == ASSUME TrojanInv PROVE Trojan!JudgesWholeTurns
<1> DEFINE lengths == <<Trojan!Turn(1), Trojan!Turn(2), Trojan!Turn(3), Trojan!Turn(4)>>
           judged  == \E i \in Trojan!Counted : Trojan!TurnOf(i) = 5
<1>1. /\ Len(fed) \in Nat /\ parser.seq \in [1..4 -> Nat] /\ parser.seqIndex \in 0..4
      /\ \A m \in 1..4 : parser.seq[m] = Trojan!Turn(m)
  BY DEF TrojanInv, TrojanParser
<1>2. lengths = parser.seq
  <2> DEFINE s == parser.seq
  <2>1. s = <<s[1], s[2], s[3], s[4]>>
    <3> HIDE DEF s
    <3>1. s \in [1..4 -> Nat]
      BY <1>1 DEF s
    <3> QED
      BY <3>1
  <2> QED
    BY <1>1, <2>1
<1>3. judged <=> parser.seqIndex = 4
  <2>1. judged => parser.seqIndex = 4
    BY <1>1 DEF TrojanInv
  <2>2. ASSUME parser.seqIndex = 4 PROVE judged
    <3>1. Trojan!Counted # {} /\ Trojan!Counted \subseteq 1..Len(fed)
      BY <2>2 DEF TrojanInv, Trojan!Counted
    <3>2. PICK k \in Trojan!Counted : \A j \in Trojan!Counted : j <= k
      BY <1>1, <3>1, LastPlace
    <3>3. Trojan!TurnOf(k) = 5
      BY <2>2, <3>2 DEF TrojanInv
    <3> QED
      BY <3>3
  <2> QED
    BY <2>1, <2>2
<1> HIDE DEF lengths, judged
<1>4. shown = IF judged THEN [seq |-> lengths, yes |-> IsTrojanSeq(lengths)] ELSE <<>>
  BY <1>2, <1>3 DEF TrojanInv
<1>5. finished <=> judged \/ \E i \in 1..Len(fed) : fed[i].data.skip
  BY <1>3 DEF TrojanInv, Gaps
<1> QED
  BY <1>4, <1>5, Zenon DEF Trojan!JudgesWholeTurns, lengths, judged

-----------------------------------------------------------------------------
Inv ==
  /\ analyzer \in {"openvpn", "wireguard", "dns", "trojan", "fet"}
  /\ analyzer = "openvpn"   => OpenVPNInv
  /\ analyzer = "wireguard" => WireGuardInv
  /\ analyzer = "dns"       => DNSInv
  /\ analyzer = "trojan"    => TrojanInv
  /\ analyzer = "fet"       => FETInv

\* A step that changes nothing.
LEMMA InvStutters == ASSUME Inv, UNCHANGED vars PROVE Inv'
<1>1. /\ analyzer' = analyzer /\ parser' = parser /\ fed' = fed
      /\ shown' = shown /\ finished' = finished
  BY DEF vars
<1>2. WireGuardInv => WireGuardInv'
  <2>1. \A i : WireGuard!Good(i)' <=> WireGuard!Good(i)
    BY <1>1 DEF WireGuard!Good, WireGuard!Pkt
  <2>2. Heard' = Heard /\ Noise' = Noise
    BY <1>1, <2>1 DEF Heard, Noise
  <2>3. Starts' = Starts /\ Announcers' = Announcers /\ Announced' = Announced
    BY <1>1, <2>2 DEF Starts, Announcers, Announced
  <2>4. Session' = Session
    BY <2>2, <2>3 DEF Session
  <2>5. \A i : WireGuard!LatelyAnnounced(i)' = WireGuard!LatelyAnnounced(i)
    <3> TAKE i
    <3>1. WireGuard!Announcing(i)' = WireGuard!Announcing(i)
      BY <1>1, <2>1 DEF WireGuard!Announcing, WireGuard!Pkt
    <3> QED
      BY <1>1, <3>1, Zenon DEF WireGuard!LatelyAnnounced, WireGuard!Pkt
  <2>6. \A i : Told(i)' <=> Told(i)
    BY <1>1, <2>5 DEF Told
  <2> QED
    BY <1>1, <2>2, <2>3, <2>4, <2>6 DEF WireGuardInv
<1>6. OpenVPNInv => OpenVPNInv'
  <2>1. \A x : \A i : OpenVPN!Sent(x, i)' = OpenVPN!Sent(x, i)
    BY <1>1 DEF OpenVPN!Sent
  <2>2. \A i : OpenVPN!FitsIn(i)' <=> OpenVPN!FitsIn(i)
    BY <1>1, <2>1, Zenon DEF OpenVPN!FitsIn
  <2>3. Misfits' = Misfits
    BY <1>1, <2>1, <2>2 DEF Misfits
  <2>4. \A x : OpenVPN!Count(x)' = OpenVPN!Count(x)
    BY <1>1, <2>1, Zenon DEF OpenVPN!Count
  <2>5. Total' = Total
    BY <2>4 DEF Total
  <2>6. \A x : OpenVPN!Sent(x, Len(fed))' = OpenVPN!Sent(x, Len(fed))
    BY <1>1 DEF OpenVPN!Sent
  <2> QED
    BY <1>1, <2>3, <2>4, <2>5, <2>6 DEF OpenVPNInv
<1>3. DNSInv => DNSInv'
  BY <1>1 DEF DNSInv, NoMessages, Messages
<1>4. TrojanInv => TrojanInv'
  <2>1. Trojan!Counted' = Trojan!Counted /\ Gaps' = Gaps
    BY <1>1 DEF Trojan!Counted, Gaps
  <2>2. \A i : Trojan!TurnOf(i)' = Trojan!TurnOf(i)
    BY <1>1, <2>1, Zenon DEF Trojan!TurnOf
  <2>3. \A m : Trojan!Turn(m)' = Trojan!Turn(m)
    <3> TAKE m
    <3>1. Trojan!Parts(m)' = Trojan!Parts(m)
      BY <1>1, <2>1, <2>2 DEF Trojan!Parts
    <3> QED
      BY <3>1 DEF Trojan!Turn
  <2> QED
    BY <1>1, <2>1, <2>2, <2>3 DEF TrojanInv
<1>5. FETInv => FETInv'
  BY <1>1 DEF FETInv, Judged, Gaps
<1> QED
  BY <1>1, <1>2, <1>3, <1>4, <1>5, <1>6 DEF Inv

\* The invariant holds in every reachable state, whichever analyzer it is.
THEOREM Invariance == ASSUME DatagramAssumption PROVE Spec => []Inv
<1>1. Init => Inv
  BY OpenVPNInit, WireGuardInit, DNSInit, TrojanInit, FETInit DEF Init, Inv
<1>2. Inv /\ [Next]_vars => Inv'
  <2> SUFFICES ASSUME Inv, [Next]_vars PROVE Inv'
    OBVIOUS
  <2>1. ASSUME analyzer = "wireguard", UNCHANGED analyzer, WireGuard!Stream!Next PROVE Inv'
    BY <2>1, WireGuardStep DEF Inv
  <2>2. ASSUME analyzer = "dns", UNCHANGED analyzer, DNS!Stream!Next PROVE Inv'
    BY <2>2, DNSStep DEF Inv
  <2>3. ASSUME analyzer = "trojan", UNCHANGED analyzer, Trojan!Stream!Next PROVE Inv'
    BY <2>3, TrojanStep DEF Inv
  <2>4. ASSUME analyzer = "fet", UNCHANGED analyzer, FET!Stream!Next PROVE Inv'
    BY <2>4, FETStep DEF Inv
  <2>5. ASSUME analyzer = "openvpn", UNCHANGED analyzer, OpenVPN!Stream!Next PROVE Inv'
    BY <2>5, OpenVPNStep DEF Inv
  <2>6. CASE UNCHANGED vars
    BY <2>6, InvStutters
  <2> QED
    BY <2>1, <2>2, <2>3, <2>4, <2>5, <2>6 DEF Next
<1> QED
  BY <1>1, <1>2, PTL DEF Spec

\* Every packet of DNS goes out as the modifier makes of it by itself, and rules
\* know the last message (dnsUDPStream.Feed, dnsModifierInstance.Process).
THEOREM RewritesCorrect == ASSUME DatagramAssumption PROVE Spec => []RewritesAnswers
<1>1. Inv => RewritesAnswers
  BY DNSCorrect DEF Inv, RewritesAnswers
<1> QED
  BY <1>1, Invariance, PTL

\* Over UDP every packet of OpenVPN that belongs into a session is counted in its
\* direction, the rules know both counts, and the analyzer goes on to its limit;
\* the first packet without a place ends it (openvpnUDPStream.Feed, parseReq, parseResp).
THEOREM CountsCorrect == ASSUME DatagramAssumption PROVE Spec => []CountsWhatFitsIn
<1>1. Inv => CountsWhatFitsIn
  BY OpenVPNCorrect DEF Inv, CountsWhatFitsIn
<1> QED
  BY <1>1, Invariance, PTL

\* The rules know the messages of the session and whose index a receiver's is, as
\* far as the ring remembers; a stream of others is given up, and no other
\* (wireGuardUDPStream.Feed, putSenderIndex, matchReceiverIndex).
THEOREM SessionCorrect == ASSUME DatagramAssumption PROVE Spec => []KnowsTheSession
<1>1. Inv => KnowsTheSession
  BY WireGuardCorrect DEF Inv, KnowsTheSession
<1> QED
  BY <1>1, Invariance, PTL

\* Trojan is judged by the lengths of four whole turns however they are cut into
\* chunks, and encrypted traffic by all of its first chunk: once, and no sooner
\* (trojanStream.Feed, fetStream.Feed).
THEOREM TrafficCorrect == ASSUME DatagramAssumption PROVE Spec => []JudgesTraffic
<1>1. Inv => JudgesTraffic
  BY TrojanCorrect, FETCorrect DEF Inv, JudgesTraffic
<1> QED
  BY <1>1, Invariance, PTL
=============================================================================
