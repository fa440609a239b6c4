-------------------------------- MODULE QUIC --------------------------------
(***************************************************************************)
(* The QUIC analyzer (analyzer/udp/quic.go, internal/quic/payload.go): the *)
(* client's hello in one Initial packet.                                   *)
(*                                                                         *)
(* A packet is a record: whether it is an Initial packet that can be       *)
(* unprotected, which cryptography decides, and the frames in it.          *)
(***************************************************************************)
EXTENDS TLSHello

CONSTANTS
  Packets,                   \* the packets either side may send
  quicInvalidCountThreshold, \* 4 in the code
  MaxFed                     \* bound on the number of packets

PacketsOf(d) == Packets

TypeClientHello == 1

minDataSize == RandomLen + 9

\* extractCryptoFrames: only padding, pings and crypto frames are known.  The
\* result is a set, empty if there was an error.
extractCryptoFrames(frames) ==
  IF \E i \in 1..Len(frames) : frames[i].type \notin {"padding", "ping", "crypto"} THEN {}
  ELSE {SelectSeq(frames, LAMBDA f : f.type = "crypto")}

\* Frame f's end.
End(f) == f.offset + Len(f.data)

\* Faulty: the frames are taken in the order they came in.
AssembleInOrder(frames) ==
  IF frames = <<>> THEN {} ELSE {Flat([i \in 1..Len(frames) |-> frames[i].data])}

\* assembleCryptoFrames, as a set, empty if they cannot be assembled.  A single
\* frame is taken as it is; the bytes before the first of several are zero.
assembleCryptoFrames(frames) ==
  LET sorted == SortSeq(frames, LAMBDA f, g : f.offset < g.offset)
      gap    == \E i \in 2..Len(sorted) : sorted[i].offset # End(sorted[i - 1])
      zeros  == [i \in 1..sorted[1].offset |-> 0]
  IN  IF frames = <<>> \/ gap THEN {}
      ELSE IF Len(frames) = 1 THEN {frames[1].data}
      ELSE {zeros \o Flat([i \in 1..Len(sorted) |-> sorted[i].data])}

\* ReadCryptoPayload: what the frames of the packet carry, as a set.
ReadCryptoPayload(pkt) ==
  IF ~pkt.initial THEN {}
  ELSE UNION {assembleCryptoFrames(frames) : frames \in extractCryptoFrames(pkt.frames)}

\* The data of a packet that are parsed as a hello.  That all of the hello is
\* there is not looked at.
HelloData(d, pkt) ==
  {SubSeq(pl, 5, Len(pl)) :
     pl \in {pl \in ReadCryptoPayload(pkt) :
               /\ d = "req" /\ Len(pl) >= 4 /\ pl[1] = TypeClientHello
               /\ 65536 * pl[2] + Number(SubSeq(pl, 3, 4)) >= minDataSize}}

\* Faulty: hellos the parser refuses are reported.
HellosOrNot(d, pkt) == {ParseTLSClientHelloMsgData(data) : data \in HelloData(d, pkt)}

Hellos(d, pkt) == {ParseTLSClientHelloMsgData(data) : data \in HelloData(d, pkt)} \ {Invalid}

newQUICStream == [invalidCount |-> 0]

FeedQUIC(d, p, pkt) ==
  IF Hellos(d, pkt) = {}
  THEN [p      |-> [invalidCount |-> p.invalidCount + 1],
        update |-> [type |-> "none", m |-> <<>>],
        done   |-> p.invalidCount + 1 >= quicInvalidCountThreshold]
  ELSE [p      |-> p,
        update |-> [type |-> "merge", m |-> "req" :> CHOOSE h \in Hellos(d, pkt) : TRUE],
        done   |-> TRUE]

VARIABLES parser, fed, shown, finished

Stream == INSTANCE DatagramParser
            WITH FeedData <- FeedQUIC, Fresh <- newQUICStream, Data <- PacketsOf

Spec == Stream!Spec
-----------------------------------------------------------------------------
\* The message a hello is sent in.
Message(h) == <<TypeClientHello>> \o Listed(Body("req", h, "no"), 3, FALSE)

\* The crypto frames of a packet hold each byte of message m once, and no other.
Holds(pkt, m) ==
  LET crypto == {i \in 1..Len(pkt.frames) : pkt.frames[i].type = "crypto"}
      bytes  == {<<i, k>> \in crypto \X (1..Len(m)) : k <= Len(pkt.frames[i].data)}
      at(b)  == pkt.frames[b[1]].offset + b[2]
  IN  /\ \A i \in crypto : End(pkt.frames[i]) <= Len(m)
      /\ \A b \in bytes : m[at(b)] = pkt.frames[b[1]].data[b[2]]
      /\ \A k \in 1..Len(m) : \E b \in bytes : at(b) = k /\ \A c \in bytes : at(c) = k => c = b

\* A client's Initial packet, with nothing in it that is not known, that holds
\* the hello of client h.
Brings(i, h) ==
  /\ fed[i].dir = "req" /\ fed[i].data.initial
  /\ \A j \in 1..Len(fed[i].data.frames) :
       fed[i].data.frames[j].type \in {"padding", "ping", "crypto"}
  /\ Holds(fed[i].data, Message(h))

CONSTANT ClientHellos  \* the hellos clients may say

\* The crypto frames of a packet are of a hello that goes on in another one.
GoesOn(i) ==
  LET crypto == {j \in 1..Len(fed[i].data.frames) : fed[i].data.frames[j].type = "crypto"}
  IN  crypto # {} /\ \E h \in ClientHellos : \A j \in crypto :
        LET f == fed[i].data.frames[j]
        IN  End(f) < Len(Message(h)) /\ f.data = SubSeq(Message(h), f.offset + 1, End(f))

\* The hello of the first packet that has one whole is known to the rules, in
\* whatever order its frames are and whatever came before it, if the analyzer
\* has not given up; and nothing else is ever reported: nothing of a packet
\* that lacks a piece, has one twice, or comes from the server (quic.go,
\* payload.go).  Of a hello that goes on in another packet nothing is said.
ReportsTheHello ==
  LET brings == {i \in 1..Len(fed) : \E h \in ClientHellos : Brings(i, h)}
      hello  == {h \in ClientHellos : \E i \in brings : (\A j \in brings : i <= j) /\ Brings(i, h)}
  IN  (\A i \in 1..Len(fed) : ~GoesOn(i)) =>
        /\ shown = IF brings = {} THEN <<>> ELSE "req" :> CHOOSE h \in hello : TRUE
        /\ finished <=> brings # {} \/ Len(fed) >= quicInvalidCountThreshold
=============================================================================
