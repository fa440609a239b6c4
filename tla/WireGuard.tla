----------------------------- MODULE WireGuard ------------------------------
(***************************************************************************)
(* The WireGuard analyzer (analyzer/udp/wireguard.go): the four kinds of   *)
(* messages, and whether the index of a receiver was lately announced by   *)
(* the other side.                                                         *)
(*                                                                         *)
(* A packet is a record: its length, the kind its first bytes say, and the *)
(* indexes of its sender and receiver.  The counter of data is left out.   *)
(***************************************************************************)
EXTENDS Integers, Sequences, FiniteSets

CONSTANTS
  Packets,              \* the packets either side may send
  RememberedIndexCount, \* 6 in the code
  InvalidThreshold,     \* 4 in the code
  MaxFed                \* bound on the number of packets

PacketsOf(d) == Packets

\* What theorems take for granted of the constants.
WireGuardAssumption ==
  /\ RememberedIndexCount \in Nat \ {0} /\ InvalidThreshold \in Nat \ {0}
  /\ Packets \subseteq [kind : STRING, size : Nat, sender : Nat, receiver : Nat]

Kinds == {"handshake_initiation", "handshake_response", "packet_data", "packet_cookie_reply"}

\* Those with an index of their sender.
Announcements == {"handshake_initiation", "handshake_response"}

\* The lengths a message may have.
goodSize(kind, size) ==
  \/ kind = "handshake_initiation" /\ size = 148
  \/ kind = "handshake_response" /\ size = 92
  \/ kind = "packet_data" /\ size >= 32 /\ size % 16 = 0
  \/ kind = "packet_cookie_reply" /\ size = 64

\* The ring of indexes; Empty is a place nothing was written to.  It is
\* written at its position, which then moves back.
Empty == [index |-> -1, dir |-> "none"]
Slots == 0..(RememberedIndexCount - 1)

newWireGuardUDPStream ==
  [invalidCount |-> 0, ring |-> [i \in Slots |-> Empty], at |-> 0]

putSenderIndex(p, d, index) ==
  [p EXCEPT !.ring[p.at] = [index |-> index, dir |-> d],
            !.at = (@ - 1) % RememberedIndexCount]

\* Faulty: whoever announced the index.
MatchAnySide(p, d, index) ==
  \E i \in 1..(RememberedIndexCount - 1) : p.ring[(p.at + i) % RememberedIndexCount].index = index

\* The places after the position are looked at, up to the first empty one.
matchReceiverIndex(p, d, index) ==
  \E i \in 1..(RememberedIndexCount - 1) :
    LET slot(j) == p.ring[(p.at + j) % RememberedIndexCount]
    IN  /\ \A j \in 1..i : slot(j) # Empty
        /\ slot(i).index = index /\ slot(i).dir # d

\* parseWireGuardPacket: the packet's properties, and the parser with the
\* indexes it announces.
Described(p, d, pkt) ==
  LET q       == IF pkt.kind \in Announcements THEN putSenderIndex(p, d, pkt.sender) ELSE p
      matched == matchReceiverIndex(q, d, pkt.receiver)
      says    == IF pkt.kind = "handshake_initiation" THEN [sender_index |-> pkt.sender]
                 ELSE IF pkt.kind = "handshake_response"
                 THEN [sender_index           |-> pkt.sender,
                       receiver_index         |-> pkt.receiver,
                       receiver_index_matched |-> matched]
                 ELSE [receiver_index         |-> pkt.receiver,
                       receiver_index_matched |-> matched]
  IN  [p |-> q,
       m |-> [x \in {"message_type", pkt.kind} |-> IF x = "message_type" THEN pkt.kind ELSE says]]

\* A valid packet resets the count.
valid(p) == [p EXCEPT !.invalidCount = 0]

FeedWireGuard(d, p, pkt) ==
  LET r == Described(p, d, pkt)
  IN  IF ~goodSize(pkt.kind, pkt.size)
      THEN [p      |-> [p EXCEPT !.invalidCount = @ + 1],
            update |-> [type |-> "none", m |-> <<>>],
            done   |-> p.invalidCount + 1 >= InvalidThreshold]
      ELSE [p      |-> valid(r.p),
            update |-> [type |-> IF pkt.kind = "handshake_initiation" THEN "replace" ELSE "merge",
                        m    |-> r.m],
            done   |-> FALSE]

VARIABLES parser, fed, shown, finished

Stream == INSTANCE DatagramParser
            WITH FeedData <- FeedWireGuard, Fresh <- newWireGuardUDPStream, Data <- PacketsOf

Spec == Stream!Spec
-----------------------------------------------------------------------------
Pkt(i)  == fed[i].data
Good(i) == goodSize(Pkt(i).kind, Pkt(i).size)

\* The packets before and with i that announce an index.
Announcing(i) ==
  {j \in 1..i : Good(j) /\ Pkt(j).kind \in Announcements}

Greatest(S) == CHOOSE i \in S : \A j \in S : j <= i

\* The index packet i is for was announced by the other side, and since then
\* so few others that it is still compared: one less than are remembered.
LatelyAnnounced(i) ==
  \E j \in Announcing(i) :
    /\ fed[j].dir # fed[i].dir
    /\ Pkt(j).sender = Pkt(i).receiver
    /\ Cardinality({k \in Announcing(i) : k >= j}) < RememberedIndexCount

\* The rules know of each kind the last message since the last initiation,
\* and whether it was for someone: an index is recognised when the other side
\* announced it among the last announcements of both, in whatever order the
\* handshakes of the two overlap (wireguard.go, matchReceiverIndex).
KnowsTheSession ==
  LET good    == {i \in 1..Len(fed) : Good(i)}
      start   == {i \in good : Pkt(i).kind = "handshake_initiation"}
      session == {i \in good : start # {} => i >= Greatest(start)}
      last(k) == {i \in session : Pkt(i).kind = k}
  IN  /\ DOMAIN shown = {Pkt(i).kind : i \in session}
                          \cup (IF good = {} THEN {} ELSE {"message_type"})
      /\ good # {} => shown.message_type = Pkt(Greatest(good)).kind
      /\ \A k \in Kinds : last(k) # {} =>
           LET i == Greatest(last(k))
           IN  /\ k # "handshake_initiation" =>
                    /\ shown[k].receiver_index = Pkt(i).receiver
                    /\ shown[k].receiver_index_matched = LatelyAnnounced(i)
               /\ i \in Announcing(i) => shown[k].sender_index = Pkt(i).sender

\* The analyzer gives a stream up exactly when the last packets in a row were
\* not WireGuard's; one that is, whatever came before, starts the count anew.
GivesUpAfterGarbage ==
  finished <=> /\ Len(fed) >= InvalidThreshold
               /\ \A i \in (Len(fed) - InvalidThreshold + 1)..Len(fed) : ~Good(i)
=============================================================================
