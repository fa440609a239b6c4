----------------------------- MODULE OpenVPNUDP -----------------------------
(***************************************************************************)
(* OpenVPN over UDP: every packet is fed by itself.                        *)
(***************************************************************************)
EXTENDS OpenVPN, FiniteSets

CONSTANTS
  Packets,  \* the packets either side may send
  MaxFed    \* bound on their number

PacketsOf(d) == Packets

\* What theorems take for granted of the constants: packets are bytes.
OpenVPNAssumption == PktLimit \in Nat /\ Packets \subseteq Seq(0..255)

\* Feed, with the report as it is for the engine.
FeedPacket(d, p, data) ==
  LET r == FeedUDP(d, p, data)
  IN  [p      |-> r.p,
       update |-> IF r.updated
                  THEN [type |-> "replace",
                        m |-> [rx_pkt_cnt |-> r.p.cnt["resp"], tx_pkt_cnt |-> r.p.cnt["req"]]]
                  ELSE [type |-> "none", m |-> <<>>],
       done   |-> r.done]

VARIABLES parser, fed, shown, finished

Stream == INSTANCE DatagramParser
            WITH FeedData <- FeedPacket, Fresh <- newOpenVPNStream, Data <- PacketsOf

Spec == Stream!Spec
-----------------------------------------------------------------------------
\* The packets of d up to place i, without empty ones.
Sent(d, i) == {j \in 1..i : fed[j].dir = d /\ fed[j].data # <<>>}

\* Packet i has its place: a reset if it is the side's first, and after the
\* client's if it is the server's; else one of a session.
FitsIn(i) ==
  LET d  == fed[i].dir
      op == opcode(fed[i].data[1])
  IN  IF Sent(d, i) = {i} THEN op \in ResetOpcodes(d) /\ Sent("req", i) # {}
                          ELSE op \in SessionOpcodes

\* Packets of session d up to the last.
Count(d) == LET n == Cardinality(Sent(d, Len(fed))) IN IF n = 0 THEN 0 ELSE n - 1

\* While all packets fit in, the rules know exactly how many came in each
\* direction, and the analyzer goes on to its limit; it leaves at the first
\* that does not, whose arrival is not reported.
CountsWhatFitsIn ==
  LET all    == Sent("req", Len(fed)) \cup Sent("resp", Len(fed))
      misfit == \E i \in all : ~FitsIn(i)
      total  == Count("req") + Count("resp")
  IN  /\ finished <=> misfit \/ total > PktLimit
      /\ ~misfit => shown = IF total = 0 THEN <<>>
                            ELSE [rx_pkt_cnt |-> Count("resp"), tx_pkt_cnt |-> Count("req")]
=============================================================================
