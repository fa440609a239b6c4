------------------------- MODULE MCDatagramParsers --------------------------
(***************************************************************************)
(* An instance of DatagramParsers for TLC, with QUIC in the same way.      *)
(* What both sides say they may say in any order.                          *)
(***************************************************************************)
EXTENDS DatagramParsers, FiniteSets

CONSTANTS QUICPackets, QUICHellos

QUIC == INSTANCE QUIC
          WITH Packets <- QUICPackets, ClientHellos <- QUICHellos, RandomLen <- 2,
               quicInvalidCountThreshold <- 2, MaxFed <- MaxFed["quic"]

MCMaxFed == [openvpn |-> 6, wireguard |-> 5, trojan |-> 6, quic |-> 2, dns |-> 3, fet |-> 2]

\* The instance is one of those the theorems are about.
ASSUME DatagramsAssumed == DatagramAssumption

-----------------------------------------------------------------------------
\* OpenVPN: resets of both sides, packets of a session, one with no opcode, and
\* an empty one.
MCOpenVPNPackets == {<<8 * op + 1, 5>> : op \in {7, 8, 4, 9, 12}} \cup {<<>>}

\* WireGuard: two indexes, three places in the ring, so that a third
\* announcement pushes the first out of sight.
WGMessage(kind, size, sender, receiver) ==
  [kind |-> kind, size |-> size, sender |-> sender, receiver |-> receiver]

MCWireGuardPackets ==
  {WGMessage("handshake_initiation", 148, s, 0) : s \in 1..2}
    \cup {WGMessage("handshake_response", 92, 2, r) : r \in 1..2}
    \cup {WGMessage("packet_data", 48, 0, 1), WGMessage("packet_cookie_reply", 64, 0, 2),
          WGMessage("packet_data", 40, 0, 1)}

\* Trojan: one of the answers the decision tree of trojan.go might give.
Falls(seq) == seq[1] > seq[4]

\* Chunks of no, one or two units, changes of ciphers before and while
\* turns are counted, and gaps.
MCTrojanChunks ==
  {[len |-> 1, tls |-> TRUE, ccs |-> TRUE, skip |-> FALSE],
   [len |-> 1, tls |-> FALSE, ccs |-> FALSE, skip |-> FALSE],
   [len |-> 2, tls |-> TRUE, ccs |-> FALSE, skip |-> FALSE],
   [len |-> 0, tls |-> FALSE, ccs |-> FALSE, skip |-> FALSE],
   [len |-> 1, tls |-> FALSE, ccs |-> FALSE, skip |-> TRUE]}

\* QUIC: a hello in up to three frames in any order, with padding, with a frame
\* missing, sent twice or unknown, and a hello that goes on in another packet.
Hello(sni, ciphers) ==
  [version |-> 771, random |-> <<5, 5>>, session |-> <<>>, ciphers |-> ciphers,
   compression |-> <<0>>, sni |-> sni, alpn |-> {}, versions |-> {}, ech |-> FALSE]

MCQUICHellos == {Hello({<<7>>}, <<259>>), Hello({}, <<259, 260>>)}

\* For the format of a hello.
Format == INSTANCE QUIC
            WITH Packets <- {}, ClientHellos <- {}, RandomLen <- 2,
                 quicInvalidCountThreshold <- 1, MaxFed <- 0

Crypto(m, i, j) == [type |-> "crypto", offset |-> i - 1, data |-> SubSeq(m, i, j)]
Other(type)     == [type |-> type, offset |-> 0, data |-> <<>>]

\* The frames of message m, cut at two places, at one, or not at all.
Cuts(m) ==
  {{Crypto(m, 1, 3), Crypto(m, 4, 9), Crypto(m, 10, Len(m))},
   {Crypto(m, 1, 6), Crypto(m, 7, Len(m))}, {Crypto(m, 1, Len(m))}}

Orders(S) == {f \in [1..Cardinality(S) -> S] : \A x \in S : \E i \in 1..Cardinality(S) : f[i] = x}

Whole == UNION {UNION {Orders(S) : S \in Cuts(Format!Message(h))} : h \in MCQUICHellos}

\* Whole messages, also with padding, the first frame twice, an unknown frame,
\* or without their first frame, or their second.
Frames ==
  Whole \cup {<<Other("padding")>> \o f \o <<Other("ping")>> : f \in Whole}
        \cup {<<f[1]>> \o f : f \in Whole}
        \cup {f \o <<Other("stream")>> : f \in Whole}
        \cup {Tail(f) : f \in Whole}
        \cup {SelectSeq(f, LAMBDA x : x.offset # 3) : f \in {f \in Whole : Len(f) = 3}}

MCQUICPackets ==
  {[initial |-> TRUE, frames |-> f] : f \in Frames}
    \cup {[initial |-> FALSE, frames |-> f] : f \in {f \in Whole : Len(f) = 1}}

\* DNS: a query, and responses with and without errors, with one question of
\* each type, with two, and with none; and what is no message.
Q(name, type)       == [name |-> name, type |-> type]
RR(name, type)      == [name |-> name, type |-> type, data |-> "true address"]
Response(rcode, qs) == [decodes |-> TRUE, qr |-> TRUE, rcode |-> rcode, questions |-> qs,
                        answers |-> [k \in 1..Len(qs) |-> RR(qs[k].name, qs[k].type)]]

MCDNSPackets ==
  {Response("ok", <<Q("x", type)>>) : type \in {"A", "AAAA", "TXT"}}
    \cup {Response("ok", <<Q("y", "A")>>), Response("ok", <<Q("y", "A"), Q("x", "A")>>),
          Response("ok", <<Q("x", "AAAA"), Q("x", "A")>>),
          [Response("ok", <<>>) EXCEPT !.answers = <<RR("x", "A")>>],
          [Response("ok", <<Q("x", "A")>>) EXCEPT !.answers = <<RR("x", "CNAME"), RR("z", "A")>>],
          Response("nx", <<Q("x", "A")>>),
          [Response("ok", <<Q("x", "A")>>) EXCEPT !.qr = FALSE, !.answers = <<>>],
          [decodes |-> FALSE]}

MCDNSArgs == [a : {"absent", "v4", "v6"}, aaaa : {"absent", "v4", "v6", "other"}]

\* FET: every chunk of up to five bytes with three, four and five ones; runs of
\* about 6 and 20 printable bytes at the beginning, in the middle and at the end
\* of bytes that are not; and the beginnings of TLS and HTTP.
Times(n, b) == [k \in 1..n |-> b]

Runs == {0, 1, 5, 6, 20, 21}

MCFETChunks ==
  [skip : {FALSE}, bytes :
         UNION {[1..n -> {7, 15, 31}] : n \in 0..5}
    \cup {Times(k, 228) \o Times(n, 75) \o Times(l, 228) : k \in {0, 1, 22}, n \in Runs, l \in {0, 1, 20}}
    \cup {Times(n, 75) \o Times(k, 228) \o Times(l, 75) : n \in Runs, k \in {1, 40}, l \in Runs}
    \cup {first \o Times(9, 228) : first \in {<<22, 3, 9>>, <<23, 3, 10>>, <<24, 3, 1>>, <<22, 3>>,
                                              <<71, 69, 84>>, <<80, 65, 84>>, <<80, 85, 83>>}}]
    \cup {[skip |-> TRUE, bytes |-> <<228>>]}

-----------------------------------------------------------------------------
MCInit ==
  \/ Init
  \/ analyzer = "quic" /\ QUIC!Stream!Init

MCNext ==
  \/ Next
  \/ UNCHANGED analyzer /\ analyzer = "quic" /\ QUIC!Stream!Next

MCSpec == MCInit /\ [][MCNext]_vars
-----------------------------------------------------------------------------
\* quic.go: the first hello that comes whole is reported, and nothing else.
ReportsTheHello == analyzer = "quic" => QUIC!ReportsTheHello
=============================================================================
