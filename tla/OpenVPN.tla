------------------------------ MODULE OpenVPN -------------------------------
(***************************************************************************)
(* The OpenVPN analyzer (analyzer/udp/openvpn.go), for both transports:    *)
(* each side begins with a reset, the client first; packets that belong to *)
(* a session are counted from then on.                                     *)
(*                                                                         *)
(* Data are bytes; the opcode of a packet is in the high bits of its first *)
(* byte, which over TCP follows two bytes with the packet's length.        *)
(***************************************************************************)
EXTENDS LSM

CONSTANTS
  MinPktLen,  \* 6 in the code
  PktLimit    \* 256 in the code

ResetOpcodes(d) == IF d = "req" THEN {1, 7, 10} ELSE {2, 8}

SessionOpcodes == {3, 4, 5, 6, 9, 11}

ValidOpcodes == ResetOpcodes("req") \cup ResetOpcodes("resp") \cup SessionOpcodes

opcode(byte) == byte \div 8

\* What is parsed of a packet: an answer that may have an opcode.
Packet(p, op) == [act |-> "next", p |-> p, opcode |-> op]

\* parsePkt of the UDP stream, which has the packet in curPkt.
parsePktUDP(d, p) ==
  IF p.curPkt = <<>> THEN Pause(p)
  ELSE IF opcode(p.curPkt[1]) \notin ValidOpcodes THEN Cancel(p)
  ELSE Packet([p EXCEPT !.curPkt = <<>>], opcode(p.curPkt[1]))

\* parsePkt of the TCP stream; what is faulty is found before all has come.
parsePktTCP(d, p) ==
  LET buf    == p.buf[d]
      pktLen == 256 * buf[1] + buf[2]
  IN  IF ~Enough(buf, 2) THEN Pause(p)
      ELSE IF pktLen < MinPktLen THEN Cancel(p)
      ELSE IF ~Enough(buf, 3) THEN Pause(p)
      ELSE IF opcode(buf[3]) \notin ValidOpcodes THEN Cancel(p)
      ELSE IF ~Enough(buf, pktLen + 2) THEN Pause(p)
      ELSE Packet(Skip(p, d, pktLen + 2), opcode(buf[3]))

parsePkt(transport, d, p) ==
  IF transport = "udp" THEN parsePktUDP(d, p) ELSE parsePktTCP(d, p)

\* Faulty: the server may come first.
anyHardReset(transport, d, p) ==
  LET r == parsePkt(transport, d, p)
  IN  IF r.act # "next" THEN r
      ELSE IF r.opcode \notin ResetOpcodes(d) THEN Cancel(r.p)
      ELSE Go([r.p EXCEPT !.lastOpcode = r.opcode])

\* parseCtlHardResetClient and parseCtlHardResetServer.
parseCtlHardReset(transport, d, p) ==
  LET r == parsePkt(transport, d, p)
  IN  IF d = "resp" /\ p.lastOpcode \notin ResetOpcodes("req") THEN Cancel(p)
      ELSE IF r.act # "next" THEN r
      ELSE IF r.opcode \notin ResetOpcodes(d) THEN Cancel(r.p)
      ELSE Go([r.p EXCEPT !.lastOpcode = r.opcode])

\* Faulty: what came with a packet is dropped when it is counted.
countAndDrop(transport, d, p) ==
  LET r == parsePkt(transport, d, p)
      q == [r.p EXCEPT !.cnt[d] = @ + 1, !.buf[d] = <<>>]
  IN  IF r.act # "next" THEN r
      ELSE IF r.opcode \notin SessionOpcodes THEN Cancel(r.p) ELSE Pause(q)

\* parseReq and parseResp: one packet at a time.
countPacket(transport, d, p) ==
  LET r == parsePkt(transport, d, p)
      q == [r.p EXCEPT !.cnt[d] = @ + 1]
  IN  IF r.act # "next" THEN r
      ELSE IF r.opcode \notin SessionOpcodes THEN Cancel(r.p) ELSE Pause(q)

newOpenVPNStream ==
  [buf   |-> [d \in Dirs |-> <<>>], curPkt |-> <<>>, lastOpcode |-> 0,
   index |-> [d \in Dirs |-> 0],
   cnt   |-> [d \in Dirs |-> 0]]

\* LinearStateMachine.Run over the two steps of a direction.  The second never
\* goes on, so that a machine is done only when it is cancelled.
Run(transport, d, p) ==
  LET r == parseCtlHardReset(transport, d, p)
  IN  IF p.index[d] = 1 THEN countPacket(transport, d, p)
      ELSE IF r.act # "next" THEN r
      ELSE countPacket(transport, d, [r.p EXCEPT !.index[d] = 1])

\* What Feed answers when data have come: a report when a packet was counted.
\* The stream also ends at the limit.
Fed(transport, d, p) ==
  LET r == Run(transport, d, p)
  IN  [p       |-> r.p,
       updated |-> r.p.cnt # p.cnt,
       done    |-> r.act = "cancel" \/ r.p.cnt["req"] + r.p.cnt["resp"] > PktLimit]

Unfed(p) == [p |-> p, updated |-> FALSE, done |-> FALSE]

FeedTCP(d, p, data) ==
  IF data = <<>> THEN Unfed(p) ELSE Fed("tcp", d, [p EXCEPT !.buf[d] = @ \o data])

FeedUDP(d, p, data) ==
  IF data = <<>> THEN Unfed(p) ELSE Fed("udp", d, [p EXCEPT !.curPkt = data])
=============================================================================
