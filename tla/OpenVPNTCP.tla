----------------------------- MODULE OpenVPNTCP -----------------------------
(***************************************************************************)
(* OpenVPN over TCP: packets of a session, cut anywhere.                   *)
(***************************************************************************)
EXTENDS OpenVPN

CONSTANT Talks  \* the conversations

\* A report replaces or merges both counts.
Counts(known, d, p) == p.cnt

VARIABLES parser, talk, pos, shown, finished, gap

Stream == INSTANCE StreamParser
            WITH FeedChunk <- FeedTCP, Fresh <- newOpenVPNStream, Show <- Counts,
                 Nothing <- [d \in Dirs |-> 0]

Spec == Stream!Spec
-----------------------------------------------------------------------------
OpcodeOf(bytes, n) == opcode(bytes[Stream!Ends(bytes)[n - 1] + 3])

\* The first n packets have come, are long enough, and belong into a session in
\* direction d.
InPlace(d, bytes, n) ==
  /\ \A i \in 1..n : Stream!WholeBehind(bytes, Stream!Ends(bytes)[i - 1])
  /\ \A i \in 1..n : Stream!Ends(bytes)[i] >= Stream!Ends(bytes)[i - 1] + 2 + MinPktLen
  /\ \A i \in 1..n : OpcodeOf(bytes, i) \in IF i = 1 THEN ResetOpcodes(d) ELSE SessionOpcodes

\* The packets taken from direction d: the reset and those that are counted.
Taken(d) == parser.index[d] + parser.cnt[d]

\* However the two directions are cut, no packet is lost, split or counted
\* twice: those taken are the first that have come, each in its place in a
\* session, and the buffer has what has come behind them, to the byte; the
\* rules know the counts (openvpn.go, parseReq), and the server's begins only
\* in a session that the client began.
EveryPacketCountedOnce ==
  /\ shown = parser.cnt
  /\ \A d \in Dirs :
       /\ parser.cnt[d] > 0 => parser.index[d] = 1
       /\ InPlace(d, Stream!Given(d), Taken(d))
       /\ ~finished =>
            parser.buf[d] = After(Stream!Given(d), Stream!Ends(Stream!Given(d))[Taken(d)])
  /\ parser.index["resp"] = 1 => parser.index["req"] = 1

\* What theorems take for granted of the constants.
OpenVPNTCPAssumption ==
  /\ Talks \subseteq [Dirs -> Seq(0..255)]
  /\ MinPktLen \in Nat \ {0}
=============================================================================
