-------------------------- MODULE DatagramParsers ---------------------------
(***************************************************************************)
(* Analyzers to which it matters how their data are cut, one of them in    *)
(* each behaviour: they share no state, so what one does in the company of *)
(* others is what it does alone.  MCDatagramParsers adds QUIC, which       *)
(* parses bytes with recursive operators.                                  *)
(***************************************************************************)
EXTENDS Integers, Sequences

CONSTANTS
  OpenVPNPackets, PktLimit,
  WireGuardPackets, RememberedIndexCount,
  DNSPackets, DNSArgs,
  InvalidThreshold,              \* of both, 4 in the code
  TrojanChunks, IsTrojanSeq(_),
  FETChunks,
  MaxFed                         \* MaxFed[a]: bound on what analyzer a is fed

VARIABLES
  analyzer,                    \* which one it is
  parser, fed, shown, finished \* its DatagramParser

vars == <<analyzer, parser, fed, shown, finished>>

\* The least length is TCP's.
OpenVPN == INSTANCE OpenVPNUDP
             WITH Packets <- OpenVPNPackets, MinPktLen <- 6, MaxFed <- MaxFed["openvpn"]

WireGuard == INSTANCE WireGuard WITH Packets <- WireGuardPackets, MaxFed <- MaxFed["wireguard"]

DNS == INSTANCE DNSUDP WITH Packets <- DNSPackets, Args <- DNSArgs, MaxFed <- MaxFed["dns"]

Trojan == INSTANCE Trojan WITH Chunks <- TrojanChunks, MaxFed <- MaxFed["trojan"]

FET == INSTANCE FET WITH Chunks <- FETChunks, MaxFed <- MaxFed["fet"]

Init ==
  \/ analyzer = "openvpn"   /\ OpenVPN!Stream!Init
  \/ analyzer = "wireguard" /\ WireGuard!Stream!Init
  \/ analyzer = "dns"       /\ DNS!Stream!Init
  \/ analyzer = "trojan"    /\ Trojan!Stream!Init
  \/ analyzer = "fet"       /\ FET!Stream!Init

Next ==
  /\ UNCHANGED analyzer
  /\ \/ analyzer = "openvpn"   /\ OpenVPN!Stream!Next
     \/ analyzer = "wireguard" /\ WireGuard!Stream!Next
     \/ analyzer = "dns"       /\ DNS!Stream!Next
     \/ analyzer = "trojan"    /\ Trojan!Stream!Next
     \/ analyzer = "fet"       /\ FET!Stream!Next

Spec == Init /\ [][Next]_vars

\* What theorems take for granted of the constants.
DatagramAssumption ==
  /\ OpenVPN!OpenVPNAssumption
  /\ WireGuard!WireGuardAssumption
  /\ DNS!DNSAssumption
  /\ Trojan!TrojanAssumption
  /\ FET!FETAssumption
-----------------------------------------------------------------------------
(* What the program does; the formulas stand with the analyzers. *)

\* openvpn.go: over UDP each packet is counted that belongs into a session.
CountsWhatFitsIn == analyzer = "openvpn" => OpenVPN!CountsWhatFitsIn

\* wireguard.go: the rules know the session and whose index a receiver's is, and
\* a stream is given up when too many packets in a row are others.
KnowsTheSession ==
  analyzer = "wireguard" => WireGuard!KnowsTheSession /\ WireGuard!GivesUpAfterGarbage

\* trojan.go, fet.go: a connection is judged by four whole turns, or by its first
\* chunk, by all of it, once, and no sooner.
JudgesTraffic ==
  /\ analyzer = "trojan" => Trojan!JudgesWholeTurns
  /\ analyzer = "fet"    => FET!JudgesFirstChunk

\* dns.go of analyzer and modifier: responses about a name are rewritten, each
\* by what it says itself, and nothing else is.
RewritesAnswers ==
  analyzer = "dns" => DNS!RewritesAnswers /\ DNS!KnowsTheLastMessage

\* trojan.go:58: "Stop if it's not a valid TLS connection".
StopsIfNotTLS == analyzer = "trojan" => Trojan!StopsIfNotTLS
=============================================================================
