--------------------------- MODULE StreamParsers ----------------------------
(***************************************************************************)
(* The analyzers that read a stream of bytes, one of them in each          *)
(* behaviour: analyzers share no state, so what one does in the company of *)
(* others is what it does alone.  MCStreamParsers adds TLS and SOCKS,      *)
(* whose formats are recursive operators.                                  *)
(***************************************************************************)
EXTENDS Integers, Sequences

CONSTANTS
  SSHTalks, OpenVPNTalks, DNSTalks,
  MinPktLen,  \* of OpenVPN, 6 in the code
  PktLimit    \* of OpenVPN, 256 in the code

VARIABLES
  analyzer,                               \* which one it is
  parser, talk, pos, shown, finished, gap \* its StreamParser

vars == <<analyzer, parser, talk, pos, shown, finished, gap>>

SSH     == INSTANCE SSH        WITH Talks <- SSHTalks
OpenVPN == INSTANCE OpenVPNTCP WITH Talks <- OpenVPNTalks
DNS     == INSTANCE DNS        WITH Talks <- DNSTalks

Init ==
  \/ analyzer = "ssh"     /\ SSH!Stream!Init
  \/ analyzer = "openvpn" /\ OpenVPN!Stream!Init
  \/ analyzer = "dns"     /\ DNS!Stream!Init

Next ==
  /\ UNCHANGED analyzer
  /\ \/ analyzer = "ssh"     /\ SSH!Stream!Next
     \/ analyzer = "openvpn" /\ OpenVPN!Stream!Next
     \/ analyzer = "dns"     /\ DNS!Stream!Next

Spec == Init /\ [][Next]_vars

\* What theorems take for granted of the constants.
StreamAssumption ==
  /\ SSH!SSHAssumption
  /\ OpenVPN!OpenVPNTCPAssumption
  /\ DNS!DNSTCPAssumption
-----------------------------------------------------------------------------
(* What the program does; the formulas stand with the analyzers. *)

\* ssh.go: version lines are recognised and taken apart.
ReadsVersionLines == analyzer = "ssh" => SSH!ReadsVersionLines

\* openvpn.go: over TCP no packet is lost, split or counted twice.
EveryPacketCountedOnce == analyzer = "openvpn" => OpenVPN!EveryPacketCountedOnce

\* dns.go: garbage stops it, and nothing else but a gap.
ReadsOnUntilGarbage == analyzer = "dns" => DNS!ReadsOnUntilGarbage

\* dns.go: a chunk that completes messages shows the last of them.
ShowsTheLastMessage == [][analyzer = "dns" => DNS!ShowsTheLast]_vars
=============================================================================
