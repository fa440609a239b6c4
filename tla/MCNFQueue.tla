----------------------------- MODULE MCNFQueue ------------------------------
(***************************************************************************)
(* Instances of NFQueue for TLC: a forwarded connection, one of another    *)
(* program, and one the program dials.                                     *)
(***************************************************************************)
EXTENDS NFQueue, TLC

CONSTANTS web, shell, dns

\* All three kinds of packets of other programs.
MCPacket == PacketsOf(Local) \cup [conn : Conns, kind : {"whole"}]

\* With iptables, the next process wants the same rules in a chain ...
MCConfigs == {c \in [nft : BOOLEAN, local : BOOLEAN, rst : BOOLEAN] : ~c.nft => ~c.rst}

\* ... and nothing goes wrong in Close.
MCFaults ==
  (TRUE :> AllFaults)
    @@ (FALSE :> {"killed in setup", "killed when up", "setup fails"})

\* iptables in local mode, where the setup may fail.
LocalOnly    == {[nft |-> FALSE, local |-> TRUE, rst |-> FALSE]}
OnlyFailures == [nft \in BOOLEAN |-> {"setup fails"}]
=============================================================================
