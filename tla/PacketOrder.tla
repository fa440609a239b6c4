---------------------------- MODULE PacketOrder -----------------------------
(***************************************************************************)
(* What the engine promises to the packets of each stream: they stand in   *)
(* one line, and are answered one at a time, first come, first served.     *)
(* Different streams owe each other nothing.                               *)
(***************************************************************************)
EXTENDS Naturals

CONSTANTS StreamIDs, MaxPackets

VARIABLES
  line,      \* the packets of each stream that wait for a verdict
  answered   \* the packets of each stream that have one

Init ==
  /\ line = [id \in StreamIDs |-> {}]
  /\ answered = [id \in StreamIDs |-> {}]

\* Packet n of stream id gets in line, behind all that came before it.
Arrive(id, n) ==
  /\ \A m \in line[id] \cup answered[id] : m < n
  /\ line' = [line EXCEPT ![id] = @ \cup {n}]
  /\ UNCHANGED answered

\* The first one in line gets its verdict.
Answer(id, n) ==
  /\ n \in line[id]
  /\ \A m \in line[id] : n <= m
  /\ line' = [line EXCEPT ![id] = @ \ {n}]
  /\ answered' = [answered EXCEPT ![id] = @ \cup {n}]

Next == \E id \in StreamIDs, n \in 1..MaxPackets : Arrive(id, n) \/ Answer(id, n)

Spec == Init /\ [][Next]_<<line, answered>>
=============================================================================
