--------------------------- MODULE DatagramParser ---------------------------
(***************************************************************************)
(* The life of an analyzer to which it matters how the data are cut:       *)
(* packets of UDP, or the chunks of TCP that come in one piece, are fed to *)
(* it in any order of the two directions until it is done, as the engine   *)
(* does (engine/udp.go, engine/tcp.go).  Parsers instantiate this module.  *)
(*                                                                         *)
(* A property map is a function of the names of its properties.  fed is    *)
(* the history of what was fed, which no action but a bound on it reads.   *)
(***************************************************************************)
EXTENDS Integers, Sequences

CONSTANTS
  FeedData(_, _, _),  \* Feed of the parser: direction, parser, packet
  Fresh,              \* a new parser
  Data(_),            \* what a direction may send
  MaxFed              \* bound on the number of packets

Dirs == {"req", "resp"}

VARIABLES
  parser,   \* the parser
  fed,      \* direction and data of every packet it was fed
  shown,    \* what rules know of it
  finished  \* Feed has said done

vars == <<parser, fed, shown, finished>>

Nothing == <<>>

\* The properties of m, and those known before that m does not have: @@ of TLC,
\* of which provers know nothing.
Merged(m, known) ==
  [x \in DOMAIN m \cup DOMAIN known |-> IF x \in DOMAIN m THEN m[x] ELSE known[x]]

Init ==
  /\ parser = Fresh
  /\ fed = <<>>
  /\ shown = Nothing
  /\ finished = FALSE

Feed(d, data) ==
  LET r == FeedData(d, parser, data)
  IN  /\ ~finished
      /\ Len(fed) < MaxFed
      /\ parser' = r.p
      /\ fed' = Append(fed, [dir |-> d, data |-> data])
      /\ shown' = IF r.update.type = "merge" THEN Merged(r.update.m, shown)
                  ELSE IF r.update.type = "replace" THEN r.update.m ELSE shown
      /\ finished' = r.done

Next == \E d \in Dirs : \E data \in Data(d) : Feed(d, data)

Spec == Init /\ [][Next]_vars
=============================================================================
