------------------------------- MODULE DNSUDP -------------------------------
(***************************************************************************)
(* DNS over UDP under a rule that rewrites answers: the analyzer           *)
(* (analyzer/udp/dns.go) tells the rule about each message, and the        *)
(* modifier (modifier/udp/dns.go) makes the packet that goes on instead    *)
(* (engine/udp.go).  The rule stands for dns.qr && any(dns.questions,      *)
(* {.name == "x"}).                                                        *)
(*                                                                         *)
(* A packet is a message as gopacket decodes it, which is outside src/: the *)
(* flag of a response, the code, the questions and the answers, or no      *)
(* message at all.  Its other fields stay as they are.                     *)
(***************************************************************************)
EXTENDS Integers, Sequences

CONSTANTS
  Packets,          \* the packets either side may send
  Args,             \* the arguments of modifiers: what kind of text a and aaaa are
  InvalidThreshold, \* dnsUDPInvalidCountThreshold, 4 in the code
  MaxFed            \* bound on the number of packets

PacketsOf(d) == Packets

\* What theorems take for granted of the constants: a message has questions with
\* a name and a type, and answers with data as well.
DNSAssumption ==
  /\ InvalidThreshold \in Nat \ {0}
  /\ Packets \subseteq
       [decodes : {FALSE}] \cup
       [decodes : {TRUE}, qr : BOOLEAN, rcode : STRING,
        questions : Seq([name : STRING, type : STRING]),
        answers   : Seq([name : STRING, type : STRING, data : STRING])]

NotDNS == [decodes |-> FALSE]

\* net.ParseIP with To4 or To16: an IPv4 address has both forms.
To4(text)  == IF text = "v4" THEN "v4" ELSE "nil"
To16(text) == CASE text = "v4" -> "mapped" [] text = "v6" -> "v6" [] OTHER -> "nil"

\* DNSModifier.New: an argument that is not there, or not a string, is none; one
\* that is no address of its family is an error.
NewModifier(args) ==
  [err  |-> (args.a # "absent" /\ To4(args.a) = "nil")
              \/ (args.aaaa # "absent" /\ To16(args.aaaa) = "nil"),
   A    |-> To4(args.a),
   AAAA |-> To16(args.aaaa)]

\* The instances there are: the other rules do not compile.
Modifiers == {i \in {NewModifier(args) : args \in Args} : ~i.err}

-----------------------------------------------------------------------------
(* dnsModifierInstance.Process *)

Unfit(pkt) ==
  \/ ~pkt.decodes
  \/ ~pkt.qr
  \/ pkt.rcode # "ok"
  \/ pkt.questions = <<>>

\* The address for the first question, if the modifier has one of its type.
AddressFor(i, q) ==
  CASE q.type = "A" -> i.A [] q.type = "AAAA" -> i.AAAA [] OTHER -> "nil"

\* Faulty: the answer stands before those of the server.
ProcessAppending(i, pkt) ==
  LET q == pkt.questions[1]
      address == AddressFor(i, q)
  IN  IF Unfit(pkt) \/ address = "nil" THEN pkt
      ELSE [pkt EXCEPT !.answers = <<[name |-> q.name, type |-> q.type, data |-> address]>> \o @]

\* Process, and feed's fallback to the packet as it is when there is an error.
Process(i, pkt) ==
  LET q == pkt.questions[1]
      address == AddressFor(i, q)
  IN  IF Unfit(pkt) \/ address = "nil" THEN pkt
      ELSE [pkt EXCEPT !.answers = <<[name |-> q.name, type |-> q.type, data |-> address]>>]

-----------------------------------------------------------------------------
(* dnsUDPStream *)

nil == [nil |-> TRUE]

\* Lists that are empty are not among the properties.
parseDNSMessage(pkt) ==
  IF ~pkt.decodes THEN nil
  ELSE LET lists == {key \in {"questions", "answers"} : pkt[key] # <<>>}
       IN  [key \in {"qr", "rcode"} \cup lists |-> pkt[key]]

\* The rule: what is not there makes it an error, which is not true.
Rule(m) ==
  /\ m.qr
  /\ "questions" \in DOMAIN m
  /\ \E k \in DOMAIN m.questions : m.questions[k].name = "x"

\* Nobody asks the rule about a packet without an update.
Delivered(i, pkt) ==
  LET m == parseDNSMessage(pkt)
  IN  IF m # nil /\ Rule(m) THEN Process(i, pkt) ELSE pkt

newStream == [invalidCount |-> 0, out |-> [i \in Modifiers |-> NotDNS]]

\* Feed, and what goes on to the receiver under each modifier.
FeedDNS(d, p, pkt) ==
  LET m     == parseDNSMessage(pkt)
      count == IF m = nil THEN p.invalidCount + 1 ELSE 0
  IN  [p      |-> [invalidCount |-> count, out |-> [i \in Modifiers |-> Delivered(i, pkt)]],
       update |-> IF m = nil THEN [type |-> "none", m |-> <<>>] ELSE [type |-> "replace", m |-> m],
       done   |-> count >= InvalidThreshold]

VARIABLES parser, fed, shown, finished

Stream == INSTANCE DatagramParser
            WITH FeedData <- FeedDNS, Fresh <- newStream, Data <- PacketsOf

Spec == Stream!Spec
-----------------------------------------------------------------------------
Sent == fed[Len(fed)].data
Got(i) == parser.out[i]

\* The packet just sent is a response without an error that speaks of x.
SpeaksOfX ==
  /\ Sent.decodes /\ Sent.qr /\ Sent.rcode = "ok"
  /\ \E k \in DOMAIN Sent.questions : Sent.questions[k].name = "x"

\* As long as the stream is inspected, no address of x that the server gave to
\* the question the rule has an address for reaches the client, in whatever
\* records and however many; and no other packet is touched, whatever came
\* before it: no query, no error, no garbage.  Only the answers change.
RewritesAnswers ==
  fed # <<>> => \A i \in Modifiers :
    /\ ~SpeaksOfX => Got(i) = Sent
    /\ SpeaksOfX =>
         LET address == AddressFor(i, Sent.questions[1])
         IN  IF address = "nil" THEN Got(i) = Sent
             ELSE /\ {r.data : r \in {Got(i).answers[k] : k \in DOMAIN Got(i).answers}} = {address}
                  /\ [Got(i) EXCEPT !.answers = Sent.answers] = Sent

\* The rules know the last message, and none of what the messages before had
\* more; the stream is given up exactly when the last packets in a row were not
\* DNS, in whichever directions.
KnowsTheLastMessage ==
  LET messages == {k \in 1..Len(fed) : fed[k].data.decodes}
      last == CHOOSE k \in messages : \A l \in messages : l <= k
  IN  /\ IF messages = {} THEN shown = <<>> ELSE shown = parseDNSMessage(fed[last].data)
      /\ finished <=> /\ Len(fed) >= InvalidThreshold
                      /\ \A k \in (Len(fed) - InvalidThreshold + 1)..Len(fed) : k \notin messages
=============================================================================
