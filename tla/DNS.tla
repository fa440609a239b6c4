-------------------------------- MODULE DNS ---------------------------------
(***************************************************************************)
(* The DNS analyzer over TCP (analyzer/udp/dns.go): messages with their    *)
(* length before them, one behind the other, in both directions.           *)
(*                                                                         *)
(* What gopacket decodes and the analyzer lists is kept as the message     *)
(* itself; one that is empty or begins with Garbage cannot be decoded.     *)
(***************************************************************************)
EXTENDS LSM

CONSTANT Talks  \* the conversations

Garbage == 255

\* External: whether a message can be decoded.
decodes(msg) == msg # <<>> /\ msg[1] # Garbage

\* What there is to report of a message, or nil.
nil == [nil |-> TRUE]
parseDNSMessage(msg) == IF decodes(msg) THEN [message |-> msg] ELSE nil

\* Faulty: the length is not taken.
getLengthOnly(d, p) ==
  IF ~Enough(p.buf[d], 2) THEN Pause(p)
  ELSE Go([p EXCEPT !.msgLen[d] = 256 * p.buf[d][1] + p.buf[d][2]])

\* getReqMessageLength and getRespMessageLength.
getMessageLength(d, p) ==
  IF ~Enough(p.buf[d], 2) THEN Pause(p)
  ELSE Go([Skip(p, d, 2) EXCEPT !.msgLen[d] = 256 * p.buf[d][1] + p.buf[d][2]])

\* getReqMessage and getRespMessage: then the next message begins.
getMessage(d, p) ==
  LET m    == parseDNSMessage(First(p.buf[d], p.msgLen[d]))
      rest == Skip(p, d, p.msgLen[d])
  IN  IF ~Enough(p.buf[d], p.msgLen[d]) THEN Pause(p)
      ELSE IF m = nil THEN Cancel(rest)
      ELSE Reset(Fill(rest, d, m))

Step(d, name, p) == IF name = "length" THEN getMessageLength(d, p) ELSE getMessage(d, p)

Nothing == [nothing |-> TRUE]

newDNSTCPStream ==
  LET p == NewParser([d \in Dirs |-> <<"length", "message">>], Nothing)
  IN  [buf |-> p.buf, steps |-> p.steps, index |-> p.index, map |-> p.map,
       updated |-> p.updated, done |-> p.done, msgLen |-> [d \in Dirs |-> 0]]

\* Faulty: garbage in one direction waits for the other.
FeedUntilBoth(d, p, data) ==
  LET r == FeedSteps(Step, d, p, data)
  IN  [r EXCEPT !.done = \A e \in Dirs : r.p.done[e]]

FeedDNS(d, p, data) == FeedSteps(Step, d, p, data)

\* A report replaces all, whichever direction it is of.
Replace(known, d, p) == p.map[d]

VARIABLES parser, talk, pos, shown, finished, gap

vars == <<parser, talk, pos, shown, finished, gap>>

Stream == INSTANCE StreamParser
            WITH FeedChunk <- FeedDNS, Fresh <- newDNSTCPStream, Show <- Replace

Spec == Stream!Spec
-----------------------------------------------------------------------------
MessageOf(bytes, n) == SubSeq(bytes, Stream!Ends(bytes)[n - 1] + 3, Stream!Ends(bytes)[n])

\* Message n has come, and so have those before it, all of which can be decoded.
Comes(bytes, n) ==
  /\ \A i \in 1..n : Stream!WholeBehind(bytes, Stream!Ends(bytes)[i - 1])
  /\ \A i \in 1..(n - 1) : decodes(MessageOf(bytes, i))

Readable(bytes) == {n \in 1..Len(bytes) : Comes(bytes, n) /\ decodes(MessageOf(bytes, n))}

\* One has come that cannot be decoded.
Unreadable(bytes) == \E n \in 1..Len(bytes) : Comes(bytes, n) /\ ~decodes(MessageOf(bytes, n))

\* A step with a chunk that completes messages shows the last of them, and one
\* that does not shows nothing new: ...
ShowsTheLast ==
  \A d \in Dirs :
    LET now == Readable(Stream!Given(d))'
    IN  pos'[d] # pos[d] =>
          /\ now = Readable(Stream!Given(d)) => shown' = shown
          /\ \A n \in now : n \notin Readable(Stream!Given(d)) /\ n + 1 \notin now =>
               shown' = [message |-> MessageOf(Stream!Given(d), n)']

\* ... in no step anything of another direction, of an earlier chunk or of a
\* message whose end is to come (dns.go, Feed).
ShowsTheLastMessage == [][ShowsTheLast]_vars

\* The messages of a connection are read without end: only one that cannot be
\* decoded stops the analyzer, as soon as it has come, whatever else is half
\* read in the other direction.
ReadsOnUntilGarbage == finished <=> gap \/ \E d \in Dirs : Unreadable(Stream!Given(d))

\* What theorems take for granted of the constants.
DNSTCPAssumption == Talks \subseteq [Dirs -> Seq(0..255)]
=============================================================================
