-------------------------------- MODULE TLS ---------------------------------
(***************************************************************************)
(* The TLS analyzer (analyzer/tcp/tls.go): the first hello message of each *)
(* direction, which must be the first message of its record and lie in it. *)
(***************************************************************************)
EXTENDS LSM, TLSHello

CONSTANT Talks  \* the conversations, with the hello each direction says

RecordTypeHandshake == 22

\* Bytes of the headers, and the least a hello has behind them.
headersSize == 9

minDataSize(d) == RandomLen + (IF d = "req" THEN 9 ELSE 6)

\* The message type of a direction's hello.
TypeHello(d) == IF d = "req" THEN 1 ELSE 2

\* The length of the hello to come.
setLen(p, d, len) == [p EXCEPT !.helloLen[d] = len]

\* tlsClientHelloPreprocess and tlsServerHelloPreprocess.
HelloPreprocess(d, p) ==
  LET header == Get(p.buf[d], headersSize)
      len    == 65536 * header.data[7] + Number(SubSeq(header.data, 8, 9))
      rest   == Skip(p, d, headersSize)
  IN  IF ~header.ok THEN Pause(p)
      ELSE IF header.data[1] # RecordTypeHandshake \/ header.data[6] # TypeHello(d)
           THEN Cancel(rest)
      ELSE IF len < minDataSize(d) THEN Cancel(setLen(rest, d, len))
      ELSE Go(setLen(rest, d, len))

\* Faulty: as much of it as has come.
helloSoFar(p, d) == Get(p.buf[d], IF Len(p.buf[d]) < p.helloLen[d] THEN Len(p.buf[d]) ELSE p.helloLen[d])

\* The hello, when it has come.
wholeHello(p, d) == Get(p.buf[d], p.helloLen[d])

\* parseClientHelloData and parseServerHelloData.
HelloData(d, p) ==
  LET hello == wholeHello(p, d)
      rest  == Skip(p, d, p.helloLen[d])
      m     == IF d = "req" THEN ParseTLSClientHelloMsgData(hello.data)
                            ELSE ParseTLSServerHelloMsgData(hello.data)
  IN  IF ~hello.ok THEN Pause(p) ELSE IF m = Invalid THEN Cancel(rest) ELSE Go(Fill(rest, d, m))

Step(d, name, p) == IF name = "preprocess" THEN HelloPreprocess(d, p) ELSE HelloData(d, p)

None == [none |-> TRUE]

newTLSStream ==
  LET p == NewParser([d \in Dirs |-> <<"preprocess", "data">>], None)
  IN  p @@ [helloLen |-> [d \in Dirs |-> 0]]

FeedTLS(d, p, data) == FeedSteps(Step, d, p, data)

\* A report is merged under "req" or "resp".
Merge(known, d, p) == [known EXCEPT ![d] = p.map[d]]

VARIABLES parser, talk, pos, shown, finished, gap

Stream == INSTANCE StreamParser
            WITH FeedChunk <- FeedTLS, Fresh <- newTLSStream, Show <- Merge,
                 Nothing <- [d \in Dirs |-> None]

Spec == Stream!Spec
-----------------------------------------------------------------------------
\* A hello in its record.
Record(d, h, wrong) ==
  LET body == Body(d, h, wrong)
  IN  <<RecordTypeHandshake, 3, 1>> \o Bytes(Len(body) + 4, 2)
        \o <<TypeHello(d)>> \o Listed(body, 3, FALSE)

\* All of direction d's hello has been given.
HelloGiven(d) ==
  /\ talk.says[d].wrong # "silent"
  /\ pos[d] >= Len(Record(d, talk.says[d].hello, talk.says[d].wrong))

\* However a hello is cut, the rules know it, with every field as it was
\* written, as soon as its last byte has come and not before; a hello with a
\* length that does not fit what follows is never shown (tls.go, ParseTLS...).
ShowsTheHello ==
  \A d \in Dirs :
    shown[d] = IF HelloGiven(d) /\ talk.says[d].wrong = "no" THEN talk.says[d].hello ELSE None

\* The parser wants no more when it has shown both hellos, when one of them
\* is faulty, or after a gap; and only then (tlsStream.Feed).
FinishedWhenParsed ==
  finished <=> \/ gap
               \/ \A d \in Dirs : HelloGiven(d)
               \/ \E d \in Dirs : HelloGiven(d) /\ talk.says[d].wrong # "no"
=============================================================================
