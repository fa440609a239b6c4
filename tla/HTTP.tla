-------------------------------- MODULE HTTP --------------------------------
(***************************************************************************)
(* The HTTP analyzer (analyzer/tcp/http.go): the first line and the        *)
(* headers of the first request and the first response of a connection.    *)
(*                                                                         *)
(* Text is a sequence of words.  Two of them make a first line: <<"m",     *)
(* "v">> a request's (method and path, version), <<"v", "s">> the          *)
(* beginning of a response's (version, status).  Spaces and the case of    *)
(* header names are left out.                                              *)
(***************************************************************************)
EXTENDS LSM

CONSTANT Talks  \* the conversations

CR == "CR"
LF == "LF"
EndOfLine == <<CR, LF>>
EndOfHeaders == EndOfLine \o EndOfLine

\* A map: the first line and, as pairs of name and value, the headers.
None == [line |-> <<>>, headers |-> {}]

\* What makes a first line one.
validLine(d, line) ==
  IF d = "req" THEN line = <<"m", "v">>
               ELSE Len(line) >= 2 /\ First(line, 2) = <<"v", "s">>

\* parseRequestLine and parseResponseLine.
parseLine(d, p) ==
  LET end == Index(p.buf[d], EndOfLine)
  IN  IF end = 0 THEN Pause(p)
      ELSE LET line == First(p.buf[d], end - 1)
               rest == Skip(p, d, end + 1)
           IN  IF validLine(d, line) THEN Go(Fill(rest, d, [None EXCEPT !.line = line]))
                                     ELSE Cancel(rest)

\* bytes.Split at the ends of lines.
RECURSIVE Split(_)
Split(text) ==
  LET end == Index(text, EndOfLine)
  IN  IF end = 0 THEN <<text>> ELSE <<First(text, end - 1)>> \o Split(After(text, end + 1))

\* The map of header lines; a name that comes again gets the later value.
RECURSIVE headerMap(_)
headerMap(lines) ==
  IF lines = <<>> THEN {}
  ELSE LET line  == lines[Len(lines)]
           colon == Index(line, <<":">>)
           name  == First(line, colon - 1)
           rest  == headerMap(First(lines, Len(lines) - 1))
       IN  {h \in rest : h[1] # name} \cup {<<name, After(line, colon)>>}

\* Faulty: the rules are not told of the headers.
parseHeadersSilently(d, p) ==
  LET end == Index(p.buf[d], EndOfHeaders)
  IN  IF end = 0 THEN Pause(p)
      ELSE LET lines == Split(First(p.buf[d], end - 1))
               rest  == Skip(p, d, end + 3)
           IN  IF \E k \in 1..Len(lines) : Index(lines[k], <<":">>) = 0 THEN Cancel(rest)
               ELSE Go([rest EXCEPT !.map[d].headers = headerMap(lines)])

\* parseRequestHeaders and parseResponseHeaders.
parseHeaders(d, p) ==
  LET end == Index(p.buf[d], EndOfHeaders)
  IN  IF end = 0 THEN Pause(p)
      ELSE LET lines == Split(First(p.buf[d], end - 1))
               rest  == Skip(p, d, end + 3)
           IN  IF \E k \in 1..Len(lines) : Index(lines[k], <<":">>) = 0 THEN Cancel(rest)
               ELSE Go(Fill(rest, d, [p.map[d] EXCEPT !.headers = headerMap(lines)]))

Step(d, name, p) == IF name = "line" THEN parseLine(d, p) ELSE parseHeaders(d, p)

newHTTPStream == NewParser([d \in Dirs |-> <<"line", "headers">>], None)

FeedHTTP(d, p, data) == FeedSteps(Step, d, p, data)

\* A report is merged under "req" or "resp".
Merge(known, d, p) == [known EXCEPT ![d] = p.map[d]]

VARIABLES parser, talk, pos, shown, finished, gap

Stream == INSTANCE StreamParser
            WITH FeedChunk <- FeedHTTP, Fresh <- newHTTPStream, Show <- Merge,
                 Nothing <- [d \in Dirs |-> None]

Spec == Stream!Spec
-----------------------------------------------------------------------------
(***************************************************************************)
(* A message as its grammar has it, by the places of its parts.            *)
(***************************************************************************)
LineEnds(t) == {i \in 1..(Len(t) - 1) : t[i] = CR /\ t[i + 1] = LF}

IsFirstEnd(t, e) == e \in LineEnds(t) /\ \A i \in LineEnds(t) : e <= i

\* The headers begin behind e and end at f, where two lines end at once.
AreHeaders(t, e, f) ==
  LET both == {i \in LineEnds(t) : i > e /\ i + 2 \in LineEnds(t)}
  IN  f \in both /\ \A i \in both : f <= i

\* The lines between e and f, as places <<first, last>>.
HeaderLines(t, e, f) ==
  {l \in (e + 2..f) \X (e + 1..f - 1) :
     /\ l[1] <= l[2] + 1
     /\ l[1] = e + 2 \/ l[1] - 2 \in LineEnds(t)
     /\ l[2] + 1 \in LineEnds(t)
     /\ LineEnds(t) \cap (l[1]..l[2]) = {}}

Colons(t, l) == {i \in l[1]..l[2] : t[i] = ":"}

NameOf(t, l) ==
  LET c == CHOOSE c \in Colons(t, l) : \A i \in Colons(t, l) : c <= i
  IN  SubSeq(t, l[1], c - 1)

ValueOf(t, l) == SubSeq(t, l[1] + Len(NameOf(t, l)) + 1, l[2])

\* Text t begins with a valid first line that ends at e, ...
HasLine(d, t, e) == IsFirstEnd(t, e) /\ validLine(d, First(t, e - 1))

\* ... with headers that end at f and all have a colon.
HasHeaders(d, t, e, f) ==
  /\ HasLine(d, t, e)
  /\ AreHeaders(t, e, f)
  /\ \A l \in HeaderLines(t, e, f) : Colons(t, l) # {}

Message(d, t) ==
  [line    |-> UNION {{First(t, e - 1)} : e \in {e \in LineEnds(t) : HasLine(d, t, e)}},
   headers |-> UNION {{<<NameOf(t, l), ValueOf(t, l)>> :
                         l \in {l \in HeaderLines(t, e, f) :
                                  \A k \in HeaderLines(t, e, f) :
                                    NameOf(t, k) = NameOf(t, l) => k[1] <= l[1]}} :
                       <<e, f>> \in {x \in LineEnds(t) \X LineEnds(t) : HasHeaders(d, t, x[1], x[2])}}]

Parsed(d, t) == \E e, f \in LineEnds(t) : HasHeaders(d, t, e, f)

Broken(d, t) ==
  \/ LineEnds(t) # {} /\ ~\E e \in LineEnds(t) : HasLine(d, t, e)
  \/ \E e, f \in LineEnds(t) : HasLine(d, t, e) /\ AreHeaders(t, e, f) /\ ~HasHeaders(d, t, e, f)

\* However TCP cuts the stream, the rules have been asked about exactly the
\* line and the headers that the bytes given so far contain: nothing found is
\* kept from them, nothing is found twice, half or in the wrong place.
ReportsWhatWasSent ==
  \A d \in Dirs :
    LET m == Message(d, Stream!Given(d))
    IN  /\ m.line = IF shown[d].line = <<>> THEN {} ELSE {shown[d].line}
        /\ m.headers = shown[d].headers

\* The analyzer is given up as soon as there is nothing left to find, and no
\* sooner: when both messages are parsed, one is broken, or data are missing.
FinishedWhenParsed ==
  finished <=>
    \/ gap
    \/ \E d \in Dirs : Broken(d, Stream!Given(d))
    \/ \A d \in Dirs : Parsed(d, Stream!Given(d))
=============================================================================
