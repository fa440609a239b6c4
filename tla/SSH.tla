-------------------------------- MODULE SSH ---------------------------------
(***************************************************************************)
(* The SSH analyzer (analyzer/tcp/ssh.go): the version line of each side.  *)
(* Text is a sequence of words: "SSH", "-", " ", the ends of a line and    *)
(* letters.                                                                *)
(***************************************************************************)
EXTENDS LSM

CONSTANT Talks  \* the conversations

EndOfLine == <<"CR", "LF">>

None == [none |-> TRUE]

\* Where text has the word c.
Places(text, c) == {i \in 1..Len(text) : text[i] = c}

\* strings.Fields: the longest runs without a space, as places <<first, last>>.
Fields(text) ==
  LET free(i, j) == Places(text, " ") \cap (i..j) = {}
  IN  {f \in (1..Len(text)) \X (1..Len(text)) :
         /\ f[1] <= f[2] /\ free(f[1], f[2])
         /\ f[1] = 1 \/ ~free(f[1] - 1, f[1])
         /\ f[2] = Len(text) \/ ~free(f[2], f[2] + 1)}

\* The line is one of SSH at all.
hasPrefix(text) == Enough(text, 2) /\ First(text, 2) = <<"SSH", "-">>

\* What a line without its end says: None if it is no version line.
versionLine(text) ==
  LET first == SubSeq(text, 1, CHOOSE n \in {f[2] : f \in Fields(text)} : <<1, n>> \in Fields(text))
      rest  == After(first, Index(first, <<"-">>))
      dash  == Index(rest, <<"-">>)
      more  == {f \in Fields(text) : f[1] > Len(first)}
  IN  IF ~hasPrefix(text) THEN None
      ELSE IF \E f, g \in more : f # g THEN None
      ELSE IF dash = 0 THEN None
      ELSE [protocol |-> First(rest, dash - 1),
            software |-> After(rest, dash),
            comments |-> {SubSeq(text, f[1], f[2]) : f \in more}]

\* Faulty: it is passed over.
passOver(p) == Reset(p)

\* A line that is no version line.
notSSH(p) == Cancel(p)

\* parseClientExchangeLine and parseServerExchangeLine.
parseExchangeLine(d, p) ==
  LET end  == Index(p.buf[d], EndOfLine)
      m    == versionLine(First(p.buf[d], end - 1))
      rest == Skip(p, d, end + 1)
  IN  IF end = 0 THEN Pause(p) ELSE IF m = None THEN notSSH(rest) ELSE Go(Fill(rest, d, m))

Step(d, name, p) == parseExchangeLine(d, p)

newSSHStream == NewParser([d \in Dirs |-> <<"line">>], None)

FeedSSH(d, p, data) == FeedSteps(Step, d, p, data)

\* A report is merged under "client" or "server", here the directions' names.
Merge(known, d, p) == [known EXCEPT ![d] = p.map[d]]

VARIABLES parser, talk, pos, shown, finished, gap

Stream == INSTANCE StreamParser
            WITH FeedChunk <- FeedSSH, Fresh <- newSSHStream, Show <- Merge,
                 Nothing <- [d \in Dirs |-> None]

Spec == Stream!Spec
-----------------------------------------------------------------------------
\* What "SSH-protoversion-softwareversion SP comments" says, by the places of
\* its parts: the second dash i, the end of the software's name j, and what is
\* said behind it, one word.
Said(text, j) == {k \in (j + 1)..Len(text) : text[k] # " "}

IsVersion(text, i, j) ==
  /\ text[1] = "SSH" /\ text[2] = "-"
  /\ text[i] = "-" /\ i <= j
  /\ Places(text, "-") \cap (3..(i - 1)) = {}
  /\ Places(text, " ") \cap (3..j) = {}
  /\ j = Len(text) \/ text[j + 1] = " "
  /\ \A k, l \in Said(text, j) : k..l \subseteq Said(text, j)

Reading(text, i, j) ==
  [protocol |-> SubSeq(text, 3, i - 1),
   software |-> SubSeq(text, i + 1, j),
   comments |-> {SubSeq(text, x[1], x[2]) :
                   x \in {x \in Said(text, j) \X Said(text, j) : Said(text, j) = x[1]..x[2]}}]

\* One or, for other text, none.
Readings(text) ==
  {Reading(text, x[1], x[2]) :
     x \in {x \in (3..Len(text)) \X (3..Len(text)) : IsVersion(text, x[1], x[2])}}

\* The first line of what was given of d, as a set: empty until its end has come.
Line(d) ==
  LET t == Stream!Given(d)
  IN  {First(t, e - 1) : e \in {e \in 1..(Len(t) - 1) :
         /\ SubSeq(t, e, e + 1) = EndOfLine
         /\ \A f \in 1..(e - 1) : SubSeq(t, f, f + 1) # EndOfLine}}

\* However the lines are cut and interleaved, the rules know exactly what the
\* first line of each side says, if it has come whole and is a version line,
\* and a side's line is never read as the other's; the analyzer leaves when
\* nothing can be added: both are read, one is no version line, or data are
\* missing (ssh.go, Feed).
ReadsVersionLines ==
  /\ \A d \in Dirs :
       (IF shown[d] = None THEN {} ELSE {shown[d]}) = UNION {Readings(l) : l \in Line(d)}
  /\ finished <=> gap \/ (\A d \in Dirs : Line(d) # {})
                      \/ (\E d \in Dirs : Line(d) # {} /\ shown[d] = None)

\* What theorems take for granted of the constants: text is words.
SSHAssumption == Talks \subseteq [Dirs -> Seq(STRING)]
=============================================================================
