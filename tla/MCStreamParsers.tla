-------------------------- MODULE MCStreamParsers ---------------------------
(***************************************************************************)
(* An instance of StreamParsers for TLC, with HTTP, TLS and SOCKS in the   *)
(* same way.                                                               *)
(***************************************************************************)
EXTENDS StreamParsers

CONSTANTS HTTPTalks, TLSTalks, SOCKSTalks

HTTP  == INSTANCE HTTP  WITH Talks <- HTTPTalks
TLS   == INSTANCE TLS   WITH Talks <- TLSTalks, RandomLen <- 1
SOCKS == INSTANCE SOCKS WITH Talks <- SOCKSTalks, Inet4Len <- 2, Inet6Len <- 3

\* The instance is one of those the theorems are about.
ASSUME StreamsAssumed == StreamAssumption

-----------------------------------------------------------------------------
(* The conversations; those of TLS and SOCKS have modules of their own. *)

OfTLS   == INSTANCE MCTLS   WITH Talks <- {}, RandomLen <- 1
OfSOCKS == INSTANCE MCSOCKS WITH Talks <- {}, Inet4Len <- 2, Inet6Len <- 3

MCTLSTalks   == OfTLS!MCTalks
MCSOCKSTalks == OfSOCKS!MCTalks

\* HTTP: messages of up to four lines, good and bad, whose ends may be incomplete;
\* one direction has all of them, the other a whole message, half of one, or none.
OfHTTP == INSTANCE HTTP WITH Talks <- {}

EndOfLine    == OfHTTP!EndOfLine
EndOfHeaders == OfHTTP!EndOfHeaders

FirstLines == {<<"m", "v">>, <<"v", "s", "w">>, <<"m">>}
Headers    == {<<"k", ":", "x">>, <<"k", ":", "y">>, <<"k">>}
LineEnds   == {EndOfLine, <<OfHTTP!CR>>}

HTTPMessages ==
  {a \o i \o h \o j \o t : a \in FirstLines, i \in LineEnds, h \in Headers, j \in LineEnds,
                           t \in {<<>>, EndOfLine, <<":">> \o EndOfHeaders,
                                  <<"k", ":">> \o EndOfHeaders}}

HTTPOthers ==
  {<<>>, <<"m", "v">> \o EndOfLine, <<"v", "s">> \o EndOfLine \o <<":">> \o EndOfHeaders}

MCHTTPTalks ==
  {[req |-> t, resp |-> o] : t \in HTTPMessages, o \in HTTPOthers}
    \cup {[req |-> o, resp |-> t] : t \in HTTPMessages, o \in HTTPOthers}

\* SSH: lines with one to three dashes, with and without comments, with too many
\* of them, or of something else, and a line behind them.
Heads  == {<<"SSH", "-">>, <<"SSH">>, <<" ", "SSH", "-">>, <<"CR", "SSH", "-">>}
Names  == {<<"a", "-", "b">>, <<"-">>, <<"a", "-", "b", "-">>, <<"a">>, <<" ", "a", "-">>}
Tails  == {<<>>, <<" ">>, <<" ", "x">>, <<" ", " ", "x", " ">>, <<" ", "x", " ", "y">>}
Behind == {<<>>, <<"SSH", "-", "-", "CR", "LF">>}

Lines == {h \o n \o t \o <<"CR", "LF">> \o b : h \in Heads, n \in Names, t \in Tails, b \in Behind}

Others == {<<>>, <<"a", "CR", "LF">>}

MCSSHTalks ==
  {[req |-> l, resp |-> o] : l \in Lines, o \in Others}
    \cup {[req |-> <<"SSH", "-", "-", "CR", "LF">>, resp |-> l] : l \in Lines}

\* OpenVPN: up to three packets in a direction, of the least length and one
\* more, in and out of place.  A packet has n bytes behind its opcode.
Pkt(op, n) == <<0, n + 1, 8 * op + 3>> \o [i \in 1..n |-> 2]

Begin(d)  == {Pkt(IF d = "req" THEN 7 ELSE 8, 1), Pkt(IF d = "req" THEN 10 ELSE 2, 2), Pkt(4, 1)}
Then      == {<<>>, Pkt(4, 2), Pkt(9, 1), Pkt(7, 1)}
Last      == {<<>>, Pkt(5, 1), Pkt(12, 1), <<0, 1, 40>>}
Sides(d)  == {a \o b \o c : a \in Begin(d), b \in Then, c \in Last}

MCOpenVPNTalks == {t \in [req : Sides("req"), resp : Sides("resp")] :
                     Len(t.req) + Len(t.resp) <= 18}

\* DNS: up to three messages of up to two bytes in a direction, some that cannot
\* be decoded, some without their end.
Msgs == {<<0, 1, 1>>, <<0, 2, 2, 255>>, <<0, 1, 255>>, <<0, 0>>}
Ends == {<<>>, <<0>>, <<0, 1, 7>>, <<0, 9, 8>>}
Halves == {a \o b \o c : a, b \in Msgs \cup {<<>>}, c \in Ends}

MCDNSTalks == {t \in [req : Halves, resp : Halves] : Len(t.req) + Len(t.resp) <= 11}

-----------------------------------------------------------------------------
MCInit ==
  \/ Init
  \/ analyzer = "http"  /\ HTTP!Stream!Init
  \/ analyzer = "tls"   /\ TLS!Stream!Init
  \/ analyzer = "socks" /\ SOCKS!Stream!Init

MCNext ==
  \/ Next
  \/ /\ UNCHANGED analyzer
     /\ \/ analyzer = "http"  /\ HTTP!Stream!Next
        \/ analyzer = "tls"   /\ TLS!Stream!Next
        \/ analyzer = "socks" /\ SOCKS!Stream!Next

MCSpec == MCInit /\ [][MCNext]_vars
-----------------------------------------------------------------------------
(* What is checked of HTTP, TLS and SOCKS: what the rules know, and that the *)
(* inspection ends when nothing is left to find, and no sooner.              *)

\* http.go: the rules know the line and the headers that the bytes contain.
ReportsWhatWasSent ==
  analyzer = "http" => HTTP!ReportsWhatWasSent /\ HTTP!FinishedWhenParsed

\* tls.go: the rules know the hellos, wherever the stream was cut.
ShowsTheHello == analyzer = "tls" => TLS!ShowsTheHello /\ TLS!FinishedWhenParsed

\* socks.go: the rules know what both sides have said so far.
KnowsWhatWasSaid == analyzer = "socks" => SOCKS!KnowsWhatWasSaid /\ SOCKS!ReadToTheEnd
=============================================================================
