------------------------------- MODULE SOCKS --------------------------------
(***************************************************************************)
(* The SOCKS analyzer (analyzer/tcp/socks.go): versions 4, 4a and 5.  What *)
(* the client says first decides how both directions are read.             *)
(*                                                                         *)
(* A property map is a function of the names of its properties.  Lengths   *)
(* are those of the protocol, but for addresses: an IPv4 address has       *)
(* Inet4Len bytes and an IPv6 address Inet6Len.  Domain names have less    *)
(* than 251 bytes: the code computes in a byte where they end.             *)
(***************************************************************************)
EXTENDS LSM, TLC

CONSTANTS
  Talks,     \* the conversations
  Inet4Len,  \* 4 in the code
  Inet6Len   \* 16 in the code

SocksInvalid == 0
Socks4 == 1
Socks4A == 2
Socks5 == 3

AuthNotRequired == 0
AuthPassword == 2
AuthNoMatching == 255

TypeIPv4 == 1
TypeDomain == 3
TypeIPv6 == 4

Empty == [x \in {} |-> 0]

\* Byte i of what is to be read, from 0.
At(p, d, i) == p.buf[d][i + 1]

\* Bytes from i on, up to j, from 0.
Slice(p, d, i, j) == SubSeq(p.buf[d], i + 1, j)

\* Two bytes, the high one first.
Uint16(bytes) == 256 * bytes[1] + bytes[2]

\* The map of direction d with more in it; with a report, and without.
With(p, d, more)   == [p EXCEPT !.map[d] = more @@ @]
Report(p, d, more) == [With(p, d, more) EXCEPT !.updated[d] = TRUE]

parseSocksReqVersion(p) ==
  IF ~Enough(p.buf["req"], 1) THEN Pause(p)
  ELSE LET ver  == At(p, "req", 0)
           rest == Report([Skip(p, "req", 1) EXCEPT !.map["req"] = Empty], "req", Empty)
       IN  CASE ver = 4 -> Go(AppendSteps([rest EXCEPT !.version = Socks4], "req",
                                          <<"4 address", "4 user", "4 host">>))
             [] ver = 5 -> Go(AppendSteps([rest EXCEPT !.version = Socks5], "req",
                                          <<"5 method", "5 auth", "5 address">>))
             [] OTHER   -> Cancel(Skip(p, "req", 1))

\* Faulty: the answer is believed whatever was asked.
RespVersionAlone(p) ==
  IF ~Enough(p.buf["resp"], 1) THEN Pause(p)
  ELSE LET rest == Skip(p, "resp", 1)
       IN  IF At(p, "resp", 0) = 0 THEN Go(AppendSteps(rest, "resp", <<"4 packet">>))
           ELSE Go(AppendSteps(rest, "resp", <<"5 method", "5 auth", "5 address">>))

parseSocksRespVersion(p) ==
  IF ~Enough(p.buf["resp"], 1) THEN Pause(p)
  ELSE LET ver  == At(p, "resp", 0)
           rest == Skip(p, "resp", 1)
       IN  CASE p.version \in {Socks4, Socks4A} /\ ver = 0 ->
                  Go(AppendSteps(rest, "resp", <<"4 packet">>))
             [] p.version = Socks5 /\ ver = 5 ->
                  Go(AppendSteps(rest, "resp", <<"5 method", "5 auth", "5 address">>))
             [] OTHER -> Cancel(rest)

\* The first method that can be processed.
parseSocks5ReqMethod(p) ==
  IF ~Enough(p.buf["req"], 1) \/ ~Enough(p.buf["req"], At(p, "req", 0) + 1) THEN Pause(p)
  ELSE LET n     == At(p, "req", 0)
           known == {i \in 1..n : At(p, "req", i) \in {AuthNotRequired, AuthPassword}}
           first == CHOOSE i \in known : \A j \in known : i <= j
       IN  Go([Skip(p, "req", n + 1) EXCEPT
                 !.authReq = IF known = {} THEN AuthNoMatching ELSE At(p, "req", first)])

\* Two lengths, each before what it measures; each is read only when it has come.
parseSocks5ReqAuth(p) ==
  CASE p.authReq = AuthNotRequired ->
         Go(Report(p, "req", "auth" :> [method |-> AuthNotRequired]))
    [] p.authReq = AuthPassword ->
         IF ~Enough(p.buf["req"], 2) THEN Pause(p)
         ELSE LET user == At(p, "req", 1)
                  pass == At(p, "req", user + 2)
              IN  IF At(p, "req", 0) # 1 THEN Cancel(p)
                  ELSE IF \/ ~Enough(p.buf["req"], user + 3)
                          \/ ~Enough(p.buf["req"], user + pass + 3) THEN Pause(p)
                  ELSE Go(Report(Skip(p, "req", user + pass + 3), "req",
                            "auth" :> [method   |-> AuthPassword,
                                       username |-> Slice(p, "req", 2, user + 2),
                                       password |-> Slice(p, "req", user + 3, user + pass + 3)]))
    [] OTHER -> Cancel(p)

\* parseSocks5ReqConnInfo and parseSocks5RespConnInfo; what the second byte
\* says is called cmd or rep, and only a cmd is looked at.
ConnInfo(d, p) ==
  IF ~Enough(p.buf[d], 5) THEN Pause(p)
  ELSE LET type   == At(p, d, 3)
           pktLen == CASE type = TypeIPv4   -> 6 + Inet4Len
                       [] type = TypeIPv6   -> 6 + Inet6Len
                       [] type = TypeDomain -> 7 + At(p, d, 4)
                       [] OTHER             -> 0
           from   == IF type = TypeDomain THEN 5 ELSE 4
           rest   == Skip(p, d, pktLen)
       IN  IF At(p, d, 0) # 5 \/ pktLen = 0 THEN Cancel(p)
           ELSE IF ~Enough(p.buf[d], pktLen) THEN Pause(p)
           ELSE IF d = "req" /\ At(p, d, 1) \notin 1..3 THEN Cancel(rest)
           ELSE Go(Report(rest, d, (IF d = "req" THEN "cmd" ELSE "rep") :> At(p, d, 1)
                                     @@ "addr_type" :> type
                                     @@ "addr" :> Slice(p, d, from, pktLen - 2)
                                     @@ "port" :> Uint16(Slice(p, d, pktLen - 2, pktLen))))

parseSocks5RespMethod(p) ==
  IF ~Enough(p.buf["resp"], 1) THEN Pause(p)
  ELSE Go([Skip(p, "resp", 1) EXCEPT !.authResp = At(p, "resp", 0), !.map["resp"] = Empty])

parseSocks5RespAuth(p) ==
  CASE p.authResp = AuthNotRequired ->
         Go(Report(p, "resp", "auth" :> [method |-> AuthNotRequired]))
    [] p.authResp = AuthPassword ->
         IF ~Enough(p.buf["resp"], 2) THEN Pause(p)
         ELSE IF At(p, "resp", 0) # 1 THEN Cancel(Skip(p, "resp", 2))
         ELSE Go(Report(Skip(p, "resp", 2), "resp",
                   "auth" :> [method |-> AuthPassword, status |-> At(p, "resp", 1)]))
    [] OTHER -> Cancel(p)

\* An address 0.0.0.x announces a host name.
parseSocks4ReqIpAndPort(p) ==
  IF ~Enough(p.buf["req"], 3 + Inet4Len) THEN Pause(p)
  ELSE LET addr == Slice(p, "req", 3, 3 + Inet4Len)
           rest == Skip(p, "req", 3 + Inet4Len)
           q    == IF \A i \in 1..(Inet4Len - 1) : addr[i] = 0
                   THEN [rest EXCEPT !.version = Socks4A] ELSE rest
       IN  IF At(p, "req", 0) \notin {1, 2} THEN Cancel(rest)
           ELSE Go(Report(q, "req", "cmd" :> At(p, "req", 0) @@ "addr" :> addr
                             @@ "addr_type" :> TypeIPv4 @@ "port" :> Uint16(Slice(p, "req", 1, 3))))

parseSocks4ReqUserId(p) ==
  LET end == Index(p.buf["req"], <<0>>)
  IN  IF end = 0 THEN Pause(p)
      ELSE Go(Report(Skip(p, "req", end), "req",
                "auth" :> [user_id |-> First(p.buf["req"], end - 1)]))

parseSocks4ReqHostname(p) ==
  LET end == Index(p.buf["req"], <<0>>)
  IN  IF p.version # Socks4A THEN Go(p)
      ELSE IF end = 0 THEN Pause(p)
      ELSE Go(Report(Skip(p, "req", end), "req",
                "addr" :> First(p.buf["req"], end - 1) @@ "addr_type" :> TypeDomain))

parseSocks4RespPacket(p) ==
  IF ~Enough(p.buf["resp"], 3 + Inet4Len) THEN Pause(p)
  ELSE LET rest == Skip(p, "resp", 3 + Inet4Len)
       IN  IF At(p, "resp", 0) \notin 90..93 THEN Cancel(rest)
           ELSE Go(Report([rest EXCEPT !.map["resp"] = Empty], "resp",
                     "rep" :> At(p, "resp", 0) @@ "addr" :> Slice(p, "resp", 3, 3 + Inet4Len)
                       @@ "addr_type" :> TypeIPv4 @@ "port" :> Uint16(Slice(p, "resp", 1, 3))))

Step(d, name, p) ==
  CASE name = "version"   -> IF d = "req" THEN parseSocksReqVersion(p) ELSE parseSocksRespVersion(p)
    [] name = "5 method"  -> IF d = "req" THEN parseSocks5ReqMethod(p) ELSE parseSocks5RespMethod(p)
    [] name = "5 auth"    -> IF d = "req" THEN parseSocks5ReqAuth(p) ELSE parseSocks5RespAuth(p)
    [] name = "5 address" -> ConnInfo(d, p)
    [] name = "4 address" -> parseSocks4ReqIpAndPort(p)
    [] name = "4 user"    -> parseSocks4ReqUserId(p)
    [] name = "4 host"    -> parseSocks4ReqHostname(p)
    [] name = "4 packet"  -> parseSocks4RespPacket(p)

newSocksStream ==
  NewParser([d \in Dirs |-> <<"version">>], Empty)
    @@ [version |-> SocksInvalid, authReq |-> 0, authResp |-> 0]

FeedSocks(d, p, data) == FeedSteps(Step, d, p, data)

socksVersion(p) ==
  CASE p.version \in {Socks4, Socks4A} -> 4 [] p.version = Socks5 -> 5 [] OTHER -> SocksInvalid

\* A report is merged under "req" or "resp"; one of a request has the version.
Merge(known, d, p) ==
  [known EXCEPT ![d] = p.map[d], !.version = IF d = "req" THEN socksVersion(p) ELSE @]

VARIABLES parser, talk, pos, shown, finished, gap

Stream == INSTANCE StreamParser
            WITH FeedChunk <- FeedSocks, Fresh <- newSocksStream, Show <- Merge,
                 Nothing <- [version |-> SocksInvalid, req |-> Empty, resp |-> Empty]

Spec == Stream!Spec
-----------------------------------------------------------------------------
(***************************************************************************)
(* A conversation is made of parts: bytes, what they say, and whether the  *)
(* analyzer can follow them.  talk.parts has those of each direction.      *)
(***************************************************************************)
Part(bytes, says) == [bytes |-> bytes, says |-> says, good |-> TRUE]
Bad(bytes)        == [bytes |-> bytes, says |-> Empty, good |-> FALSE]

Lengthy(data) == <<Len(data)>> \o data

Methods5(methods) == Part(Lengthy(methods), Empty)

NoAuth5 == Part(<<>>, "auth" :> [method |-> AuthNotRequired])

Login5(user, pass) ==
  Part(<<1>> \o Lengthy(user) \o Lengthy(pass),
       "auth" :> [method |-> AuthPassword, username |-> user, password |-> pass])

Status5(status) ==
  Part(<<1, status>>, "auth" :> [method |-> AuthPassword, status |-> status])

\* The place a client asks for, or where the server says it is.
Place5(what, n, type, addr) ==
  Part(<<5, n, 0, type>> \o (IF type = TypeDomain THEN Lengthy(addr) ELSE addr) \o <<1, 2>>,
       what :> n @@ "addr_type" :> type @@ "addr" :> addr @@ "port" :> 258)

Place4(what, n, addr) ==
  Part(<<n, 1, 2>> \o addr,
       what :> n @@ "addr_type" :> TypeIPv4 @@ "addr" :> addr @@ "port" :> 258)

User4(user) == Part(user \o <<0>>, "auth" :> [user_id |-> user])
Host4(host) == Part(host \o <<0>>, "addr" :> host @@ "addr_type" :> TypeDomain)

\* The bytes of the first k parts, and what they say.
RECURSIVE Upto(_, _)
Upto(parts, k) == IF k = 0 THEN <<>> ELSE Upto(parts, k - 1) \o parts[k].bytes

RECURSIVE SaidBy(_, _)
SaidBy(parts, k) == IF k = 0 THEN Empty ELSE parts[k].says @@ SaidBy(parts, k - 1)

\* The parts of d that have come whole, up to the first that is bad.
Understood(d) ==
  {k \in 0..Len(talk.parts[d]) :
     /\ Len(Upto(talk.parts[d], k)) <= pos[d]
     /\ \A i \in 1..k : talk.parts[d][i].good}

Said(d) == SaidBy(talk.parts[d], CHOOSE k \in Understood(d) : \A i \in Understood(d) : i <= k)

\* Both sides speak one version.
Agreed ==
  LET ask    == talk.parts["req"][1].bytes
      answer == talk.parts["resp"][1].bytes
  IN  <<ask, answer>> \in {<<<<4>>, <<0>>>>, <<<<5>>, <<5>>>>}

\* However the two directions are cut and interleaved, the rules know of each
\* exactly what its whole parts have said, the host name of a SOCKS4a request
\* in place of its address; an answer is believed only of a server that was
\* asked before it spoke, in the version it answers in (socks.go, Feed).
KnowsWhatWasSaid ==
  /\ shown.req = Said("req")
  /\ shown.resp = IF pos["req"] > 0 /\ Agreed THEN Said("resp") ELSE Empty
  /\ shown.version = IF 1 \in Understood("req") THEN talk.parts["req"][1].bytes[1] ELSE SocksInvalid

\* A conversation that can be followed is inspected to its end and no further:
\* neither side's progress makes the analyzer leave the other half-read.
ReadToTheEnd ==
  LET whole == \A d \in Dirs : Len(talk.parts[d]) \in Understood(d)
      sound == Agreed /\ \A d \in Dirs : \A k \in 1..Len(talk.parts[d]) : talk.parts[d][k].good
  IN  sound /\ (pos["resp"] > 0 => pos["req"] > 0) => (finished <=> gap \/ whole)
=============================================================================
