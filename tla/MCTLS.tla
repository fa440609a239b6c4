------------------------------- MODULE MCTLS --------------------------------
(***************************************************************************)
(* An instance of TLS for TLC: hellos with all sorts of extensions, whole  *)
(* or with one wrong length, and something behind them; a few              *)
(* conversations with both hellos, many with one.                          *)
(***************************************************************************)
EXTENDS TLS

Hellos(d) ==
  [version     : {771},
   random      : {[i \in 1..RandomLen |-> 5]},
   session     : {<<>>, <<1, 2>>},
   ciphers     : IF d = "req" THEN {<<259>>, <<4, 5>>} ELSE {<<259>>},
   compression : {<<0>>},
   sni         : {{}, {<<7>>}},
   alpn        : {{}, {<<<<8>>, <<>>>>}},
   versions    : {{}, IF d = "req" THEN {<<"list", <<771, 772>>>>} ELSE {<<"one", <<772>>>>}},
   ech         : BOOLEAN]

Nobody == [hello |-> None, wrong |-> "silent"]

Sayings(d) ==
  {[hello |-> h, wrong |-> "no"] : h \in Hellos(d)}
    \cup {[hello |-> h, wrong |-> w] :
            h \in {h \in Hellos(d) : h.sni # {} /\ h.alpn # {} /\ h.session # <<>> /\ ~h.ech},
            w \in {"session", "extensions", "sni", "ext", "alpn"}
                    \cup (IF d = "req" THEN {"ciphers", "compression"} ELSE {})}

\* What is sent: the record and a byte behind it.
Sent(d, s) == IF s = Nobody THEN <<>> ELSE Record(d, s.hello, s.wrong) \o <<0>>

Talk(q, r) == [req |-> Sent("req", q), resp |-> Sent("resp", r), says |-> [req |-> q, resp |-> r]]

Plain(d) ==
  {s \in Sayings(d) : s.hello.session = <<>> /\ s.hello.alpn = {} /\ ~s.hello.ech
                        /\ Len(s.hello.ciphers) = 1 /\ s.hello.sni = {}}

MCTalks ==
  {Talk(q, Nobody) : q \in Sayings("req")}
    \cup {Talk(Nobody, r) : r \in Sayings("resp")}
    \cup {Talk(q, r) : q \in Plain("req"), r \in Plain("resp")}
=============================================================================
