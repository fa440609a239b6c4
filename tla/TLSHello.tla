------------------------------ MODULE TLSHello ------------------------------
(***************************************************************************)
(* The parsers of TLS hello messages (analyzer/internal/tls.go), which the *)
(* TLS and the QUIC analyzers share, and the format they parse.            *)
(*                                                                         *)
(* Data are sequences of bytes.  What a hello says is a record; a property *)
(* that may be absent is a set of at most one value.                       *)
(***************************************************************************)
EXTENDS Integers, SequencesExt

CONSTANT RandomLen  \* bytes of the random value: 32 in the code

\* The extensions that are looked into, by their number.
ServerName == 0
ALPN == 16
SupportedVersions == 43
EncryptedClientHello == 65037

\* A hello that is none.
Invalid == [invalid |-> TRUE]

\* A big-endian number of one or two bytes; no bytes are 0.
Number(data) ==
  CASE Len(data) = 0 -> 0 [] Len(data) = 1 -> data[1] [] OTHER -> 256 * data[1] + data[2]

\* ByteBuffer.Get: n bytes and the rest; too few are not consumed.
Get(buf, n) ==
  IF Len(buf) >= n
  THEN [ok |-> TRUE, data |-> SubSeq(buf, 1, n), rest |-> SubSeq(buf, n + 1, Len(buf))]
  ELSE [ok |-> FALSE, data |-> <<>>, rest |-> buf]

\* A list whose length stands before it, in w bytes.
GetList(buf, w) ==
  LET length == Get(buf, w)
      list   == Get(length.rest, Number(length.data))
  IN  [list EXCEPT !.ok = @ /\ length.ok]

\* The list of the strings that fill data, each with its length before it, as
\* a set: empty if the lengths do not add up.
RECURSIVE Strings(_)
Strings(data) ==
  IF data = <<>> THEN {<<>>}
  ELSE LET one == GetList(data, 1)
       IN  IF one.ok THEN {<<one.data>> \o more : more \in Strings(one.rest)} ELSE {}

\* The numbers of two bytes each in data.
Pairs(data) == [i \in 1..(Len(data) \div 2) |-> Number(SubSeq(data, 2 * i - 1, 2 * i))]

\* The cases of parseTLSExtensions: h with what extension data say, or Invalid.
parseServerName(data, h) ==
  LET list == Get(data, 2)
      type == Get(list.rest, 1)
      name == GetList(type.rest, 2)
  IN  IF list.ok /\ type.ok /\ Number(type.data) = 0 /\ name.ok
      THEN [h EXCEPT !.sni = {name.data}] ELSE Invalid

parseALPN(data, h) ==
  LET list  == Get(data, 2)
      names == Strings(list.rest)
  IN  IF list.ok /\ names # {} THEN [h EXCEPT !.alpn = names] ELSE Invalid

parseSupportedVersions(data, h) ==
  IF Len(data) = 2 THEN [h EXCEPT !.versions = {<<"one", <<Number(data)>>>>}]
  ELSE LET list == Get(data, 1)
       IN  IF list.ok /\ Len(list.rest) % 2 = 0
           THEN [h EXCEPT !.versions = {<<"list", Pairs(list.rest)>>}] ELSE Invalid

parseTLSExtensions(type, data, h) ==
  CASE type = ServerName           -> parseServerName(data, h)
    [] type = ALPN                 -> parseALPN(data, h)
    [] type = SupportedVersions    -> parseSupportedVersions(data, h)
    [] type = EncryptedClientHello -> [h EXCEPT !.ech = TRUE]
    [] OTHER                       -> h

\* All extensions of buf; those that come later win.
RECURSIVE eachExtension(_, _)
eachExtension(buf, h) ==
  IF buf = <<>> \/ h = Invalid THEN h
  ELSE LET type == Get(buf, 2)
           data == GetList(type.rest, 2)
       IN  IF type.ok /\ data.ok
           THEN eachExtension(data.rest, parseTLSExtensions(Number(type.data), data.data, h))
           ELSE Invalid

\* The end of a hello: nothing, or a list of extensions.
extensions(buf, h) ==
  LET list == GetList(buf, 2)
  IN  IF ~Get(buf, 2).ok THEN h ELSE IF ~list.ok THEN Invalid ELSE eachExtension(list.data, h)

\* The beginning of a hello.  That version, random and the session's length
\* are there is not looked at.
beginning(buf) ==
  LET version == Get(buf, 2)
      random  == Get(version.rest, RandomLen)
      length  == Get(random.rest, 1)
      session == Get(length.rest, Number(length.data))
  IN  [ok   |-> session.ok,
       rest |-> session.rest,
       h    |-> [version |-> Number(version.data), random |-> random.data,
                 session |-> session.data, ciphers |-> <<>>, compression |-> <<>>,
                 sni |-> {}, alpn |-> {}, versions |-> {}, ech |-> FALSE]]

ParseTLSClientHelloMsgData(buf) ==
  LET b           == beginning(buf)
      ciphers     == GetList(b.rest, 2)
      compression == GetList(ciphers.rest, 1)
  IN  IF b.ok /\ ciphers.ok /\ Len(ciphers.data) % 2 = 0 /\ compression.ok
      THEN extensions(compression.rest,
                      [b.h EXCEPT !.ciphers = Pairs(ciphers.data),
                                  !.compression = compression.data])
      ELSE Invalid

ParseTLSServerHelloMsgData(buf) ==
  LET b           == beginning(buf)
      cipher      == Get(b.rest, 2)
      compression == Get(cipher.rest, 1)
  IN  IF b.ok /\ cipher.ok /\ compression.ok
      THEN extensions(compression.rest,
                      [b.h EXCEPT !.ciphers = <<Number(cipher.data)>>,
                                  !.compression = compression.data])
      ELSE Invalid
-----------------------------------------------------------------------------
(***************************************************************************)
(* The format of TLS hello messages (RFC 8446, section 4.1), from what one *)
(* says to bytes, against which their parsers are checked.  One part may   *)
(* have a length before it that is one too large: its name is wrong.       *)
(***************************************************************************)
\* A number in w bytes.
Bytes(n, w) == [i \in 1..w |-> (n \div 256^(w - i)) % 256]

Listed(data, w, wrong) == Bytes(Len(data) + (IF wrong THEN 1 ELSE 0), w) \o data

Flat(seqs) == FoldLeft(LAMBDA a, b : a \o b, <<>>, seqs)

\* An extension; the length before it or the one in it may be wrong.
Ext(type, data, wrong) == Bytes(type, 2) \o Listed(data, 2, wrong)

SNI(name, wrong) == Bytes(Len(name) + 3, 2) \o <<0>> \o Listed(name, 2, wrong)

Names(names, wrong) ==
  LET list == Flat([i \in 1..Len(names) |-> Listed(names[i], 1, wrong /\ i = Len(names))])
  IN  Listed(list, 2, FALSE)

Versions(v) ==
  IF v[1] = "one" THEN Bytes(v[2][1], 2)
  ELSE Listed(Flat([i \in 1..Len(v[2]) |-> Bytes(v[2][i], 2)]), 1, FALSE)

\* All of a set of at most one value, each as F makes it.
Opt(F(_), set) == IF set = {} THEN <<>> ELSE F(CHOOSE x \in set : TRUE)

\* The extensions of hello h, one that is not known among them.
Extensions(h, wrong) ==
  Opt(LAMBDA n : Ext(ServerName, SNI(n, wrong = "sni"), wrong = "ext"), h.sni)
    \o Ext(1, <<9>>, FALSE)
    \o Opt(LAMBDA n : Ext(ALPN, Names(n, wrong = "alpn"), FALSE), h.alpn)
    \o Opt(LAMBDA v : Ext(SupportedVersions, Versions(v), FALSE), h.versions)
    \o (IF h.ech THEN Ext(EncryptedClientHello, <<7, 7>>, FALSE) ELSE <<>>)

\* A hello of direction d without its type and length.
Body(d, h, wrong) ==
  LET ciphers == Flat([i \in 1..Len(h.ciphers) |-> Bytes(h.ciphers[i], 2)])
  IN  Bytes(h.version, 2) \o h.random \o Listed(h.session, 1, wrong = "session")
        \o (IF d = "req" THEN Listed(ciphers, 2, wrong = "ciphers") ELSE ciphers)
        \o (IF d = "req" THEN Listed(h.compression, 1, wrong = "compression")
                         ELSE h.compression)
        \o (IF h.sni = {} /\ h.alpn = {} /\ h.versions = {} /\ ~h.ech THEN <<>>
            ELSE Listed(Extensions(h, wrong), 2, wrong = "extensions"))
=============================================================================
