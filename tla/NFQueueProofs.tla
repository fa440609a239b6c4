---------------------------- MODULE NFQueueProofs ----------------------------
(***************************************************************************)
(* Proofs about NFQueue, for any connections, packets, configurations and  *)
(* length of the queue.  They rest on what a chain may look like: with nft *)
(* it is empty or begins with all the rules that settle packets, whatever  *)
(* nftDelete has left there, with iptables it has the first of the rules,  *)
(* but while they are removed the last of them.  What is said of iptables  *)
(* is for configurations without a reset and processes that come to the    *)
(* end of Close (IptablesKept).                                            *)
(***************************************************************************)
EXTENDS NFQueue, SequenceTheorems, TLAPS

IptablesKept ==
  /\ \A cfg \in Configs : ~cfg.nft => ~cfg.rst
  /\ Faults[FALSE] \cap {"killed in closing", "removal fails"} = {}

Plain == <<"protect", "accept", "drop", "queue">>
Reset == <<"protect", "accept", "reset", "drop", "queue">>

\* What iptables may have of Plain when some of it is appended.
Beginnings == {<<>>, <<"protect">>, <<"protect", "accept">>, <<"protect", "accept", "drop">>, Plain}

\* What is left when n rules of Plain are deleted.
Rest(n) ==
  CASE n = 0 -> Plain
    [] n = 1 -> <<"accept", "drop", "queue">>
    [] n = 2 -> <<"drop", "queue">>
    [] n = 3 -> <<"queue">>
    [] n = 4 -> <<>>

TypeInv ==
  /\ pc \in {"off", "open", "delete", "add", "append", "set", "failed", "up",
             "remove", "close"}
  /\ config \in Configs
  /\ rSet \in BOOLEAN /\ bound \in BOOLEAN /\ stale \in BOOLEAN /\ left \in BOOLEAN
  /\ mark \in [Conns -> Marks]
  /\ pending \in [Packet -> Nat]
  /\ dialed \subseteq Protected

PlaceInv ==
  /\ pc \in {"delete", "add"} => config.nft
  /\ pc = "append" => ~config.nft
  /\ pc \in {"delete", "add", "append", "set", "up", "remove"} => generable(config)
  /\ rSet => pc \in {"up", "remove", "close"}
  /\ pc = "remove" => rSet
  /\ pc = "off" => ~bound /\ pending = NoPackets /\ dialed = {}

\* A chain that settles all connections with a mark before anything is queued.
Guards(s) ==
  /\ s \in Seq(Rules) /\ Len(s) >= 4
  /\ s[1] = "protect" /\ s[2] = "accept"
  /\ s[3] = "drop" \/ (s[3] = "reset" /\ s[4] = "drop")

OwnRules == \A c \in chainsOf(config) : EndsWith(chains[c], chainRules(config))

NftInv ==
  /\ chains \in [Chains -> Seq(Rules)]
  /\ \A c \in Chains : chains[c] = <<>> \/ Guards(chains[c])
  /\ pc = "add" => left \/ chains = NoRules
  /\ pc \in {"set", "up"} => OwnRules /\ (~left => chains = generateNftRules(config))

\* A process that found no rules has its own or none, and queues nothing before
\* it has them.  Packets of the connections it has dialed have the mark.
BypassInv ==
  /\ pc # "off" => chains \in {NoRules, generateNftRules(config)}
  /\ pc \in {"open", "delete", "add", "failed"} =>
       chains = NoRules /\ pending = NoPackets /\ dialed = {}
  /\ \A p \in Tracked : p.conn \in Protected => pending[p] = 0
  /\ chains # NoRules /\ config.local => \A c \in dialed : mark[c] = "accept"

Inv ==
  /\ TypeInv
  /\ PlaceInv
  /\ config.nft => NftInv /\ (~stale => BypassInv)

\* Rule i of those iptables gets, which has Size of them.
Size == IF config.local THEN 8 ELSE 4

Nth(i) == [chain |-> IF ~config.local THEN "FORWARD" ELSE IF i <= 4 THEN "INPUT" ELSE "OUTPUT",
           rule  |-> Plain[IF i <= 4 THEN i ELSE i - 4]]

\* The first i rules are done with.
Done(i) ==
  /\ todo \in Seq([chain : Chains, rule : Rules])
  /\ Len(todo) = Size - i
  /\ \A k \in 1..Len(todo) : todo[k] = Nth(i + k)

\* How many rules before those of chain c, and how many of its own after i.
Before(c) == IF c = "OUTPUT" THEN 4 ELSE 0

Among(c, i) == IF i <= Before(c) THEN 0 ELSE IF i >= Before(c) + 4 THEN 4 ELSE i - Before(c)

IptInv ==
  /\ chains = [c \in Chains |-> chains[c]]
  /\ \A c \in Chains : chains[c] \in Beginnings \/ (pc = "remove" /\ c \in chainsOf(config))
  /\ pc = "append" =>
       \E i \in 0..Size : Done(i) /\ \A j \in 1..i : Has(Nth(j).chain, Nth(j).rule)
  /\ pc \in {"set", "up"} => \A c \in chainsOf(config) : chains[c] = Plain
  /\ pc = "remove" =>
       \E i \in 0..Size : Done(i) /\ \A c \in chainsOf(config) : chains[c] = Rest(Among(c, i))

-----------------------------------------------------------------------------
(* What the rules of a chain do. *)

LEMMA ChainFacts ==
  /\ Len(Plain) = 4 /\ Plain[1] = "protect" /\ Plain[2] = "accept"
  /\ Plain[3] = "drop" /\ Plain[4] = "queue"
  /\ Len(Reset) = 5 /\ Reset[1] = "protect" /\ Reset[2] = "accept"
  /\ Reset[3] = "reset" /\ Reset[4] = "drop" /\ Reset[5] = "queue"
  /\ Plain # <<>> /\ Reset # <<>>
  /\ \A cfg : chainRules(cfg) = IF cfg.rst THEN Reset ELSE Plain
  BY DEF Plain, Reset, chainRules

LEMMA OwnGuard == Guards(Plain) /\ Guards(Reset)
  BY ChainFacts DEF Guards, Plain, Reset, Rules

\* What comes later in a chain changes nothing.
LEMMA GuardsGrow ==
  ASSUME NEW s \in Seq(Rules), NEW t \in Seq(Rules), Guards(s)
  PROVE  Guards(s \o t)
<1>1. /\ s \o t \in Seq(Rules) /\ Len(s \o t) = Len(s) + Len(t)
      /\ \A i \in 1..(Len(s) + Len(t)) : (s \o t)[i] = IF i <= Len(s) THEN s[i] ELSE t[i - Len(s)]
  BY ConcatProperties
<1>2. Len(s) \in Nat /\ Len(t) \in Nat /\ Len(s) >= 4
  BY DEF Guards
<1>3. \A i \in 1..4 : (s \o t)[i] = s[i]
  BY <1>1, <1>2
<1> QED
  BY <1>1, <1>2, <1>3 DEF Guards

LEMMA EndsFacts ==
  ASSUME NEW s \in Seq(Rules), NEW t \in Seq(Rules)
  PROVE  EndsWith(s \o t, t) /\ EndsWith(t, t)
<1>1. /\ s \o t \in Seq(Rules) /\ Len(s \o t) = Len(s) + Len(t)
      /\ \A i \in 1..(Len(s) + Len(t)) : (s \o t)[i] = IF i <= Len(s) THEN s[i] ELSE t[i - Len(s)]
  BY ConcatProperties
<1>2. Len(s) \in Nat /\ Len(t) \in Nat
  OBVIOUS
<1> DEFINE end == SubSeq(s \o t, Len(s) + 1, Len(s) + Len(t))
<1>3. end = t
  <2>1. \A i \in (Len(s) + 1)..(Len(s) + Len(t)) : (s \o t)[i] \in Rules
    BY <1>1, <1>2
  <2>2. /\ end \in Seq(Rules) /\ Len(end) = Len(t)
        /\ \A i \in 1..Len(t) : end[i] = (s \o t)[Len(s) + i]
    BY <1>2, <2>1, SubSeqProperties
  <2>3. \A i \in 1..Len(t) : end[i] = t[i]
    BY <1>1, <1>2, <2>2
  <2> HIDE DEF end
  <2> QED
    BY <2>2, <2>3, SeqEqual
<1>4. EndsWith(s \o t, t)
  <2>1. Len(s \o t) - Len(t) + 1 = Len(s) + 1 /\ Len(t) <= Len(s \o t)
    BY <1>1, <1>2
  <2> QED
    BY <1>1, <1>3, <2>1 DEF EndsWith
<1>5. EndsWith(t, t)
  <2>1. Len(t) - Len(t) + 1 = 1 /\ Len(t) <= Len(t)
    BY <1>2
  <2>2. SubSeq(t, 1, Len(t)) = t
    BY SubSeqFull
  <2> QED
    BY <2>1, <2>2 DEF EndsWith
<1> QED
  BY <1>4, <1>5

\* The rule that settles a packet is the first that does.
LEMMA FirstSettles ==
  ASSUME NEW p, NEW dir,
         NEW k \in 1..Len(chains[chainOf(p.conn, dir)]),
         Len(chains[chainOf(p.conn, dir)]) \in Nat,
         Settles(p, dir, k),
         \A j \in 1..Len(chains[chainOf(p.conn, dir)]) : Settles(p, dir, j) => k <= j
  PROVE  SettledBy(p, dir) = chains[chainOf(p.conn, dir)][k]
<1> DEFINE chain == chains[chainOf(p.conn, dir)]
           hits == {j \in 1..Len(chain) : Settles(p, dir, j)}
           first == CHOOSE j \in hits : \A l \in hits : j <= l
<1>1. k \in hits /\ \A l \in hits : k <= l
  OBVIOUS
<1>2. first \in hits /\ \A l \in hits : first <= l
  BY <1>1
<1>3. first = k
  BY <1>1, <1>2
<1> QED
  BY <1>1, <1>3 DEF SettledBy

\* The mark is set by the first rule, and stays.
LEMMA MarkOnce ==
  ASSUME NEW p \in Tracked, NEW dir \in Dirs,
         Len(chains[chainOf(p.conn, dir)]) \in Nat,
         chains[chainOf(p.conn, dir)][1] = "protect",
         NEW k \in 1..Len(chains[chainOf(p.conn, dir)])
  PROVE  MarkAfter(p, dir, k) = IF SocketMarked(p, dir) THEN "accept" ELSE mark[p.conn]
  BY DEF MarkAfter, Tracked

LEMMA WholeChain ==
  ASSUME NEW p \in Tracked, NEW dir \in Dirs,
         Guards(chains[chainOf(p.conn, dir)]),
         NEW m, m = IF SocketMarked(p, dir) THEN "accept" ELSE mark[p.conn]
  PROVE  /\ m = "accept" => SettledBy(p, dir) = "accept"
         /\ m = "drop" => SettledBy(p, dir) \in {"reset", "drop"}
         /\ m = "drop" /\ chains[chainOf(p.conn, dir)][3] = "reset" /\ p.conn \in Tcp
              => SettledBy(p, dir) = "reset"
<1> DEFINE chain == chains[chainOf(p.conn, dir)]
<1>1. Len(chain) \in Nat /\ Len(chain) >= 4 /\ chain[1] = "protect" /\ chain[2] = "accept"
  BY DEF Guards
<1>2. \A k \in 1..Len(chain) : MarkAfter(p, dir, k) = m
  BY <1>1, MarkOnce
<1>3. \A k \in 1..Len(chain) :
        Settles(p, dir, k) <=> \/ chain[k] = "accept" /\ m = "accept"
                               \/ chain[k] = "reset" /\ m = "drop" /\ p.conn \in Tcp
                               \/ chain[k] = "drop" /\ m = "drop"
                               \/ chain[k] = "queue"
  BY <1>2 DEF Settles
<1>4. \A k \in 1..Len(chain) :
        Settles(p, dir, k) /\ (\A j \in 1..Len(chain) : Settles(p, dir, j) => k <= j)
          => SettledBy(p, dir) = chain[k]
  BY <1>1, FirstSettles
<1>5. chain[3] = "drop" \/ (chain[3] = "reset" /\ chain[4] = "drop")
  BY DEF Guards
<1> HIDE DEF chain
<1>6. m = "accept" => SettledBy(p, dir) = "accept"
  <2>1. m = "accept" => Settles(p, dir, 2) /\ ~Settles(p, dir, 1)
    BY <1>1, <1>3
  <2> QED
    BY <1>1, <1>4, <2>1
<1>7. m = "drop" /\ chain[3] = "drop" => SettledBy(p, dir) = "drop"
  <2>1. m = "drop" /\ chain[3] = "drop" =>
          Settles(p, dir, 3) /\ ~Settles(p, dir, 1) /\ ~Settles(p, dir, 2)
    BY <1>1, <1>3
  <2> QED
    BY <1>1, <1>4, <2>1
<1>8. m = "drop" /\ chain[3] = "reset" /\ p.conn \in Tcp => SettledBy(p, dir) = "reset"
  <2>1. m = "drop" /\ chain[3] = "reset" /\ p.conn \in Tcp =>
          Settles(p, dir, 3) /\ ~Settles(p, dir, 1) /\ ~Settles(p, dir, 2)
    BY <1>1, <1>3
  <2> QED
    BY <1>1, <1>4, <2>1
<1>9. m = "drop" /\ chain[3] = "reset" /\ p.conn \notin Tcp => SettledBy(p, dir) = "drop"
  <2>1. m = "drop" /\ chain[3] = "reset" /\ p.conn \notin Tcp =>
          /\ Settles(p, dir, 4) /\ ~Settles(p, dir, 1) /\ ~Settles(p, dir, 2)
          /\ ~Settles(p, dir, 3) /\ chain[4] = "drop"
    BY <1>1, <1>3, <1>5
  <2> QED
    BY <1>1, <1>4, <2>1
<1> QED
  BY <1>5, <1>6, <1>7, <1>8, <1>9 DEF chain

\* Without a queue rule nothing is queued.
LEMMA NoQueueRule ==
  ASSUME NEW p, NEW dir, ~Has(chainOf(p.conn, dir), "queue"),
         Len(chains[chainOf(p.conn, dir)]) \in 0..3
  PROVE  SettledBy(p, dir) \in {"policy", "accept", "reset", "drop"}
<1> DEFINE chain == chains[chainOf(p.conn, dir)]
           hits == {j \in 1..Len(chain) : Settles(p, dir, j)}
           first == CHOOSE j \in hits : \A l \in hits : j <= l
<1>1. CASE hits = {}
  BY <1>1 DEF SettledBy
<1>2. CASE hits # {}
  <2>1. \A n \in 0..3 : \A j \in 1..n : j \in {1, 2, 3}
    OBVIOUS
  <2>2. \E j \in hits : \A l \in hits : j <= l
    <3>1. hits \subseteq {1, 2, 3}
      BY <2>1
    <3> HIDE DEF hits
    <3>2. CASE 1 \in hits
      BY <3>1, <3>2
    <3>3. CASE 1 \notin hits /\ 2 \in hits
      BY <3>1, <3>3
    <3>4. CASE hits = {3}
      BY <3>4
    <3> QED
      BY <1>2, <3>1, <3>2, <3>3, <3>4
  <2>3. first \in hits
    BY <2>2
  <2>4. SettledBy(p, dir) = chain[first]
    BY <1>2 DEF SettledBy
  <2> QED
    BY <2>3, <2>4 DEF Settles, Has
<1> QED
  BY <1>1, <1>2

\* A chain that is begun or empty queues nothing, ...
LEMMA BegunChain ==
  ASSUME NEW p, NEW dir, chains[chainOf(p.conn, dir)] \in Beginnings \ {Plain}
  PROVE  Outcome(p, dir) # "queued"
<1> DEFINE chain == chains[chainOf(p.conn, dir)]
<1>1. Len(chain) \in 0..3 /\ \A k \in 1..Len(chain) : chain[k] # "queue"
  <2>1. chain \in {<<>>, <<"protect">>, <<"protect", "accept">>, <<"protect", "accept", "drop">>}
    BY DEF Beginnings
  <2> HIDE DEF chain
  <2> QED
    BY <2>1
<1>2. SettledBy(p, dir) \in {"policy", "accept", "reset", "drop"}
  BY <1>1, NoQueueRule DEF Has
<1> QED
  BY <1>2 DEF Outcome

\* ... and a whole one queues no connection that is settled, nor packets with the
\* socket mark.
LEMMA SettledPasses ==
  ASSUME NEW p \in Tracked, NEW dir \in Dirs,
         LET chain == chains[chainOf(p.conn, dir)] IN Guards(chain) \/ chain \in Beginnings,
         SocketMarked(p, dir) \/ mark[p.conn] \in {"accept", "drop"}
  PROVE  Outcome(p, dir) # "queued"
<1>1. CASE Guards(chains[chainOf(p.conn, dir)])
  <2>1. SettledBy(p, dir) \in {"accept", "reset", "drop"}
    BY <1>1, WholeChain
  <2> QED
    BY <2>1 DEF Outcome
<1>2. CASE ~Guards(chains[chainOf(p.conn, dir)])
  BY <1>2, BegunChain, OwnGuard
<1> QED
  BY <1>1, <1>2

-----------------------------------------------------------------------------
(* The invariant that holds of all. *)

LEMMA NftRules ==
  ASSUME NEW cfg \in Configs
  PROVE  /\ generateNftRules(cfg) \in [Chains -> {<<>>, Plain, Reset}]
         /\ \A c \in Chains : generateNftRules(cfg)[c] =
              IF c \in chainsOf(cfg) THEN IF cfg.rst THEN Reset ELSE Plain ELSE <<>>
         /\ \A c \in Chains : /\ generateNftRules(cfg)[c] \in Seq(Rules)
                              /\ <<>> \o generateNftRules(cfg)[c] = generateNftRules(cfg)[c]
<1>1. /\ generateNftRules(cfg) \in [Chains -> {<<>>, Plain, Reset}]
      /\ \A c \in Chains : generateNftRules(cfg)[c] =
           IF c \in chainsOf(cfg) THEN IF cfg.rst THEN Reset ELSE Plain ELSE <<>>
  BY ChainFacts DEF generateNftRules
<1>2. <<>> \in Seq(Rules) /\ Plain \in Seq(Rules) /\ Reset \in Seq(Rules)
  BY DEF Rules, Plain, Reset
<1>3. \A c \in Chains : generateNftRules(cfg)[c] \in Seq(Rules)
  BY <1>1, <1>2
<1> QED
  BY <1>1, <1>3, ConcatEmptySeq

\* The rules of nft that nobody touches stay as they are.
LEMMA NftStays ==
  ASSUME NftInv, UNCHANGED <<config, chains, left>>,
         pc' = "add" => pc = "add",
         pc' \in {"set", "up"} => pc \in {"set", "up"}
  PROVE  NftInv'
<1>1. OwnRules' <=> OwnRules
  BY DEF OwnRules, chainsOf, chainRules, EndsWith
<1>2. \A c : Guards(chains[c])' <=> Guards(chains[c])
  BY DEF Guards
<1>3. generateNftRules(config)' = generateNftRules(config)
  OBVIOUS
<1> QED
  BY <1>1, <1>2, <1>3 DEF NftInv

LEMMA InitInv == Init => Inv
<1> SUFFICES ASSUME Init PROVE Inv
  OBVIOUS
<1> USE DEF Init, NoRules, NoPackets
<1>1. TypeInv
  BY DEF TypeInv, Marks
<1>2. PlaceInv
  BY DEF PlaceInv
<1>3. NftInv
  BY EmptySeq DEF NftInv
<1>4. BypassInv
  BY DEF BypassInv, Tracked
<1> QED
  BY <1>1, <1>2, <1>3, <1>4 DEF Inv

\* What the rules are while a process that found none is there.
LEMMA ChainsNow ==
  ASSUME Inv, config.nft, ~stale, pc # "off", NEW c \in Protected, NEW dir \in Dirs
  PROVE  /\ chainOf(c, dir) \in {"INPUT", "OUTPUT"}
         /\ chains # NoRules /\ config.local => chains[chainOf(c, dir)] \in {Plain, Reset}
         /\ ~config.local => chains[chainOf(c, dir)] = <<>>
         /\ chains[chainOf(c, dir)] \in {Plain, Reset} \cup Beginnings
<1>1. chainOf(c, dir) \in {"INPUT", "OUTPUT"}
  BY NFQueueAssumption DEF chainOf
<1>2. config \in Configs /\ chains \in {NoRules, generateNftRules(config)}
  BY DEF Inv, TypeInv, BypassInv
<1> QED
  BY <1>1, <1>2, NftRules DEF NoRules, chainsOf, Chains, Beginnings

LEMMA MarkTypes ==
  ASSUME TypeInv, NEW p, p.conn \in Conns, NEW dir, NEW k
  PROVE  /\ MarkAfter(p, dir, k) \in Marks
         /\ p.kind # "untracked" => MarkAfter(p, dir, k) \in {"accept", mark[p.conn]}
  BY DEF MarkAfter, TypeInv, Marks

LEMMA PacketTypes ==
  /\ \A p \in Packet : p.conn \in Conns
  /\ \A c \in Conns : LET p == [conn |-> c, kind |-> "whole"]
                      IN  p \in Tracked /\ p.conn = c /\ p.kind = "whole"
  /\ Protected \subseteq Conns
  BY NFQueueAssumption DEF PacketsOf, Tracked, Conns

LEMMA ArrivesInv ==
  ASSUME Inv, NEW p \in Packet, NEW dir \in Dirs, Arrives(p, dir)
  PROVE  Inv'
<1>1. p.conn \in Conns
  BY PacketTypes
<1>2. /\ UNCHANGED <<io, chains, bound, dialed>>
      /\ p.conn \in Protected => p.conn \in dialed
      /\ pending' = IF Outcome(p, dir) = "queued" THEN [pending EXCEPT ![p] = @ + 1] ELSE pending
  BY DEF Arrives
<1>3. /\ mark' \in [Conns -> Marks]
      /\ \A c \in Conns : mark'[c] = mark[c] \/ mark'[c] = "accept" \/ c = p.conn
      /\ mark'[p.conn] \in {"accept", mark[p.conn]}
  <2>1. mark \in [Conns -> Marks]
    BY DEF Inv, TypeInv
  <2>2. CASE p.kind = "untracked"
    BY <1>1, <2>1, <2>2 DEF Arrives
  <2>3. CASE p.kind # "untracked"
    <3> DEFINE m == MarkAfter(p, dir, Len(chains[chainOf(p.conn, dir)]))
    <3>1. m \in Marks /\ m \in {"accept", mark[p.conn]}
      BY <1>1, <2>3, MarkTypes DEF Inv
    <3>2. mark' = [mark EXCEPT ![p.conn] = m]
      BY <2>3 DEF Arrives
    <3> HIDE DEF m
    <3> QED
      BY <1>1, <2>1, <3>1, <3>2
  <2> QED
    BY <2>2, <2>3
<1>4. TypeInv'
  BY <1>2, <1>3 DEF Inv, TypeInv, io
<1>5. chains = NoRules => pending' = pending
  <2>1. chainOf(p.conn, dir) \in Chains
    BY DEF chainOf, Chains
  <2>2. chains = NoRules => chains[chainOf(p.conn, dir)] \in Beginnings \ {Plain}
    BY <2>1, ChainFacts DEF NoRules, Beginnings
  <2> QED
    BY <1>2, <2>2, BegunChain
<1>6. pc = "off" => UNCHANGED <<bound, pending, dialed>>
  BY <1>2 DEF Inv, PlaceInv, Outcome, Unheard
<1>7. ASSUME config.nft, ~stale PROVE BypassInv'
  <2>1. BypassInv
    BY <1>7 DEF Inv
  <2>2. ASSUME NEW q \in Tracked, q.conn \in Protected PROVE pending'[q] = 0
    <3>1. pending[q] = 0
      BY <2>1, <2>2 DEF BypassInv
    <3>2. CASE q # p
      BY <1>2, <3>1, <3>2 DEF Inv, TypeInv
    <3>3. CASE q = p
      <4>1. p.conn \in dialed /\ pc # "off"
        BY <1>2, <2>2, <3>3 DEF Inv, PlaceInv
      <4>2. CASE chains = NoRules
        BY <1>5, <3>1, <4>2
      <4>3. CASE chains # NoRules /\ config.local
        <5>1. mark[p.conn] = "accept"
          BY <2>1, <4>1, <4>3 DEF BypassInv
        <5>2. chains[chainOf(p.conn, dir)] \in {Plain, Reset}
          BY <1>7, <2>2, <3>3, <4>1, <4>3, ChainsNow
        <5>3. Outcome(p, dir) # "queued"
          BY <2>2, <3>3, <5>1, <5>2, SettledPasses, OwnGuard
        <5> QED
          BY <1>2, <3>1, <3>3, <5>3
      <4>4. CASE ~config.local
        <5>1. chains[chainOf(p.conn, dir)] = <<>>
          BY <1>7, <2>2, <3>3, <4>1, <4>4, ChainsNow
        <5>2. Outcome(p, dir) # "queued"
          BY <5>1, BegunChain, ChainFacts DEF Beginnings
        <5> QED
          BY <1>2, <3>1, <3>3, <5>2
      <4> QED
        BY <4>2, <4>3, <4>4
    <3> QED
      BY <3>2, <3>3
  <2>3. \A c \in dialed : mark[c] = "accept" => mark'[c] = "accept"
    BY <1>3, PacketTypes DEF Inv, TypeInv
  <2> QED
    BY <1>2, <1>5, <2>1, <2>2, <2>3 DEF BypassInv, io, Tracked
<1> QED
  BY <1>2, <1>4, <1>6, <1>7, NftStays DEF Inv, PlaceInv, io

LEMMA DialInv ==
  ASSUME Inv, NEW c \in Protected, ProtectedDialContext(c)
  PROVE  Inv'
<1> DEFINE first == [conn |-> c, kind |-> "whole"]
           m == MarkAfter(first, "out", Len(chains[chainOf(c, "out")]))
<1>1. /\ UNCHANGED <<io, chains, bound, pending>>
      /\ pc # "off" /\ dialed' = dialed \cup {c} /\ mark' = [mark EXCEPT ![c] = m]
  BY DEF ProtectedDialContext
<1>2. first \in Tracked /\ first.conn = c /\ c \in Conns
  BY PacketTypes
<1>3. m \in Marks
  BY <1>2, MarkTypes DEF Inv
<1>4. TypeInv'
  <2> HIDE DEF m
  <2> QED
    BY <1>1, <1>2, <1>3 DEF Inv, TypeInv, io
<1>5. pending # NoPackets
  BY DEF ProtectedDialContext, NoPackets
<1>6. ASSUME config.nft, ~stale PROVE BypassInv'
  <2>1. BypassInv
    BY <1>6 DEF Inv
  <2>2. chains # NoRules /\ config.local => m = "accept"
    <3> SUFFICES ASSUME chains # NoRules, config.local PROVE m = "accept"
      OBVIOUS
    <3>1. chains[chainOf(c, "out")] \in {Plain, Reset}
      BY <1>1, <1>6, ChainsNow DEF Dirs
    <3>2. /\ chains[chainOf(first.conn, "out")][1] = "protect"
          /\ Len(chains[chainOf(first.conn, "out")]) \in Nat
          /\ Len(chains[chainOf(first.conn, "out")]) \in 1..Len(chains[chainOf(first.conn, "out")])
      BY <1>2, <3>1, ChainFacts
    <3>3. SocketMarked(first, "out")
      BY <1>2 DEF SocketMarked
    <3> HIDE DEF first
    <3>4. MarkAfter(first, "out", Len(chains[chainOf(first.conn, "out")])) = "accept"
      BY <1>2, <3>2, <3>3, MarkOnce DEF Dirs
    <3> QED
      BY <1>2, <3>4
  <2> HIDE DEF m
  <2>3. chains # NoRules /\ config.local => \A d \in dialed' : mark'[d] = "accept"
    BY <1>1, <1>2, <2>1, <2>2, PacketTypes DEF BypassInv, Inv, TypeInv
  <2> QED
    BY <1>1, <1>5, <2>1, <2>3 DEF BypassInv, io, Tracked
<1> QED
  BY <1>1, <1>4, <1>6, NftStays DEF Inv, PlaceInv, io
LEMMA AnsweredFacts ==
  ASSUME Inv, NEW p \in Packet, Answered(p)
  PROVE  /\ pending' \in [Packet -> Nat] /\ pc # "off" /\ pending # NoPackets
         /\ \A q \in Packet : pending[q] = 0 => pending'[q] = 0
<1>1. pending \in [Packet -> Nat] /\ pending[p] > 0
  BY DEF Answered, Inv, TypeInv
<1>2. pending' = [pending EXCEPT ![p] = @ - 1]
  BY DEF Answered
<1> QED
  BY <1>1, <1>2 DEF Answered, Inv, PlaceInv, NoPackets

\* Verdicts, hanging up, and connections that expire.
LEMMA OtherKernelInv ==
  ASSUME Inv,
         \/ \E c \in Conns : Expires(c)
         \/ \E c \in Protected : HangsUp(c)
         \/ \E p \in Packet : packetAttributeSanityCheck(p) \/ \E v \in Verdict : SetVerdict(p, v)
         \/ Unbind
  PROVE  Inv'
<1>1. ASSUME NEW c \in Conns, Expires(c) PROVE Inv'
  <2>1. /\ UNCHANGED <<io, chains, bound, pending, dialed>>
        /\ c \notin dialed /\ mark' = [mark EXCEPT ![c] = "none"]
    BY <1>1 DEF Expires
  <2>2. TypeInv'
    BY <2>1 DEF Inv, TypeInv, io, Marks
  <2>3. \A d \in dialed : mark'[d] = mark[d]
    BY <2>1, PacketTypes DEF Inv, TypeInv
  <2> QED
    BY <2>1, <2>2, <2>3, NftStays DEF Inv, PlaceInv, BypassInv, io, Tracked
<1>2. ASSUME NEW c \in Protected, HangsUp(c) PROVE Inv'
  <2>1. UNCHANGED <<io, chains, bound, mark, pending>> /\ dialed' = dialed \ {c}
    BY <1>2 DEF HangsUp
  <2>2. TypeInv'
    BY <2>1 DEF Inv, TypeInv, io
  <2> QED
    BY <2>1, <2>2, NftStays DEF Inv, PlaceInv, BypassInv, io, Tracked
<1>3. ASSUME NEW p \in Packet, packetAttributeSanityCheck(p) PROVE Inv'
  <2>1. UNCHANGED <<io, chains, bound, mark, dialed>>
    BY <1>3 DEF packetAttributeSanityCheck
  <2>2. /\ pending' \in [Packet -> Nat] /\ pc # "off" /\ pending # NoPackets
        /\ \A q \in Packet : pending[q] = 0 => pending'[q] = 0
    BY <1>3, AnsweredFacts DEF packetAttributeSanityCheck
  <2>3. TypeInv'
    BY <2>1, <2>2 DEF Inv, TypeInv, io
  <2> QED
    BY <2>1, <2>2, <2>3, NftStays DEF Inv, PlaceInv, BypassInv, io, Tracked
<1>4. ASSUME NEW p \in Packet, NEW v \in Verdict, SetVerdict(p, v) PROVE Inv'
  <2>1. /\ UNCHANGED <<io, chains, bound, dialed>> /\ p \in Tracked /\ pending[p] > 0
        /\ mark' = [mark EXCEPT ![p.conn] = markOf(v, @)] /\ p.conn \in Conns
    BY <1>4, PacketTypes DEF SetVerdict, Tracked, Answered
  <2>2. /\ pending' \in [Packet -> Nat] /\ pc # "off" /\ pending # NoPackets
        /\ \A q \in Packet : pending[q] = 0 => pending'[q] = 0
    BY <1>4, AnsweredFacts DEF SetVerdict
  <2>3. markOf(v, mark[p.conn]) \in Marks
    BY <2>1 DEF markOf, Inv, TypeInv, Marks
  <2>4. TypeInv'
    BY <2>1, <2>2, <2>3 DEF Inv, TypeInv, io
  <2>5. config.nft /\ ~stale => p.conn \notin Protected
    BY <2>1 DEF Inv, BypassInv
  <2>6. config.nft /\ ~stale => \A d \in dialed : mark'[d] = mark[d]
    BY <2>1, <2>5, PacketTypes DEF Inv, TypeInv
  <2> QED
    BY <2>1, <2>2, <2>4, <2>6, NftStays DEF Inv, PlaceInv, BypassInv, io, Tracked
<1>5. CASE Unbind
  <2>1. UNCHANGED <<io, chains, mark, dialed>> /\ bound' = FALSE /\ pending' = NoPackets
    BY <1>5 DEF Unbind, Unheeded
  <2>2. TypeInv'
    BY <2>1 DEF Inv, TypeInv, io, NoPackets
  <2>3. \A q \in Packet : pending'[q] = 0
    BY <2>1 DEF NoPackets
  <2> QED
    BY <2>1, <2>2, <2>3, NftStays DEF Inv, PlaceInv, BypassInv, io, Tracked
<1> QED
  BY <1>1, <1>2, <1>3, <1>4, <1>5

-----------------------------------------------------------------------------
(* The process. *)

\* The process is gone, and what waited in the queue.
LEMMA GoneInv ==
  ASSUME Inv, Exit \/ Killed
  PROVE  Inv'
<1>1. /\ pc' = "off" /\ rSet' = FALSE /\ dialed' = {} /\ bound' = FALSE
      /\ pending' = NoPackets /\ UNCHANGED <<config, chains, mark, stale, left>>
  BY DEF Exit, Killed, Unheeded
<1>2. TypeInv'
  BY <1>1 DEF Inv, TypeInv, NoPackets
<1>3. \A q \in Packet : pending'[q] = 0
  BY <1>1 DEF NoPackets
<1> QED
  BY <1>1, <1>2, <1>3, NftStays DEF Inv, PlaceInv, BypassInv, Tracked

LEMMA SetupInv ==
  ASSUME Inv, \/ \E cfg \in Configs : Start(cfg)
              \/ Register \/ nftDelete \/ nftDeleteFails \/ nftAdd \/ SetupFails \/ Registered
  PROVE  Inv'
<1>1. ASSUME NEW cfg \in Configs, Start(cfg) PROVE Inv'
  <2>1. /\ pc = "off" /\ cfg.nft = config.nft /\ pc' = "open" /\ config' = cfg
        /\ stale' = (chains # NoRules) /\ rSet' = FALSE /\ left' = FALSE
        /\ UNCHANGED <<chains, bound, mark, pending, dialed>>
    BY <1>1 DEF Start
  <2>2. TypeInv'
    BY <2>1 DEF Inv, TypeInv
  <2>3. pending = NoPackets /\ dialed = {} /\ \A q \in Packet : pending[q] = 0
    BY <2>1 DEF Inv, PlaceInv, NoPackets
  <2>4. config.nft => NftInv'
    BY <2>1 DEF Inv, NftInv, Guards
  <2> QED
    BY <2>1, <2>2, <2>3, <2>4 DEF Inv, PlaceInv, BypassInv, Tracked
<1>2. CASE Register
  <2>1. /\ pc = "open" /\ pc' \in {"failed", "delete", "append"}
        /\ (pc' # "failed" => generable(config)) /\ (pc' = "delete" => config.nft)
        /\ (pc' = "append" => ~config.nft)
        /\ bound' = TRUE /\ UNCHANGED <<config, rSet, chains, mark, pending, dialed, stale, left>>
    BY <1>2 DEF Register
  <2>2. TypeInv'
    BY <2>1 DEF Inv, TypeInv
  <2>3. generable(config)' <=> generable(config)
    BY <2>1 DEF generable
  <2>4. generateNftRules(config)' = generateNftRules(config)
    BY <2>1
  <2> QED
    BY <2>1, <2>2, <2>3, <2>4, NftStays DEF Inv, PlaceInv, BypassInv, Tracked
<1>3. CASE nftDelete
  <2>1. /\ pc = "delete" /\ pc' = "add" /\ chains' = NoRules
        /\ UNCHANGED <<config, rSet, bound, mark, pending, dialed, stale, left>>
    BY <1>3 DEF nftDelete
  <2>2. TypeInv'
    BY <2>1 DEF Inv, TypeInv
  <2>3. generable(config)' <=> generable(config)
    BY <2>1 DEF generable
  <2>4. NftInv'
    BY <2>1, EmptySeq DEF NftInv, NoRules
  <2> QED
    BY <2>1, <2>2, <2>3, <2>4 DEF Inv, PlaceInv, BypassInv, Tracked, NoRules
<1>4. CASE nftDeleteFails
  <2>1. /\ pc = "delete" /\ pc' = "add" /\ left' = (chains # NoRules)
        /\ UNCHANGED <<config, rSet, chains, bound, mark, pending, dialed, stale>>
    BY <1>4 DEF nftDeleteFails
  <2>2. TypeInv'
    BY <2>1 DEF Inv, TypeInv
  <2>3. generable(config)' <=> generable(config)
    BY <2>1 DEF generable
  <2>4. config.nft => NftInv'
    BY <2>1 DEF Inv, NftInv, Guards, NoRules
  <2> QED
    BY <2>1, <2>2, <2>3, <2>4 DEF Inv, PlaceInv, BypassInv, Tracked, NoRules
<1>5. CASE nftAdd
  <2>1. /\ pc = "add" /\ pc' = "set"
        /\ chains' = [c \in Chains |-> chains[c] \o generateNftRules(config)[c]]
        /\ UNCHANGED <<config, rSet, bound, mark, pending, dialed, stale, left>>
    BY <1>5 DEF nftAdd
  <2>2. config.nft /\ NftInv /\ config \in Configs /\ (~left => chains = NoRules)
    BY <2>1 DEF Inv, PlaceInv, NftInv, TypeInv
  <2>3. chains = NoRules => chains' = generateNftRules(config)
    <3>1. /\ generateNftRules(config) \in [Chains -> {<<>>, Plain, Reset}]
          /\ \A c \in Chains : <<>> \o generateNftRules(config)[c] = generateNftRules(config)[c]
      BY <2>2, NftRules
    <3> QED
      BY <2>1, <3>1 DEF NoRules
  <2>4. ASSUME NEW c \in Chains
        PROVE  /\ chains'[c] \in Seq(Rules)
               /\ chains'[c] = <<>> \/ Guards(chains'[c])
               /\ c \in chainsOf(config) => EndsWith(chains'[c], chainRules(config))
    <3> DEFINE old == chains[c]
               new == generateNftRules(config)[c]
    <3>1. old \in Seq(Rules) /\ (old = <<>> \/ Guards(old))
      BY <2>2 DEF NftInv
    <3>2. /\ new \in Seq(Rules) /\ <<>> \o new = new /\ new \in {<<>>, Plain, Reset}
          /\ c \in chainsOf(config) => new = chainRules(config)
      BY <2>2, NftRules, ChainFacts
    <3>3. chains'[c] = old \o new
      BY <2>1
    <3> HIDE DEF old, new
    <3>4. old \o new \in Seq(Rules)
      BY <3>1, <3>2, ConcatProperties
    <3>5. old \o new = <<>> \/ Guards(old \o new)
      BY <3>1, <3>2, GuardsGrow, OwnGuard
    <3>6. EndsWith(old \o new, new)
      BY <3>1, <3>2, EndsFacts
    <3> QED
      BY <3>2, <3>3, <3>4, <3>5, <3>6
  <2>5. TypeInv'
    BY <2>1 DEF Inv, TypeInv
  <2>6. generable(config)' <=> generable(config)
    BY <2>1 DEF generable
  <2>7. OwnRules'
    <3>1. chainsOf(config) \subseteq Chains
      BY DEF chainsOf, Chains
    <3>2. \A c \in chainsOf(config) : EndsWith(chains'[c], chainRules(config))
      BY <2>4, <3>1
    <3> QED
      BY <2>1, <3>2 DEF OwnRules, chainsOf, chainRules, EndsWith
  <2>8. NftInv'
    <3>1. chains' \in [Chains -> Seq(Rules)]
      BY <2>1, <2>4
    <3>2. \A c \in Chains : chains'[c] = <<>> \/ Guards(chains[c])'
      BY <2>4 DEF Guards
    <3>3. ~left => chains' = generateNftRules(config)
      BY <2>2, <2>3
    <3> QED
      BY <2>1, <2>7, <3>1, <3>2, <3>3 DEF NftInv
  <2>9. ~stale => chains' = generateNftRules(config)
    BY <2>1, <2>2, <2>3 DEF Inv, BypassInv
  <2> QED
    BY <2>1, <2>2, <2>5, <2>6, <2>8, <2>9 DEF Inv, PlaceInv, BypassInv, Tracked
<1>6. CASE SetupFails
  <2>1. /\ pc \in {"add", "append"} /\ pc' = "failed"
        /\ UNCHANGED <<config, rSet, chains, bound, mark, pending, dialed, stale, left>>
    BY <1>6 DEF SetupFails
  <2>2. TypeInv'
    BY <2>1 DEF Inv, TypeInv
  <2> QED
    BY <2>1, <2>2, NftStays DEF Inv, PlaceInv, BypassInv, Tracked
<1>7. CASE Registered
  <2>1. /\ pc = "set" /\ pc' = "up" /\ rSet' = TRUE
        /\ UNCHANGED <<config, chains, bound, mark, pending, dialed, stale, left>>
    BY <1>7 DEF Registered
  <2>2. TypeInv'
    BY <2>1 DEF Inv, TypeInv
  <2>3. generable(config)' <=> generable(config)
    BY <2>1 DEF generable
  <2> QED
    BY <2>1, <2>2, <2>3, NftStays DEF Inv, PlaceInv, BypassInv, Tracked
<1> QED
  BY <1>1, <1>2, <1>3, <1>4, <1>5, <1>6, <1>7

LEMMA OtherProcessInv ==
  ASSUME Inv, iptsBatchAppendUnique \/ Close \/ Remove \/ RemovalFails \/ UNCHANGED vars
  PROVE  Inv'
<1>1. CASE iptsBatchAppendUnique
  <2>1. /\ pc = "append" /\ pc' \in {"append", "set"}
        /\ UNCHANGED <<config, rSet, bound, mark, pending, dialed, stale, left>>
    BY <1>1 DEF iptsBatchAppendUnique
  <2>2. TypeInv'
    BY <2>1 DEF Inv, TypeInv
  <2>3. generable(config)' <=> generable(config)
    BY <2>1 DEF generable
  <2> QED
    BY <2>1, <2>2, <2>3 DEF Inv, PlaceInv
<1>2. CASE Close
  <2>1. /\ pc \in {"failed", "up"} /\ pc' = (IF rSet THEN "remove" ELSE "close")
        /\ UNCHANGED <<config, rSet, chains, bound, mark, pending, dialed, stale, left>>
    BY <1>2 DEF Close
  <2>2. TypeInv'
    BY <2>1 DEF Inv, TypeInv
  <2>3. generable(config)' <=> generable(config)
    BY <2>1 DEF generable
  <2> QED
    BY <2>1, <2>2, <2>3, NftStays DEF Inv, PlaceInv, BypassInv, Tracked
<1>3. CASE Remove
  <2>1. /\ pc = "remove" /\ pc' \in {"remove", "close"}
        /\ (config.nft => chains' = NoRules)
        /\ UNCHANGED <<config, rSet, bound, mark, pending, dialed, stale, left>>
    BY <1>3 DEF Remove
  <2>2. TypeInv'
    BY <2>1 DEF Inv, TypeInv
  <2>3. generable(config)' <=> generable(config)
    BY <2>1 DEF generable
  <2>4. config.nft => NftInv'
    BY <2>1, EmptySeq DEF NftInv, NoRules
  <2> QED
    BY <2>1, <2>2, <2>3, <2>4 DEF Inv, PlaceInv, BypassInv, Tracked, NoRules
<1>4. CASE RemovalFails
  <2>1. /\ pc = "remove" /\ pc' = "close"
        /\ UNCHANGED <<config, rSet, chains, bound, mark, pending, dialed, stale, left>>
    BY <1>4 DEF RemovalFails
  <2>2. TypeInv'
    BY <2>1 DEF Inv, TypeInv
  <2> QED
    BY <2>1, <2>2, NftStays DEF Inv, PlaceInv, BypassInv, Tracked
<1>5. CASE UNCHANGED vars
  BY <1>5, NftStays DEF vars, Inv, TypeInv, PlaceInv, BypassInv, Tracked, generable
<1> QED
  BY <1>1, <1>2, <1>3, <1>4, <1>5

LEMMA NextInv == Inv /\ [Next]_vars => Inv'
  BY ArrivesInv, DialInv, OtherKernelInv, GoneInv, SetupInv, OtherProcessInv DEF Next

\* The invariant holds of every reachable state.
THEOREM Invariance == Spec => []Inv
  BY InitInv, NextInv, PTL DEF Spec

\* ProtectedBypass: with nft, and no rules of a killed process, the connections
\* the program dials never wait in its own queue.
THEOREM BypassCorrect == Spec => []ProtectedBypass
<1>1. Inv => ProtectedBypass
  BY DEF Inv, BypassInv, ProtectedBypass
<1> QED
  BY <1>1, Invariance, PTL
-----------------------------------------------------------------------------
(* Chains of iptables. *)

LEMMA RuleTypes ==
  /\ \A n \in 1..4 : Plain[n] \in Rules
  /\ Chains = {"FORWARD", "INPUT", "OUTPUT"}
  /\ Plain \in Beginnings /\ <<>> \in Beginnings
  BY ChainFacts DEF Rules, Chains, Beginnings

\* Each chain has its four rules in a row.
LEMMA Position ==
  ASSUME config \in Configs
  PROVE  /\ Size \in Nat /\ Size > 0
         /\ chainsOf(config) \subseteq Chains
         /\ \A i \in 1..Size : \E c \in chainsOf(config), n \in 1..4 :
              i = Before(c) + n /\ Nth(i) = [chain |-> c, rule |-> Plain[n]]
         /\ \A c \in chainsOf(config), n \in 1..4 :
              /\ Before(c) + n \in 1..Size
              /\ Nth(Before(c) + n) = [chain |-> c, rule |-> Plain[n]]
<1>1. CASE config.local
  <2>1. Size = 8 /\ chainsOf(config) = {"INPUT", "OUTPUT"}
    BY <1>1 DEF Size, chainsOf
  <2>2. \A n \in 1..4 : /\ Nth(n) = [chain |-> "INPUT", rule |-> Plain[n]]
                        /\ Nth(4 + n) = [chain |-> "OUTPUT", rule |-> Plain[n]]
    BY <1>1 DEF Nth
  <2>3. Before("INPUT") = 0 /\ Before("OUTPUT") = 4
    BY DEF Before
  <2>4. \A i \in 1..8 : \/ i \in 1..4 /\ i = 0 + i
                        \/ i - 4 \in 1..4 /\ i = 4 + (i - 4)
    OBVIOUS
  <2>5. \A i \in 1..8 : \E c \in {"INPUT", "OUTPUT"}, n \in 1..4 :
          i = Before(c) + n /\ Nth(i) = [chain |-> c, rule |-> Plain[n]]
    <3> TAKE i \in 1..8
    <3>1. CASE i \in 1..4
      BY <2>2, <2>3, <3>1
    <3>2. CASE i - 4 \in 1..4
      <4> DEFINE n == i - 4
      <4>1. n \in 1..4 /\ i = 4 + n
        BY <3>2
      <4> HIDE DEF n
      <4>2. i = Before("OUTPUT") + n /\ Nth(i) = [chain |-> "OUTPUT", rule |-> Plain[n]]
        BY <2>2, <2>3, <4>1
      <4> QED
        BY <4>1, <4>2
    <3> QED
      BY <2>4, <3>1, <3>2
  <2>6. \A c \in {"INPUT", "OUTPUT"}, n \in 1..4 :
          /\ Before(c) + n \in 1..8
          /\ Nth(Before(c) + n) = [chain |-> c, rule |-> Plain[n]]
    BY <2>2, <2>3
  <2> QED
    BY <2>1, <2>5, <2>6 DEF Chains
<1>2. CASE ~config.local
  <2>1. Size = 4 /\ chainsOf(config) = {"FORWARD"}
    BY <1>2 DEF Size, chainsOf
  <2>2. \A n \in 1..4 : Nth(n) = [chain |-> "FORWARD", rule |-> Plain[n]]
    BY <1>2 DEF Nth
  <2>3. Before("FORWARD") = 0
    BY DEF Before
  <2> QED
    BY <2>1, <2>2, <2>3 DEF Chains
<1> QED
  BY <1>1, <1>2

\* The list of rules a setup begins with.
LEMMA IptRules ==
  ASSUME config \in Configs, ~config.rst, todo' = generateIptRules(config), config' = config
  PROVE  Done(0)'
<1> DEFINE rulesOf(c) == inChain(c, Plain)
           RuleIn == [chain : Chains, rule : Rules]
<1>1. \A c \in Chains : /\ rulesOf(c) \in Seq(RuleIn) /\ Len(rulesOf(c)) = 4
                        /\ \A k \in 1..4 : rulesOf(c)[k] = [chain |-> c, rule |-> Plain[k]]
  <2> TAKE c \in Chains
  <2>1. rulesOf(c) = [k \in 1..4 |-> [chain |-> c, rule |-> Plain[k]]]
    BY ChainFacts DEF inChain
  <2>2. \A k \in 1..4 : [chain |-> c, rule |-> Plain[k]] \in RuleIn
    BY RuleTypes
  <2> HIDE DEF RuleIn
  <2> QED
    BY <2>1, <2>2
<1>2. chainRules(config) = Plain
  BY ChainFacts
<1> HIDE DEF rulesOf, RuleIn
<1>3. CASE ~config.local
  <2>1. todo' = rulesOf("FORWARD") /\ Size' = 4
    BY <1>2, <1>3 DEF generateIptRules, Size, rulesOf
  <2>2. todo' \in Seq(RuleIn) /\ Len(todo') = 4
        /\ \A k \in 1..4 : todo'[k] = [chain |-> "FORWARD", rule |-> Plain[k]]
    BY <1>1, <2>1, RuleTypes
  <2>3. \A k \in 1..4 : Nth(0 + k)' = [chain |-> "FORWARD", rule |-> Plain[k]]
    BY <1>3 DEF Nth
  <2> QED
    BY <2>1, <2>2, <2>3 DEF Done, RuleIn
<1>4. CASE config.local
  <2>1. todo' = rulesOf("INPUT") \o rulesOf("OUTPUT") /\ Size' = 8
    BY <1>2, <1>4 DEF generateIptRules, Size, rulesOf
  <2>2. /\ rulesOf("INPUT") \in Seq(RuleIn) /\ Len(rulesOf("INPUT")) = 4
        /\ rulesOf("OUTPUT") \in Seq(RuleIn) /\ Len(rulesOf("OUTPUT")) = 4
    BY <1>1, RuleTypes
  <2>3. /\ todo' \in Seq(RuleIn) /\ Len(todo') = 8
        /\ \A k \in 1..8 : todo'[k] = IF k <= 4 THEN rulesOf("INPUT")[k] ELSE rulesOf("OUTPUT")[k - 4]
    <3> DEFINE s == rulesOf("INPUT")
               t == rulesOf("OUTPUT")
    <3>1. s \in Seq(RuleIn) /\ t \in Seq(RuleIn)
      BY <2>2
    <3> HIDE DEF s, t
    <3>2. /\ s \o t \in Seq(RuleIn) /\ Len(s \o t) = Len(s) + Len(t)
          /\ \A i \in 1..(Len(s) + Len(t)) : (s \o t)[i] = IF i <= Len(s) THEN s[i] ELSE t[i - Len(s)]
      BY <3>1, ConcatProperties
    <3>3. Len(s) = 4 /\ Len(t) = 4 /\ todo' = s \o t
      BY <2>1, <2>2 DEF s, t
    <3>4. /\ todo' \in Seq(RuleIn) /\ Len(todo') = 8
          /\ \A k \in 1..8 : todo'[k] = IF k <= 4 THEN s[k] ELSE t[k - 4]
      BY <3>2, <3>3
    <3> QED
      BY <3>4 DEF s, t
  <2>4. \A k \in 1..8 : Nth(0 + k)' = IF k <= 4 THEN [chain |-> "INPUT", rule |-> Plain[k]]
                                      ELSE [chain |-> "OUTPUT", rule |-> Plain[k - 4]]
    BY <1>4 DEF Nth
  <2>5. \A k \in 1..8 : todo'[k] = Nth(0 + k)'
    BY <1>1, <2>3, <2>4, RuleTypes
  <2>6. Size' - 0 = 8
    BY <2>1
  <2>7. todo' \in Seq([chain : Chains, rule : Rules])
    BY <2>3 DEF RuleIn
  <2> QED
    BY <2>3, <2>5, <2>6, <2>7 DEF Done
<1> QED
  BY <1>3, <1>4

\* One rule less is to do.
LEMMA Shorter ==
  ASSUME config \in Configs, NEW i \in 0..Size, Done(i), todo # <<>>,
         todo' = Tail(todo), config' = config
  PROVE  i + 1 \in 1..Size /\ Head(todo) = Nth(i + 1) /\ Done(i + 1)'
<1>1. Size \in Nat /\ Size' = Size /\ \A k : Nth(k)' = Nth(k)
  BY Position DEF Size, Nth
<1>2. /\ Len(todo) \in Nat /\ Len(todo) > 0 /\ Head(todo) = todo[1]
      /\ Tail(todo) \in Seq([chain : Chains, rule : Rules])
      /\ Len(Tail(todo)) = Len(todo) - 1
      /\ \A k \in 1..(Len(todo) - 1) : Tail(todo)[k] = todo[k + 1]
  BY HeadTailProperties DEF Done
<1>3. i + 1 \in 1..Size /\ Head(todo) = Nth(i + 1)
  BY <1>1, <1>2 DEF Done
<1>4. \A k \in 1..(Len(todo) - 1) : Tail(todo)[k] = Nth((i + 1) + k)
  <2> TAKE k \in 1..(Len(todo) - 1)
  <2>1. k + 1 \in 1..Len(todo) /\ i + (k + 1) = (i + 1) + k
    BY <1>1, <1>2
  <2> QED
    BY <1>2, <2>1 DEF Done
<1> QED
  BY <1>1, <1>2, <1>3, <1>4 DEF Done

\* The next rule is appended at the right place.
LEMMA Appending ==
  ASSUME NEW b \in Beginnings, NEW n \in 1..4,
         \A m \in 1..(n - 1) : \E k \in 1..Len(b) : b[k] = Plain[m],
         ~\E k \in 1..Len(b) : b[k] = Plain[n]
  PROVE  /\ Append(b, Plain[n]) \in Beginnings
         /\ \E k \in 1..Len(Append(b, Plain[n])) : Append(b, Plain[n])[k] = Plain[n]
         /\ \A k \in 1..Len(b) : k \in 1..Len(Append(b, Plain[n])) /\ Append(b, Plain[n])[k] = b[k]
<1>1. b \in Seq(Rules) /\ Plain[n] \in Rules
  <2>1. /\ <<>> \in Seq(Rules) /\ <<"protect">> \in Seq(Rules)
        /\ <<"protect", "accept">> \in Seq(Rules)
        /\ <<"protect", "accept", "drop">> \in Seq(Rules) /\ Plain \in Seq(Rules)
    BY DEF Rules, Plain
  <2> QED
    BY <2>1, RuleTypes DEF Beginnings
<1>2. /\ Len(b) \in Nat /\ Len(Append(b, Plain[n])) = Len(b) + 1
      /\ Append(b, Plain[n])[Len(b) + 1] = Plain[n]
      /\ \A k \in 1..Len(b) : Append(b, Plain[n])[k] = b[k]
  BY <1>1, AppendProperties
<1>3. Append(b, Plain[n]) \in Beginnings
  <2>1. CASE b = <<>>
    <3>1. n = 1
      BY <2>1
    <3>2. Append(b, Plain[n]) = <<"protect">>
      BY <2>1, <3>1, ChainFacts
    <3> QED
      BY <3>2 DEF Beginnings
  <2>2. CASE b = <<"protect">>
    <3>1. n = 2
      <4>1. Len(b) = 1 /\ b[1] = "protect"
        BY <2>2
      <4>2. n # 1
        BY <4>1, ChainFacts
      <4>3. n \notin {3, 4}
        BY <4>1, ChainFacts
      <4> QED
        BY <4>2, <4>3
    <3>2. Append(b, Plain[n]) = <<"protect", "accept">>
      <4> DEFINE new == Append(b, Plain[n])
      <4>1. new \in Seq(Rules) /\ Len(new) = 2 /\ new[1] = "protect" /\ new[2] = "accept"
        BY <1>1, <1>2, <2>2, <3>1, ChainFacts, AppendProperties
      <4> HIDE DEF new
      <4>2. new = <<"protect", "accept">>
        BY <4>1
      <4> QED
        BY <4>2 DEF new
    <3> QED
      BY <3>2 DEF Beginnings
  <2>3. CASE b = <<"protect", "accept">>
    <3>1. n = 3
      <4>1. Len(b) = 2 /\ b[1] = "protect" /\ b[2] = "accept"
        BY <2>3
      <4>2. n \notin {1, 2}
        BY <4>1, ChainFacts
      <4>3. n # 4
        BY <4>1, ChainFacts
      <4> QED
        BY <4>2, <4>3
    <3>2. Append(b, Plain[n]) = <<"protect", "accept", "drop">>
      <4> DEFINE new == Append(b, Plain[n])
      <4>1. /\ new \in Seq(Rules) /\ Len(new) = 3 /\ new[1] = "protect" /\ new[2] = "accept"
            /\ new[3] = "drop"
        BY <1>1, <1>2, <2>3, <3>1, ChainFacts, AppendProperties
      <4> HIDE DEF new
      <4>2. new = <<"protect", "accept", "drop">>
        BY <4>1
      <4> QED
        BY <4>2 DEF new
    <3> QED
      BY <3>2 DEF Beginnings
  <2>4. CASE b = <<"protect", "accept", "drop">>
    <3>1. n = 4
      <4>1. Len(b) = 3 /\ b[1] = "protect" /\ b[2] = "accept" /\ b[3] = "drop"
        BY <2>4
      <4> QED
        BY <4>1, ChainFacts
    <3>2. Append(b, Plain[n]) = Plain
      <4> DEFINE new == Append(b, Plain[n])
      <4>1. /\ new \in Seq(Rules) /\ Len(new) = 4 /\ new[1] = "protect" /\ new[2] = "accept"
            /\ new[3] = "drop" /\ new[4] = "queue"
        BY <1>1, <1>2, <2>4, <3>1, ChainFacts, AppendProperties
      <4> HIDE DEF new
      <4>2. new = Plain
        BY <4>1 DEF Plain
      <4> QED
        BY <4>2 DEF new
    <3> QED
      BY <3>2 DEF Beginnings
  <2>5. CASE b = Plain
    BY <2>5, ChainFacts
  <2> QED
    BY <2>1, <2>2, <2>3, <2>4, <2>5 DEF Beginnings
<1> QED
  BY <1>2, <1>3

\* A chain with its last rule is a whole one.
LEMMA Whole ==
  ASSUME NEW b \in Beginnings, \E k \in 1..Len(b) : b[k] = "queue"
  PROVE  b = Plain
<1> SUFFICES ASSUME b # Plain PROVE FALSE
  OBVIOUS
<1>1. b \in {<<>>, <<"protect">>, <<"protect", "accept">>, <<"protect", "accept", "drop">>}
  BY DEF Beginnings
<1> QED
  BY <1>1

\* The next rule to be deleted is the first of its chain.
LEMMA Deleting ==
  ASSUME NEW n \in 1..4
  PROVE  LET b == Rest(n - 1)
         IN  /\ Len(b) \in Nat /\ Len(b) > 0 /\ b[1] = Plain[n]
             /\ \A k \in 1..Len(b) : b[k] = Plain[n] => k = 1
             /\ Rest(n) = [k \in 1..(Len(b) - 1) |-> b[k + 1]]
<1>1. CASE n = 1
  BY <1>1, ChainFacts DEF Rest, Plain
<1>2. CASE n = 2
  BY <1>2, ChainFacts DEF Rest
<1>3. CASE n = 3
  BY <1>3, ChainFacts DEF Rest
<1>4. CASE n = 4
  BY <1>4, ChainFacts DEF Rest
<1> QED
  BY <1>1, <1>2, <1>3, <1>4
-----------------------------------------------------------------------------
(* The invariant of iptables. *)

LEMMA AppendStep ==
  ASSUME Inv, IptInv, ~config.nft, iptsBatchAppendUnique
  PROVE  IptInv'
<1>1. pc = "append" /\ UNCHANGED <<config, rSet, bound, mark, pending, dialed, stale>>
  BY DEF iptsBatchAppendUnique
<1>2. config \in Configs
  BY DEF Inv, TypeInv
<1>3. /\ chains = [c \in Chains |-> chains[c]]
      /\ \A c \in Chains : chains[c] \in Beginnings
  BY <1>1 DEF IptInv
<1>4. PICK i \in 0..Size : Done(i) /\ \A j \in 1..i : Has(Nth(j).chain, Nth(j).rule)
  BY <1>1 DEF IptInv
<1>5. /\ Size \in Nat /\ Size > 0 /\ chainsOf(config) \subseteq Chains
      /\ Size' = Size /\ \A k : Nth(k)' = Nth(k)
      /\ chainsOf(config)' = chainsOf(config)
  BY <1>1, <1>2, Position DEF Size, Nth, chainsOf
<1>6. CASE todo = <<>>
  <2>1. pc' = "set" /\ chains' = chains
    BY <1>6 DEF iptsBatchAppendUnique
  <2>2. i = Size
    BY <1>4, <1>5, <1>6 DEF Done
  <2>3. \A c \in chainsOf(config) : chains[c] = Plain
    <3> TAKE c \in chainsOf(config)
    <3>1. /\ Before(c) + 4 \in 1..Size
          /\ Nth(Before(c) + 4) = [chain |-> c, rule |-> "queue"]
      <4>1. 4 \in 1..4 /\ Plain[4] = "queue"
        BY ChainFacts
      <4>2. /\ Before(c) + 4 \in 1..Size
            /\ Nth(Before(c) + 4) = [chain |-> c, rule |-> Plain[4]]
        BY <1>2, <4>1, Position
      <4> QED
        BY <4>1, <4>2
    <3>2. Has(c, "queue")
      BY <1>4, <2>2, <3>1
    <3> QED
      BY <1>3, <1>5, <3>2, Whole DEF Has
  <2> QED
    BY <1>3, <1>5, <2>1, <2>3 DEF IptInv
<1>7. CASE todo # <<>>
  <2>1. /\ pc' = "append" /\ todo' = Tail(todo)
        /\ chains' = AppendUnique(chains, Head(todo))
    BY <1>1, <1>7 DEF iptsBatchAppendUnique
  <2>2. i + 1 \in 1..Size /\ Head(todo) = Nth(i + 1) /\ Done(i + 1)'
    BY <1>1, <1>2, <1>4, <1>7, <2>1, Shorter
  <2>3. PICK c \in chainsOf(config), n \in 1..4 :
          i + 1 = Before(c) + n /\ Nth(i + 1) = [chain |-> c, rule |-> Plain[n]]
    BY <1>2, <2>2, Position
  <2>4. c \in Chains /\ chains[c] \in Beginnings
    BY <1>3, <1>5, <2>3
  <2>5. \A m \in 1..(n - 1) : Has(c, Plain[m])
    <3> TAKE m \in 1..(n - 1)
    <3>1. m \in 1..4 /\ Before(c) \in {0, 4} /\ Before(c) + m \in 1..i
      BY <2>3, <1>5 DEF Before
    <3>2. Nth(Before(c) + m) = [chain |-> c, rule |-> Plain[m]]
      BY <1>2, <3>1, Position
    <3> QED
      BY <1>4, <3>1, <3>2
  <2>6. chains' = IF Has(c, Plain[n]) THEN chains
                  ELSE [chains EXCEPT ![c] = Append(chains[c], Plain[n])]
    <3>1. Head(todo).chain = c /\ Head(todo).rule = Plain[n]
      BY <2>2, <2>3
    <3> QED
      BY <2>1, <3>1 DEF AppendUnique
  <2>7. /\ chains' = [d \in Chains |-> chains'[d]]
        /\ \A d \in Chains : chains'[d] \in Beginnings
        /\ \A d \in Chains : \A r : Has(d, r) => Has(d, r)'
        /\ Has(c, Plain[n])'
    <3>1. CASE Has(c, Plain[n])
      BY <1>3, <2>6, <3>1 DEF Has
    <3>2. CASE ~Has(c, Plain[n])
      <4> DEFINE new == Append(chains[c], Plain[n])
      <4>1. /\ new \in Beginnings /\ \E k \in 1..Len(new) : new[k] = Plain[n]
            /\ \A k \in 1..Len(chains[c]) : k \in 1..Len(new) /\ new[k] = chains[c][k]
        BY <2>4, <2>5, <3>2, Appending DEF Has
      <4>2. chains' = [chains EXCEPT ![c] = new]
        BY <2>6, <3>2
      <4> HIDE DEF new
      <4>3. chains'[c] = new /\ \A d \in Chains \ {c} : chains'[d] = chains[d]
        BY <1>3, <2>4, <4>2
      <4> QED
        BY <1>3, <2>4, <4>1, <4>2, <4>3 DEF Has
    <3> QED
      BY <3>1, <3>2
  <2>8. \A j \in 1..(i + 1) : Has(Nth(j).chain, Nth(j).rule)'
    <3> TAKE j \in 1..(i + 1)
    <3>1. j \in 1..Size
      BY <1>5, <2>2
    <3>2. Nth(j).chain \in Chains
      BY <1>2, <1>5, <3>1, Position
    <3>3. CASE j = i + 1
      BY <2>3, <2>7, <3>3, <1>5
    <3>4. CASE j # i + 1
      <4>1. j \in 1..i
        BY <1>5, <3>4
      <4>2. Has(Nth(j).chain, Nth(j).rule)
        BY <1>4, <4>1
      <4> QED
        BY <1>5, <2>7, <3>2, <4>2
    <3> QED
      BY <3>3, <3>4
  <2> QED
    BY <1>5, <2>1, <2>2, <2>7, <2>8 DEF IptInv
<1> QED
  BY <1>6, <1>7

LEMMA RemoveStep ==
  ASSUME Inv, IptInv, ~config.nft, Remove
  PROVE  IptInv'
<1>1. pc = "remove" /\ UNCHANGED <<config, rSet, bound, mark, pending, dialed, stale>>
  BY DEF Remove
<1>2. config \in Configs
  BY DEF Inv, TypeInv
<1>3. /\ chains = [c \in Chains |-> chains[c]]
      /\ \A c \in Chains \ chainsOf(config) : chains[c] \in Beginnings
  BY <1>1 DEF IptInv
<1>4. PICK i \in 0..Size : Done(i) /\ \A c \in chainsOf(config) : chains[c] = Rest(Among(c, i))
  BY <1>1 DEF IptInv
<1>5. /\ Size \in Nat /\ Size > 0 /\ chainsOf(config) \subseteq Chains
      /\ Size' = Size /\ chainsOf(config)' = chainsOf(config)
  BY <1>1, <1>2, Position DEF Size, chainsOf
<1>6. CASE todo = <<>>
  <2>1. pc' = "close" /\ chains' = chains
    BY <1>6 DEF Remove
  <2>2. i = Size
    BY <1>4, <1>5, <1>6 DEF Done
  <2>3. \A c \in chainsOf(config) : chains[c] = <<>>
    <3> TAKE c \in chainsOf(config)
    <3>1. Before(c) + 4 \in 1..Size /\ Before(c) \in {0, 4}
      <4>1. 4 \in 1..4
        OBVIOUS
      <4> QED
        BY <1>2, <4>1, Position DEF Before
    <3>2. Among(c, i) = 4
      BY <2>2, <3>1, <1>5 DEF Among
    <3> QED
      BY <1>4, <3>2 DEF Rest
  <2> QED
    BY <1>3, <1>5, <2>1, <2>3, RuleTypes DEF IptInv
<1>7. CASE todo # <<>>
  <2>1. /\ pc' = "remove" /\ todo' = Tail(todo)
        /\ chains' = DeleteIfExists(chains, Head(todo))
    BY <1>1, <1>7 DEF Remove
  <2>2. i + 1 \in 1..Size /\ Head(todo) = Nth(i + 1) /\ Done(i + 1)'
    BY <1>1, <1>2, <1>4, <1>7, <2>1, Shorter
  <2>3. PICK c \in chainsOf(config), n \in 1..4 :
          i + 1 = Before(c) + n /\ Nth(i + 1) = [chain |-> c, rule |-> Plain[n]]
    BY <1>2, <2>2, Position
  <2>4. Among(c, i) = n - 1 /\ Among(c, i + 1) = n
        /\ \A d \in chainsOf(config) \ {c} : Among(d, i) = Among(d, i + 1)
    <3>1. Before(c) \in {0, 4} /\ i = Before(c) + n - 1 /\ i \in Nat
      BY <2>3, <1>5 DEF Before
    <3>2. Among(c, i) = n - 1 /\ Among(c, i + 1) = n
      BY <3>1 DEF Among
    <3>3. \A d \in chainsOf(config) \ {c} : Before(d) \in {0, 4} /\ Before(d) # Before(c)
      BY <2>3 DEF Before, chainsOf
    <3>4. \A d \in chainsOf(config) \ {c} : Among(d, i) = Among(d, i + 1)
      BY <3>1, <3>3 DEF Among
    <3> QED
      BY <3>2, <3>4
  <2> DEFINE b == chains[c]
  <2>5. /\ Len(b) \in Nat /\ Len(b) > 0 /\ b[1] = Plain[n]
        /\ \A k \in 1..Len(b) : b[k] = Plain[n] => k = 1
        /\ Rest(n) = [k \in 1..(Len(b) - 1) |-> b[k + 1]]
    <3>1. b = Rest(n - 1)
      BY <1>4, <2>3, <2>4
    <3>2. LET r == Rest(n - 1)
          IN  /\ Len(r) \in Nat /\ Len(r) > 0 /\ r[1] = Plain[n]
              /\ \A k \in 1..Len(r) : r[k] = Plain[n] => k = 1
              /\ Rest(n) = [k \in 1..(Len(r) - 1) |-> r[k + 1]]
      BY Deleting, Zenon
    <3> HIDE DEF b
    <3> QED
      BY <3>1, <3>2, Zenon
  <2>6. chains' = [chains EXCEPT ![c] = Rest(n)]
    <3> DEFINE place == CHOOSE k \in 1..Len(b) : b[k] = Plain[n]
    <3>1. 1 \in 1..Len(b)
      BY <2>5
    <3>2. place = 1
      BY <2>5, <3>1
    <3>3. Has(c, Plain[n])
      BY <2>5, <3>1 DEF Has
    <3>4. chains' = [chains EXCEPT ![c] =
                       [k \in 1..(Len(b) - 1) |-> b[IF k < place THEN k ELSE k + 1]]]
      <4>1. Head(todo).chain = c /\ Head(todo).rule = Plain[n]
        BY <2>2, <2>3
      <4> QED
        BY <2>1, <3>3, <4>1 DEF DeleteIfExists
    <3>5. [k \in 1..(Len(b) - 1) |-> b[IF k < place THEN k ELSE k + 1]] = Rest(n)
      <4> HIDE DEF place, b
      <4>1. \A k \in 1..(Len(b) - 1) : b[IF k < place THEN k ELSE k + 1] = b[k + 1]
        BY <2>5, <3>2
      <4> QED
        BY <2>5, <4>1
    <3> QED
      BY <3>4, <3>5
  <2> HIDE DEF b
  <2>7. /\ chains' = [d \in Chains |-> chains'[d]] /\ chains'[c] = Rest(n)
        /\ \A d \in Chains \ {c} : chains'[d] = chains[d]
    BY <1>3, <1>5, <2>3, <2>6
  <2>8. \A d \in chainsOf(config) : chains'[d] = Rest(Among(d, i + 1))
    BY <1>4, <1>5, <2>4, <2>7
  <2>9. i + 1 \in 0..Size
    BY <1>5, <2>2
  <2> QED
    BY <1>3, <1>5, <2>1, <2>2, <2>3, <2>7, <2>8, <2>9 DEF IptInv
<1> QED
  BY <1>6, <1>7

\* What leaves the rules, and the goroutine that works on them, alone.
LEMMA IptStays ==
  ASSUME IptInv, UNCHANGED <<pc, config, todo, chains>>
  PROVE  IptInv'
<1>1. /\ Size' = Size /\ chainsOf(config)' = chainsOf(config) /\ \A k : Nth(k)' = Nth(k)
  BY DEF Size, chainsOf, Nth
<1>2. \A k : Done(k)' <=> Done(k)
  BY <1>1 DEF Done
<1>3. \A c, r : Has(c, r)' <=> Has(c, r)
  BY DEF Has
<1> QED
  BY <1>1, <1>2, <1>3 DEF IptInv

LEMMA IptNext ==
  ASSUME IptablesKept, Inv, IptInv, ~config.nft, [Next]_vars
  PROVE  IptInv' /\ ~config'.nft
<1>1. /\ config \in Configs /\ ~config.rst /\ config.nft = FALSE
      /\ "killed in closing" \notin Faults[config.nft] /\ "removal fails" \notin Faults[config.nft]
  <2>1. config \in Configs /\ config.nft = FALSE
    BY NFQueueAssumption DEF Inv, TypeInv
  <2> QED
    BY <2>1 DEF IptablesKept
<1>2. CASE UNCHANGED <<pc, config, todo, chains>>
  BY <1>2, IptStays
<1>3. ASSUME NEW cfg \in Configs, Start(cfg) PROVE IptInv' /\ ~config'.nft
  BY <1>3 DEF Start, IptInv
<1>4. CASE Register
  <2>1. /\ pc = "open" /\ UNCHANGED <<config, chains>> /\ pc' \in {"failed", "append"}
        /\ pc' = "append" => todo' = generateIptRules(config)
    BY <1>4 DEF Register
  <2>2. pc' = "append" => Done(0)'
    BY <1>1, <2>1, IptRules
  <2>3. Size' \in Nat
    BY DEF Size
  <2>4. \A c \in Chains : chains'[c] \in Beginnings
    BY <2>1 DEF IptInv
  <2> QED
    BY <2>1, <2>2, <2>3, <2>4 DEF IptInv
<1>5. CASE iptsBatchAppendUnique
  BY <1>5, AppendStep DEF iptsBatchAppendUnique
<1>6. CASE Remove
  BY <1>6, RemoveStep DEF Remove
<1>7. CASE Close
  <2>1. /\ pc \in {"failed", "up"} /\ UNCHANGED <<config, chains>>
        /\ pc' = "remove" => pc = "up" /\ todo' = generateIptRules(config)
        /\ pc' \in {"remove", "close"}
    BY <1>7 DEF Close, Inv, PlaceInv
  <2>2. \A c \in Chains : chains[c] \in Beginnings
    BY <2>1 DEF IptInv
  <2>3. pc' = "remove" => Done(0)' /\ \A c \in chainsOf(config) : chains[c] = Rest(Among(c, 0))
    <3> SUFFICES ASSUME pc' = "remove"
                 PROVE  Done(0)' /\ \A c \in chainsOf(config) : chains[c] = Rest(Among(c, 0))
      OBVIOUS
    <3>1. Done(0)'
      BY <1>1, <2>1, IptRules
    <3>2. \A c \in chainsOf(config) : chains[c] = Plain
      BY <2>1 DEF IptInv
    <3>3. \A c : Among(c, 0) = 0
      BY DEF Among, Before
    <3> QED
      BY <3>1, <3>2, <3>3 DEF Rest
  <2>4. Size' \in Nat /\ chainsOf(config)' = chainsOf(config)
    BY <2>1 DEF Size, chainsOf
  <2>5. 0 \in 0..Size'
    BY <2>4
  <2> QED
    BY <2>1, <2>2, <2>3, <2>4, <2>5 DEF IptInv
<1>8. CASE SetupFails \/ Registered \/ Exit \/ Killed
  <2>1. /\ UNCHANGED <<config, chains>> /\ pc # "remove" /\ pc' \in {"failed", "up", "off"}
        /\ pc' = "up" => pc = "set"
    BY <1>1, <1>8 DEF SetupFails, Registered, Exit, Killed
  <2>2. chainsOf(config)' = chainsOf(config)
    BY <2>1 DEF chainsOf
  <2> QED
    BY <2>1, <2>2 DEF IptInv
<1>9. ~RemovalFails /\ ~nftDelete /\ ~nftDeleteFails /\ ~nftAdd
  BY <1>1 DEF RemovalFails, nftDelete, nftDeleteFails, nftAdd, Inv, PlaceInv
<1> QED
  BY <1>2, <1>3, <1>4, <1>5, <1>6, <1>7, <1>8, <1>9
     DEF Next, Arrives, Expires, ProtectedDialContext, HangsUp, packetAttributeSanityCheck,
         SetVerdict, Unbind, io, vars
-----------------------------------------------------------------------------
(* What follows for iptables too. *)

FullInv == Inv /\ (~config.nft => IptInv)

THEOREM FullInvariance == ASSUME IptablesKept PROVE Spec => []FullInv
<1>1. Init => FullInv
  <2>1. Init => IptInv
    BY RuleTypes DEF Init, IptInv, NoRules
  <2> QED
    BY <2>1, InitInv DEF FullInv
<1>2. FullInv /\ [Next]_vars => FullInv'
  <2> SUFFICES ASSUME FullInv, [Next]_vars PROVE FullInv'
    OBVIOUS
  <2>1. Inv'
    BY NextInv DEF FullInv
  <2>2. ~config.nft => IptInv'
    BY IptNext DEF FullInv
  <2>3. config.nft => config'.nft
    BY DEF Next, Arrives, Expires, ProtectedDialContext, HangsUp, packetAttributeSanityCheck,
           SetVerdict, Unbind, io, vars, Start, Register, nftDelete, nftDeleteFails, nftAdd,
           iptsBatchAppendUnique, SetupFails, Registered, Close, Remove, RemovalFails, Exit,
           Killed
  <2> QED
    BY <2>1, <2>2, <2>3 DEF FullInv
<1> QED
  BY <1>1, <1>2, PTL DEF Spec

\* At any time but while iptables rules are removed.
LEMMA ChainShapes ==
  ASSUME FullInv, pc # "remove", NEW c \in Chains
  PROVE  Guards(chains[c]) \/ chains[c] \in Beginnings
<1>1. CASE config.nft
  BY <1>1, RuleTypes DEF FullInv, Inv, NftInv
<1>2. CASE ~config.nft
  BY <1>2 DEF FullInv, IptInv
<1> QED
  BY <1>1, <1>2

\* RulesComplete: whatever killed or failed processes have left, the chains of a
\* process that is up end with all the rules of its configuration in their order,
\* and have only those unless nftDelete has failed.
THEOREM RulesCorrect == ASSUME IptablesKept PROVE Spec => []RulesComplete
<1>1. FullInv => RulesComplete
  <2> SUFFICES ASSUME FullInv, pc = "up", NEW c \in chainsOf(config)
               PROVE  /\ EndsWith(chains[c], chainRules(config))
                      /\ ~left => chains[c] = chainRules(config)
    BY DEF RulesComplete
  <2>1. config \in Configs /\ c \in Chains
    BY Position DEF FullInv, Inv, TypeInv
  <2>2. CASE config.nft
    <3>1. OwnRules /\ (~left => chains = generateNftRules(config))
      BY <2>2 DEF FullInv, Inv, NftInv
    <3> QED
      BY <2>1, <3>1 DEF generateNftRules, OwnRules
  <2>3. CASE ~config.nft
    <3>1. ~config.rst /\ chains[c] = Plain
      BY <2>1, <2>3 DEF IptablesKept, FullInv, IptInv
    <3>2. EndsWith(Plain, Plain)
      BY OwnGuard, EndsFacts DEF Guards
    <3> QED
      BY <3>1, <3>2, ChainFacts
  <2> QED
    BY <2>2, <2>3
<1> QED
  BY <1>1, FullInvariance, PTL

\* SettledNotQueued: no packet of a connection the engine has settled comes back
\* to it, in this process or a later one.
THEOREM SettledCorrect == ASSUME IptablesKept PROVE Spec => []SettledNotQueued
<1>1. FullInv => SettledNotQueued
  <2> SUFFICES ASSUME FullInv, pc # "remove", NEW p \in Tracked, NEW dir \in Dirs,
                      mark[p.conn] # "none"
               PROVE  Outcome(p, dir) # "queued"
    BY DEF SettledNotQueued
  <2>1. mark[p.conn] \in {"accept", "drop"}
    BY PacketTypes DEF FullInv, Inv, TypeInv, Marks, Tracked
  <2>2. LET chain == chains[chainOf(p.conn, dir)] IN Guards(chain) \/ chain \in Beginnings
    BY ChainShapes DEF chainOf, Chains
  <2> QED
    BY <2>1, <2>2, SettledPasses
<1> QED
  BY <1>1, FullInvariance, PTL

\* BlockedStaysBlocked: a blocked connection is dropped, or reset where that is
\* wanted and nftDelete has left no rules that come first, for as long as there are
\* rules, also those of several processes.
THEOREM BlockedCorrect == ASSUME IptablesKept PROVE Spec => []BlockedStaysBlocked
<1>1. FullInv => BlockedStaysBlocked
  <2> SUFFICES ASSUME FullInv, NEW p \in Tracked, NEW dir \in Dirs,
                      p.conn \notin Protected, mark[p.conn] = "drop", pc # "remove",
                      Has(chainOf(p.conn, dir), "queue")
               PROVE  /\ Outcome(p, dir) \in {"reset", "dropped"}
                      /\ pc = "up" /\ ~left /\ config.rst /\ p.conn \in Tcp \cap Forwarded =>
                           Outcome(p, dir) = "reset"
    BY DEF BlockedStaysBlocked
  <2>1. Guards(chains[chainOf(p.conn, dir)])
    <3>1. LET chain == chains[chainOf(p.conn, dir)] IN Guards(chain) \/ chain \in Beginnings
      BY ChainShapes DEF chainOf, Chains
    <3> QED
      BY <3>1, Whole, OwnGuard DEF Has
  <2>2. ~SocketMarked(p, dir)
    BY DEF SocketMarked
  <2>3. /\ SettledBy(p, dir) \in {"reset", "drop"}
        /\ chains[chainOf(p.conn, dir)][3] = "reset" /\ p.conn \in Tcp =>
             SettledBy(p, dir) = "reset"
    BY <2>1, <2>2, WholeChain
  <2>4. ASSUME pc = "up", ~left, config.rst, p.conn \in Tcp \cap Forwarded
        PROVE  chains[chainOf(p.conn, dir)][3] = "reset"
    <3>1. config \in Configs /\ config.nft /\ ~config.local
      BY <2>4 DEF FullInv, Inv, TypeInv, PlaceInv, generable, IptablesKept
    <3>2. chainOf(p.conn, dir) = "FORWARD" /\ chains = generateNftRules(config)
      BY <2>4, <3>1 DEF chainOf, FullInv, Inv, NftInv
    <3> QED
      BY <2>4, <3>1, <3>2, NftRules, ChainFacts DEF Chains, chainsOf
  <2> QED
    BY <2>3, <2>4 DEF Outcome
<1> QED
  BY <1>1, FullInvariance, PTL
=============================================================================
