------------------------------ MODULE NFQueue -------------------------------
(***************************************************************************)
(* The packet IO (io/nfqueue.go) between the kernel and the engine: the    *)
(* firewall rules it generates and installs with nft or iptables, the way  *)
(* packets take through them, the connection marks its verdicts leave, and *)
(* what is left of all that when the process stops, fails or is killed and *)
(* starts again.                                                           *)
(*                                                                         *)
(* The kernel (rules, conntrack, queue) and the nfqueue library are        *)
(* outside src/.  The engine's verdicts are any that are possible.  The    *)
(* tables for IPv4 and IPv6 are filled in lockstep, and a connection uses  *)
(* one of them: one is modelled.                                           *)
(***************************************************************************)
EXTENDS Integers, Sequences, Functions

CONSTANTS
  Forwarded,    \* connections the host forwards
  Local,        \* connections of other programs on the host
  Protected,    \* connections this program dials for itself
  Packet,       \* the packets there may be, see PacketsOf
  Tcp,          \* the connections "reset" matches: TCP, with nft over IPv4
  Configs,      \* the configurations the program may be started with, and
                \* whether nft is installed (otherwise iptables is used)
  Faults,       \* Faults[nft]: what may go wrong, see AllFaults
  MaxQueueLen,  \* QueueSize, the number of packets the kernel queues
  MaxLeft       \* bound on the rules in a chain that nftDelete may fail to delete

Conns == Forwarded \cup Local \cup Protected

\* A packet is whole, too short to be an IP packet, or without a conntrack entry.
PacketsOf(conns) == [conn : conns, kind : {"whole", "short", "untracked"}]

AllFaults == {"killed in setup", "killed when up", "killed in closing",
              "deletion fails", "setup fails", "removal fails"}

ASSUME NFQueueAssumption ==
  /\ Forwarded \cap (Local \cup Protected) = {} /\ Local \cap Protected = {}
  /\ Tcp \subseteq Conns
  /\ Packet \subseteq PacketsOf(Conns) /\ [conn : Conns, kind : {"whole"}] \subseteq Packet
  /\ Configs \subseteq [nft : BOOLEAN, local : BOOLEAN, rst : BOOLEAN]
  /\ Faults \in [BOOLEAN -> SUBSET AllFaults]
  /\ MaxQueueLen \in Nat /\ MaxLeft \in Nat

Chains == {"FORWARD", "INPUT", "OUTPUT"}
Rules  == {"protect", "accept", "reset", "drop", "queue"}
Marks  == {"none", "accept", "drop"}
Dirs   == {"in", "out"}

VARIABLES
  pc,       \* where the process is
  config,   \* the configuration it was started with
  rSet,     \* nfqueuePacketIO.rSet
  todo,     \* the rules setupIpt still has to append or to delete
  chains,   \* kernel: the program's rules in each chain
  bound,    \* kernel: a program listens to the queue
  mark,     \* kernel: the conntrack mark of each connection
  pending,  \* kernel: how many copies of each packet wait for a verdict
  dialed,   \* the protected connections that are open
  stale,    \* history: the process found rules of an earlier one ...
  left      \* history: ... and with nft could not delete them

io == <<pc, config, rSet, todo, stale, left>>
vars == <<pc, config, rSet, todo, chains, bound, mark, pending, dialed, stale, left>>

-----------------------------------------------------------------------------
chainsOf(cfg) == IF cfg.local THEN {"INPUT", "OUTPUT"} ELSE {"FORWARD"}

\* Faulty: everything is queued before the marks are looked at.
QueueFirst(cfg) == <<"protect", "queue", "accept", "drop">>

\* Faulty: the program's own connections are not treated in any special way.
NoProtection(cfg) == <<"accept", "drop", "queue">>

\* Faulty: dropped connections are left to the queue.
NoDrop(cfg) == <<"protect", "accept", "queue">>

\* The rules both generators write into a chain, in their order.
chainRules(cfg) ==
  IF cfg.rst THEN <<"protect", "accept", "reset", "drop", "queue">>
             ELSE <<"protect", "accept", "drop", "queue">>

\* Both generators refuse one configuration.
generable(cfg) == ~(cfg.local /\ cfg.rst)

\* generateNftRules: a table.
generateNftRules(cfg) ==
  [c \in Chains |-> IF c \in chainsOf(cfg) THEN chainRules(cfg) ELSE <<>>]

inChain(c, rules) == [k \in 1..Len(rules) |-> [chain |-> c, rule |-> rules[k]]]

\* Faulty: within a chain the rules come in the opposite order.
iptRulesBackwards(cfg) ==
  LET backwards == [k \in 1..Len(chainRules(cfg)) |->
                      chainRules(cfg)[Len(chainRules(cfg)) + 1 - k]]
  IN  inChain("FORWARD", backwards)

\* generateIptRules: a list, chain by chain.
generateIptRules(cfg) ==
  IF cfg.local THEN inChain("INPUT", chainRules(cfg)) \o inChain("OUTPUT", chainRules(cfg))
               ELSE inChain("FORWARD", chainRules(cfg))

Has(c, rule) == \E k \in 1..Len(chains[c]) : chains[c][k] = rule

NoRules == [c \in Chains |-> <<>>]

NoPackets == [p \in Packet |-> 0]

Init ==
  /\ pc = "off"
  /\ config \in Configs
  /\ rSet = FALSE
  /\ todo = <<>>
  /\ chains = NoRules
  /\ bound = FALSE
  /\ mark = [c \in Conns |-> "none"]
  /\ pending = NoPackets
  /\ dialed = {}
  /\ stale = FALSE
  /\ left = FALSE

-----------------------------------------------------------------------------
(***************************************************************************)
(* The kernel.                                                             *)
(***************************************************************************)
chainOf(c, dir) ==
  IF c \in Forwarded THEN "FORWARD" ELSE IF dir = "in" THEN "INPUT" ELSE "OUTPUT"

\* Only what the program sends on its own connections carries the socket mark.
SocketMarked(p, dir) == p.conn \in Protected /\ dir = "out"

\* The conntrack mark of p after the first k rules of its chain.
MarkAfter(p, dir, k) ==
  IF p.kind = "untracked" THEN "none"
  ELSE IF SocketMarked(p, dir)
          /\ \E j \in 1..k : chains[chainOf(p.conn, dir)][j] = "protect"
       THEN "accept" ELSE mark[p.conn]

\* Rule k of its chain settles packet p.
Settles(p, dir, k) ==
  LET rule == chains[chainOf(p.conn, dir)][k]
      m    == MarkAfter(p, dir, k)
  IN  \/ rule = "accept" /\ m = "accept"
      \/ rule = "reset" /\ m = "drop" /\ p.conn \in Tcp
      \/ rule = "drop" /\ m = "drop"
      \/ rule = "queue"

\* The first rule that settles p, or "policy" when none does.
SettledBy(p, dir) ==
  LET chain == chains[chainOf(p.conn, dir)]
      hits  == {k \in 1..Len(chain) : Settles(p, dir, k)}
  IN  IF hits = {} THEN "policy"
      ELSE chain[CHOOSE k \in hits : \A j \in hits : k <= j]

QueueLength(q) == FoldFunction(+, 0, q)

\* "queue bypass": packets for a queue nobody listens to pass.
Unheard == "pass"

\* What becomes of packet p.
Outcome(p, dir) ==
  CASE SettledBy(p, dir) = "reset" -> "reset"
    [] SettledBy(p, dir) = "drop"  -> "dropped"
    [] SettledBy(p, dir) = "queue" ->
         IF ~bound THEN Unheard
         ELSE IF QueueLength(pending) < MaxQueueLen THEN "queued" ELSE "dropped"
    [] OTHER -> "pass"

\* A packet of an ordinary connection, or of one the program has dialed.
Arrives(p, dir) ==
  /\ p.conn \in Protected => p.conn \in dialed
  /\ pending' = IF Outcome(p, dir) = "queued" THEN [pending EXCEPT ![p] = @ + 1]
                                              ELSE pending
  /\ mark' = IF p.kind = "untracked" THEN mark
             ELSE [mark EXCEPT ![p.conn] =
                     MarkAfter(p, dir, Len(chains[chainOf(p.conn, dir)]))]
  /\ UNCHANGED <<io, chains, bound, dialed>>

\* ProtectedDialContext: a rule looks a name up while a packet waits for its
\* verdict; its first packet goes out.
ProtectedDialContext(c) ==
  LET first == [conn |-> c, kind |-> "whole"]
  IN  /\ pc # "off"
      /\ c \notin dialed
      /\ \E p \in Packet : p.kind = "whole" /\ pending[p] > 0
      /\ dialed' = dialed \cup {c}
      /\ mark' = [mark EXCEPT ![c] = MarkAfter(first, "out", Len(chains[chainOf(c, "out")]))]
      /\ UNCHANGED <<io, chains, bound, pending>>

\* The program is done with the connection.
HangsUp(c) ==
  /\ dialed' = dialed \ {c}
  /\ UNCHANGED <<io, chains, bound, mark, pending>>

\* The conntrack entry of an idle connection expires.
Expires(c) ==
  /\ c \notin dialed
  /\ \A p \in Packet : p.conn = c => pending[p] = 0
  /\ mark' = [mark EXCEPT ![c] = "none"]
  /\ UNCHANGED <<io, chains, bound, pending, dialed>>
-----------------------------------------------------------------------------
(***************************************************************************)
(* Verdicts.                                                               *)
(***************************************************************************)
Verdict == {"Accept", "AcceptModify", "AcceptStream", "Drop", "DropStream"}

\* SetVerdict: the connection mark a verdict leaves.
markOf(v, old) ==
  CASE v = "AcceptStream" -> "accept"
    [] v = "DropStream"   -> "drop"
    [] OTHER              -> old

\* A packet that waits leaves the queue, one way or the other.
Answered(p) ==
  /\ bound
  /\ pending[p] > 0
  /\ pending' = [pending EXCEPT ![p] = @ - 1]

\* The engine gives a whole packet any verdict.
SetVerdict(p, v) ==
  /\ p.kind = "whole"
  /\ Answered(p)
  /\ mark' = [mark EXCEPT ![p.conn] = markOf(v, @)]
  /\ UNCHANGED <<io, chains, bound, dialed>>

\* packetAttributeSanityCheck answers what the engine could not work on.
packetAttributeSanityCheck(p) ==
  /\ p.kind # "whole"
  /\ Answered(p)
  /\ UNCHANGED <<io, chains, bound, mark, dialed>>

-----------------------------------------------------------------------------
(***************************************************************************)
(* The process.                                                            *)
(***************************************************************************)
\* The queue loses its listener: the kernel drops what waits in it.
Unheeded ==
  /\ bound' = FALSE
  /\ pending' = NoPackets

\* A process starts on the same host, perhaps with another configuration.
Start(cfg) ==
  /\ pc = "off"
  /\ cfg.nft = config.nft
  /\ pc' = "open"
  /\ config' = cfg
  /\ stale' = (chains # NoRules)
  /\ left' = FALSE
  /\ rSet' = FALSE
  /\ todo' = <<>>
  /\ UNCHANGED <<chains, bound, mark, pending, dialed>>

\* Register hooks the callback first, ...
Register ==
  /\ pc = "open"
  /\ bound' = TRUE
  /\ IF ~generable(config) THEN pc' = "failed" /\ todo' = <<>>
     ELSE IF config.nft THEN pc' = "delete" /\ todo' = <<>>
     ELSE pc' = "append" /\ todo' = generateIptRules(config)
  /\ UNCHANGED <<config, rSet, chains, mark, pending, dialed, stale, left>>

\* ... then deletes what an earlier process has left in the nft table, ...
nftDelete ==
  /\ pc = "delete"
  /\ pc' = "add"
  /\ chains' = NoRules
  /\ UNCHANGED <<config, rSet, todo, bound, mark, pending, dialed, stale, left>>

\* ... but goes on when the command fails, and all of it stays, ...
nftDeleteFails ==
  /\ "deletion fails" \in Faults[config.nft]
  /\ pc = "delete"
  /\ \A c \in Chains : Len(chains[c]) <= MaxLeft
  /\ pc' = "add"
  /\ left' = (chains # NoRules)
  /\ UNCHANGED <<config, rSet, todo, chains, bound, mark, pending, dialed, stale>>

\* ... and adds the rules, all at once, to what is in the table, ...
nftAdd ==
  /\ pc = "add"
  /\ pc' = "set"
  /\ chains' = [c \in Chains |-> chains[c] \o generateNftRules(config)[c]]
  /\ UNCHANGED <<config, rSet, todo, bound, mark, pending, dialed, stale, left>>

\* AppendUnique of go-iptables.
AppendUnique(ch, r) ==
  IF Has(r.chain, r.rule) THEN ch ELSE [ch EXCEPT ![r.chain] = Append(@, r.rule)]

\* ... or appends them to the chains of iptables, one by one.
iptsBatchAppendUnique ==
  /\ pc = "append"
  /\ IF todo = <<>> THEN pc' = "set" /\ UNCHANGED <<todo, chains>>
     ELSE /\ chains' = AppendUnique(chains, Head(todo))
          /\ todo' = Tail(todo)
          /\ UNCHANGED pc
  /\ UNCHANGED <<config, rSet, bound, mark, pending, dialed, stale, left>>

SetupFails ==
  /\ "setup fails" \in Faults[config.nft]
  /\ pc \in {"add", "append"}
  /\ pc' = "failed"
  /\ todo' = <<>>
  /\ UNCHANGED <<config, rSet, chains, bound, mark, pending, dialed, stale, left>>

Registered ==
  /\ pc = "set"
  /\ pc' = "up"
  /\ rSet' = TRUE
  /\ UNCHANGED <<config, todo, chains, bound, mark, pending, dialed, stale, left>>

\* The context is cancelled and the library leaves the queue.
Unbind ==
  /\ bound
  /\ pc # "open"
  /\ Unheeded
  /\ UNCHANGED <<io, chains, mark, dialed>>

\* Run has returned, because of an error or not: Close removes the rules, if
\* they were set, ...
Close ==
  /\ pc \in {"failed", "up"}
  /\ pc' = IF rSet THEN "remove" ELSE "close"
  /\ todo' = IF rSet /\ ~config.nft THEN generateIptRules(config) ELSE <<>>
  /\ UNCHANGED <<config, rSet, chains, bound, mark, pending, dialed, stale, left>>

\* DeleteIfExists of go-iptables.
DeleteIfExists(ch, r) ==
  LET chain == ch[r.chain]
      place == CHOOSE k \in 1..Len(chain) : chain[k] = r.rule
      without == [k \in 1..(Len(chain) - 1) |-> chain[IF k < place THEN k ELSE k + 1]]
  IN  IF Has(r.chain, r.rule) THEN [ch EXCEPT ![r.chain] = without] ELSE ch

Remove ==
  /\ pc = "remove"
  /\ IF config.nft THEN chains' = NoRules /\ pc' = "close" /\ UNCHANGED todo
     ELSE IF todo = <<>> THEN pc' = "close" /\ UNCHANGED <<chains, todo>>
     ELSE /\ chains' = DeleteIfExists(chains, Head(todo))
          /\ todo' = Tail(todo)
          /\ UNCHANGED pc
  /\ UNCHANGED <<config, rSet, bound, mark, pending, dialed, stale, left>>

\* An error of the removal is ignored.
RemovalFails ==
  /\ "removal fails" \in Faults[config.nft]
  /\ pc = "remove"
  /\ pc' = "close"
  /\ todo' = <<>>
  /\ UNCHANGED <<config, rSet, chains, bound, mark, pending, dialed, stale, left>>

\* ... and closes the socket, and the process ends.
Exit ==
  /\ pc = "close"
  /\ pc' = "off"
  /\ rSet' = FALSE
  /\ dialed' = {}
  /\ Unheeded
  /\ UNCHANGED <<config, todo, chains, mark, stale, left>>

Killed ==
  /\ \/ "killed in setup" \in Faults[config.nft] /\ pc \in {"open", "delete", "add", "append", "set"}
     \/ "killed when up" \in Faults[config.nft] /\ pc \in {"up", "failed"}
     \/ "killed in closing" \in Faults[config.nft] /\ pc \in {"remove", "close"}
  /\ pc' = "off"
  /\ todo' = <<>>
  /\ rSet' = FALSE
  /\ dialed' = {}
  /\ Unheeded
  /\ UNCHANGED <<config, chains, mark, stale, left>>

Next ==
  \/ \E p \in Packet, dir \in Dirs : Arrives(p, dir)
  \/ \E c \in Conns : Expires(c)
  \/ \E c \in Protected : ProtectedDialContext(c) \/ HangsUp(c)
  \/ \E p \in Packet : packetAttributeSanityCheck(p) \/ \E v \in Verdict : SetVerdict(p, v)
  \/ \E cfg \in Configs : Start(cfg)
  \/ Register \/ nftDelete \/ nftDeleteFails \/ nftAdd \/ iptsBatchAppendUnique \/ SetupFails
  \/ Registered \/ Unbind \/ Close \/ Remove \/ RemovalFails \/ Exit \/ Killed

Spec == Init /\ [][Next]_vars
-----------------------------------------------------------------------------
\* Every variable keeps its shape: the queue its bound, and no chain of iptables
\* ever holds a rule twice.
TypeOK ==
  /\ pc \in {"off", "open", "delete", "add", "append", "set", "failed", "up",
             "remove", "close"}
  /\ config \in Configs
  /\ rSet \in BOOLEAN /\ bound \in BOOLEAN
  /\ todo \in Seq([chain : Chains, rule : Rules])
  /\ chains \in [Chains -> Seq(Rules)]
  /\ ~config.nft => \A c \in Chains : \A j, k \in 1..Len(chains[c]) :
       chains[c][j] = chains[c][k] => j = k
  /\ mark \in [Conns -> Marks]
  /\ pending \in [Packet -> Nat] /\ QueueLength(pending) <= MaxQueueLen
  /\ dialed \subseteq Protected
  /\ stale \in BOOLEAN /\ left \in BOOLEAN

\* Sequence s ends with t.
EndsWith(s, t) == Len(t) <= Len(s) /\ SubSeq(s, Len(s) - Len(t) + 1, Len(s)) = t

\* Once Register has returned, the chains of the configuration end with all of
\* its rules in their order, whatever processes killed or failed before have left
\* there, and there is nothing before them unless nftDelete has failed.
RulesComplete ==
  pc = "up" => \A c \in chainsOf(config) :
    /\ EndsWith(chains[c], chainRules(config))
    /\ ~left => chains[c] = chainRules(config)

Tracked == {p \in Packet : p.kind # "untracked"}

\* A connection the engine has settled is settled for good: but for the moment
\* when iptables rules are removed, its packets reach the engine no more, also
\* not in another process, ...
SettledNotQueued ==
  pc # "remove" =>
    \A p \in Tracked, dir \in Dirs :
      mark[p.conn] # "none" => Outcome(p, dir) # "queued"

\* ... and one that was blocked stays blocked for as long as there are rules, also
\* rules of several processes, with a reset where the configuration wants one and
\* no rules that nftDelete has left come first.
BlockedStaysBlocked ==
  \A p \in Tracked, dir \in Dirs :
    /\ p.conn \notin Protected
    /\ mark[p.conn] = "drop"
    /\ pc # "remove" /\ Has(chainOf(p.conn, dir), "queue")
    =>
      /\ Outcome(p, dir) \in {"reset", "dropped"}
      /\ pc = "up" /\ ~left /\ config.rst /\ p.conn \in Tcp \cap Forwarded =>
           Outcome(p, dir) = "reset"

\* io/interface.go of ProtectedDialContext: the packets of its connections "must
\* bypass the packet IO and not be processed by the callback".  So it is with
\* nft, whose rules come all at once, if no rules of a killed process came before.
ProtectedBypass ==
  config.nft /\ ~stale => \A p \in Tracked : p.conn \in Protected => pending[p] = 0

\* io/nfqueue.go of rSet: "whether the nftables/iptables rules have been set".
\* So a process that has ended without them has left none behind.
RSetTellsRules == pc \in {"off", "close"} /\ ~rSet => chains = NoRules
=============================================================================
