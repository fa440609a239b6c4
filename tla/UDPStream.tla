----------------------------- MODULE UDPStream ------------------------------
(***************************************************************************)
(* The UDP half of one worker (engine/udp.go and worker.handle): streams   *)
(* kept in an LRU cache under the conntrack ID of their packets, checked   *)
(* against the flow of each packet, inspected by their analyzers and given *)
(* the verdict of their rules.  Unlike TCP, packets can be dropped or      *)
(* rewritten one at a time, analyzers always get whole packets, and the    *)
(* cache may forget a stream while its flow is alive.                      *)
(*                                                                         *)
(* A step handles one packet, or reloads the rules between two packets.    *)
(* The cache itself (hashicorp/golang-lru) is outside src/.                *)
(***************************************************************************)
EXTENDS Verdicts, Integers, Sequences, FiniteSets

CONSTANTS
  Flows,         \* UDP 5-tuples, both directions taken together
  IDs,           \* conntrack IDs
  IDOf,          \* IDOf[f]: the ID under which packets of f arrive
  MaxStreams,    \* UDPMaxStreams, the capacity of the cache
  Analyzers,     \* names of the UDP analyzers
  Limit,         \* Limit[a]: byte limit of analyzer a, 0 when it has none
  Rulesets, RuleAnalyzers, Marks, Updates, CloseUpdates, Match,  \* as in TCPStream
  MaxData        \* bound on the payload of one packet

Props == [Analyzers -> SUBSET Marks]

ASSUME ConstantsAssumption ==
  /\ IDOf \in [Flows -> IDs]
  /\ MaxStreams \in Nat \ {0}
  /\ Limit \in [Analyzers -> Nat]
  /\ RuleAnalyzers \in [Rulesets -> SUBSET Analyzers]
  /\ Updates \cup CloseUpdates \subseteq [type : PropUpdateTypes, m : SUBSET Marks]
  /\ Match \in [Rulesets -> [Props -> Actions]]
  /\ MaxData \in Nat

\* A packet goes with the flow's first packet or against it.
Dirs == {"orig", "reply"}

Outcome == [update : Updates, done : BOOLEAN, close : CloseUpdates]

VARIABLES
  ruleset,    \* udpStreamFactory.Ruleset
  streams,    \* the cached udpStreamValue of each ID
  recency,    \* the cached IDs, the most recently used first
  given,      \* flow of the packet handled last, and what SetVerdict gets for it
  begun,      \* environment: the flows whose first packet has been sent
  obs,        \* history: the calls received by the analyzers of each stream,
              \* the properties reported, and the flows whose packets it was fed
  leftOpen    \* history: a replaced stream was left with analyzers open

vars == <<ruleset, streams, recency, given, begun, obs, leftOpen>>

-----------------------------------------------------------------------------
Stream == [live : BOOLEAN, flow : Flows, dir : Dirs,
           virgin : BOOLEAN, ruleset : Rulesets,
           active : SUBSET Analyzers, done : SUBSET Analyzers,
           quota : [Analyzers -> Int], props : Props, last : Verdict]

\* udpStreamFactory.New, wrapped in a udpStreamValue for the packet's flow.
New(r, f, d) ==
  [live |-> TRUE, flow |-> f, dir |-> d, virgin |-> TRUE, ruleset |-> r,
   active |-> RuleAnalyzers[r], done |-> {}, quota |-> Limit,
   props |-> [a \in Analyzers |-> {}], last |-> "Accept"]

\* What is under an ID that is not cached.
NoStream == [New(CHOOSE r \in Rulesets : TRUE, CHOOSE f \in Flows : TRUE, "orig")
               EXCEPT !.live = FALSE]

\* Faulty: whatever is cached under the ID is the packet's stream.
MatchAny(v, f, d) == v.live

\* Faulty: only packets in the direction of the first one are recognised.
MatchForward(v, f, d) == v.live /\ v.flow = f /\ v.dir = d

\* udpStreamValue.Match: the flow, in one direction or the other.
MatchFlow(v, f, d) == v.live /\ v.flow = f

\* udpStream.Accept: streams with work left take the packet.
Accept(s) == s.active # {} \/ s.virgin

Settled(s) == s.live /\ ~Accept(s)

\* The stream MatchWithContext hands the packet to.
StreamOf(f, d) == IF MatchFlow(streams[IDOf[f]], f, d) THEN streams[IDOf[f]]
                                                       ELSE New(ruleset, f, d)
-----------------------------------------------------------------------------
HasLimit(a) == Limit[a] > 0

\* feedEntry feeds whole packets and then charges them to the quota.
Exhausted(s, a, n) == HasLimit(a) /\ s.quota[a] - n <= 0

EntryDone(s, a, n, o) == o.done \/ Exhausted(s, a, n)

EntryProps(s, a, n, o) ==
  LET fed == processPropUpdate(s.props[a], o.update)
  IN  IF Exhausted(s, a, n) THEN processPropUpdate(fed, o.close) ELSE fed

\* Faulty: the update of the Close at the limit is not looked at.
FeedUpdated(s, a, n, o) == Changes(o.update)

EntryUpdated(s, a, n, o) ==
  Changes(o.update) \/ (Exhausted(s, a, n) /\ Changes(o.close))

\* The loop of Feed over the active entries.
FeedEntries(s, n, out) ==
  LET ended == {a \in s.active : EntryDone(s, a, n, out[a])}
  IN  [s EXCEPT
         !.active = @ \ ended,
         !.done   = @ \cup ended,
         !.quota  = [a \in Analyzers |->
                       IF a \in s.active /\ HasLimit(a) THEN @[a] - n ELSE @[a]],
         !.props  = [a \in Analyzers |->
                       IF a \in s.active THEN EntryProps(s, a, n, out[a])
                                         ELSE @[a]]]

\* Faulty: the closed entries stay in the list of active ones.
CloseWithoutReset(s, out) ==
  [s EXCEPT !.done = @ \cup s.active]

closeActiveEntries(s, out) ==
  [s EXCEPT
     !.active = {},
     !.done   = @ \cup s.active,
     !.props  = [a \in Analyzers |->
                   IF a \in s.active THEN processPropUpdate(@[a], out[a].close)
                                     ELSE @[a]]]

Updated(s, n, out) == \E a \in s.active : EntryUpdated(s, a, n, out[a])

\* The action Feed settles for: the one of the rules, unless it is a
\* modification whose modifier is not for UDP or fails (~modified).
ActionOn(s, modified) ==
  LET action == Match[s.ruleset][s.props]
  IN  IF action = "modify" /\ ~modified THEN "maybe" ELSE action

\* Whether Feed asks the rules, and they have a verdict for this packet.
Acts(s, n, out, modified) ==
  /\ Updated(s, n, out) \/ s.virgin
  /\ ActionOn(FeedEntries(s, n, out), modified) # "maybe"

\* udpStream.Feed: a final verdict closes the analyzers, the others do not; a
\* packet left without one when nobody inspects the stream accepts the stream.
Feed(s, n, out, modified) ==
  LET fed == [FeedEntries(s, n, out) EXCEPT !.virgin = FALSE]
      u   == actionToUDPVerdict(ActionOn(fed, modified))
  IN  IF Acts(s, n, out, modified)
      THEN [(IF u.final THEN closeActiveEntries(fed, out) ELSE fed) EXCEPT !.last = u.v]
      ELSE IF fed.active = {} THEN [fed EXCEPT !.last = "AcceptStream"] ELSE fed

\* The verdict Feed leaves in the packet's udpContext.
FeedVerdict(s, n, out, modified) ==
  LET after == Feed(s, n, out, modified)
  IN  IF Acts(s, n, out, modified) \/ after.active = {} THEN after.last ELSE "Accept"

\* worker.handle: a payload the modifier made is serialised into a new packet,
\* and the packet is accepted as it is when that fails.
Handled(f, v, payload, serialised) ==
  IF v = "AcceptModify" /\ payload /\ ~serialised
  THEN [flow |-> f, verdict |-> "Accept", packet |-> FALSE]
  ELSE [flow |-> f, verdict |-> v, packet |-> v = "AcceptModify" /\ payload]

-----------------------------------------------------------------------------
Cached(order) == {order[k] : k \in 1..Len(order)}

\* golang-lru: using an ID moves it to the front, and those before it one back;
\* a new ID takes a free place or that of the last one, which falls out.
Use(order, id) ==
  LET place == IF id \in Cached(order) THEN CHOOSE k \in 1..Len(order) : order[k] = id
               ELSE IF Len(order) < MaxStreams THEN Len(order) + 1 ELSE Len(order)
      size  == IF place > Len(order) THEN place ELSE Len(order)
  IN  [k \in 1..size |-> IF k = 1 THEN id ELSE IF k <= place THEN order[k - 1] ELSE order[k]]
-----------------------------------------------------------------------------
(***************************************************************************)
(* History of a stream, as in TCPStream.                                   *)
(***************************************************************************)
Ends == {"open", "done", "limited", "cut"}

Calls == [fed : Nat, end : Ends, late : BOOLEAN]

Obs == [calls : [Analyzers -> Calls], seen : Props, flows : SUBSET Flows]

NewObs == [calls |-> [a \in Analyzers |-> [fed |-> 0, end |-> "open", late |-> FALSE]],
           seen |-> [a \in Analyzers |-> {}], flows |-> {}]

ObsOf(f, d) == IF MatchFlow(streams[IDOf[f]], f, d) THEN obs[IDOf[f]] ELSE NewObs

\* Feed, Close(true) at the limit, and Close(false) after a final verdict.
ObserveFeed(o, f, s, n, out, modified) ==
  LET fed == FeedEntries(s, n, out)
      cut == /\ Acts(s, n, out, modified)
             /\ actionToUDPVerdict(ActionOn(fed, modified)).final
  IN  [calls |-> [a \in Analyzers |->
         IF a \notin s.active THEN o.calls[a]
         ELSE [fed  |-> IF HasLimit(a) THEN o.calls[a].fed + n ELSE 0,
               end  |-> IF Exhausted(s, a, n) THEN "limited"
                        ELSE IF out[a].done THEN "done"
                        ELSE IF cut THEN "cut" ELSE o.calls[a].end,
               late |-> o.calls[a].late \/ o.calls[a].end # "open"]],
       seen |-> fed.props, flows |-> o.flows \cup {f}]

\* Faulty: a stream that falls out of the list stays in the map.
KeepEvicted(id, s, o) ==
  /\ recency' = Use(recency, id)
  /\ streams' = [streams EXCEPT ![id] = s]
  /\ obs' = [obs EXCEPT ![id] = o]

\* The cache after stream s, with history o, was put or found under id; a
\* stream that falls out is gone, its analyzers as they are.
Keep(id, s, o) ==
  LET order == Use(recency, id)
  IN  /\ recency' = order
      /\ streams' = [i \in IDs |-> IF i = id THEN s
                       ELSE IF i \in Cached(order) THEN streams[i] ELSE NoStream]
      /\ obs' = [i \in IDs |-> IF i = id THEN o
                   ELSE IF i \in Cached(order) THEN obs[i] ELSE NewObs]
-----------------------------------------------------------------------------
Init ==
  /\ ruleset \in Rulesets
  /\ streams = [i \in IDs |-> NoStream]
  /\ recency = <<>>
  /\ given \in [flow : Flows, verdict : {"Accept"}, packet : {FALSE}]
  /\ begun = {}
  /\ obs = [i \in IDs |-> NewObs]
  /\ leftOpen = FALSE

\* The first packet of a flow goes in its original direction.
Sent(f, d) ==
  /\ d = "reply" => f \in begun
  /\ begun' = begun \cup {f}

\* Faulty: the replaced stream is dropped as it is.
NotClosed(s) == s

\* udpStream.Close; nobody can see the properties of the stream any more.
Close(s) == [s EXCEPT !.active = {}, !.done = @ \cup s.active]

\* MatchWithContext closes the stream of another flow it finds under the ID of
\* the packet, before it puts the packet's own stream there.
Replace(f, d) ==
  LET old == streams[IDOf[f]]
  IN  leftOpen' = (leftOpen \/ (old.live /\ ~MatchFlow(old, f, d) /\ Close(old).active # {}))

\* Faulty: Accept refuses the packet and leaves its context alone.
ReplayNothing(f, d) ==
  /\ Sent(f, d)
  /\ ~Accept(StreamOf(f, d))
  /\ Keep(IDOf[f], StreamOf(f, d), ObsOf(f, d))
  /\ given' = Handled(f, "Accept", FALSE, FALSE)
  /\ Replace(f, d)
  /\ UNCHANGED ruleset

\* A packet of a stream that has nothing left to inspect: its verdict is used
\* again, with no payload.
Replay(f, d) ==
  /\ Sent(f, d)
  /\ ~Accept(StreamOf(f, d))
  /\ Keep(IDOf[f], StreamOf(f, d), ObsOf(f, d))
  /\ given' = Handled(f, StreamOf(f, d).last, FALSE, FALSE)
  /\ Replace(f, d)
  /\ UNCHANGED ruleset

\* MatchWithContext for a packet that is inspected: n bytes of payload, to
\* which the active analyzers answer out.
Inspect(f, d, n, out, modified, serialised) ==
  LET s == StreamOf(f, d)
  IN  /\ Sent(f, d)
      /\ Accept(s)
      /\ Keep(IDOf[f], Feed(s, n, out, modified),
              ObserveFeed(ObsOf(f, d), f, s, n, out, modified))
      /\ given' = Handled(f, FeedVerdict(s, n, out, modified), modified, serialised)
      /\ Replace(f, d)
      /\ UNCHANGED ruleset

\* udpStreamFactory.UpdateRuleset, called by the goroutine that reloads.
UpdateRuleset(r) ==
  /\ ruleset' = r
  /\ UNCHANGED <<streams, recency, given, begun, obs, leftOpen>>

Next ==
  \/ \E f \in Flows, d \in Dirs :
       \/ Replay(f, d)
       \/ \E n \in 0..MaxData, out \in [StreamOf(f, d).active -> Outcome],
             modified, serialised \in BOOLEAN :
            Inspect(f, d, n, out, modified, serialised)
  \/ \E r \in Rulesets : UpdateRuleset(r)

Spec == Init /\ [][Next]_vars
-----------------------------------------------------------------------------
\* Every variable keeps its shape; the cache lists exactly its live streams,
\* each once, and never more than MaxStreams of them.
TypeOK ==
  /\ ruleset \in Rulesets
  /\ streams \in [IDs -> Stream]
  /\ recency \in Seq(IDs) /\ Len(recency) <= MaxStreams
  /\ \A j, k \in 1..Len(recency) : recency[j] = recency[k] => j = k
  /\ Cached(recency) = {i \in IDs : streams[i].live}
  /\ given \in [flow : Flows, verdict : Verdict, packet : BOOLEAN]
  /\ begun \subseteq Flows
  /\ obs \in [IDs -> Obs]
  /\ leftOpen \in BOOLEAN

ProtocolKept(s, o) ==
  /\ \A a \in Analyzers : ~o.calls[a].late
  /\ s.active = {a \in RuleAnalyzers[s.ruleset] : o.calls[a].end = "open"}
  /\ s.done = RuleAnalyzers[s.ruleset] \ s.active

\* Feed gives whole packets, so an analyzer may get more than its limit, but
\* only with its last packet: one still active is below it, and its quota is
\* what is missing.
LimitKept(s, o) ==
  \A a \in s.active : HasLimit(a) => /\ o.calls[a].fed < Limit[a]
                                     /\ o.calls[a].fed + s.quota[a] = Limit[a]

\* An entry that has finished, by Feed's done, by its limit or by Close, is
\* never fed or closed again; one that has not is active, and below its limit.
EntryProtocol ==
  \A i \in IDs : streams[i].live => /\ ProtocolKept(streams[i], obs[i])
                                    /\ LimitKept(streams[i], obs[i])

RulesSay(i) == Match[streams[i].ruleset][obs[i].seen]

\* On the properties as last reported the rules have nothing final to say about
\* a stream under inspection, and do not contradict what a settled one replays:
\* only what they block is blocked, and what they block is not accepted.
NothingMissed ==
  \A i \in IDs : (streams[i].live /\ ~streams[i].virgin) =>
    IF Accept(streams[i]) THEN RulesSay(i) \notin {"allow", "block"}
    ELSE /\ streams[i].last = "DropStream" <=> RulesSay(i) = "block"
         /\ streams[i].last = "Drop" => RulesSay(i) = "drop"
         /\ streams[i].last = "AcceptModify" => RulesSay(i) = "modify"
         /\ streams[i].last # "Accept"

\* Analyzers are only ever fed the packets of one flow, even when two flows
\* share an ID, and a stream displaced by another flow is closed first.
Isolation ==
  /\ \A i \in IDs : streams[i].live => obs[i].flows \subseteq {streams[i].flow}
  /\ ~leftOpen

\* While every flow that was sent has an ID of its own and a place in the cache,
\* each stream has the direction of its flow's first packet, so that Feed's rev
\* tells analyzers the truth, however long the flows are and however they mix.
DirectionKept ==
  LET room == /\ Cardinality(begun) <= MaxStreams
              /\ \A f, g \in begun : IDOf[f] = IDOf[g] => f = g
  IN  room => \A i \in IDs : streams[i].live => streams[i].dir = "orig"

\* Once settled, a stream changes no more until it is forgotten or displaced,
\* and its verdict is what every packet of its flow gets until then.
StickyVerdict ==
  [][\A i \in IDs : Settled(streams[i]) =>
       /\ \/ streams'[i] = streams[i]
          \/ ~streams'[i].live
          \/ streams'[i].flow # streams[i].flow
       /\ (given' # given /\ IDOf[given'.flow] = i /\ given'.flow = streams[i].flow)
            => given'.verdict = streams[i].last]_vars

-----------------------------------------------------------------------------
\* io/interface.go of VerdictAcceptModify: "is like VerdictAccept, but replaces
\* the packet with a new one"; so whoever gives it has a new one.
ModifyHasPacket == given.verdict = "AcceptModify" => given.packet

\* ruleset/interface.go of ActionDrop: "the current packet should be dropped,
\* but the stream should be allowed to continue"; so no stream replays it.
DropDoesNotBlock == \A i \in IDs : Settled(streams[i]) => streams[i].last # "Drop"
=============================================================================
