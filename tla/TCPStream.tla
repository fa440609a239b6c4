----------------------------- MODULE TCPStream ------------------------------
(***************************************************************************)
(* The TCP half of one worker (engine/tcp.go): the stream factory with its *)
(* ruleset, the pool of streams the assembler keeps, and the life of each  *)
(* stream, from its first packet through its analyzers and the matching of *)
(* the rules to the verdict that is replayed for all later packets.        *)
(*                                                                         *)
(* A step is the handling of one packet (worker.handleTCP), or a reload of *)
(* the rules, which the signal goroutine may perform between two packets   *)
(* (factory.UpdateRuleset; the mutex makes both atomic).  gopacket's       *)
(* assembler is outside src/: for a packet it asks the stream whether it   *)
(* wants it (Accept) and then delivers at most one scatter-gather, or      *)
(* keeps the bytes, or ignores them.  The bytes themselves are abstracted  *)
(* to their number; what an analyzer makes of them is any outcome its      *)
(* interface allows.                                                       *)
(***************************************************************************)
EXTENDS Verdicts, Integers

CONSTANTS
  Flows,         \* TCP 4-tuples whose packets reach this worker
  Analyzers,     \* names of the TCP analyzers
  Limit,         \* Limit[a]: byte limit of analyzer a, 0 when it has none
  Rulesets,      \* rulesets that may be loaded
  RuleAnalyzers, \* RuleAnalyzers[r]: the TCP analyzers ruleset r asks for
  Marks,         \* what an analyzer may report in its properties
  Updates,       \* property updates an analyzer's Feed returns
  CloseUpdates,  \* property updates its Close returns
  Match,         \* Match[r][p]: the action of ruleset r on properties p
  MaxData        \* bound on the bytes of one scatter-gather

Props == [Analyzers -> SUBSET Marks]

ASSUME ConstantsAssumption ==
  /\ Limit \in [Analyzers -> Nat]
  /\ RuleAnalyzers \in [Rulesets -> SUBSET Analyzers]
  /\ Updates \cup CloseUpdates \subseteq [type : PropUpdateTypes, m : SUBSET Marks]
  /\ Match \in [Rulesets -> [Props -> Actions]]
  /\ MaxData \in Nat

Dirs == {"c2s", "s2c"}

\* What one Feed of an analyzer returns, and what its Close would return if
\* the stream calls it while handling the same packet.
Outcome == [update : Updates, done : BOOLEAN, close : CloseUpdates]

VARIABLES
  ruleset,   \* tcpStreamFactory.Ruleset
  pool,      \* the tcpStream of each flow the assembler knows
  closed,    \* directions of each flow the assembler has seen the end of
  ctx,       \* flow and verdict of the packet handled last (tcpContext)
  obs        \* history: the calls each analyzer of the stream has received,
             \* and the properties reported while analyzers were running

vars == <<ruleset, pool, closed, ctx, obs>>

-----------------------------------------------------------------------------
Stream == [live : BOOLEAN, virgin : BOOLEAN, ruleset : Rulesets,
           active : SUBSET Analyzers, done : SUBSET Analyzers,
           quota : [Analyzers -> Nat], props : Props, last : tcpVerdict]

\* tcpStreamFactory.New: the stream keeps the ruleset it is born with.
New(r) ==
  [live |-> TRUE, virgin |-> TRUE, ruleset |-> r,
   active |-> RuleAnalyzers[r], done |-> {},
   quota |-> Limit, props |-> [a \in Analyzers |-> {}], last |-> "Accept"]

\* A flow the pool does not know.
NoStream(r) == [New(r) EXCEPT !.live = FALSE]

\* tcpStream.Accept: streams with work left take the packet.
Accept(s) == s.active # {} \/ s.virgin

Settled(s) == s.live /\ ~Accept(s)

\* The stream a packet of f is given to; an unknown flow gets a new one.
StreamOf(f) == IF pool[f].live THEN pool[f] ELSE New(ruleset)

-----------------------------------------------------------------------------
HasLimit(a) == Limit[a] > 0

\* Faulty: the scatter-gather is not cut to the quota.
WholeSegment(s, a, n) == n

\* The bytes of a scatter-gather of n bytes that feedEntry gives analyzer a.
FedBytes(s, a, n) == IF HasLimit(a) /\ n > s.quota[a] THEN s.quota[a] ELSE n

QuotaLeft(s, a, n) == IF HasLimit(a) THEN s.quota[a] - FedBytes(s, a, n)
                                     ELSE s.quota[a]

Exhausted(s, a, n) == HasLimit(a) /\ QuotaLeft(s, a, n) <= 0

\* feedEntry's third result.
EntryDone(s, a, n, o) == o.done \/ Exhausted(s, a, n)

\* The properties of a after feedEntry's update and closeUpdate are applied.
EntryProps(s, a, n, o) ==
  LET fed == processPropUpdate(s.props[a], o.update)
  IN  IF Exhausted(s, a, n) THEN processPropUpdate(fed, o.close) ELSE fed

\* Faulty: the update of the Close at the limit is not looked at.
FeedUpdated(s, a, n, o) == Changes(o.update)

EntryUpdated(s, a, n, o) ==
  Changes(o.update) \/ (Exhausted(s, a, n) /\ Changes(o.close))

\* The loop of ReassembledSG over the active entries.
FeedEntries(s, n, out) ==
  LET ended == {a \in s.active : EntryDone(s, a, n, out[a])}
  IN  [s EXCEPT
         !.active = @ \ ended,
         !.done   = @ \cup ended,
         !.quota  = [a \in Analyzers |->
                       IF a \in s.active THEN QuotaLeft(s, a, n) ELSE @[a]],
         !.props  = [a \in Analyzers |->
                       IF a \in s.active THEN EntryProps(s, a, n, out[a])
                                         ELSE @[a]]]

\* Faulty: the closed entries stay in the list of active ones.
CloseWithoutReset(s, out) ==
  [s EXCEPT !.done = @ \cup s.active]

\* closeActiveEntries: Close(false) on what is left, whose updates still
\* reach the properties but are matched no more.
closeActiveEntries(s, out) ==
  [s EXCEPT
     !.active = {},
     !.done   = @ \cup s.active,
     !.props  = [a \in Analyzers |->
                   IF a \in s.active THEN processPropUpdate(@[a], out[a].close)
                                     ELSE @[a]]]

Updated(s, n, out) == \E a \in s.active : EntryUpdated(s, a, n, out[a])

\* The action Match returns for the properties just fed.
ActionOn(s) == Match[s.ruleset][s.props]

\* Whether the rules are consulted and what they say ends the inspection.
Decides(s, n, out) ==
  /\ Updated(s, n, out) \/ s.virgin
  /\ ActionOn(FeedEntries(s, n, out)) \notin {"maybe", "modify"}

\* ReassembledSG on stream s: n bytes, analyzers answering out.
ReassembledSG(s, n, out) ==
  LET fed == [FeedEntries(s, n, out) EXCEPT !.virgin = FALSE]
  IN  IF Decides(s, n, out)
      THEN [closeActiveEntries(fed, out) EXCEPT
              !.last = actionToTCPVerdict(ActionOn(fed))]
      ELSE IF fed.active = {} THEN [fed EXCEPT !.last = "AcceptStream"]
                              ELSE fed

\* Faulty: the verdict is kept for later packets and not given to this one.
NotThisPacket(s, n, out) == "Accept"

\* The verdict ReassembledSG leaves in the context, which came in as Accept.
SGVerdict(s, n, out) ==
  LET after == ReassembledSG(s, n, out)
  IN  IF after.active = {} THEN after.last ELSE "Accept"
-----------------------------------------------------------------------------
(***************************************************************************)
(* History.  Per analyzer of a stream: how much it was fed (when limited), *)
(* how its service ended, and whether it was called after that end.        *)
(***************************************************************************)
Ends == {"open", "done", "limited", "cut"}

Calls == [fed : Nat, end : Ends, late : BOOLEAN]

NoCalls == [a \in Analyzers |-> [fed |-> 0, end |-> "open", late |-> FALSE]]

Obs == [calls : [Analyzers -> Calls], seen : Props]

NewObs == [calls |-> NoCalls, seen |-> [a \in Analyzers |-> {}]]

ObsOf(f) == IF pool[f].live THEN obs[f] ELSE NewObs

\* Feed (and Close(true) at the limit) on the analyzers of s.active.
ObserveFeed(c, s, n, out) ==
  [a \in Analyzers |->
     IF a \notin s.active THEN c[a]
     ELSE [fed  |-> IF HasLimit(a) THEN c[a].fed + FedBytes(s, a, n) ELSE 0,
           end  |-> IF Exhausted(s, a, n) THEN "limited"
                    ELSE IF out[a].done THEN "done" ELSE c[a].end,
           late |-> c[a].late \/ c[a].end # "open"]]

\* Close(false) on the analyzers of s.active.
ObserveClose(o, s) ==
  [calls |-> [a \in Analyzers |->
     IF a \notin s.active THEN o.calls[a]
     ELSE [fed  |-> o.calls[a].fed,
           end  |-> "cut",
           late |-> o.calls[a].late \/ o.calls[a].end # "open"]],
   seen |-> o.seen]

ObserveSG(o, s, n, out) ==
  LET fed   == FeedEntries(s, n, out)
      seen  == [calls |-> ObserveFeed(o.calls, s, n, out), seen |-> fed.props]
  IN  IF Decides(s, n, out) THEN ObserveClose(seen, fed) ELSE seen

-----------------------------------------------------------------------------
Init ==
  /\ ruleset \in Rulesets
  /\ pool = [f \in Flows |-> NoStream(ruleset)]
  /\ closed = [f \in Flows |-> {}]
  /\ ctx \in [flow : Flows, verdict : {"Accept"}]
  /\ obs = [f \in Flows |-> NewObs]

\* Faulty: Accept refuses the packet and leaves its context alone.
ReplayNothing(f) ==
  /\ ~Accept(StreamOf(f))
  /\ ctx' = [flow |-> f, verdict |-> "Accept"]
  /\ UNCHANGED <<ruleset, pool, closed, obs>>

\* A packet of a stream that has nothing left to inspect: Accept refuses it
\* and the verdict of the stream is used again.
Replay(f) ==
  /\ ~Accept(StreamOf(f))
  /\ ctx' = [flow |-> f, verdict |-> StreamOf(f).last]
  /\ UNCHANGED <<ruleset, pool, closed, obs>>

\* A packet the assembler takes but does not deliver: out of order, or of a
\* direction already closed.  It may be the first of its flow.
Hold(f) ==
  /\ Accept(StreamOf(f))
  /\ pool' = [pool EXCEPT ![f] = StreamOf(f)]
  /\ obs' = [obs EXCEPT ![f] = ObsOf(f)]
  /\ ctx' = [flow |-> f, verdict |-> "Accept"]
  /\ UNCHANGED <<ruleset, closed>>

\* A packet that makes the assembler deliver n bytes of direction d, to which
\* the active analyzers answer out.
Deliver(f, d, n, out) ==
  /\ Accept(StreamOf(f))
  /\ d \notin closed[f]
  /\ ctx' = [flow |-> f, verdict |-> SGVerdict(StreamOf(f), n, out)]
  /\ UNCHANGED ruleset

\* The connection goes on, or only one of its directions ends.
Reassembled(f, d, n, out) ==
  /\ Deliver(f, d, n, out)
  /\ pool' = [pool EXCEPT ![f] = ReassembledSG(StreamOf(f), n, out)]
  /\ obs' = [obs EXCEPT ![f] = ObserveSG(ObsOf(f), StreamOf(f), n, out)]
  /\ \/ UNCHANGED closed
     \/ closed[f] = {} /\ closed' = [closed EXCEPT ![f] = {d}]

\* The second direction ends: ReassemblyComplete closes what is still active
\* and the assembler forgets the stream.
ReassemblyComplete(f, d, n, out) ==
  /\ Deliver(f, d, n, out)
  /\ closed[f] = Dirs \ {d}
  /\ LET after == ReassembledSG(StreamOf(f), n, out)
     IN  /\ pool' = [pool EXCEPT ![f] =
                       [closeActiveEntries(after, out) EXCEPT !.live = FALSE]]
         /\ obs' = [obs EXCEPT ![f] =
                      ObserveClose(ObserveSG(ObsOf(f), StreamOf(f), n, out), after)]
  /\ closed' = [closed EXCEPT ![f] = {}]

\* tcpStreamFactory.UpdateRuleset, called by the goroutine that reloads.
UpdateRuleset(r) ==
  /\ ruleset' = r
  /\ UNCHANGED <<pool, closed, ctx, obs>>

Next ==
  \/ \E f \in Flows :
       \/ Replay(f)
       \/ Hold(f)
       \/ \E d \in Dirs, n \in 0..MaxData, out \in [StreamOf(f).active -> Outcome] :
            Reassembled(f, d, n, out) \/ ReassemblyComplete(f, d, n, out)
  \/ \E r \in Rulesets : UpdateRuleset(r)

Spec == Init /\ [][Next]_vars
-----------------------------------------------------------------------------
\* Every variable keeps its shape; in particular a quota never goes below
\* zero, although feedEntry subtracts from it after every scatter-gather.
TypeOK ==
  /\ ruleset \in Rulesets
  /\ pool \in [Flows -> Stream]
  /\ closed \in [Flows -> {{}} \cup {{d} : d \in Dirs}]
  /\ ctx \in [flow : Flows, verdict : tcpVerdict]
  /\ obs \in [Flows -> Obs]

\* For stream s with history o: no entry that has finished is called again,
\* and the two lists say exactly who is still to be fed.
ProtocolKept(s, o) ==
  /\ \A a \in Analyzers : ~o.calls[a].late
  /\ s.active = {a \in RuleAnalyzers[s.ruleset] : o.calls[a].end = "open"}
  /\ s.done = RuleAnalyzers[s.ruleset] \ s.active

\* An entry that has finished, by Feed's done, by its limit or by Close, is
\* never fed or closed again (the contract of analyzer.TCPStream).
EntryProtocol == \A f \in Flows : ProtocolKept(pool[f], obs[f])

WithinLimit(s, o) ==
  \A a \in Analyzers : HasLimit(a) =>
    /\ o.calls[a].fed <= Limit[a]
    /\ a \in s.active => o.calls[a].fed < Limit[a]

\* Over the whole life of a stream an analyzer with a limit gets at most that
\* many bytes (Analyzer.Limit), and one still active has not got them all.
LimitRespected == \A f \in Flows : WithinLimit(pool[f], obs[f])

HasFinalVerdict(s) ==
  s.live => IF Accept(s) THEN s.last = "Accept" ELSE s.last \in StreamVerdicts

\* Accept only ever replays a verdict that ends the stream: no stream stops
\* being inspected without one, and none is inspected that has one.
SettledIsFinal == \A f \in Flows : HasFinalVerdict(pool[f])

\* What the rules of s say about the properties last reported.
RulesSay(s, o) == Match[s.ruleset][o.seen]

DecisionUpToDate(s, o) ==
  s.live /\ ~s.virgin =>
    /\ s.last = "Accept"       => RulesSay(s, o) \in {"maybe", "modify"}
    /\ s.last = "AcceptStream" => RulesSay(s, o) \notin {"block", "drop"}
    /\ s.last = "DropStream"   => RulesSay(s, o) \in {"block", "drop"}

GivenUpByAll(s, o) ==
  s.live /\ s.last = "AcceptStream" /\ RulesSay(s, o) # "allow" =>
    \A a \in RuleAnalyzers[s.ruleset] : o.calls[a].end \in {"done", "limited"}

\* The rules are asked again whenever the properties change while analyzers
\* run: on the properties as last reported they still have no decision for a
\* stream under inspection, and for a settled one the decision it carries.  One
\* accepted although they never said "allow" was given up by every analyzer:
\* none of them was closed early.
NothingMissed ==
  \A f \in Flows : DecisionUpToDate(pool[f], obs[f]) /\ GivenUpByAll(pool[f], obs[f])

\* Once settled, a stream changes no more, and its verdict is what every later
\* packet of the flow gets, whatever ruleset has been loaded since.
StickyVerdict ==
  [][\A f \in Flows : Settled(pool[f]) =>
       /\ pool'[f] = pool[f]
       /\ (ctx' # ctx /\ ctx'.flow = f) => ctx'.verdict = pool[f].last]_vars

\* The packets of a flow are given the verdicts StreamVerdict allows.
judged == [f \in Flows |-> IF Settled(pool[f]) THEN pool[f].last ELSE "open"]

Promise == INSTANCE StreamVerdict WITH judged <- judged, given <- ctx

ImplementsStreamVerdict == Promise!Spec
=============================================================================
