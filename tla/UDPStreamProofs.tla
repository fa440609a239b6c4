-------------------------- MODULE UDPStreamProofs ---------------------------
(***************************************************************************)
(* Proofs about UDPStream, for any flows, conntrack IDs, analyzers,        *)
(* limits, rulesets, payloads and any capacity of the cache.  As in        *)
(* TCPStreamProofs, most rests on one fact about one stream and its        *)
(* history (StreamInv) that Feed preserves; the rest is about the cache:   *)
(* what it lists is what is alive, and nothing falls out while there is    *)
(* room for every flow.                                                    *)
(***************************************************************************)
EXTENDS UDPStream, FiniteSetTheorems, TLAPS

\* What the rules say of the properties last reported fits the stream's state.
DecisionKept(s, o) ==
  LET says == Match[s.ruleset][o.seen]
  IN  ~s.virgin =>
        IF Accept(s) THEN says \notin {"allow", "block"}
        ELSE /\ s.last = "DropStream" <=> says = "block"
             /\ s.last = "Drop" => says = "drop"
             /\ s.last = "AcceptModify" => says = "modify"
             /\ s.last # "Accept"

\* A stream and its history.  While it is inspected its properties are those
\* its rules were asked about.
StreamInv(s, o) ==
  /\ s \in Stream
  /\ o \in Obs
  /\ ProtocolKept(s, o)
  /\ LimitKept(s, o)
  /\ Accept(s) => s.props = o.seen
  /\ DecisionKept(s, o)
  /\ o.flows \subseteq {s.flow}

\* Every flow that was sent has an ID of its own and a place in the cache.
Room ==
  /\ Cardinality(begun) <= MaxStreams
  /\ \A f, g \in begun : IDOf[f] = IDOf[g] => f = g

\* A cached stream is of a flow that was sent, under its ID; with room for all,
\* each flow that was sent has its first stream.
CacheInv ==
  /\ IsFiniteSet(begun)
  /\ \A i \in IDs : streams[i].live => /\ streams[i].flow \in begun
                                       /\ IDOf[streams[i].flow] = i
  /\ Room => \A f \in begun : LET s == streams[IDOf[f]]
                              IN  s.live /\ s.flow = f /\ s.dir = "orig"

IInv ==
  /\ TypeOK
  /\ ~leftOpen
  /\ CacheInv
  /\ \A i \in IDs : streams[i].live => StreamInv(streams[i], obs[i])

-----------------------------------------------------------------------------
(* The cache. *)

\* The list of the cache.
Listing(order) ==
  /\ order \in Seq(IDs) /\ Len(order) <= MaxStreams
  /\ \A j, k \in 1..Len(order) : order[j] = order[k] => j = k

\* Use keeps the list one, with the ID used; when there is room none falls out.
LEMMA UseListing ==
  ASSUME NEW order, Listing(order), NEW id \in IDs
  PROVE  /\ Listing(Use(order, id))
         /\ id \in Cached(Use(order, id))
         /\ Cached(Use(order, id)) \subseteq Cached(order) \cup {id}
         /\ id \in Cached(order) \/ Len(order) < MaxStreams =>
              Cached(order) \subseteq Cached(Use(order, id))
<1> USE ConstantsAssumption DEF Listing
<1> DEFINE L == Len(order)
           place == IF id \in Cached(order) THEN CHOOSE k \in 1..L : order[k] = id
                    ELSE IF L < MaxStreams THEN L + 1 ELSE L
           size == IF place > L THEN place ELSE L
           new == [k \in 1..size |->
                     IF k = 1 THEN id ELSE IF k <= place THEN order[k - 1] ELSE order[k]]
<1>1. Use(order, id) = new
  BY DEF Use
<1>2. L \in Nat /\ L <= MaxStreams /\ MaxStreams \in Nat /\ MaxStreams > 0
      /\ \A k \in 1..L : order[k] \in IDs
  OBVIOUS
<1>3. id \in Cached(order) => place \in 1..L /\ order[place] = id
  BY DEF Cached
<1>4. id \notin Cached(order) => (place = L + 1 /\ L < MaxStreams) \/ (place = L /\ L = MaxStreams)
  BY <1>2
<1>5. /\ place \in Nat /\ place > 0 /\ size \in Nat /\ size <= MaxStreams /\ L <= size
      /\ place <= size /\ place <= L + 1 /\ (size = L \/ (size = L + 1 /\ place = L + 1))
  <2>1. CASE id \in Cached(order)
    BY <1>2, <1>3, <2>1
  <2>2. CASE id \notin Cached(order)
    BY <1>2, <1>4, <2>2
  <2> QED
    BY <2>1, <2>2
<1>6. \A k \in 1..L : order[k] = id => id \in Cached(order) /\ k = place
  BY <1>3 DEF Cached
<1> HIDE DEF L, place, size
<1>7. \A k \in 1..size : /\ k = 1 => new[k] = id
                         /\ k # 1 /\ k <= place => k - 1 \in 1..L /\ new[k] = order[k - 1]
                                                   /\ k - 1 # place
                         /\ k # 1 /\ ~(k <= place) => k \in 1..L /\ new[k] = order[k] /\ k # place
  BY <1>2, <1>5
<1> HIDE DEF new
<1>8. \A k \in 1..size : new[k] \in IDs
  BY <1>2, <1>7
<1>9. new \in Seq(IDs) /\ Len(new) = size
  <2>1. new \in [1..size -> IDs]
    BY <1>8 DEF new
  <2> QED
    BY <1>5, <2>1
<1>10. ASSUME NEW j \in 1..size, NEW k \in 1..size, new[j] = new[k] PROVE j = k
  <2>1. \A x \in 1..size : x # 1 => new[x] # id
    BY <1>6, <1>7
  <2>2. CASE j = 1 \/ k = 1
    BY <1>7, <1>10, <2>1, <2>2
  <2>3. CASE j # 1 /\ k # 1
    <3>1. \A x, y \in 1..L : order[x] = order[y] => x = y
      BY DEF L
    <3>2. CASE j <= place /\ k <= place
      <4>1. j - 1 = k - 1
        BY <1>7, <1>10, <2>3, <3>1, <3>2
      <4> QED
        BY <4>1
    <3>3. CASE j <= place /\ ~(k <= place)
      <4>1. j - 1 = k
        BY <1>7, <1>10, <2>3, <3>1, <3>3
      <4> QED
        BY <1>5, <3>3, <4>1
    <3>4. CASE ~(j <= place) /\ k <= place
      <4>1. j = k - 1
        BY <1>7, <1>10, <2>3, <3>1, <3>4
      <4> QED
        BY <1>5, <3>4, <4>1
    <3>5. CASE ~(j <= place) /\ ~(k <= place)
      BY <1>7, <1>10, <2>3, <3>1, <3>5
    <3> QED
      BY <3>2, <3>3, <3>4, <3>5
  <2> QED
    BY <2>2, <2>3
<1>11. id \in Cached(new)
  BY <1>5, <1>7, <1>9 DEF Cached
<1>12. Cached(new) \subseteq Cached(order) \cup {id}
  <2>1. \A k \in 1..size : new[k] = id \/ \E j \in 1..L : new[k] = order[j]
    BY <1>7
  <2> QED
    BY <1>9, <2>1 DEF Cached, L
<1>13. ASSUME id \in Cached(order) \/ L < MaxStreams PROVE Cached(order) \subseteq Cached(new)
  <2> SUFFICES ASSUME NEW j \in 1..L PROVE \E k \in 1..size : new[k] = order[j]
    BY <1>9 DEF Cached, L
  <2>1. CASE j < place
    <3>1. j + 1 \in 1..size /\ j + 1 # 1 /\ j + 1 <= place /\ (j + 1) - 1 = j
      BY <1>2, <1>5, <2>1
    <3> QED
      BY <1>7, <3>1
  <2>2. CASE j = place
    <3>1. order[j] = id
      BY <1>3, <1>4, <1>13, <1>2, <2>2
    <3> QED
      BY <1>5, <1>7, <3>1
  <2>3. CASE j > place
    <3>1. j \in 1..size /\ j # 1 /\ ~(j <= place)
      BY <1>2, <1>5, <2>3
    <3> QED
      BY <1>7, <3>1
  <2> QED
    BY <1>2, <1>5, <2>1, <2>2, <2>3
<1> QED
  BY <1>1, <1>5, <1>9, <1>10, <1>11, <1>12, <1>13 DEF L

-----------------------------------------------------------------------------
(* One stream. *)

\* processPropUpdate keeps to the marks, and an update that is no change
\* changes nothing.
LEMMA PropUpdate ==
  ASSUME NEW p \in SUBSET Marks,
         NEW u \in [type : PropUpdateTypes, m : SUBSET Marks]
  PROVE  /\ processPropUpdate(p, u) \in SUBSET Marks
         /\ ~Changes(u) => processPropUpdate(p, u) = p
  BY DEF processPropUpdate, Changes, PropUpdateTypes

LEMMA OutcomeTypes ==
  ASSUME NEW r \in Outcome
  PROVE  /\ r.update \in [type : PropUpdateTypes, m : SUBSET Marks]
         /\ r.close \in [type : PropUpdateTypes, m : SUBSET Marks]
         /\ r.done \in BOOLEAN
  BY ConstantsAssumption DEF Outcome

\* A stream just born satisfies the invariant with an empty history.
LEMMA NewStreamInv ==
  ASSUME NEW r \in Rulesets, NEW f \in Flows, NEW d \in Dirs
  PROVE  /\ StreamInv(New(r, f, d), NewObs)
         /\ New(r, f, d).live /\ New(r, f, d).virgin /\ New(r, f, d).flow = f
         /\ New(r, f, d).dir = d
<1> USE ConstantsAssumption
<1> DEFINE s == New(r, f, d)
<1>1. RuleAnalyzers[r] \subseteq Analyzers
  OBVIOUS
<1>2. [a \in Analyzers |-> {}] \in Props
  BY DEF Props
<1>3. s \in Stream
  BY <1>1, <1>2 DEF New, Stream, Verdict
<1>4. NewObs \in Obs
  BY <1>2 DEF NewObs, Obs, Calls, Ends
<1>5. ProtocolKept(s, NewObs)
  BY <1>1 DEF New, ProtocolKept, NewObs
<1>6. LimitKept(s, NewObs)
  BY <1>1 DEF New, LimitKept, NewObs, HasLimit
<1>7. s.live /\ s.virgin /\ s.flow = f /\ s.dir = d /\ s.props = NewObs.seen /\ NewObs.flows = {}
  BY DEF New, NewObs
<1> QED
  BY <1>3, <1>4, <1>5, <1>6, <1>7 DEF StreamInv, DecisionKept

\* What the feeding loop leaves.
LEMMA FeedEntriesFacts ==
  ASSUME NEW s \in Stream, NEW n \in Nat, NEW out \in [s.active -> Outcome]
  PROVE  LET fed == FeedEntries(s, n, out)
         IN  /\ fed \in Stream
             /\ fed.active = s.active \ {a \in s.active : EntryDone(s, a, n, out[a])}
             /\ fed.done = s.done \cup {a \in s.active : EntryDone(s, a, n, out[a])}
             /\ fed.live = s.live /\ fed.flow = s.flow /\ fed.dir = s.dir
             /\ fed.virgin = s.virgin /\ fed.ruleset = s.ruleset /\ fed.last = s.last
             /\ \A a \in s.active : HasLimit(a) => fed.quota[a] = s.quota[a] - n
             /\ ~Updated(s, n, out) => fed.props = s.props
<1> USE ConstantsAssumption
<1> DEFINE ended == {a \in s.active : EntryDone(s, a, n, out[a])}
           fed == FeedEntries(s, n, out)
           quota == [a \in Analyzers |->
                       IF a \in s.active /\ HasLimit(a) THEN s.quota[a] - n ELSE s.quota[a]]
           props == [a \in Analyzers |->
                       IF a \in s.active THEN EntryProps(s, a, n, out[a]) ELSE s.props[a]]
<1>1. fed = [s EXCEPT !.active = s.active \ ended, !.done = s.done \cup ended,
                      !.quota = quota, !.props = props]
  BY DEF FeedEntries, Stream
<1>2. s.active \subseteq Analyzers /\ s.done \subseteq Analyzers /\ s.quota \in [Analyzers -> Int]
      /\ s.props \in Props
  BY DEF Stream
<1>3. quota \in [Analyzers -> Int]
  BY <1>2
<1>4. ASSUME NEW a \in s.active
      PROVE  /\ EntryProps(s, a, n, out[a]) \in SUBSET Marks
             /\ ~EntryUpdated(s, a, n, out[a]) => EntryProps(s, a, n, out[a]) = s.props[a]
  <2>1. out[a] \in Outcome /\ s.props[a] \in SUBSET Marks
    BY <1>2 DEF Props
  <2> DEFINE first == processPropUpdate(s.props[a], out[a].update)
  <2>2. first \in SUBSET Marks /\ (~Changes(out[a].update) => first = s.props[a])
    BY <2>1, OutcomeTypes, PropUpdate
  <2> HIDE DEF first
  <2>3. /\ processPropUpdate(first, out[a].close) \in SUBSET Marks
        /\ ~Changes(out[a].close) => processPropUpdate(first, out[a].close) = first
    BY <2>1, <2>2, OutcomeTypes, PropUpdate
  <2> QED
    BY <2>2, <2>3 DEF EntryProps, EntryUpdated, first
<1>5. props \in Props
  <2>1. \A a \in Analyzers : s.props[a] \in SUBSET Marks
    BY <1>2 DEF Props
  <2> QED
    BY <1>4, <2>1 DEF Props
<1>6. ~Updated(s, n, out) => props = s.props
  <2> SUFFICES ASSUME ~Updated(s, n, out) PROVE props = s.props
    OBVIOUS
  <2>1. \A a \in s.active : EntryProps(s, a, n, out[a]) = s.props[a]
    BY <1>4 DEF Updated
  <2>2. s.props = [a \in Analyzers |-> s.props[a]]
    BY <1>2 DEF Props
  <2> QED
    BY <2>1, <2>2
<1>7. \A a \in s.active : HasLimit(a) => quota[a] = s.quota[a] - n
  BY <1>2
<1>8. s.active \ ended \in SUBSET Analyzers /\ s.done \cup ended \in SUBSET Analyzers
  BY <1>2
<1> HIDE DEF ended, quota, props, fed
<1>9. fed \in Stream
  BY <1>1, <1>3, <1>5, <1>8 DEF Stream
<1>10. /\ fed.active = s.active \ ended /\ fed.done = s.done \cup ended
       /\ fed.quota = quota /\ fed.props = props
       /\ fed.live = s.live /\ fed.flow = s.flow /\ fed.dir = s.dir
       /\ fed.virgin = s.virgin /\ fed.ruleset = s.ruleset /\ fed.last = s.last
  BY <1>1 DEF Stream
<1> QED
  BY <1>6, <1>7, <1>9, <1>10 DEF ended, fed

\* Closing keeps the types; the list of the active is empty.
LEMMA CloseFacts ==
  ASSUME NEW s \in Stream, NEW T, s.active \subseteq T, NEW out \in [T -> Outcome]
  PROVE  LET after == closeActiveEntries(s, out)
         IN  /\ after \in Stream /\ after.active = {} /\ after.done = s.done \cup s.active
             /\ after.live = s.live /\ after.flow = s.flow /\ after.dir = s.dir
             /\ after.virgin = s.virgin /\ after.ruleset = s.ruleset
<1> DEFINE props == [a \in Analyzers |->
                       IF a \in s.active THEN processPropUpdate(s.props[a], out[a].close)
                                         ELSE s.props[a]]
           after == closeActiveEntries(s, out)
<1>1. after = [s EXCEPT !.active = {}, !.done = s.done \cup s.active, !.props = props]
  BY DEF closeActiveEntries, Stream
<1>2. s.active \subseteq Analyzers /\ s.done \subseteq Analyzers /\ s.props \in Props
  BY DEF Stream
<1>3. props \in Props
  <2>1. \A a \in Analyzers : s.props[a] \in SUBSET Marks
    BY <1>2 DEF Props
  <2>2. ASSUME NEW a \in s.active
        PROVE  processPropUpdate(s.props[a], out[a].close) \in SUBSET Marks
    <3>1. out[a] \in Outcome
      OBVIOUS
    <3> QED
      BY <1>2, <2>1, <3>1, OutcomeTypes, PropUpdate
  <2> QED
    BY <2>1, <2>2 DEF Props
<1>4. s.done \cup s.active \in SUBSET Analyzers
  BY <1>2
<1> HIDE DEF props, after
<1>5. after \in Stream
  BY <1>1, <1>3, <1>4 DEF Stream
<1>6. /\ after.active = {} /\ after.done = s.done \cup s.active
      /\ after.live = s.live /\ after.flow = s.flow /\ after.dir = s.dir
      /\ after.virgin = s.virgin /\ after.ruleset = s.ruleset
  BY <1>1 DEF Stream
<1> QED
  BY <1>5, <1>6 DEF after

\* What Feed leaves.
LEMMA FeedFacts ==
  ASSUME NEW s \in Stream, NEW n \in Nat, NEW out \in [s.active -> Outcome],
         NEW modified \in BOOLEAN
  PROVE  LET fed == FeedEntries(s, n, out)
             says == Match[s.ruleset][fed.props]
             acts == Acts(s, n, out, modified)
             u == actionToUDPVerdict(ActionOn(fed, modified))
             after == Feed(s, n, out, modified)
         IN  /\ after \in Stream /\ after.live = s.live /\ after.flow = s.flow
             /\ after.dir = s.dir /\ ~after.virgin /\ after.ruleset = s.ruleset
             /\ says \in Actions /\ ActionOn(fed, modified) \in {says, "maybe"}
             /\ ActionOn(fed, modified) # says => says = "modify"
             /\ IF acts /\ u.final
                THEN after.active = {} /\ after.done = fed.done \cup fed.active
                ELSE /\ after.active = fed.active /\ after.done = fed.done
                     /\ after.quota = fed.quota /\ after.props = fed.props
             /\ after.last = IF acts THEN u.v
                             ELSE IF fed.active = {} THEN "AcceptStream" ELSE s.last
<1> USE ConstantsAssumption
<1> DEFINE fed == FeedEntries(s, n, out)
           fed1 == [fed EXCEPT !.virgin = FALSE]
           says == Match[s.ruleset][fed.props]
           u == actionToUDPVerdict(ActionOn(fed, modified))
           after == Feed(s, n, out, modified)
<1>1. /\ fed \in Stream /\ fed.live = s.live /\ fed.flow = s.flow /\ fed.dir = s.dir
      /\ fed.ruleset = s.ruleset /\ fed.last = s.last /\ fed.active \subseteq s.active
  <2>1. fed.active = s.active \ {a \in s.active : EntryDone(s, a, n, out[a])}
    BY FeedEntriesFacts
  <2>2. /\ fed \in Stream /\ fed.live = s.live /\ fed.flow = s.flow /\ fed.dir = s.dir
        /\ fed.ruleset = s.ruleset /\ fed.last = s.last
    BY FeedEntriesFacts
  <2> HIDE DEF fed
  <2> QED
    BY <2>1, <2>2
<1> HIDE DEF fed
<1>2. /\ fed1 \in Stream /\ ~fed1.virgin
      /\ fed1.live = s.live /\ fed1.flow = s.flow /\ fed1.dir = s.dir
      /\ fed1.ruleset = s.ruleset /\ fed1.last = s.last
      /\ fed1.active = fed.active /\ fed1.done = fed.done
      /\ fed1.quota = fed.quota /\ fed1.props = fed.props
  BY <1>1 DEF Stream
<1>3. says \in Actions
  <2>1. s.ruleset \in Rulesets /\ fed.props \in Props
    BY <1>1 DEF Stream
  <2> QED
    BY <2>1
<1>4. /\ ActionOn(fed, modified) = ActionOn(fed1, modified)
      /\ ActionOn(fed, modified) \in {says, "maybe"}
      /\ ActionOn(fed, modified) # says => says = "modify"
      /\ ActionOn(fed, modified) \in Actions
  BY <1>1, <1>2, <1>3 DEF ActionOn, Actions
<1>5. u.v \in Verdict /\ u.final \in BOOLEAN
  BY <1>4 DEF actionToUDPVerdict, Actions, Verdict
<1> HIDE DEF fed1, says, u
<1>6. after = IF Acts(s, n, out, modified)
              THEN [(IF u.final THEN closeActiveEntries(fed1, out) ELSE fed1) EXCEPT !.last = u.v]
              ELSE IF fed1.active = {} THEN [fed1 EXCEPT !.last = "AcceptStream"] ELSE fed1
  BY <1>4 DEF Feed, fed1, fed, u
<1> HIDE DEF after
<1>7. CASE Acts(s, n, out, modified) /\ u.final
  <2> DEFINE cut == closeActiveEntries(fed1, out)
  <2>1. /\ cut \in Stream /\ cut.active = {} /\ cut.done = fed.done \cup fed.active
        /\ cut.live = s.live /\ cut.flow = s.flow /\ cut.dir = s.dir
        /\ ~cut.virgin /\ cut.ruleset = s.ruleset
    <3>1. fed1.active \subseteq s.active
      BY <1>1, <1>2
    <3>2. /\ cut \in Stream /\ cut.active = {} /\ cut.done = fed1.done \cup fed1.active
          /\ cut.live = fed1.live /\ cut.flow = fed1.flow /\ cut.dir = fed1.dir
          /\ cut.virgin = fed1.virgin /\ cut.ruleset = fed1.ruleset
      <4>1. fed1 \in Stream /\ out \in [s.active -> Outcome]
        BY <1>2
      <4> QED
        BY ONLY <3>1, <4>1, CloseFacts
    <3> HIDE DEF cut
    <3> QED
      BY <1>2, <3>2
  <2> HIDE DEF cut
  <2>2. after = [cut EXCEPT !.last = u.v]
    BY <1>6, <1>7 DEF cut
  <2>3. /\ after \in Stream /\ after.active = {} /\ after.done = fed.done \cup fed.active
        /\ after.live = s.live /\ after.flow = s.flow /\ after.dir = s.dir
        /\ ~after.virgin /\ after.ruleset = s.ruleset /\ after.last = u.v
    BY <1>5, <2>1, <2>2 DEF Stream
  <2> QED
    BY <1>3, <1>4, <1>7, <2>3 DEF after, fed, says, u
<1>8. CASE Acts(s, n, out, modified) /\ ~u.final
  <2>1. after = [fed1 EXCEPT !.last = u.v]
    BY <1>6, <1>8
  <2>2. /\ after \in Stream /\ after.active = fed.active /\ after.done = fed.done
        /\ after.quota = fed.quota /\ after.props = fed.props
        /\ after.live = s.live /\ after.flow = s.flow /\ after.dir = s.dir
        /\ ~after.virgin /\ after.ruleset = s.ruleset /\ after.last = u.v
    BY <1>2, <1>5, <2>1 DEF Stream
  <2> QED
    BY <1>3, <1>4, <1>8, <2>2 DEF after, fed, says, u
<1>9. CASE ~Acts(s, n, out, modified)
  <2>1. after = IF fed1.active = {} THEN [fed1 EXCEPT !.last = "AcceptStream"] ELSE fed1
    BY <1>6, <1>9
  <2>2. /\ after \in Stream /\ after.active = fed.active /\ after.done = fed.done
        /\ after.quota = fed.quota /\ after.props = fed.props
        /\ after.live = s.live /\ after.flow = s.flow /\ after.dir = s.dir
        /\ ~after.virgin /\ after.ruleset = s.ruleset
        /\ after.last = IF fed.active = {} THEN "AcceptStream" ELSE s.last
    BY <1>2, <2>1 DEF Stream, Verdict
  <2> QED
    BY <1>3, <1>4, <1>9, <2>2 DEF after, fed, says, u
<1> QED
  BY <1>5, <1>7, <1>8, <1>9

\* The heart of the matter: Feed keeps a stream right, whatever the analyzers
\* answer, the rules say and the modifier does.
LEMMA FeedInv ==
  ASSUME NEW s, NEW o, StreamInv(s, o), Accept(s),
         NEW n \in Nat, NEW out \in [s.active -> Outcome], NEW modified \in BOOLEAN
  PROVE  StreamInv(Feed(s, n, out, modified), ObserveFeed(o, s.flow, s, n, out, modified))
<1> USE ConstantsAssumption
<1> DEFINE fed == FeedEntries(s, n, out)
           ended == {a \in s.active : EntryDone(s, a, n, out[a])}
           acts == Acts(s, n, out, modified)
           act == ActionOn(fed, modified)
           says == Match[s.ruleset][fed.props]
           u == actionToUDPVerdict(act)
           after == Feed(s, n, out, modified)
           seen == ObserveFeed(o, s.flow, s, n, out, modified)
<1>1. /\ s \in Stream /\ o \in Obs /\ s.active \subseteq Analyzers
      /\ ProtocolKept(s, o) /\ LimitKept(s, o) /\ s.props = o.seen
      /\ DecisionKept(s, o) /\ o.flows \subseteq {s.flow}
  BY DEF StreamInv, Stream
<1>2. /\ fed \in Stream
      /\ fed.active = s.active \ ended /\ fed.done = s.done \cup ended
      /\ fed.ruleset = s.ruleset
      /\ \A a \in s.active : HasLimit(a) => fed.quota[a] = s.quota[a] - n
      /\ ~Updated(s, n, out) => fed.props = s.props
  <2> HIDE DEF fed
  <2> QED
    BY <1>1, FeedEntriesFacts DEF fed
<1>3. /\ after \in Stream /\ after.flow = s.flow /\ ~after.virgin /\ after.ruleset = s.ruleset
      /\ says \in Actions /\ act \in {says, "maybe"} /\ (act # says => says = "modify")
      /\ IF acts /\ u.final
         THEN after.active = {} /\ after.done = fed.done \cup fed.active
         ELSE /\ after.active = fed.active /\ after.done = fed.done
              /\ after.quota = fed.quota /\ after.props = fed.props
      /\ after.last = IF acts THEN u.v
                      ELSE IF fed.active = {} THEN "AcceptStream" ELSE s.last
  <2>1. s \in Stream
    BY <1>1
  <2> QED
    BY ONLY <2>1, n \in Nat, out \in [s.active -> Outcome], modified \in BOOLEAN, FeedFacts
<1>4. acts <=> (Updated(s, n, out) \/ s.virgin) /\ act # "maybe"
  BY DEF Acts
<1>5. /\ u.final <=> act \in {"allow", "block"}
      /\ act = "allow" => u.v = "AcceptStream"
      /\ act = "block" => u.v = "DropStream"
      /\ act = "drop" => u.v = "Drop"
      /\ act = "modify" => u.v = "AcceptModify"
  BY <1>3 DEF actionToUDPVerdict, Actions
<1>6. /\ seen.seen = fed.props /\ seen.flows = o.flows \cup {s.flow}
      /\ seen.calls = [a \in Analyzers |->
           IF a \notin s.active THEN o.calls[a]
           ELSE [fed  |-> IF HasLimit(a) THEN o.calls[a].fed + n ELSE 0,
                 end  |-> IF Exhausted(s, a, n) THEN "limited"
                          ELSE IF out[a].done THEN "done"
                          ELSE IF acts /\ u.final THEN "cut" ELSE o.calls[a].end,
                 late |-> o.calls[a].late \/ o.calls[a].end # "open"]]
      /\ seen = [calls |-> seen.calls, seen |-> seen.seen, flows |-> seen.flows]
  BY DEF ObserveFeed
<1> HIDE DEF fed, acts, act, says, u, after, seen
<1>7. \A a \in s.active : o.calls[a].end = "open" /\ o.calls[a].late = FALSE
  <2>1. \A a \in Analyzers : o.calls[a].late \in BOOLEAN /\ ~o.calls[a].late
    BY <1>1 DEF ProtocolKept, Obs, Calls
  <2> QED
    BY <1>1, <2>1 DEF ProtocolKept
<1>8. ASSUME NEW a \in s.active
      PROVE  /\ seen.calls[a] \in Calls /\ ~seen.calls[a].late
             /\ a \in ended => seen.calls[a].end \in {"limited", "done"}
             /\ a \notin ended /\ acts /\ u.final => seen.calls[a].end = "cut"
             /\ a \notin ended /\ ~(acts /\ u.final) => seen.calls[a].end = "open"
             /\ HasLimit(a) => seen.calls[a].fed = o.calls[a].fed + n
  <2>1. a \in Analyzers /\ o.calls[a].fed \in Nat
    BY <1>1 DEF Obs, Calls
  <2>2. seen.calls[a] =
          [fed  |-> IF HasLimit(a) THEN o.calls[a].fed + n ELSE 0,
           end  |-> IF Exhausted(s, a, n) THEN "limited"
                    ELSE IF out[a].done THEN "done"
                    ELSE IF acts /\ u.final THEN "cut" ELSE "open",
           late |-> FALSE]
    BY <1>6, <1>7, <2>1
  <2>3. (IF HasLimit(a) THEN o.calls[a].fed + n ELSE 0) \in Nat
    BY <2>1
  <2>4. seen.calls[a] \in Calls
    BY <2>2, <2>3 DEF Calls, Ends
  <2> QED
    BY <2>2, <2>4 DEF EntryDone
<1>9. \A a \in Analyzers \ s.active : seen.calls[a] = o.calls[a]
  BY <1>6
<1>10. seen \in Obs
  <2>1. \A a \in Analyzers : seen.calls[a] \in Calls
    BY <1>1, <1>8, <1>9 DEF Obs
  <2>2. seen.calls \in [Analyzers -> Calls]
    BY <1>6, <2>1
  <2>3. seen.seen \in Props
    BY <1>2, <1>6 DEF Stream
  <2>4. seen.flows \in SUBSET Flows
    BY <1>1, <1>6 DEF Obs, Stream
  <2> QED
    BY <1>6, <2>2, <2>3, <2>4 DEF Obs
<1>11. ProtocolKept(after, seen)
  <2> DEFINE R == RuleAnalyzers[s.ruleset]
  <2>1. /\ s.active = {a \in R : o.calls[a].end = "open"} /\ s.done = R \ s.active
        /\ R \subseteq Analyzers
    BY <1>1 DEF ProtocolKept, Stream
  <2>2. \A a \in Analyzers : ~seen.calls[a].late
    <3>1. \A a \in Analyzers : ~o.calls[a].late
      BY <1>1 DEF ProtocolKept
    <3> QED
      BY <1>8, <1>9, <3>1
  <2>3. \A a \in R \ s.active : seen.calls[a].end # "open"
    BY <1>9, <2>1
  <2> HIDE DEF R, ended
  <2>4. CASE acts /\ u.final
    <3>1. after.active = {} /\ after.done = fed.done \cup fed.active
      BY <1>3, <2>4
    <3>2. \A a \in R : seen.calls[a].end # "open"
      BY <1>8, <2>3, <2>4
    <3>3. after.done = R
      BY <1>2, <2>1, <3>1 DEF ended
    <3> QED
      BY <1>3, <2>2, <3>1, <3>2, <3>3 DEF ProtocolKept, R
  <2>5. CASE ~(acts /\ u.final)
    <3>1. after.active = s.active \ ended /\ after.done = s.done \cup ended
      BY <1>2, <1>3, <2>5
    <3>2. \A a \in R : a \in s.active \ ended <=> seen.calls[a].end = "open"
      BY <1>8, <2>3, <2>5
    <3>3. after.active = {a \in R : seen.calls[a].end = "open"}
      BY <2>1, <3>1, <3>2
    <3>4. after.done = R \ after.active
      BY <2>1, <3>1 DEF ended
    <3> QED
      BY <1>3, <2>2, <3>3, <3>4 DEF ProtocolKept, R
  <2> QED
    BY <2>4, <2>5
<1>12. LimitKept(after, seen)
  <2> SUFFICES ASSUME NEW a \in after.active, HasLimit(a)
               PROVE  /\ seen.calls[a].fed < Limit[a]
                      /\ seen.calls[a].fed + after.quota[a] = Limit[a]
    BY DEF LimitKept
  <2>1. a \in s.active \ ended /\ after.quota[a] = s.quota[a] - n
    BY <1>2, <1>3
  <2>2. seen.calls[a].fed = o.calls[a].fed + n
    BY <1>8, <2>1
  <2>3. o.calls[a].fed + s.quota[a] = Limit[a]
    BY <1>1, <2>1 DEF LimitKept
  <2>4. o.calls[a].fed \in Nat /\ s.quota[a] \in Int /\ Limit[a] \in Nat
    BY <1>1, <2>1 DEF Obs, Calls, Stream
  <2>5. ~(s.quota[a] - n <= 0)
    BY <2>1 DEF EntryDone, Exhausted
  <2> QED
    BY <2>1, <2>2, <2>3, <2>4, <2>5
<1>13. Accept(after) => after.props = seen.seen
  BY <1>3, <1>6 DEF Accept
<1>14. DecisionKept(after, seen)
  <2>1. Match[after.ruleset][seen.seen] = says
    BY <1>3, <1>6 DEF says
  <2>2. CASE acts
    <3>1. act = says /\ act # "maybe"
      BY <1>3, <1>4, <2>2
    <3> QED
      BY <1>3, <1>5, <2>1, <2>2, <3>1 DEF DecisionKept, Accept, Actions
  <2>3. CASE ~acts
    <3>1. says \notin {"allow", "block"}
      <4>1. CASE act = "maybe"
        BY <1>3, <4>1
      <4>2. CASE ~Updated(s, n, out) /\ ~s.virgin
        <5>1. Match[s.ruleset][o.seen] \notin {"allow", "block"}
          BY <1>1, <4>2 DEF DecisionKept
        <5> QED
          BY <1>1, <1>2, <4>2, <5>1 DEF says
      <4> QED
        BY <1>4, <2>3, <4>1, <4>2
    <3>2. after.active = fed.active /\ (fed.active = {} => after.last = "AcceptStream")
      BY <1>3, <2>3
    <3> QED
      BY <1>3, <2>1, <3>1, <3>2 DEF DecisionKept, Accept
  <2> QED
    BY <2>2, <2>3
<1>15. seen.flows \subseteq {after.flow}
  BY <1>1, <1>3, <1>6
<1> QED
  BY <1>3, <1>10, <1>11, <1>12, <1>13, <1>14, <1>15 DEF StreamInv, after, seen

-----------------------------------------------------------------------------
(* The steps. *)

LEMMA NoStreamType ==
  ASSUME TypeOK
  PROVE  NoStream \in Stream /\ ~NoStream.live /\ NewObs \in Obs
<1>1. PICK r \in Rulesets : r = CHOOSE x \in Rulesets : TRUE
  BY DEF TypeOK
<1>2. PICK f \in Flows : f = CHOOSE x \in Flows : TRUE
  BY DEF TypeOK
<1>3. New(r, f, "orig") \in Stream /\ NewObs \in Obs
  BY NewStreamInv DEF StreamInv, Dirs
<1>4. NoStream = [New(r, f, "orig") EXCEPT !.live = FALSE]
  BY <1>1, <1>2 DEF NoStream
<1> QED
  BY <1>3, <1>4 DEF Stream

LEMMA InitIInv == Init => IInv
<1> SUFFICES ASSUME Init PROVE IInv
  OBVIOUS
<1> USE ConstantsAssumption
<1>1. \E r \in Rulesets, f \in Flows : TRUE
  BY DEF Init
<1>2. NoStream \in Stream /\ ~NoStream.live /\ NewObs \in Obs
  <2>1. PICK r \in Rulesets : r = CHOOSE x \in Rulesets : TRUE
    BY <1>1
  <2>2. PICK f \in Flows : f = CHOOSE x \in Flows : TRUE
    BY <1>1
  <2>3. New(r, f, "orig") \in Stream /\ NewObs \in Obs
    BY NewStreamInv DEF StreamInv, Dirs
  <2>4. NoStream = [New(r, f, "orig") EXCEPT !.live = FALSE]
    BY <2>1, <2>2 DEF NoStream
  <2> QED
    BY <2>3, <2>4 DEF Stream
<1>3. TypeOK
  <2>1. Cached(<<>>) = {} /\ <<>> \in Seq(IDs) /\ Len(<<>>) = 0
    BY DEF Cached
  <2>2. {i \in IDs : streams[i].live} = {}
    BY <1>2 DEF Init
  <2>3. given \in [flow : Flows, verdict : Verdict, packet : BOOLEAN]
    BY DEF Init, Verdict
  <2>4. streams \in [IDs -> Stream] /\ obs \in [IDs -> Obs]
    BY <1>2 DEF Init
  <2>5. recency \in Seq(IDs) /\ Len(recency) <= MaxStreams /\ Cached(recency) = {}
        /\ \A j, k \in 1..Len(recency) : recency[j] = recency[k] => j = k
    BY <2>1 DEF Init
  <2>6. ruleset \in Rulesets /\ begun \subseteq Flows /\ leftOpen \in BOOLEAN
    BY DEF Init
  <2> QED
    BY <2>2, <2>3, <2>4, <2>5, <2>6 DEF TypeOK
<1>4. CacheInv
  BY <1>2, FS_EmptySet DEF Init, CacheInv
<1> QED
  BY <1>2, <1>3, <1>4 DEF Init, IInv

\* The stream a packet is given to is right, and one of its flow.
LEMMA StreamOfInv ==
  ASSUME IInv, NEW f \in Flows, NEW d \in Dirs
  PROVE  /\ StreamInv(StreamOf(f, d), ObsOf(f, d))
         /\ StreamOf(f, d).live /\ StreamOf(f, d).flow = f
<1>1. IDOf[f] \in IDs /\ ruleset \in Rulesets
  BY ConstantsAssumption DEF IInv, TypeOK
<1>2. CASE MatchFlow(streams[IDOf[f]], f, d)
  BY <1>1, <1>2 DEF IInv, StreamOf, ObsOf, MatchFlow
<1>3. CASE ~MatchFlow(streams[IDOf[f]], f, d)
  BY <1>1, <1>3, NewStreamInv DEF StreamOf, ObsOf
<1> QED
  BY <1>2, <1>3

\* Each cached stream takes a flow of its own, and one more is without a stream.
LEMMA OneStreamPerFlow ==
  ASSUME IInv, NEW f \in Flows, IDOf[f] \notin Cached(recency)
  PROVE  Len(recency) < Cardinality(begun \cup {f})
<1> DEFINE B == begun \cup {f}
           L == Len(recency)
           h == [k \in 1..(L + 1) |-> IF k <= L THEN streams[recency[k]].flow ELSE f]
<1>1. IsFiniteSet(B) /\ Cardinality(B) \in Nat
  <2>1. IsFiniteSet(B)
    BY FS_AddElement DEF IInv, CacheInv
  <2> QED
    BY <2>1, FS_CardinalityType
<1>2. /\ L \in Nat /\ Cached(recency) = {recency[k] : k \in 1..L}
      /\ \A j, k \in 1..L : recency[j] = recency[k] => j = k
      /\ \A k \in 1..L : recency[k] \in IDs /\ streams[recency[k]].live
  <2>1. recency \in Seq(IDs) /\ Cached(recency) = {i \in IDs : streams[i].live}
        /\ \A j, k \in 1..L : recency[j] = recency[k] => j = k
    BY DEF IInv, TypeOK
  <2> QED
    BY <2>1 DEF Cached
<1>3. \A k \in 1..L : streams[recency[k]].flow \in begun
                      /\ IDOf[streams[recency[k]].flow] = recency[k]
  BY <1>2 DEF IInv, CacheInv
<1> HIDE DEF L, B
<1>4. IsFiniteSet(1..(L + 1)) /\ Cardinality(1..(L + 1)) = L + 1
  <2>1. L + 1 \in Int /\ 1 \in Int /\ ~(1 > L + 1) /\ (L + 1) - 1 + 1 = L + 1
    BY <1>2
  <2> QED
    BY <2>1, FS_Interval
<1>5. h \in [1..(L + 1) -> B]
  BY <1>2, <1>3 DEF B
<1>6. \A k \in 1..(L + 1) : (k \in 1..L /\ IDOf[h[k]] = recency[k]) \/ (k = L + 1 /\ h[k] = f)
  BY <1>2, <1>3
<1> HIDE DEF h
<1>7. \A k \in 1..L : recency[k] # IDOf[f]
  BY <1>2
<1>8. \A x, y \in 1..(L + 1) : h[x] = h[y] => x = y
  BY <1>2, <1>6, <1>7
<1>9. SUFFICES ASSUME Cardinality(B) < L + 1 PROVE FALSE
  BY <1>1, <1>2 DEF B, L
<1>10. \E x, y \in 1..(L + 1) : x # y /\ h[x] = h[y]
  BY <1>1, <1>4, <1>5, <1>9, FS_PigeonHole
<1> QED
  BY <1>8, <1>10

\* A step that handles a packet of flow f and leaves stream s under its ID.
LEMMA KeepInv ==
  ASSUME IInv, NEW f \in Flows, NEW d \in Dirs, NEW s, NEW o,
         StreamInv(s, o), s.live, s.flow = f, s.dir = StreamOf(f, d).dir,
         Sent(f, d), Keep(IDOf[f], s, o), Replace(f, d), UNCHANGED ruleset,
         given' \in [flow : Flows, verdict : Verdict, packet : BOOLEAN]
  PROVE  IInv'
<1> USE ConstantsAssumption
<1> DEFINE id == IDOf[f]
           order == Use(recency, id)
<1>1. /\ id \in IDs /\ s \in Stream /\ o \in Obs
      /\ streams \in [IDs -> Stream] /\ obs \in [IDs -> Obs]
      /\ Listing(recency) /\ Cached(recency) = {i \in IDs : streams[i].live}
      /\ NoStream \in Stream /\ ~NoStream.live /\ NewObs \in Obs
  BY NoStreamType DEF IInv, TypeOK, StreamInv, Listing
<1>2. /\ Listing(order) /\ id \in Cached(order) /\ Cached(order) \subseteq Cached(recency) \cup {id}
      /\ id \in Cached(recency) \/ Len(recency) < MaxStreams =>
           Cached(recency) \subseteq Cached(order)
  BY <1>1, UseListing
<1>3. /\ recency' = order
      /\ streams' = [i \in IDs |-> IF i = id THEN s
                       ELSE IF i \in Cached(order) THEN streams[i] ELSE NoStream]
      /\ obs' = [i \in IDs |-> IF i = id THEN o
                   ELSE IF i \in Cached(order) THEN obs[i] ELSE NewObs]
  BY DEF Keep
<1>4. begun' = begun \cup {f} /\ (d = "reply" => f \in begun)
  BY DEF Sent
<1> HIDE DEF order, id
<1>5. ASSUME NEW i \in IDs
      PROVE  /\ streams'[i].live <=> i \in Cached(order)
             /\ i = id => streams'[i] = s /\ obs'[i] = o
             /\ i # id /\ streams'[i].live =>
                  streams'[i] = streams[i] /\ obs'[i] = obs[i] /\ streams[i].live
  BY <1>1, <1>2, <1>3
<1>6. leftOpen' = FALSE
  <2>1. streams[id].active \subseteq Analyzers /\ Close(streams[id]).active = {}
    BY <1>1 DEF Close, Stream
  <2> QED
    BY <2>1 DEF Replace, IInv, TypeOK, id
<1>7. TypeOK'
  <2>1. streams' \in [IDs -> Stream] /\ obs' \in [IDs -> Obs]
    BY <1>1, <1>3
  <2>2. Cached(order) \subseteq IDs
    BY <1>1, <1>2
  <2>3. Cached(order) = {i \in IDs : streams'[i].live}
    BY <1>5, <2>2
  <2>4. ruleset' \in Rulesets /\ begun' \subseteq Flows
    BY <1>4 DEF IInv, TypeOK
  <2>5. Listing(recency')
    BY <1>2, <1>3
  <2> QED
    BY <1>3, <1>6, <2>1, <2>3, <2>4, <2>5 DEF TypeOK, Listing
<1>8. \A i \in IDs : streams'[i].live => StreamInv(streams'[i], obs'[i])
  BY <1>5 DEF IInv
<1>9. CacheInv'
  <2>1. IsFiniteSet(begun) /\ IsFiniteSet(begun')
        /\ Cardinality(begun) \in Nat /\ Cardinality(begun') \in Nat
        /\ Cardinality(begun) <= Cardinality(begun')
    <3>1. IsFiniteSet(begun)
      BY DEF IInv, CacheInv
    <3>2. IsFiniteSet(begun') /\ Cardinality(begun') =
            IF f \in begun THEN Cardinality(begun) ELSE Cardinality(begun) + 1
      BY <1>4, <3>1, FS_AddElement
    <3>3. Cardinality(begun) \in Nat
      BY <3>1, FS_CardinalityType
    <3> QED
      BY <3>1, <3>2, <3>3
  <2>2. ASSUME NEW i \in IDs, streams'[i].live
        PROVE  streams'[i].flow \in begun' /\ IDOf[streams'[i].flow] = i
    BY <1>4, <1>5, <2>2 DEF IInv, CacheInv, id
  <2>3. ASSUME Room', NEW g \in begun'
        PROVE  streams'[IDOf[g]].live /\ streams'[IDOf[g]].flow = g
               /\ streams'[IDOf[g]].dir = "orig"
    <3>1. /\ Cardinality(begun') <= MaxStreams
          /\ \A x, y \in begun' : IDOf[x] = IDOf[y] => x = y
      BY <2>3 DEF Room
    <3>2. Room
      BY <1>4, <2>1, <3>1 DEF Room
    <3>3. \A x \in begun : /\ streams[IDOf[x]].live /\ streams[IDOf[x]].flow = x
                           /\ streams[IDOf[x]].dir = "orig"
      BY <3>2 DEF IInv, CacheInv
    <3>4. CASE g = f
      <4>1. CASE f \in begun
        <5>1. StreamOf(f, d) = streams[id]
          BY <3>3, <4>1 DEF StreamOf, MatchFlow, id
        <5> QED
          BY <1>1, <1>2, <1>5, <3>3, <3>4, <4>1, <5>1 DEF id
      <4>2. CASE f \notin begun
        <5>1. ~MatchFlow(streams[id], f, d)
          BY <1>1, <4>2 DEF MatchFlow, IInv, CacheInv
        <5>2. StreamOf(f, d) = New(ruleset, f, d) /\ d = "orig"
          BY <1>4, <4>2, <5>1 DEF StreamOf, id, Dirs
        <5>3. s.dir = "orig"
          BY <5>2 DEF New
        <5> QED
          BY <1>1, <1>2, <1>5, <3>4, <5>3 DEF id
      <4> QED
        BY <4>1, <4>2
    <3>5. CASE g # f
      <4>1. g \in begun /\ g \in Flows /\ IDOf[g] \in IDs /\ IDOf[g] # id
        BY <1>4, <2>3, <3>1, <3>5 DEF IInv, TypeOK, id
      <4>2. IDOf[g] \in Cached(recency)
        BY <1>1, <3>3, <4>1
      <4>3. id \in Cached(recency) \/ Len(recency) < MaxStreams
        <5>1. ASSUME id \notin Cached(recency) PROVE Len(recency) < MaxStreams
          <6>1. Len(recency) < Cardinality(begun')
            BY <1>4, <5>1, OneStreamPerFlow DEF id
          <6>2. Len(recency) \in Nat
            BY <1>1 DEF Listing
          <6> QED
            BY <2>1, <3>1, <6>1, <6>2
        <5> QED
          BY <5>1
      <4>4. streams'[IDOf[g]].live
        BY <1>2, <1>5, <4>1, <4>2, <4>3
      <4> QED
        BY <1>5, <3>3, <4>1, <4>4
    <3> QED
      BY <3>4, <3>5
  <2> QED
    BY <2>1, <2>2, <2>3 DEF CacheInv
<1> QED
  BY <1>6, <1>7, <1>8, <1>9 DEF IInv

\* Every step keeps the invariant.
LEMMA NextIInv == IInv /\ [Next]_vars => IInv'
<1> SUFFICES ASSUME IInv, [Next]_vars PROVE IInv'
  OBVIOUS
<1>1. ASSUME NEW f \in Flows, NEW d \in Dirs, Replay(f, d) PROVE IInv'
  <2> DEFINE s == StreamOf(f, d)
  <2>1. StreamInv(s, ObsOf(f, d)) /\ s.live /\ s.flow = f
    BY StreamOfInv
  <2>2. s.last \in Verdict
    BY <2>1 DEF StreamInv, Stream
  <2>3. given' \in [flow : Flows, verdict : Verdict, packet : BOOLEAN]
    <3>1. given' = Handled(f, s.last, FALSE, FALSE)
      BY <1>1 DEF Replay
    <3> HIDE DEF s
    <3> QED
      BY <2>2, <3>1 DEF Handled
  <2>4. /\ Sent(f, d) /\ Keep(IDOf[f], s, ObsOf(f, d)) /\ Replace(f, d) /\ UNCHANGED ruleset
    BY <1>1 DEF Replay
  <2> QED
    BY ONLY IInv, f \in Flows, d \in Dirs, <2>1, <2>3, <2>4, KeepInv
<1>2. ASSUME NEW f \in Flows, NEW d \in Dirs, NEW n \in 0..MaxData,
             NEW out \in [StreamOf(f, d).active -> Outcome],
             NEW modified \in BOOLEAN, NEW serialised \in BOOLEAN,
             Inspect(f, d, n, out, modified, serialised)
      PROVE  IInv'
  <2> DEFINE s == StreamOf(f, d)
             after == Feed(s, n, out, modified)
             seen == ObserveFeed(ObsOf(f, d), f, s, n, out, modified)
             v == FeedVerdict(s, n, out, modified)
  <2>1. StreamInv(s, ObsOf(f, d)) /\ s.live /\ s.flow = f /\ s \in Stream
    BY StreamOfInv DEF StreamInv
  <2>2. n \in Nat /\ Accept(s)
    BY <1>2, ConstantsAssumption DEF Inspect
  <2>3. after \in Stream /\ after.live = s.live /\ after.flow = s.flow /\ after.dir = s.dir
    <3>1. out \in [s.active -> Outcome]
      BY <1>2
    <3>2. s \in Stream /\ n \in Nat
      BY <2>1, <2>2
    <3> HIDE DEF s
    <3> QED
      BY ONLY <3>1, <3>2, modified \in BOOLEAN, FeedFacts
  <2>4. StreamInv(after, seen)
    <3>1. out \in [s.active -> Outcome]
      BY <1>2
    <3>2. StreamInv(Feed(s, n, out, modified), ObserveFeed(ObsOf(f, d), s.flow, s, n, out, modified))
      BY ONLY <2>1, <2>2, <3>1, modified \in BOOLEAN, FeedInv
    <3> QED
      BY <2>1, <3>2
  <2>5. v \in Verdict
    <3>1. v \in {after.last, "Accept"}
      BY DEF FeedVerdict
    <3> HIDE DEF after, v
    <3> QED
      BY <2>3, <3>1 DEF Stream, Verdict
  <2>6. given' \in [flow : Flows, verdict : Verdict, packet : BOOLEAN]
    <3>1. given' = Handled(f, v, modified, serialised)
      BY <1>2 DEF Inspect
    <3> HIDE DEF v
    <3> QED
      BY <2>5, <3>1 DEF Handled, Verdict
  <2>7. Sent(f, d) /\ Keep(IDOf[f], after, seen) /\ Replace(f, d) /\ UNCHANGED ruleset
    BY <1>2 DEF Inspect
  <2> HIDE DEF after, seen
  <2>8. after.live /\ after.flow = f /\ after.dir = StreamOf(f, d).dir
    BY <2>1, <2>3
  <2> QED
    BY ONLY IInv, f \in Flows, d \in Dirs, <2>4, <2>6, <2>7, <2>8, KeepInv
<1>3. ASSUME NEW r \in Rulesets, UpdateRuleset(r) PROVE IInv'
  BY <1>3 DEF UpdateRuleset, IInv, TypeOK, CacheInv, Room
<1>4. CASE UNCHANGED vars
  BY <1>4 DEF vars, IInv, TypeOK, CacheInv, Room
<1> QED
  BY <1>1, <1>2, <1>3, <1>4 DEF Next

\* The strengthened invariant holds of every reachable state.
THEOREM Invariance == Spec => []IInv
  BY InitIInv, NextIInv, PTL DEF Spec

\* TypeOK: the cache lists exactly its live streams, each once, and never more
\* than its capacity.
THEOREM TypeCorrect == Spec => []TypeOK
<1>1. IInv => TypeOK
  BY DEF IInv
<1> QED
  BY <1>1, Invariance, PTL

\* EntryProtocol: no analyzer is called again once it is finished, and one that
\* is not is below its limit.
THEOREM ProtocolCorrect == Spec => []EntryProtocol
<1>1. IInv => EntryProtocol
  BY DEF IInv, StreamInv, EntryProtocol
<1> QED
  BY <1>1, Invariance, PTL

\* NothingMissed: what the rules say of all that was reported is what is done.
THEOREM DecisionCorrect == Spec => []NothingMissed
<1>1. IInv => NothingMissed
  BY DEF IInv, StreamInv, DecisionKept, NothingMissed, RulesSay
<1> QED
  BY <1>1, Invariance, PTL

\* Isolation: an analyzer sees the packets of one flow only, and a displaced
\* stream is closed.
THEOREM IsolationCorrect == Spec => []Isolation
<1>1. IInv => Isolation
  BY DEF IInv, StreamInv, Isolation
<1> QED
  BY <1>1, Invariance, PTL

\* DirectionKept: as long as there is room for every flow, its stream is the one
\* its first packet made.
THEOREM DirectionCorrect == Spec => []DirectionKept
<1>1. IInv => DirectionKept
  BY DEF IInv, CacheInv, Room, DirectionKept
<1> QED
  BY <1>1, Invariance, PTL

\* StickyVerdict: a settled stream changes no more until it is forgotten or
\* displaced, and its verdict is what its packets get.
THEOREM StickyCorrect == Spec => StickyVerdict
<1> DEFINE Sticky == \A i \in IDs : Settled(streams[i]) =>
              /\ \/ streams'[i] = streams[i]
                 \/ ~streams'[i].live
                 \/ streams'[i].flow # streams[i].flow
              /\ (given' # given /\ IDOf[given'.flow] = i /\ given'.flow = streams[i].flow)
                   => given'.verdict = streams[i].last
<1>1. IInv /\ [Next]_vars => [Sticky]_vars
  <2> SUFFICES ASSUME IInv, Next, NEW i \in IDs, Settled(streams[i])
               PROVE  /\ \/ streams'[i] = streams[i]
                         \/ ~streams'[i].live
                         \/ streams'[i].flow # streams[i].flow
                      /\ (given' # given /\ IDOf[given'.flow] = i
                            /\ given'.flow = streams[i].flow)
                           => given'.verdict = streams[i].last
    OBVIOUS
  <2>1. ~NoStream.live
    BY NoStreamType DEF IInv
  <2>2. ASSUME NEW f \in Flows, NEW d \in Dirs, Replay(f, d)
        PROVE  /\ \/ streams'[i] = streams[i]
                  \/ ~streams'[i].live
                  \/ streams'[i].flow # streams[i].flow
               /\ (IDOf[given'.flow] = i /\ given'.flow = streams[i].flow)
                    => given'.verdict = streams[i].last
    <3> DEFINE s == StreamOf(f, d)
    <3>1. /\ given' = Handled(f, s.last, FALSE, FALSE)
          /\ streams' = [j \in IDs |-> IF j = IDOf[f] THEN s
                           ELSE IF j \in Cached(Use(recency, IDOf[f])) THEN streams[j] ELSE NoStream]
      BY <2>2 DEF Replay, Keep
    <3>2. given'.flow = f /\ given'.verdict = s.last
      BY <3>1 DEF Handled
    <3>3. s.flow = f
      BY StreamOfInv
    <3>4. (IDOf[f] = i /\ streams[i].flow = f) => s = streams[i]
      BY DEF StreamOf, MatchFlow, Settled
    <3> HIDE DEF s
    <3> QED
      BY <2>1, <3>1, <3>2, <3>3, <3>4
  <2>3. ASSUME NEW f \in Flows, NEW d \in Dirs, NEW n \in 0..MaxData,
               NEW out \in [StreamOf(f, d).active -> Outcome],
               NEW modified \in BOOLEAN, NEW serialised \in BOOLEAN,
               Inspect(f, d, n, out, modified, serialised)
        PROVE  /\ \/ streams'[i] = streams[i]
                  \/ ~streams'[i].live
                  \/ streams'[i].flow # streams[i].flow
               /\ ~(IDOf[given'.flow] = i /\ given'.flow = streams[i].flow)
    <3> DEFINE s == StreamOf(f, d)
               after == Feed(s, n, out, modified)
    <3>1. /\ Accept(s) /\ given'.flow = f
          /\ streams' = [j \in IDs |-> IF j = IDOf[f] THEN after
                           ELSE IF j \in Cached(Use(recency, IDOf[f])) THEN streams[j] ELSE NoStream]
      BY <2>3 DEF Inspect, Keep, Handled
    <3>2. ~(IDOf[f] = i /\ streams[i].flow = f)
      BY <3>1 DEF StreamOf, MatchFlow, Settled
    <3>3. after.flow = f
      <4>1. s \in Stream /\ s.flow = f /\ n \in Nat /\ out \in [s.active -> Outcome]
        BY <2>3, StreamOfInv, ConstantsAssumption DEF StreamInv
      <4>2. after.flow = s.flow
        BY ONLY <4>1, modified \in BOOLEAN, FeedFacts
      <4> QED
        BY <4>1, <4>2
    <3> HIDE DEF s, after
    <3> QED
      BY <2>1, <3>1, <3>2, <3>3
  <2>4. ASSUME NEW r \in Rulesets, UpdateRuleset(r)
        PROVE  streams' = streams /\ given' = given
    BY <2>4 DEF UpdateRuleset
  <2> QED
    BY <2>2, <2>3, <2>4 DEF Next
<1> QED
  BY <1>1, Invariance, PTL DEF Spec, StickyVerdict
=============================================================================
