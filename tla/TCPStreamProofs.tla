-------------------------- MODULE TCPStreamProofs ---------------------------
(***************************************************************************)
(* Proofs about TCPStream, for any flows, analyzers, limits, rulesets and  *)
(* scatter-gather sizes.  Everything rests on one fact about one stream    *)
(* and its history (StreamInv): ReassembledSG preserves it, whatever the   *)
(* analyzers answer.  The actions only choose a stream and apply it.       *)
(***************************************************************************)
EXTENDS TCPStream, TLAPS

\* A limited entry still active has received exactly what its quota lacks.
QuotaKept(s, o) ==
  \A a \in Analyzers : HasLimit(a) =>
    /\ o.calls[a].fed <= Limit[a]
    /\ a \in s.active => /\ o.calls[a].fed + s.quota[a] = Limit[a]
                         /\ s.quota[a] > 0

\* What makes the decision of a stream stay up to date until the next segment:
\* while it is inspected its properties are those its rules were asked about.
SeenCurrent(s, o) == s.live /\ s.active # {} => o.seen = s.props

\* As long as a stream is inspected none of its entries was closed early.
NoneCut(s, o) ==
  s.live /\ Accept(s) => \A a \in s.done : o.calls[a].end \in {"done", "limited"}

StreamInv(s, o) ==
  /\ s \in Stream
  /\ o \in Obs
  /\ ProtocolKept(s, o)
  /\ QuotaKept(s, o)
  /\ HasFinalVerdict(s)
  /\ SeenCurrent(s, o)
  /\ NoneCut(s, o)
  /\ DecisionUpToDate(s, o)
  /\ GivenUpByAll(s, o)

IInv ==
  /\ ruleset \in Rulesets
  /\ closed \in [Flows -> {{}} \cup {{d} : d \in Dirs}]
  /\ ctx \in [flow : Flows, verdict : tcpVerdict]
  /\ pool \in [Flows -> Stream]
  /\ obs \in [Flows -> Obs]
  /\ \A f \in Flows : StreamInv(pool[f], obs[f])

-----------------------------------------------------------------------------
\* processPropUpdate keeps to the marks, and an update that is no change
\* changes nothing.
LEMMA PropUpdate ==
  ASSUME NEW p \in SUBSET Marks,
         NEW u \in [type : PropUpdateTypes, m : SUBSET Marks]
  PROVE  /\ processPropUpdate(p, u) \in SUBSET Marks
         /\ ~Changes(u) => processPropUpdate(p, u) = p
  BY DEF processPropUpdate, Changes, PropUpdateTypes

\* A stream just born satisfies the invariant with an empty history.
LEMMA NewStreamInv ==
  ASSUME NEW r \in Rulesets
  PROVE  /\ StreamInv(New(r), NewObs)
         /\ StreamInv(NoStream(r), NewObs)
<1> USE ConstantsAssumption
<1> DEFINE s == New(r)
<1>1. RuleAnalyzers[r] \subseteq Analyzers
  OBVIOUS
<1>2. [a \in Analyzers |-> {}] \in Props
  BY DEF Props
<1>3. s \in Stream /\ NoStream(r) \in Stream
  BY <1>1, <1>2 DEF New, NoStream, Stream, tcpVerdict
<1>4. NewObs \in Obs
  BY <1>2 DEF NewObs, Obs, NoCalls, Calls, Ends
<1>5. ProtocolKept(s, NewObs) /\ ProtocolKept(NoStream(r), NewObs)
  BY <1>1 DEF New, NoStream, ProtocolKept, NewObs, NoCalls
<1>6. QuotaKept(s, NewObs) /\ QuotaKept(NoStream(r), NewObs)
  BY DEF New, NoStream, QuotaKept, NewObs, NoCalls, HasLimit
<1>7. SeenCurrent(s, NewObs) /\ SeenCurrent(NoStream(r), NewObs)
  BY DEF New, NoStream, SeenCurrent, NewObs
<1>8. /\ HasFinalVerdict(s) /\ HasFinalVerdict(NoStream(r))
      /\ DecisionUpToDate(s, NewObs) /\ DecisionUpToDate(NoStream(r), NewObs)
      /\ GivenUpByAll(s, NewObs) /\ GivenUpByAll(NoStream(r), NewObs)
      /\ NoneCut(s, NewObs) /\ NoneCut(NoStream(r), NewObs)
  BY DEF New, NoStream, NoneCut, HasFinalVerdict, Accept, DecisionUpToDate, GivenUpByAll
<1> QED
  BY <1>3, <1>4, <1>5, <1>6, <1>7, <1>8 DEF StreamInv

-----------------------------------------------------------------------------
\* Arithmetic of a quota that is not overdrawn.
LEMMA Difference ==
  ASSUME NEW q \in Nat, NEW k \in Nat, k <= q
  PROVE  q - k \in Nat /\ (q - k <= 0 <=> q - k = 0)
OBVIOUS

\* feedEntry on one active entry: the quota stays a number, what was fed and
\* what is left still add up to the limit, the properties stay marks, and an
\* entry that returns no change leaves them alone.
LEMMA FeedEntry ==
  ASSUME NEW s \in Stream, NEW o \in Obs, QuotaKept(s, o),
         NEW a \in s.active, NEW n \in Nat, NEW r \in Outcome
  PROVE  /\ FedBytes(s, a, n) \in Nat
         /\ QuotaLeft(s, a, n) \in Nat
         /\ HasLimit(a) => /\ o.calls[a].fed + FedBytes(s, a, n)
                                + QuotaLeft(s, a, n) = Limit[a]
                           /\ Exhausted(s, a, n) <=> QuotaLeft(s, a, n) = 0
         /\ EntryProps(s, a, n, r) \in SUBSET Marks
         /\ ~EntryUpdated(s, a, n, r) => EntryProps(s, a, n, r) = s.props[a]
<1> USE ConstantsAssumption
<1>1. a \in Analyzers /\ Limit[a] \in Nat /\ s.quota[a] \in Nat
  BY DEF Stream
<1>2. o.calls[a].fed \in Nat
  BY <1>1 DEF Obs, Calls
<1>3. HasLimit(a) => o.calls[a].fed + s.quota[a] = Limit[a] /\ s.quota[a] > 0
  BY <1>1 DEF QuotaKept
<1>4. /\ FedBytes(s, a, n) \in Nat
      /\ QuotaLeft(s, a, n) \in Nat
      /\ HasLimit(a) => /\ o.calls[a].fed + FedBytes(s, a, n)
                             + QuotaLeft(s, a, n) = Limit[a]
                        /\ Exhausted(s, a, n) <=> QuotaLeft(s, a, n) = 0
  <2>1. CASE ~HasLimit(a)
    BY <1>1, <2>1 DEF FedBytes, QuotaLeft
  <2>2. CASE HasLimit(a) /\ n > s.quota[a]
    <3>1. FedBytes(s, a, n) = s.quota[a]
      BY <2>2 DEF FedBytes
    <3> QED
      BY <1>1, <1>2, <1>3, <2>2, <3>1 DEF QuotaLeft, Exhausted
  <2>3. CASE HasLimit(a) /\ ~(n > s.quota[a])
    <3>1. FedBytes(s, a, n) = n
      BY <2>3 DEF FedBytes
    <3>2. QuotaLeft(s, a, n) = s.quota[a] - n
      BY <2>3, <3>1 DEF QuotaLeft
    <3>3. n <= s.quota[a]
      BY <1>1, <2>3
    <3>4. s.quota[a] - n \in Nat /\ (s.quota[a] - n <= 0 <=> s.quota[a] - n = 0)
      BY <1>1, <3>3, Difference
    <3>5. Exhausted(s, a, n) <=> QuotaLeft(s, a, n) = 0
      BY <2>3, <3>2, <3>4 DEF Exhausted
    <3>6. o.calls[a].fed + n + (s.quota[a] - n) = o.calls[a].fed + s.quota[a]
      BY <1>1, <1>2
    <3> QED
      BY <1>3, <2>3, <3>1, <3>2, <3>4, <3>5, <3>6
  <2> QED
    BY <2>1, <2>2, <2>3
<1>5. /\ r.update \in [type : PropUpdateTypes, m : SUBSET Marks]
      /\ r.close \in [type : PropUpdateTypes, m : SUBSET Marks]
  BY DEF Outcome
<1>6. s.props[a] \in SUBSET Marks
  BY <1>1 DEF Stream, Props
<1> DEFINE fed == processPropUpdate(s.props[a], r.update)
<1>7. fed \in SUBSET Marks /\ (~Changes(r.update) => fed = s.props[a])
  BY <1>5, <1>6, PropUpdate
<1>8. /\ processPropUpdate(fed, r.close) \in SUBSET Marks
      /\ ~Changes(r.close) => processPropUpdate(fed, r.close) = fed
  BY <1>5, <1>7, PropUpdate
<1>9. /\ EntryProps(s, a, n, r) \in SUBSET Marks
      /\ ~EntryUpdated(s, a, n, r) => EntryProps(s, a, n, r) = s.props[a]
  BY <1>7, <1>8 DEF EntryProps, EntryUpdated
<1> QED
  BY <1>4, <1>9

\* The history after the entries of s were fed, before anything is closed.
FedObs(o, s, n, out) ==
  [calls |-> ObserveFeed(o.calls, s, n, out), seen |-> FeedEntries(s, n, out).props]

\* What the feeding loop leaves: lists, quotas and calls in step, no entry off
\* the list that was closed early, and the old properties if nothing changed.
FedRight(s, o, n, out) ==
  LET fed  == FeedEntries(s, n, out)
      seen == FedObs(o, s, n, out)
  IN  /\ fed \in Stream /\ seen \in Obs
      /\ ProtocolKept(fed, seen) /\ QuotaKept(fed, seen)
      /\ \A a \in s.active \ fed.active : seen.calls[a].end \in {"done", "limited"}
      /\ \A a \in s.done : seen.calls[a].end = o.calls[a].end
      /\ ~Updated(s, n, out) => fed.props = s.props
      /\ fed.active \subseteq s.active
      /\ fed.done = s.done \cup (s.active \ fed.active)
      /\ fed.live = s.live /\ fed.virgin = s.virgin
      /\ fed.last = s.last /\ fed.ruleset = s.ruleset
      /\ seen.seen = fed.props

\* The loop of ReassembledSG over the active entries is right in that sense.
LEMMA FeedEntriesInv ==
  ASSUME NEW s, NEW o, StreamInv(s, o), NEW n \in Nat,
         NEW out \in [s.active -> Outcome]
  PROVE  FedRight(s, o, n, out)
<1> USE ConstantsAssumption
<1> DEFINE fed  == FeedEntries(s, n, out)
           seen == FedObs(o, s, n, out)
           ended == {a \in s.active : EntryDone(s, a, n, out[a])}
<1>1. s \in Stream /\ o \in Obs /\ QuotaKept(s, o) /\ ProtocolKept(s, o)
  BY DEF StreamInv
<1>2. s.active \subseteq Analyzers /\ s.done \subseteq Analyzers
  BY <1>1 DEF Stream
<1>3. \A a \in s.active : out[a] \in Outcome
  OBVIOUS
<1>4. /\ fed.active = s.active \ ended
      /\ fed.done = s.done \cup ended
      /\ fed.live = s.live /\ fed.virgin = s.virgin
      /\ fed.last = s.last /\ fed.ruleset = s.ruleset
      /\ fed.quota = [a \in Analyzers |->
            IF a \in s.active THEN QuotaLeft(s, a, n) ELSE s.quota[a]]
      /\ fed.props = [a \in Analyzers |->
            IF a \in s.active THEN EntryProps(s, a, n, out[a]) ELSE s.props[a]]
  BY <1>1 DEF FeedEntries, Stream
<1>5. /\ seen.calls = ObserveFeed(o.calls, s, n, out)
      /\ seen.seen = fed.props
  BY DEF FedObs
<1>6. fed.quota \in [Analyzers -> Nat]
  <2>1. s.quota \in [Analyzers -> Nat]
    BY <1>1 DEF Stream
  <2>2. ASSUME NEW a \in s.active PROVE QuotaLeft(s, a, n) \in Nat
    <3>1. out[a] \in Outcome
      BY <1>3
    <3> QED
      BY ONLY <1>1, <3>1, n \in Nat, FeedEntry
  <2>3. ASSUME NEW a \in Analyzers
        PROVE  (IF a \in s.active THEN QuotaLeft(s, a, n) ELSE s.quota[a]) \in Nat
    BY <2>1, <2>2
  <2> QED
    BY <1>4, <2>3
<1>7. fed.props \in Props
  <2>1. ASSUME NEW a \in Analyzers PROVE s.props[a] \in SUBSET Marks
    BY <1>1 DEF Stream, Props
  <2>2. ASSUME NEW a \in s.active
        PROVE  EntryProps(s, a, n, out[a]) \in SUBSET Marks
    BY <1>1, <1>3, FeedEntry
  <2> QED
    BY <1>4, <2>1, <2>2 DEF Props
<1>8. fed \in Stream
  <2>1. s.active \ ended \in SUBSET Analyzers /\ s.done \cup ended \in SUBSET Analyzers
    BY <1>2
  <2> HIDE DEF ended
  <2> QED
    BY <1>1, <1>4, <1>6, <1>7, <2>1 DEF Stream, FeedEntries, ended
<1>9. ASSUME NEW a \in Analyzers
      PROVE  /\ a \notin s.active => seen.calls[a] = o.calls[a]
             /\ a \in s.active =>
                  /\ seen.calls[a].end = IF Exhausted(s, a, n) THEN "limited"
                         ELSE IF out[a].done THEN "done" ELSE o.calls[a].end
                  /\ seen.calls[a].late = (o.calls[a].late \/ o.calls[a].end # "open")
                  /\ seen.calls[a].fed = IF HasLimit(a)
                         THEN o.calls[a].fed + FedBytes(s, a, n) ELSE 0
                  /\ seen.calls[a] \in Calls
  <2>1. seen.calls[a] =
         IF a \notin s.active THEN o.calls[a]
         ELSE [fed  |-> IF HasLimit(a) THEN o.calls[a].fed + FedBytes(s, a, n) ELSE 0,
               end  |-> IF Exhausted(s, a, n) THEN "limited"
                        ELSE IF out[a].done THEN "done" ELSE o.calls[a].end,
               late |-> o.calls[a].late \/ o.calls[a].end # "open"]
    BY <1>5 DEF ObserveFeed
  <2>2. o.calls[a] \in Calls
    BY <1>1 DEF Obs
  <2>3. a \in s.active => FedBytes(s, a, n) \in Nat
    BY <1>1, <1>3, FeedEntry
  <2>4. o.calls[a].end \in Ends /\ o.calls[a].late \in BOOLEAN /\ o.calls[a].fed \in Nat
    BY <2>2 DEF Calls
  <2> QED
    BY <2>1, <2>3, <2>4 DEF Calls, Ends
<1>10. seen.calls \in [Analyzers -> Calls]
  <2>1. \A a \in Analyzers : seen.calls[a] \in Calls
    BY <1>1, <1>9 DEF Obs
  <2>2. seen.calls = [a \in Analyzers |-> seen.calls[a]]
    BY <1>5 DEF ObserveFeed
  <2> QED
    BY <2>1, <2>2
<1>11. seen \in Obs
  BY <1>7, <1>10 DEF Obs, FedObs
<1>12. ASSUME NEW a \in Analyzers
       PROVE  (seen.calls[a].end = "open" <=>
                 o.calls[a].end = "open" /\ a \notin ended) \/ a \notin s.active
  BY <1>9 DEF EntryDone
<1>13. ProtocolKept(fed, seen)
  <2>1. ASSUME NEW a \in Analyzers PROVE ~seen.calls[a].late
    <3>1. ~o.calls[a].late /\ (a \in s.active => o.calls[a].end = "open")
      BY <1>1 DEF ProtocolKept
    <3> QED
      BY <1>9, <3>1
  <2>2. fed.active = {a \in RuleAnalyzers[fed.ruleset] : seen.calls[a].end = "open"}
    <3>1. s.active = {a \in RuleAnalyzers[s.ruleset] : o.calls[a].end = "open"}
      BY <1>1 DEF ProtocolKept
    <3>2. RuleAnalyzers[s.ruleset] \subseteq Analyzers
      BY <1>1 DEF Stream
    <3>3. ASSUME NEW a \in RuleAnalyzers[s.ruleset]
          PROVE  a \in s.active \ ended <=> seen.calls[a].end = "open"
      <4>1. CASE a \in s.active
        BY <1>12, <3>1, <3>2, <4>1
      <4>2. CASE a \notin s.active
        BY <1>9, <3>1, <3>2, <4>2
      <4> QED
        BY <4>1, <4>2
    <3> QED
      BY <1>4, <3>1, <3>3
  <2>3. fed.done = RuleAnalyzers[fed.ruleset] \ fed.active
    <3>1. /\ s.done = RuleAnalyzers[s.ruleset] \ s.active
          /\ s.active \subseteq RuleAnalyzers[s.ruleset]
      BY <1>1 DEF ProtocolKept
    <3> QED
      BY <1>4, <3>1
  <2> QED
    BY <2>1, <2>2, <2>3 DEF ProtocolKept
<1>14. QuotaKept(fed, seen)
  <2>0. ASSUME NEW a \in s.active, HasLimit(a)
        PROVE  /\ FedBytes(s, a, n) \in Nat
               /\ QuotaLeft(s, a, n) \in Nat
               /\ o.calls[a].fed + FedBytes(s, a, n) + QuotaLeft(s, a, n) = Limit[a]
               /\ Exhausted(s, a, n) <=> QuotaLeft(s, a, n) = 0
    BY <1>1, <1>3, <2>0, FeedEntry
  <2> SUFFICES ASSUME NEW a \in Analyzers, HasLimit(a)
               PROVE  /\ seen.calls[a].fed <= Limit[a]
                      /\ a \in fed.active =>
                           /\ seen.calls[a].fed + fed.quota[a] = Limit[a]
                           /\ fed.quota[a] > 0
    BY DEF QuotaKept
  <2>1. CASE a \notin s.active
    BY <1>1, <1>4, <1>9, <2>1 DEF QuotaKept
  <2>2. CASE a \in s.active
    <3>1. /\ FedBytes(s, a, n) \in Nat
          /\ QuotaLeft(s, a, n) \in Nat
          /\ o.calls[a].fed + FedBytes(s, a, n) + QuotaLeft(s, a, n) = Limit[a]
          /\ Exhausted(s, a, n) <=> QuotaLeft(s, a, n) = 0
      BY <2>0, <2>2
    <3>2. /\ seen.calls[a].fed = o.calls[a].fed + FedBytes(s, a, n)
          /\ fed.quota[a] = QuotaLeft(s, a, n)
      BY <1>4, <1>9, <2>2
    <3>3. a \in fed.active => ~Exhausted(s, a, n)
      BY <1>4, <2>2 DEF EntryDone
    <3>4. o.calls[a].fed \in Nat /\ Limit[a] \in Nat
      BY <1>1 DEF Obs, Calls
    <3> HIDE DEF fed, seen
    <3> QED
      BY <3>1, <3>2, <3>3, <3>4
  <2> QED
    BY <2>1, <2>2
<1>15. \A a \in s.active \ fed.active : seen.calls[a].end \in {"done", "limited"}
  <2> SUFFICES ASSUME NEW a \in s.active, a \in ended
               PROVE  seen.calls[a].end \in {"done", "limited"}
    BY <1>4
  <2> QED
    BY <1>2, <1>9 DEF EntryDone
<1>16. \A a \in s.done : seen.calls[a].end = o.calls[a].end
  <2>1. \A a \in s.done : a \notin s.active
    BY <1>1 DEF ProtocolKept
  <2> QED
    BY <1>2, <1>9, <2>1
<1>17. ~Updated(s, n, out) => fed.props = s.props
  <2> SUFFICES ASSUME ~Updated(s, n, out) PROVE fed.props = s.props
    OBVIOUS
  <2>1. \A a \in s.active : EntryProps(s, a, n, out[a]) = s.props[a]
    BY <1>1, <1>3, FeedEntry DEF Updated
  <2>2. s.props \in [Analyzers -> SUBSET Marks]
    BY <1>1 DEF Stream, Props
  <2> QED
    BY <1>4, <2>1, <2>2
<1>18. /\ fed.active \subseteq s.active
       /\ fed.done = s.done \cup (s.active \ fed.active)
  BY <1>4
<1> QED
  BY <1>4, <1>5, <1>8, <1>11, <1>13, <1>14, <1>15, <1>16, <1>17, <1>18 DEF FedRight

-----------------------------------------------------------------------------
\* Closing what is left empties the list of active entries and disturbs neither
\* the protocol nor the quotas, since every entry closed was still open.
LEMMA CloseInv ==
  ASSUME NEW s \in Stream, NEW o \in Obs, ProtocolKept(s, o), QuotaKept(s, o),
         NEW T, NEW out \in [T -> Outcome], s.active \subseteq T
  PROVE  LET after == closeActiveEntries(s, out)
             seen  == ObserveClose(o, s)
         IN  /\ after \in Stream /\ seen \in Obs
             /\ ProtocolKept(after, seen) /\ QuotaKept(after, seen)
             /\ after.active = {}
             /\ after.live = s.live /\ after.virgin = s.virgin
             /\ after.last = s.last /\ after.ruleset = s.ruleset
             /\ seen.seen = o.seen
<1> USE ConstantsAssumption
<1> DEFINE after == closeActiveEntries(s, out)
           seen  == ObserveClose(o, s)
<1>1. /\ after.active = {}
      /\ after.done = s.done \cup s.active
      /\ after.live = s.live /\ after.virgin = s.virgin
      /\ after.last = s.last /\ after.ruleset = s.ruleset
      /\ after.quota = s.quota
      /\ after.props = [a \in Analyzers |->
            IF a \in s.active THEN processPropUpdate(s.props[a], out[a].close)
                              ELSE s.props[a]]
  BY DEF closeActiveEntries, Stream
<1>2. s.active \subseteq Analyzers /\ s.done \subseteq Analyzers
  BY DEF Stream
<1>3. after.props \in Props
  <2>1. ASSUME NEW a \in Analyzers PROVE s.props[a] \in SUBSET Marks
    BY DEF Stream, Props
  <2>2. ASSUME NEW a \in s.active
        PROVE  processPropUpdate(s.props[a], out[a].close) \in SUBSET Marks
    <3>1. out[a] \in Outcome
      OBVIOUS
    <3>2. out[a].close \in [type : PropUpdateTypes, m : SUBSET Marks]
      BY <3>1 DEF Outcome
    <3> QED
      BY <1>2, <2>1, <3>2, PropUpdate
  <2> QED
    BY <1>1, <2>1, <2>2 DEF Props
<1>4. after \in Stream
  <2>1. s.done \cup s.active \in SUBSET Analyzers
    BY <1>2
  <2> QED
    BY <1>1, <1>3, <2>1 DEF Stream, closeActiveEntries
<1>5. /\ seen.seen = o.seen
      /\ seen.calls = [a \in Analyzers |->
           IF a \notin s.active THEN o.calls[a]
           ELSE [fed  |-> o.calls[a].fed,
                 end  |-> "cut",
                 late |-> o.calls[a].late \/ o.calls[a].end # "open"]]
  BY DEF ObserveClose
<1>6. ASSUME NEW a \in Analyzers
      PROVE  /\ seen.calls[a] \in Calls
             /\ seen.calls[a].fed = o.calls[a].fed
             /\ ~seen.calls[a].late
             /\ a \notin s.active => seen.calls[a] = o.calls[a]
             /\ a \in s.active => seen.calls[a].end = "cut"
  <2>1. o.calls[a] \in Calls /\ ~o.calls[a].late
    BY DEF Obs, ProtocolKept
  <2>2. a \in s.active => o.calls[a].end = "open"
    BY DEF ProtocolKept
  <2> QED
    BY <1>5, <2>1, <2>2 DEF Calls, Ends
<1>7. seen \in Obs
  <2>1. seen.calls \in [Analyzers -> Calls]
    BY <1>5, <1>6
  <2>2. seen = [calls |-> seen.calls, seen |-> o.seen] /\ o.seen \in Props
    BY <1>5 DEF ObserveClose, Obs
  <2> HIDE DEF seen
  <2> QED
    BY <2>1, <2>2 DEF Obs
<1>8. ProtocolKept(after, seen)
  <2>1. /\ s.active = {a \in RuleAnalyzers[s.ruleset] : o.calls[a].end = "open"}
        /\ s.done = RuleAnalyzers[s.ruleset] \ s.active
    BY DEF ProtocolKept
  <2>2. RuleAnalyzers[s.ruleset] \subseteq Analyzers
    BY DEF Stream
  <2>3. \A a \in RuleAnalyzers[s.ruleset] : seen.calls[a].end # "open"
    BY <1>6, <2>1, <2>2
  <2> HIDE DEF after, seen
  <2> QED
    BY <1>1, <1>6, <2>1, <2>2, <2>3 DEF ProtocolKept
<1>9. QuotaKept(after, seen)
  <2> HIDE DEF after, seen
  <2> QED
    BY <1>1, <1>6 DEF QuotaKept
<1> QED
  BY <1>1, <1>4, <1>5, <1>7, <1>8, <1>9

-----------------------------------------------------------------------------
\* A stream and its history after a scatter-gather: right again, and the verdict
\* in the context is Accept as long as the stream is inspected and the stream's
\* own verdict once it is not.
SGRight(s, o, n, out) ==
  LET after == ReassembledSG(s, n, out)
      seen  == ObserveSG(o, s, n, out)
  IN  /\ StreamInv(after, seen)
      /\ after.live /\ ~after.virgin
      /\ after.ruleset = s.ruleset
      /\ after.active \subseteq s.active
      /\ SGVerdict(s, n, out) = IF Accept(after) THEN "Accept" ELSE after.last

\* The heart of the matter: ReassembledSG keeps a stream right.
LEMMA ReassembledSGInv ==
  ASSUME NEW s, NEW o, StreamInv(s, o), s.live, Accept(s),
         NEW n \in Nat, NEW out \in [s.active -> Outcome]
  PROVE  SGRight(s, o, n, out)
<1> USE ConstantsAssumption
<1> DEFINE after == ReassembledSG(s, n, out)
           seen  == ObserveSG(o, s, n, out)
           fed0  == FeedEntries(s, n, out)
           obs0  == FedObs(o, s, n, out)
           fed   == [fed0 EXCEPT !.virgin = FALSE]
           a0    == Match[s.ruleset][fed0.props]
<1>1. /\ fed0 \in Stream /\ obs0 \in Obs
      /\ ProtocolKept(fed0, obs0) /\ QuotaKept(fed0, obs0)
      /\ \A a \in s.active \ fed0.active : obs0.calls[a].end \in {"done", "limited"}
      /\ \A a \in s.done : obs0.calls[a].end = o.calls[a].end
      /\ ~Updated(s, n, out) => fed0.props = s.props
      /\ fed0.active \subseteq s.active
      /\ fed0.done = s.done \cup (s.active \ fed0.active)
      /\ fed0.live = s.live /\ fed0.virgin = s.virgin
      /\ fed0.last = s.last /\ fed0.ruleset = s.ruleset
      /\ obs0.seen = fed0.props
  <2>1. FedRight(s, o, n, out)
    BY FeedEntriesInv
  <2> QED
    BY <2>1 DEF FedRight
<1>2. /\ s \in Stream /\ s.last = "Accept"
      /\ \A a \in s.done : o.calls[a].end \in {"done", "limited"}
      /\ ~s.virgin => /\ o.seen = s.props
                      /\ Match[s.ruleset][o.seen] \in {"maybe", "modify"}
  <2>1. s \in Stream /\ HasFinalVerdict(s) /\ NoneCut(s, o) /\ SeenCurrent(s, o)
        /\ DecisionUpToDate(s, o)
    BY DEF StreamInv
  <2>2. s.last = "Accept"
    BY <2>1 DEF HasFinalVerdict
  <2>3. \A a \in s.done : o.calls[a].end \in {"done", "limited"}
    BY <2>1 DEF NoneCut
  <2>4. ~s.virgin => o.seen = s.props
    BY <2>1 DEF SeenCurrent, Accept
  <2>5. ~s.virgin => Match[s.ruleset][o.seen] \in {"maybe", "modify"}
    BY <2>1, <2>2 DEF DecisionUpToDate, RulesSay
  <2> QED
    BY <2>1, <2>2, <2>3, <2>4, <2>5
<1>3. /\ fed \in Stream
      /\ fed.active = fed0.active /\ fed.done = fed0.done
      /\ fed.live = s.live /\ ~fed.virgin /\ fed.last = "Accept"
      /\ fed.ruleset = s.ruleset /\ fed.quota = fed0.quota
      /\ fed.props = fed0.props
  BY <1>1, <1>2 DEF Stream
<1>4. ProtocolKept(fed, obs0) /\ QuotaKept(fed, obs0)
  BY <1>1, <1>3 DEF ProtocolKept, QuotaKept
<1>5. ActionOn(fed0) = a0 /\ ActionOn(fed) = a0 /\ RulesSay(fed, obs0) = a0
  BY <1>1, <1>3 DEF ActionOn, RulesSay
<1>6. a0 \in Actions
  <2>1. s.ruleset \in Rulesets /\ fed0.props \in Props
    BY <1>1, <1>2 DEF Stream
  <2> QED
    BY <2>1
<1>7. ~Decides(s, n, out) => a0 \in {"maybe", "modify"}
  BY <1>1, <1>2, <1>5 DEF Decides
<1>8. \A a \in fed0.done : obs0.calls[a].end \in {"done", "limited"}
  BY <1>1, <1>2
<1> HIDE DEF fed0, obs0, fed, a0
<1>9. CASE Decides(s, n, out)
  <2> DEFINE cut == closeActiveEntries(fed, out)
             seenCut == ObserveClose(obs0, fed)
             v == actionToTCPVerdict(a0)
  <2>1. a0 \notin {"maybe", "modify"}
    BY <1>5, <1>9 DEF Decides, fed0
  <2>2. fed.active \subseteq s.active
    BY <1>1, <1>3
  <2>3. /\ cut \in Stream /\ seenCut \in Obs
        /\ ProtocolKept(cut, seenCut) /\ QuotaKept(cut, seenCut)
        /\ cut.active = {}
        /\ cut.live = fed.live /\ cut.virgin = fed.virgin
        /\ cut.last = fed.last /\ cut.ruleset = fed.ruleset
        /\ seenCut.seen = obs0.seen
    BY <1>1, <1>3, <1>4, <2>2, CloseInv
  <2>4. after = [cut EXCEPT !.last = v] /\ seen = seenCut
    <3>1. after = [cut EXCEPT !.last = v]
      BY <1>5, <1>9 DEF ReassembledSG, fed, fed0
    <3>2. seen = IF Decides(s, n, out) THEN ObserveClose(obs0, fed0) ELSE obs0
      BY DEF ObserveSG, obs0, fed0, FedObs
    <3>3. ObserveClose(obs0, fed0) = ObserveClose(obs0, fed)
      BY <1>3 DEF ObserveClose
    <3> QED
      BY <1>9, <3>1, <3>2, <3>3
  <2> HIDE DEF cut, seenCut
  <2>5. v \in StreamVerdicts /\ (v = "DropStream" <=> a0 \in {"block", "drop"})
    BY <1>6, <2>1 DEF actionToTCPVerdict, StreamVerdicts, Actions
  <2> HIDE DEF v
  <2>6. /\ after \in Stream
        /\ after.active = {} /\ after.done = cut.done /\ after.quota = cut.quota
        /\ after.live /\ ~after.virgin /\ after.last = v
        /\ after.ruleset = s.ruleset
    BY <1>3, <2>3, <2>4, <2>5 DEF Stream, StreamVerdicts, tcpVerdict
  <2> HIDE DEF after, seen
  <2>7. ProtocolKept(after, seen) /\ QuotaKept(after, seen)
    <3>1. after.active = cut.active /\ after.ruleset = cut.ruleset
      BY <1>3, <2>3, <2>6
    <3> QED
      BY <2>3, <2>4, <2>6, <3>1 DEF ProtocolKept, QuotaKept
  <2>8. RulesSay(after, seen) = a0
    BY <1>1, <2>3, <2>4, <2>6 DEF RulesSay, a0
  <2>9. /\ HasFinalVerdict(after) /\ SeenCurrent(after, seen) /\ NoneCut(after, seen)
        /\ DecisionUpToDate(after, seen)
    BY <2>5, <2>6, <2>8 DEF HasFinalVerdict, SeenCurrent, NoneCut, DecisionUpToDate,
                            Accept, StreamVerdicts
  <2>10. GivenUpByAll(after, seen)
    <3>1. v = "AcceptStream" => a0 = "allow"
      BY <1>6, <2>1, <2>5 DEF Actions, StreamVerdicts
    <3> QED
      BY <2>6, <2>8, <3>1 DEF GivenUpByAll
  <2>11. SGVerdict(s, n, out) = IF Accept(after) THEN "Accept" ELSE after.last
    BY <2>6 DEF SGVerdict, Accept, after
  <2> QED
    BY <2>3, <2>4, <2>6, <2>7, <2>9, <2>10, <2>11 DEF StreamInv, SGRight, after, seen
<1>10. CASE ~Decides(s, n, out) /\ fed.active = {}
  <2>1. after = [fed EXCEPT !.last = "AcceptStream"] /\ seen = obs0
    BY <1>10 DEF ReassembledSG, ObserveSG, FedObs, obs0, fed, fed0
  <2>2. /\ after \in Stream
        /\ after.active = {} /\ after.done = fed.done /\ after.quota = fed.quota
        /\ after.live /\ ~after.virgin /\ after.last = "AcceptStream"
        /\ after.ruleset = s.ruleset
    BY <1>3, <1>10, <2>1 DEF Stream, tcpVerdict
  <2> HIDE DEF after, seen
  <2>3. ProtocolKept(after, seen) /\ QuotaKept(after, seen)
    BY <1>3, <1>4, <1>10, <2>1, <2>2 DEF ProtocolKept, QuotaKept
  <2>4. RulesSay(after, seen) = a0
    BY <1>1, <2>1, <2>2 DEF RulesSay, a0
  <2>5. /\ HasFinalVerdict(after) /\ SeenCurrent(after, seen) /\ NoneCut(after, seen)
        /\ DecisionUpToDate(after, seen)
    BY <1>7, <1>10, <2>2, <2>4 DEF HasFinalVerdict, SeenCurrent, NoneCut,
                            DecisionUpToDate, Accept, StreamVerdicts
  <2>6. GivenUpByAll(after, seen)
    <3>1. RuleAnalyzers[after.ruleset] = fed0.done
      BY <1>1, <1>3, <1>10, <2>2 DEF ProtocolKept
    <3> QED
      BY <1>8, <2>1, <3>1 DEF GivenUpByAll
  <2>7. SGVerdict(s, n, out) = IF Accept(after) THEN "Accept" ELSE after.last
    BY <2>2 DEF SGVerdict, Accept, after
  <2> QED
    BY <1>1, <2>1, <2>2, <2>3, <2>5, <2>6, <2>7 DEF StreamInv, SGRight, after, seen
<1>11. CASE ~Decides(s, n, out) /\ fed.active # {}
  <2>1. after = fed /\ seen = obs0
    BY <1>11 DEF ReassembledSG, ObserveSG, FedObs, obs0, fed, fed0
  <2> HIDE DEF after, seen
  <2>2. /\ HasFinalVerdict(after) /\ SeenCurrent(after, seen) /\ NoneCut(after, seen)
        /\ DecisionUpToDate(after, seen) /\ GivenUpByAll(after, seen)
    BY <1>1, <1>3, <1>5, <1>7, <1>8, <1>11, <2>1 DEF HasFinalVerdict, SeenCurrent,
       NoneCut, DecisionUpToDate, GivenUpByAll, Accept
  <2>3. SGVerdict(s, n, out) = IF Accept(after) THEN "Accept" ELSE after.last
    BY <1>11, <2>1 DEF SGVerdict, Accept, after
  <2> QED
    BY <1>1, <1>3, <1>4, <2>1, <2>2, <2>3 DEF StreamInv, SGRight, after, seen
<1> QED
  BY <1>9, <1>10, <1>11

-----------------------------------------------------------------------------
\* Every flow starts unknown and without history.
LEMMA InitIInv == Init => IInv
<1> SUFFICES ASSUME Init PROVE IInv
  OBVIOUS
<1>1. StreamInv(NoStream(ruleset), NewObs)
  BY NewStreamInv DEF Init
<1>2. NoStream(ruleset) \in Stream /\ NewObs \in Obs
  BY <1>1 DEF StreamInv
<1> HIDE DEF Init
<1>3. /\ ruleset \in Rulesets
      /\ pool = [f \in Flows |-> NoStream(ruleset)]
      /\ closed = [f \in Flows |-> {}]
      /\ ctx \in [flow : Flows, verdict : {"Accept"}]
      /\ obs = [f \in Flows |-> NewObs]
  BY DEF Init
<1>4. pool \in [Flows -> Stream] /\ obs \in [Flows -> Obs]
  BY <1>2, <1>3
<1>5. ctx \in [flow : Flows, verdict : tcpVerdict]
  BY <1>3 DEF tcpVerdict
<1>6. \A f \in Flows : StreamInv(pool[f], obs[f])
  BY <1>1, <1>3
<1>7. closed \in [Flows -> {{}} \cup {{d} : d \in Dirs}]
  BY <1>3
<1> QED
  BY <1>3, <1>4, <1>5, <1>6, <1>7 DEF IInv

\* The stream a packet is given to, known or new, is right and in the pool.
LEMMA StreamOfInv ==
  ASSUME IInv, NEW f \in Flows
  PROVE  StreamInv(StreamOf(f), ObsOf(f)) /\ StreamOf(f).live
<1>1. CASE pool[f].live
  BY <1>1 DEF IInv, StreamOf, ObsOf
<1>2. CASE ~pool[f].live
  <2>1. StreamInv(New(ruleset), NewObs)
    BY NewStreamInv DEF IInv
  <2> QED
    BY <1>2, <2>1 DEF StreamOf, ObsOf, New
<1> QED
  BY <1>1, <1>2

\* A step that replaces the stream of one flow by one that is right.
LEMMA ReplaceStream ==
  ASSUME IInv, NEW f \in Flows, NEW s, NEW o, StreamInv(s, o),
         pool' = [pool EXCEPT ![f] = s], obs' = [obs EXCEPT ![f] = o]
  PROVE  /\ pool' \in [Flows -> Stream] /\ obs' \in [Flows -> Obs]
         /\ \A g \in Flows : StreamInv(pool'[g], obs'[g])
<1>1. s \in Stream /\ o \in Obs
  BY DEF StreamInv
<1>2. /\ pool \in [Flows -> Stream] /\ obs \in [Flows -> Obs]
      /\ \A g \in Flows : StreamInv(pool[g], obs[g])
  BY DEF IInv
<1>3. ASSUME NEW g \in Flows PROVE StreamInv(pool'[g], obs'[g])
  <2>1. CASE g = f
    <3>1. pool'[g] = s /\ obs'[g] = o
      BY <1>2, <2>1
    <3> QED
      BY <3>1
  <2>2. CASE g # f
    <3>1. pool'[g] = pool[g] /\ obs'[g] = obs[g]
      BY <1>2, <2>2
    <3> QED
      BY <1>2, <3>1
  <2> QED
    BY <2>1, <2>2
<1> QED
  BY <1>1, <1>2, <1>3

\* What Reassembled and ReassemblyComplete have in common.
LEMMA DeliverInv ==
  ASSUME IInv, NEW f \in Flows, NEW d \in Dirs, NEW n \in 0..MaxData,
         NEW out \in [StreamOf(f).active -> Outcome], Deliver(f, d, n, out)
  PROVE  LET after == ReassembledSG(StreamOf(f), n, out)
             seen  == ObserveSG(ObsOf(f), StreamOf(f), n, out)
         IN  /\ StreamInv(after, seen) /\ after.live
             /\ after.active \subseteq StreamOf(f).active
             /\ ctx' = [flow |-> f, verdict |->
                          IF Accept(after) THEN "Accept" ELSE after.last]
             /\ ctx' \in [flow : Flows, verdict : tcpVerdict]
             /\ ruleset' = ruleset
<1> DEFINE s == StreamOf(f)
           after == ReassembledSG(s, n, out)
           seen  == ObserveSG(ObsOf(f), s, n, out)
<1>1. n \in Nat
  BY ConstantsAssumption
<1>2. StreamInv(s, ObsOf(f)) /\ s.live /\ Accept(s)
  BY StreamOfInv DEF Deliver
<1>3. /\ StreamInv(after, seen)
      /\ after.live
      /\ after.active \subseteq s.active
      /\ SGVerdict(s, n, out) = IF Accept(after) THEN "Accept" ELSE after.last
  <2>1. SGRight(s, ObsOf(f), n, out)
    BY <1>1, <1>2, ReassembledSGInv
  <2> QED
    BY <2>1 DEF SGRight
<1>4. ctx' = [flow |-> f, verdict |-> SGVerdict(s, n, out)] /\ ruleset' = ruleset
  BY DEF Deliver
<1>5. after \in Stream
  BY <1>3 DEF StreamInv
<1> HIDE DEF after, seen, s
<1>6. (IF Accept(after) THEN "Accept" ELSE after.last) \in tcpVerdict
  BY <1>5 DEF Stream, tcpVerdict
<1> QED
  BY <1>3, <1>4, <1>6 DEF after, seen, s

\* Every step keeps the invariant.
LEMMA NextIInv == IInv /\ [Next]_vars => IInv'
<1> SUFFICES ASSUME IInv, [Next]_vars PROVE IInv'
  OBVIOUS
<1>1. ASSUME NEW f \in Flows, Replay(f) PROVE IInv'
  <2>1. StreamInv(StreamOf(f), ObsOf(f))
    BY StreamOfInv
  <2>2. StreamOf(f).last \in tcpVerdict
    BY <2>1 DEF StreamInv, Stream
  <2> QED
    BY <1>1, <2>2 DEF Replay, IInv
<1>2. ASSUME NEW f \in Flows, Hold(f) PROVE IInv'
  <2>1. StreamInv(StreamOf(f), ObsOf(f))
    BY StreamOfInv
  <2>2. /\ pool' = [pool EXCEPT ![f] = StreamOf(f)]
        /\ obs' = [obs EXCEPT ![f] = ObsOf(f)]
        /\ ctx' = [flow |-> f, verdict |-> "Accept"]
        /\ ruleset' = ruleset /\ closed' = closed
    BY <1>2 DEF Hold
  <2>3. /\ pool' \in [Flows -> Stream] /\ obs' \in [Flows -> Obs]
        /\ \A g \in Flows : StreamInv(pool'[g], obs'[g])
    BY <2>1, <2>2, ReplaceStream
  <2> QED
    BY <2>2, <2>3 DEF IInv, tcpVerdict
<1>3. ASSUME NEW f \in Flows, NEW d \in Dirs, NEW n \in 0..MaxData,
             NEW out \in [StreamOf(f).active -> Outcome], Reassembled(f, d, n, out)
      PROVE  IInv'
  <2> DEFINE after == ReassembledSG(StreamOf(f), n, out)
             seen  == ObserveSG(ObsOf(f), StreamOf(f), n, out)
  <2>1. Deliver(f, d, n, out)
    BY <1>3 DEF Reassembled
  <2>2. /\ StreamInv(after, seen)
        /\ ctx' \in [flow : Flows, verdict : tcpVerdict]
        /\ ruleset' = ruleset
    BY <2>1, DeliverInv
  <2>3. pool' = [pool EXCEPT ![f] = after] /\ obs' = [obs EXCEPT ![f] = seen]
    BY <1>3 DEF Reassembled
  <2>4. closed' \in [Flows -> {{}} \cup {{x} : x \in Dirs}]
    BY <1>3 DEF Reassembled, IInv
  <2> HIDE DEF after, seen
  <2>5. /\ pool' \in [Flows -> Stream] /\ obs' \in [Flows -> Obs]
        /\ \A g \in Flows : StreamInv(pool'[g], obs'[g])
    BY <2>2, <2>3, ReplaceStream
  <2> QED
    BY <2>2, <2>4, <2>5 DEF IInv
<1>4. ASSUME NEW f \in Flows, NEW d \in Dirs, NEW n \in 0..MaxData,
             NEW out \in [StreamOf(f).active -> Outcome],
             ReassemblyComplete(f, d, n, out)
      PROVE  IInv'
  <2> DEFINE after == ReassembledSG(StreamOf(f), n, out)
             seen  == ObserveSG(ObsOf(f), StreamOf(f), n, out)
             cut   == closeActiveEntries(after, out)
             gone  == [cut EXCEPT !.live = FALSE]
             seenCut == ObserveClose(seen, after)
  <2>1. Deliver(f, d, n, out)
    BY <1>4 DEF ReassemblyComplete
  <2>2. /\ StreamInv(after, seen)
        /\ after.active \subseteq StreamOf(f).active
        /\ ctx' \in [flow : Flows, verdict : tcpVerdict]
        /\ ruleset' = ruleset
    BY <2>1, DeliverInv
  <2>3. pool' = [pool EXCEPT ![f] = gone] /\ obs' = [obs EXCEPT ![f] = seenCut]
    BY <1>4 DEF ReassemblyComplete
  <2>4. closed' \in [Flows -> {{}} \cup {{x} : x \in Dirs}]
    BY <1>4 DEF ReassemblyComplete, IInv
  <2> HIDE DEF after, seen
  <2>5. /\ after \in Stream /\ seen \in Obs
        /\ ProtocolKept(after, seen) /\ QuotaKept(after, seen)
    BY <2>2 DEF StreamInv
  <2>6. /\ cut \in Stream /\ seenCut \in Obs
        /\ ProtocolKept(cut, seenCut) /\ QuotaKept(cut, seenCut)
    BY <2>2, <2>5, CloseInv
  <2> HIDE DEF cut, seenCut
  <2>7. /\ gone \in Stream /\ ~gone.live
        /\ gone.active = cut.active /\ gone.done = cut.done
        /\ gone.quota = cut.quota /\ gone.ruleset = cut.ruleset
    BY <2>6 DEF Stream
  <2> HIDE DEF gone
  <2>8. StreamInv(gone, seenCut)
    BY <2>6, <2>7 DEF StreamInv, ProtocolKept, QuotaKept, HasFinalVerdict, SeenCurrent,
                      NoneCut, DecisionUpToDate, GivenUpByAll
  <2>9. /\ pool' \in [Flows -> Stream] /\ obs' \in [Flows -> Obs]
        /\ \A g \in Flows : StreamInv(pool'[g], obs'[g])
    BY <2>3, <2>8, ReplaceStream
  <2> QED
    BY <2>2, <2>4, <2>9 DEF IInv
<1>5. ASSUME NEW r \in Rulesets, UpdateRuleset(r) PROVE IInv'
  BY <1>5 DEF UpdateRuleset, IInv
<1>6. CASE UNCHANGED vars
  BY <1>6 DEF vars, IInv
<1> QED
  BY <1>1, <1>2, <1>3, <1>4, <1>5, <1>6 DEF Next

\* The strengthened invariant holds of every reachable state.
THEOREM Invariance == Spec => []IInv
  BY InitIInv, NextIInv, PTL DEF Spec

\* Every variable keeps its shape; quotas never become negative.
THEOREM TypeCorrect == Spec => []TypeOK
<1>1. IInv => TypeOK
  BY DEF IInv, TypeOK
<1> QED
  BY <1>1, Invariance, PTL

\* No analyzer is called again once it is finished, limited or closed.
THEOREM ProtocolCorrect == Spec => []EntryProtocol
<1>1. IInv => EntryProtocol
  BY DEF IInv, StreamInv, EntryProtocol
<1> QED
  BY <1>1, Invariance, PTL

\* No analyzer is ever given more bytes than it asked for.
THEOREM LimitCorrect == Spec => []LimitRespected
<1>1. ASSUME NEW s, NEW o, StreamInv(s, o) PROVE WithinLimit(s, o)
  <2> SUFFICES ASSUME NEW a \in Analyzers, HasLimit(a)
               PROVE  /\ o.calls[a].fed <= Limit[a]
                      /\ a \in s.active => o.calls[a].fed < Limit[a]
    BY DEF WithinLimit
  <2>1. s.quota[a] \in Nat /\ o.calls[a].fed \in Nat /\ Limit[a] \in Nat
    BY <1>1, ConstantsAssumption DEF StreamInv, Stream, Obs, Calls
  <2>2. /\ o.calls[a].fed <= Limit[a]
        /\ a \in s.active => o.calls[a].fed + s.quota[a] = Limit[a] /\ s.quota[a] > 0
    BY <1>1 DEF StreamInv, QuotaKept
  <2> QED
    BY <2>1, <2>2
<1>2. IInv => LimitRespected
  BY <1>1 DEF IInv, LimitRespected
<1> QED
  BY <1>2, Invariance, PTL

\* Inspection ends exactly when there is a verdict for the rest of the stream.
THEOREM SettledCorrect == Spec => []SettledIsFinal
<1>1. IInv => SettledIsFinal
  BY DEF IInv, StreamInv, SettledIsFinal
<1> QED
  BY <1>1, Invariance, PTL

\* The verdict is the one the rules give for all that has been reported.
THEOREM DecisionCorrect == Spec => []NothingMissed
<1>1. IInv => NothingMissed
  BY DEF IInv, StreamInv, NothingMissed
<1> QED
  BY <1>1, Invariance, PTL

-----------------------------------------------------------------------------
\* A settled stream never changes again, and its verdict is repeated to every
\* later packet of its flow.
THEOREM StickyCorrect == Spec => StickyVerdict
<1> DEFINE Sticky == \A f \in Flows : Settled(pool[f]) =>
              /\ pool'[f] = pool[f]
              /\ (ctx' # ctx /\ ctx'.flow = f) => ctx'.verdict = pool[f].last
<1>1. IInv /\ [Next]_vars => [Sticky]_vars
  <2> SUFFICES ASSUME IInv, Next, NEW f \in Flows, Settled(pool[f])
               PROVE  /\ pool'[f] = pool[f]
                      /\ (ctx' # ctx /\ ctx'.flow = f) => ctx'.verdict = pool[f].last
    OBVIOUS
  <2>1. StreamOf(f) = pool[f] /\ ~Accept(StreamOf(f))
    BY DEF Settled, StreamOf
  <2>2. pool \in [Flows -> Stream]
    BY DEF IInv
  <2>3. ASSUME NEW g \in Flows, Replay(g)
        PROVE  pool'[f] = pool[f] /\ (ctx'.flow = f => ctx'.verdict = pool[f].last)
    BY <2>1, <2>3 DEF Replay
  <2>4. ASSUME NEW g \in Flows, Hold(g)
        PROVE  pool'[f] = pool[f] /\ ctx'.flow # f
    BY <2>1, <2>2, <2>4 DEF Hold
  <2>5. ASSUME NEW g \in Flows, NEW d \in Dirs, NEW n \in 0..MaxData,
               NEW out \in [StreamOf(g).active -> Outcome],
               Reassembled(g, d, n, out) \/ ReassemblyComplete(g, d, n, out)
        PROVE  pool'[f] = pool[f] /\ ctx'.flow # f
    <3>1. Accept(StreamOf(g)) /\ ctx'.flow = g
      BY <2>5 DEF Reassembled, ReassemblyComplete, Deliver
    <3>2. g # f
      BY <2>1, <3>1
    <3> QED
      BY <2>2, <2>5, <3>1, <3>2 DEF Reassembled, ReassemblyComplete
  <2>6. ASSUME NEW r \in Rulesets, UpdateRuleset(r)
        PROVE  pool'[f] = pool[f] /\ ctx' = ctx
    BY <2>6 DEF UpdateRuleset
  <2> QED
    BY <2>3, <2>4, <2>5, <2>6 DEF Next
<1> QED
  BY <1>1, Invariance, PTL DEF Spec, StickyVerdict

\* One step seen from outside: what happens to the judgements when the stream
\* of f becomes s.
LEMMA JudgedAfter ==
  ASSUME IInv, NEW f \in Flows, NEW s \in Stream, pool' = [pool EXCEPT ![f] = s]
  PROVE  judged' = [judged EXCEPT ![f] = IF Settled(s) THEN s.last ELSE "open"]
<1>1. pool \in [Flows -> Stream] /\ pool' \in [Flows -> Stream]
  BY DEF IInv
<1>2. ASSUME NEW g \in Flows
      PROVE  judged'[g] = [judged EXCEPT ![f] =
                             IF Settled(s) THEN s.last ELSE "open"][g]
  <2>1. CASE g = f
    <3>1. pool'[g] = s
      BY <1>1, <2>1
    <3> QED
      BY <2>1, <3>1 DEF judged
  <2>2. CASE g # f
    <3>1. pool'[g] = pool[g]
      BY <1>1, <2>2
    <3> QED
      BY <2>2, <3>1 DEF judged
  <2> QED
    BY <2>1, <2>2
<1> QED
  BY <1>2 DEF judged

\* The worker keeps StreamVerdict's promise, whatever its analyzers report,
\* its rules say, and whenever they are reloaded.
THEOREM ImplementsCorrect == Spec => ImplementsStreamVerdict
<1>1. Init => Promise!Init
  <2> SUFFICES ASSUME Init PROVE Promise!Init
    OBVIOUS
  <2>1. \A f \in Flows : ~Settled(pool[f])
    BY DEF Init, NoStream, New, Settled
  <2> QED
    BY <2>1 DEF Promise!Init, judged, Init
<1>2. IInv /\ [Next]_vars => [Promise!Next]_<<judged, ctx>>
  <2> SUFFICES ASSUME IInv, Next PROVE Promise!Next \/ UNCHANGED <<judged, ctx>>
    BY DEF vars, judged
  <2>0. ASSUME NEW f \in Flows, Accept(StreamOf(f)) PROVE judged[f] = "open"
    BY <2>0 DEF judged, Settled, StreamOf
  <2>1. ASSUME NEW f \in Flows, Replay(f) PROVE Promise!Repeat(f)
    <3>1. StreamOf(f) = pool[f] /\ Settled(pool[f])
      BY <2>1 DEF Replay, StreamOf, New, Settled, Accept
    <3>2. judged[f] = pool[f].last /\ judged[f] # "open"
      BY <3>1 DEF judged, IInv, StreamInv, HasFinalVerdict, Settled, StreamVerdicts
    <3>3. judged' = judged
      BY <2>1 DEF Replay, judged
    <3> QED
      BY <2>1, <3>1, <3>2, <3>3 DEF Replay, Promise!Repeat
  <2>2. ASSUME NEW f \in Flows, Hold(f) PROVE Promise!Pass(f)
    <3>1. judged[f] = "open" /\ ~Settled(StreamOf(f)) /\ StreamOf(f) \in Stream
      BY <2>0, <2>2, StreamOfInv DEF Hold, Settled, StreamInv
    <3>2. judged' = [judged EXCEPT ![f] = "open"]
      BY <2>2, <3>1, JudgedAfter DEF Hold
    <3>3. judged' = judged
      BY <3>1, <3>2 DEF judged
    <3> QED
      BY <2>2, <3>1, <3>3 DEF Hold, Promise!Pass
  <2>3. ASSUME NEW f \in Flows, NEW d \in Dirs, NEW n \in 0..MaxData,
               NEW out \in [StreamOf(f).active -> Outcome],
               Reassembled(f, d, n, out) \/ ReassemblyComplete(f, d, n, out)
        PROVE  Promise!Pass(f) \/ \E v \in StreamVerdicts : Promise!Judge(f, v)
    <3> DEFINE after == ReassembledSG(StreamOf(f), n, out)
               gone  == [closeActiveEntries(after, out) EXCEPT !.live = FALSE]
    <3>1. Deliver(f, d, n, out)
      BY <2>3 DEF Reassembled, ReassemblyComplete
    <3>2. judged[f] = "open"
      BY <2>0, <3>1 DEF Deliver
    <3>3. /\ after \in Stream /\ after.live /\ HasFinalVerdict(after)
          /\ ctx' = [flow |-> f, verdict |->
                        IF Accept(after) THEN "Accept" ELSE after.last]
      BY <3>1, DeliverInv DEF StreamInv
    <3>4. \/ pool' = [pool EXCEPT ![f] = after]
          \/ pool' = [pool EXCEPT ![f] = gone]
      BY <2>3 DEF Reassembled, ReassemblyComplete
    <3>5. pool' = [pool EXCEPT ![f] = gone] => judged' = [judged EXCEPT ![f] = "open"]
      <4>1. ~Settled(gone)
        BY DEF Settled, closeActiveEntries
      <4> SUFFICES ASSUME pool' = [pool EXCEPT ![f] = gone]
                   PROVE  judged' = [judged EXCEPT ![f] = "open"]
        OBVIOUS
      <4>2. gone \in Stream
        <5>1. IInv' /\ pool'[f] = gone
          BY NextIInv DEF IInv
        <5> QED
          BY <5>1 DEF IInv
      <4> HIDE DEF gone
      <4> QED
        BY <4>1, <4>2, JudgedAfter
    <3> HIDE DEF after, gone
    <3>6. [judged EXCEPT ![f] = "open"] = judged
      BY <3>2 DEF judged
    <3>7. pool' = [pool EXCEPT ![f] = after] =>
            judged' = [judged EXCEPT ![f] = IF Settled(after) THEN after.last ELSE "open"]
      BY <3>3, JudgedAfter
    <3>8. CASE Accept(after)
      <4>1. judged' = judged
        BY <3>4, <3>5, <3>6, <3>7, <3>8 DEF Settled
      <4> QED
        BY <3>2, <3>3, <3>8, <4>1 DEF Promise!Pass
    <3>9. CASE ~Accept(after)
      <4>1. after.last \in StreamVerdicts /\ Settled(after)
        BY <3>3, <3>9 DEF HasFinalVerdict, Settled
      <4>2. judged' \in {judged, [judged EXCEPT ![f] = after.last]}
        BY <3>4, <3>5, <3>6, <3>7, <4>1
      <4>3. Promise!Judge(f, after.last)
        BY <3>2, <3>3, <3>9, <4>2 DEF Promise!Judge
      <4> QED
        BY <4>1, <4>3
    <3> QED
      BY <3>8, <3>9
  <2>4. ASSUME NEW r \in Rulesets, UpdateRuleset(r) PROVE UNCHANGED <<judged, ctx>>
    BY <2>4 DEF UpdateRuleset, judged
  <2>5. ASSUME NEW f \in Flows,
               Promise!Pass(f) \/ Promise!Repeat(f)
                 \/ \E v \in StreamVerdicts : Promise!Judge(f, v)
        PROVE  Promise!Next
    BY <2>5 DEF Promise!Next, Promise!StreamVerdicts, StreamVerdicts
  <2>6. (\E f \in Flows :
           \/ Replay(f)
           \/ Hold(f)
           \/ \E d \in Dirs, n \in 0..MaxData, out \in [StreamOf(f).active -> Outcome] :
                Reassembled(f, d, n, out) \/ ReassemblyComplete(f, d, n, out))
        => Promise!Next
    BY <2>1, <2>2, <2>3, <2>5, Zenon
  <2> QED
    BY <2>4, <2>6 DEF Next
<1> QED
  BY <1>1, <1>2, Invariance, PTL DEF Spec, ImplementsStreamVerdict, Promise!Spec
=============================================================================
