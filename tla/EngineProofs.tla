---------------------------- MODULE EngineProofs -----------------------------
(***************************************************************************)
(* Proofs about Engine, for any number of workers, streams and packets and *)
(* any capacity of the channels.  A packet moves from one place to the     *)
(* next, so the places stay a partition of what was received; and what a   *)
(* worker holds stays in the order of arrival, behind what it has answered.*)
(***************************************************************************)
EXTENDS Engine, TLAPS

\* The places as a function, and what makes it a partition of X.
At == [place \in Places |-> PacketsAt(place)]

Partition(S, X) ==
  /\ UNION {S[p] : p \in Places} = X
  /\ \A p, q \in Places : p # q => S[p] \cap S[q] = {}

Increasing(s) == \A j, k \in 1..Len(s) : j < k => s[j].n < s[k].n

\* What worker w has taken or will take is its own, in the order of arrival, and
\* later than what it has answered; what the dispatcher has is the latest.
WorkerInv(w) ==
  /\ Increasing(queue[w])
  /\ \A k \in 1..Len(queue[w]) : /\ index(queue[w][k]) = w
                                 /\ queue[w][k].n <= arrived
                                 /\ io.pkt # <<>> => queue[w][k].n < arrived
  /\ worker[w].pkt # <<>> =>
       /\ index(worker[w].pkt[1]) = w
       /\ worker[w].pkt[1].n <= arrived
       /\ io.pkt # <<>> => worker[w].pkt[1].n < arrived
       /\ \A k \in 1..Len(queue[w]) : worker[w].pkt[1].n < queue[w][k].n
  /\ \A j \in 1..Len(verdicts) : index(verdicts[j]) = w =>
       /\ worker[w].pkt # <<>> => verdicts[j].n < worker[w].pkt[1].n
       /\ \A k \in 1..Len(queue[w]) : verdicts[j].n < queue[w][k].n

IInv ==
  /\ TypeOK
  /\ run = "new" => \A w \in Workers : worker[w].pc = "off"
  /\ run \in {"new", "register"} => io.pc = "off"
  /\ io.pkt # <<>> => io.pkt[1].n = arrived
  /\ \A j \in 1..Len(verdicts) : /\ verdicts[j].n <= arrived
                                 /\ io.pkt # <<>> => verdicts[j].n < arrived
  /\ \A w \in Workers : WorkerInv(w)
  /\ Partition(At, 1..arrived)
  /\ NoneTwice(verdicts)

-----------------------------------------------------------------------------
(* Places. *)

\* A packet that moves from one place to another leaves the partition one.
LEMMA Move ==
  ASSUME NEW S, NEW T, NEW X, Partition(S, X),
         NEW a \in Places, NEW b \in Places, a # b, NEW n \in S[a],
         T[a] = S[a] \ {n}, T[b] = S[b] \cup {n},
         \A p \in Places \ {a, b} : T[p] = S[p]
  PROVE  Partition(T, X)
<1>1. UNION {T[p] : p \in Places} = X
  BY SMT DEF Partition
<1>2. ASSUME NEW p \in Places, NEW q \in Places, p # q PROVE T[p] \cap T[q] = {}
  <2>1. S[p] \cap S[q] = {} /\ (p # a => n \notin S[p]) /\ (q # a => n \notin S[q])
    BY <1>2 DEF Partition
  <2> QED
    BY <1>2, <2>1
<1> QED
  BY <1>1, <1>2 DEF Partition

\* So does a packet that is new.
LEMMA Add ==
  ASSUME NEW S, NEW T, NEW X, Partition(S, X), NEW n, n \notin X,
         NEW b \in Places, T[b] = S[b] \cup {n},
         \A p \in Places \ {b} : T[p] = S[p]
  PROVE  Partition(T, X \cup {n})
<1>1. UNION {T[p] : p \in Places} = X \cup {n}
  BY SMT DEF Partition
<1>2. ASSUME NEW p \in Places, NEW q \in Places, p # q PROVE T[p] \cap T[q] = {}
  <2>1. S[p] \cap S[q] = {} /\ n \notin S[p] /\ n \notin S[q]
    BY <1>2 DEF Partition
  <2> QED
    BY <1>2, <2>1
<1> QED
  BY <1>1, <1>2 DEF Partition

-----------------------------------------------------------------------------
(* Sequences of packets. *)

LEMMA AppendPacket ==
  ASSUME NEW s \in Seq(Packet), NEW p \in Packet
  PROVE  /\ Append(s, p) \in Seq(Packet)
         /\ Len(Append(s, p)) = Len(s) + 1
         /\ \A k \in 1..Len(s) : Append(s, p)[k] = s[k]
         /\ Append(s, p)[Len(s) + 1] = p
         /\ Numbers(Append(s, p)) = Numbers(s) \cup {p.n}
         /\ \A id : NumbersOf(id, Append(s, p)) =
                      NumbersOf(id, s) \cup (IF p.id = id THEN {p.n} ELSE {})
<1>1. /\ Append(s, p) \in Seq(Packet)
      /\ Len(Append(s, p)) = Len(s) + 1
      /\ \A k \in 1..Len(s) : Append(s, p)[k] = s[k]
      /\ Append(s, p)[Len(s) + 1] = p
  OBVIOUS
<1>2. Len(s) \in Nat
  OBVIOUS
<1>3. 1..Len(Append(s, p)) = 1..Len(s) \cup {Len(s) + 1}
  BY <1>1, <1>2
<1> QED
  BY <1>1, <1>2, <1>3 DEF Numbers, NumbersOf

LEMMA TailPacket ==
  ASSUME NEW s \in Seq(Packet), s # <<>>
  PROVE  /\ Head(s) \in Packet /\ Head(s) = s[1]
         /\ Tail(s) \in Seq(Packet)
         /\ Len(s) >= 1 /\ Len(Tail(s)) = Len(s) - 1
         /\ \A k \in 1..Len(Tail(s)) : k + 1 \in 1..Len(s) /\ Tail(s)[k] = s[k + 1]
         /\ \A k \in 1..Len(s) : k = 1 \/ (k - 1 \in 1..Len(Tail(s)) /\ s[k] = Tail(s)[k - 1])
<1>1. Len(s) \in Nat /\ Len(s) >= 1
  OBVIOUS
<1>2. Head(s) \in Packet /\ Head(s) = s[1] /\ Tail(s) \in Seq(Packet) /\ Len(Tail(s)) = Len(s) - 1
  BY <1>1
<1>3. \A k \in 1..Len(Tail(s)) : k + 1 \in 1..Len(s) /\ Tail(s)[k] = s[k + 1]
  BY <1>1, <1>2
<1>4. ASSUME NEW k \in 1..Len(s), k # 1
      PROVE  k - 1 \in 1..Len(Tail(s)) /\ s[k] = Tail(s)[k - 1]
  <2>1. k - 1 \in 1..Len(Tail(s)) /\ (k - 1) + 1 = k
    BY <1>1, <1>2, <1>4
  <2> QED
    BY <1>3, <2>1
<1> QED
  BY <1>1, <1>2, <1>3, <1>4

LEMMA TailNumbers ==
  ASSUME NEW s \in Seq(Packet), s # <<>>, Increasing(s)
  PROVE  /\ Numbers(Tail(s)) = Numbers(s) \ {s[1].n}
         /\ s[1].n \in Numbers(s)
         /\ \A id : NumbersOf(id, s) = (IF s[1].id = id THEN {s[1].n} ELSE {})
                                          \cup NumbersOf(id, Tail(s))
<1>1. \A k \in 1..Len(s) : k # 1 => s[k].n # s[1].n
  <2>1. 1 \in 1..Len(s) /\ Len(s) \in Nat
    BY TailPacket
  <2>2. \A k \in 1..Len(s) : s[k] \in Packet
    OBVIOUS
  <2> QED
    BY <2>1, <2>2 DEF Increasing, Packet
<1>2. 1 \in 1..Len(s)
  BY TailPacket
<1>3. \A k \in 1..Len(Tail(s)) : k + 1 \in 1..Len(s) /\ k + 1 # 1 /\ Tail(s)[k] = s[k + 1]
  BY TailPacket
<1>4. \A k \in 1..Len(s) : k = 1 \/ (k - 1 \in 1..Len(Tail(s)) /\ s[k] = Tail(s)[k - 1])
  BY TailPacket
<1>5. Numbers(Tail(s)) = Numbers(s) \ {s[1].n}
  <2>1. ASSUME NEW k \in 1..Len(Tail(s))
        PROVE  Tail(s)[k].n \in Numbers(s) \ {s[1].n}
    BY <1>1, <1>3 DEF Numbers
  <2>2. ASSUME NEW k \in 1..Len(s), s[k].n # s[1].n
        PROVE  s[k].n \in Numbers(Tail(s))
    BY <1>4, <2>2 DEF Numbers
  <2> QED
    BY <2>1, <2>2 DEF Numbers
<1>6. s[1].n \in Numbers(s)
  BY <1>2 DEF Numbers
<1>7. ASSUME NEW id
      PROVE  NumbersOf(id, s) = (IF s[1].id = id THEN {s[1].n} ELSE {}) \cup NumbersOf(id, Tail(s))
  <2>1. NumbersOf(id, Tail(s)) \subseteq NumbersOf(id, s)
    BY <1>3 DEF NumbersOf
  <2>2. s[1].id = id => s[1].n \in NumbersOf(id, s)
    BY <1>2 DEF NumbersOf
  <2>3. ASSUME NEW k \in 1..Len(s), s[k].id = id
        PROVE  s[k].n \in (IF s[1].id = id THEN {s[1].n} ELSE {}) \cup NumbersOf(id, Tail(s))
    BY <1>4, <2>3 DEF NumbersOf
  <2> QED
    BY <2>1, <2>2, <2>3 DEF NumbersOf
<1> QED
  BY <1>5, <1>6, <1>7

-----------------------------------------------------------------------------
(* The steps. *)

LEMMA PlaceFacts ==
  /\ [kind |-> "passed", of |-> 0] \in Places
  /\ [kind |-> "verdicts", of |-> 0] \in Places
  /\ [kind |-> "io", of |-> 0] \in Places
  /\ \A w \in Workers : /\ [kind |-> "worker", of |-> w] \in Places
                        /\ [kind |-> "queue", of |-> w] \in Places
  /\ \A p \in Places : \/ p = [kind |-> "passed", of |-> 0]
                       \/ p = [kind |-> "verdicts", of |-> 0]
                       \/ p = [kind |-> "io", of |-> 0]
                       \/ \E w \in Workers : p = [kind |-> "worker", of |-> w]
                       \/ \E w \in Workers : p = [kind |-> "queue", of |-> w]
  BY DEF Places

LEMMA AtPlaces ==
  /\ At[[kind |-> "passed", of |-> 0]] = passed
  /\ At[[kind |-> "verdicts", of |-> 0]] = Numbers(verdicts)
  /\ At[[kind |-> "io", of |-> 0]] = Numbers(io.pkt)
  /\ \A w \in Workers : /\ At[[kind |-> "worker", of |-> w]] = Numbers(worker[w].pkt)
                        /\ At[[kind |-> "queue", of |-> w]] = Numbers(queue[w])
  BY PlaceFacts DEF At, PacketsAt

\* At most one packet.
LEMMA OnePacket ==
  /\ Numbers(<<>>) = {} /\ \A id : NumbersOf(id, <<>>) = {}
  /\ \A p \in Packet : /\ Numbers(<<p>>) = {p.n}
                       /\ \A id : NumbersOf(id, <<p>>) = (IF p.id = id THEN {p.n} ELSE {})
                       /\ <<p>> # <<>> /\ <<p>>[1] = p
<1>1. \A p : Len(<<p>>) = 1 /\ 1..1 = {1} /\ <<p>>[1] = p
  OBVIOUS
<1>2. Len(<<>>) = 0 /\ 1..0 = {}
  OBVIOUS
<1> QED
  BY <1>1, <1>2 DEF Numbers, NumbersOf

LEMMA Index == \A p \in Packet : index(p) = p.id % N /\ index(p) \in Workers
<1> SUFFICES ASSUME NEW p \in Packet PROVE index(p) = p.id % N /\ index(p) \in Workers
  OBVIOUS
<1>1. p.id \in Nat
  BY EngineAssumption, Zenon DEF Packet
<1>3. N \in Nat /\ N > 0
  BY EngineAssumption
<1>2. \A a, m \in Nat : m > 0 => a % m \in 0..(m - 1)
  BY SMTT(30)
<1> QED
  BY <1>1, <1>2, <1>3 DEF index, Workers

THEOREM InitIInv == Init => IInv
<1> SUFFICES ASSUME Init PROVE IInv
  OBVIOUS
<1>1. TypeOK
  <2>1. <<>> \in Seq(Packet) /\ Len(<<>>) = 0 /\ MaxPackets \in Nat /\ ChanSize \in Nat
    BY EngineAssumption
  <2>2. queue \in [Workers -> Seq(Packet)] /\ \A w \in Workers : Len(queue[w]) <= ChanSize
    BY <2>1 DEF Init
  <2>3. 0 \in 0..MaxPackets
    BY <2>1
  <2> QED
    BY <2>1, <2>2, <2>3 DEF Init, TypeOK
<1>2. \A p \in Places : At[p] = {}
  BY OnePacket DEF Init, At, PacketsAt, Places
<1>3. Partition(At, 1..arrived)
  BY <1>2 DEF Partition, Init
<1> QED
  BY <1>1, <1>3 DEF Init, IInv, WorkerInv, Increasing, NoneTwice

\* What the types say of the packets on their way.
LEMMA Types ==
  ASSUME TypeOK
  PROVE  /\ arrived \in Nat /\ MaxPackets \in Nat /\ arrived <= MaxPackets
         /\ io.pkt = <<>> \/ \E p \in Packet : io.pkt = <<p>>
         /\ io.pc = "feed" => \E p \in Packet : io.pkt = <<p>>
         /\ io.pc # "feed" => io.pkt = <<>>
         /\ \A w \in Workers :
              /\ queue[w] \in Seq(Packet) /\ Len(queue[w]) \in Nat
              /\ worker[w].pkt = <<>> \/ \E p \in Packet : worker[w].pkt = <<p>>
              /\ worker[w].pc = "handle" => \E p \in Packet : worker[w].pkt = <<p>>
              /\ worker[w].pc # "handle" => worker[w].pkt = <<>>
              /\ \A k \in 1..Len(queue[w]) : queue[w][k] \in Packet
         /\ verdicts \in Seq(Packet) /\ Len(verdicts) \in Nat
         /\ \A j \in 1..Len(verdicts) : verdicts[j] \in Packet
<1>1. arrived \in Nat /\ MaxPackets \in Nat /\ arrived <= MaxPackets
  BY EngineAssumption DEF TypeOK
<1>2. /\ io.pkt = <<>> \/ \E p \in Packet : io.pkt = <<p>>
      /\ io.pc = "feed" => \E p \in Packet : io.pkt = <<p>>
      /\ io.pc # "feed" => io.pkt = <<>>
  BY DEF TypeOK
<1>3. ASSUME NEW w \in Workers
      PROVE  /\ queue[w] \in Seq(Packet) /\ Len(queue[w]) \in Nat
             /\ worker[w].pkt = <<>> \/ \E p \in Packet : worker[w].pkt = <<p>>
             /\ worker[w].pc = "handle" => \E p \in Packet : worker[w].pkt = <<p>>
             /\ worker[w].pc # "handle" => worker[w].pkt = <<>>
             /\ \A k \in 1..Len(queue[w]) : queue[w][k] \in Packet
  <2>1. queue[w] \in Seq(Packet)
    BY DEF TypeOK
  <2>2. Len(queue[w]) \in Nat /\ \A k \in 1..Len(queue[w]) : queue[w][k] \in Packet
    BY <2>1
  <2>3. worker[w] \in [pc : {"off", "select", "stopped"}, pkt : {<<>>}]
                        \cup [pc : {"handle"}, pkt : {<<p>> : p \in Packet}]
    BY DEF TypeOK
  <2> QED
    BY <2>1, <2>2, <2>3
<1>4. verdicts \in Seq(Packet) /\ Len(verdicts) \in Nat
      /\ \A j \in 1..Len(verdicts) : verdicts[j] \in Packet
  BY DEF TypeOK
<1> QED
  BY <1>1, <1>2, <1>3, <1>4

\* A step that moves no packet.
LEMMA Quiet ==
  ASSUME IInv, TypeOK',
         run' = "new" => \A w \in Workers : worker'[w].pc = "off",
         run' \in {"new", "register"} => io'.pc = "off",
         io'.pkt = io.pkt, \A w \in Workers : worker'[w].pkt = worker[w].pkt,
         UNCHANGED <<arrived, queue, verdicts, passed>>
  PROVE  IInv' /\ UNCHANGED <<line, answered>>
<1>1. \A w \in Workers : WorkerInv(w)'
  BY DEF IInv, WorkerInv, Increasing
<1>2. \A p \in Places : At'[p] = At[p]
  BY DEF At, PacketsAt, Places
<1>3. Partition(At, 1..arrived)'
  BY <1>2 DEF IInv, Partition
<1>4. IInv'
  BY <1>1, <1>3 DEF IInv, NoneTwice
<1>5. \A id \in StreamIDs : id % N \in Workers
  <2>1. \A id \in StreamIDs : id \in Nat
    BY EngineAssumption, Zenon
  <2>2. \A a, m \in Nat : m > 0 => a % m \in 0..(m - 1)
    BY SMTT(30)
  <2>3. N \in Nat /\ N > 0
    BY EngineAssumption
  <2> QED
    BY <2>1, <2>2, <2>3 DEF Workers
<1>6. line' = line
  BY <1>5 DEF line, NumbersOf
<1>7. answered' = answered
  BY DEF answered, NumbersOf
<1> QED
  BY <1>4, <1>6, <1>7

\* The steps of Run move no packet, ...
LEMMA RunSteps ==
  ASSUME IInv, RunNext \/ RegisterFails \/ Cancel
  PROVE  IInv' /\ UNCHANGED <<line, answered>>
<1> USE DEF IInv
<1>1. CASE StartWorkers
  <2>1. \A w \in Workers : worker'[w].pkt = <<>> /\ worker[w].pkt = <<>>
    BY <1>1, Types DEF StartWorkers
  <2>2. TypeOK'
    BY <1>1 DEF StartWorkers, TypeOK
  <2> QED
    BY <1>1, <2>1, <2>2, Quiet DEF StartWorkers
<1>2. CASE Hook
  <2>1. io.pc = "off" /\ io.pkt = <<>> /\ io' = [pc |-> "receive", pkt |-> <<>>]
    BY <1>2, Types DEF Hook, TypeOK
  <2>2. TypeOK'
    BY <1>2, <2>1 DEF Hook, TypeOK
  <2> QED
    BY <1>2, <2>1, <2>2, Quiet DEF Hook
<1>3. CASE Registered
  <2>1. TypeOK'
    BY <1>3 DEF Registered, TypeOK
  <2> QED
    BY <1>3, <2>1, Quiet DEF Registered
<1>4. CASE Return("register") \/ Return("hooked") \/ Return("wait")
  <2>1. TypeOK'
    BY <1>4 DEF Return, TypeOK
  <2> QED
    BY <1>4, <2>1, Quiet DEF Return
<1>5. CASE Cancel
  <2>1. TypeOK'
    BY <1>5 DEF Cancel, TypeOK
  <2> QED
    BY <1>5, <2>1, Quiet DEF Cancel
<1> QED
  BY <1>1, <1>2, <1>3, <1>4, <1>5 DEF RunNext, RegisterFails, IOFailed, Cancelled

\* ... nor do errors and the ends of the goroutines.
LEMMA Stops ==
  ASSUME IInv, ReceiveError \/ IOStop \/ \E w \in Workers : WorkerStop(w)
  PROVE  IInv' /\ UNCHANGED <<line, answered>>
<1> USE DEF IInv
<1>1. CASE ReceiveError
  <2>1. io.pkt = <<>> /\ io'.pkt = <<>> /\ run \notin {"new", "register"}
    BY <1>1, Types DEF ReceiveError
  <2>2. errChan' = <<"error">>
    <3>1. Len(<<"error">>) = 1 /\ Append(<<>>, "error") = <<"error">>
      OBVIOUS
    <3>2. errChan = <<>>
      BY <1>1, <3>1 DEF ReceiveError, TypeOK
    <3> QED
      BY <1>1, <3>1, <3>2 DEF ReceiveError
  <2>3. TypeOK'
    BY <1>1, <2>2 DEF ReceiveError, TypeOK
  <2> QED
    BY <1>1, <2>1, <2>3, Quiet DEF ReceiveError
<1>2. CASE IOStop
  <2>1. io.pkt = <<>> /\ io'.pkt = <<>> /\ run \notin {"new", "register"}
    BY <1>2, Types DEF IOStop
  <2>2. TypeOK'
    BY <1>2 DEF IOStop, TypeOK
  <2> QED
    BY <1>2, <2>1, <2>2, Quiet DEF IOStop
<1>3. ASSUME NEW w \in Workers, WorkerStop(w)
      PROVE  IInv' /\ UNCHANGED <<line, answered>>
  <2>1. worker[w].pkt = <<>> /\ run # "new"
    BY <1>3, Types DEF WorkerStop
  <2>2. worker' = [worker EXCEPT ![w] = [pc |-> "stopped", pkt |-> <<>>]]
    BY <1>3 DEF WorkerStop
  <2>3. \A v \in Workers : worker'[v].pkt = worker[v].pkt
    BY <2>1, <2>2 DEF TypeOK
  <2>4. TypeOK'
    BY <1>3, <2>2 DEF WorkerStop, TypeOK
  <2> QED
    BY <1>3, <2>1, <2>3, <2>4, Quiet DEF WorkerStop
<1> QED
  BY <1>1, <1>2, <1>3

\* What stream IDs and packets have to do with workers.
LEMMA WorkerOf ==
  /\ \A id \in StreamIDs : id % N \in Workers
  /\ \A p \in Packet : p.id \in StreamIDs /\ p.n \in 1..MaxPackets /\ index(p) = p.id % N
<1>1. \A id \in StreamIDs : id \in Nat
  BY EngineAssumption, Zenon
<1>2. \A a, m \in Nat : m > 0 => a % m \in 0..(m - 1)
  BY SMTT(30)
<1>3. N \in Nat /\ N > 0
  BY EngineAssumption
<1> QED
  BY <1>1, <1>2, <1>3 DEF Workers, index, Packet

\* A packet received is a new one, and the last in its stream's line.
LEMMA ReceiveStep ==
  ASSUME IInv, NEW id \in StreamIDs, Receive(id)
  PROVE  IInv' /\ Order!Arrive(id, arrived')
<1> USE DEF IInv
<1> DEFINE p == [n |-> arrived', id |-> id]
           here == [kind |-> "io", of |-> 0]
<1>1. /\ arrived' = arrived + 1 /\ arrived' \in 1..MaxPackets /\ arrived \in Nat
      /\ io = [pc |-> "receive", pkt |-> <<>>] /\ io' = [pc |-> "feed", pkt |-> <<p>>]
      /\ p \in Packet
      /\ UNCHANGED <<run, ctx, ioCtx, errChan, queue, worker, verdicts, passed>>
  <2>1. arrived' = arrived + 1 /\ arrived' \in 1..MaxPackets /\ arrived \in Nat
    BY Types DEF Receive
  <2>2. p \in Packet
    BY <2>1 DEF Packet
  <2>3. io = [pc |-> "receive", pkt |-> <<>>]
    BY DEF Receive, TypeOK
  <2> QED
    BY <2>1, <2>2, <2>3 DEF Receive
<1>2. TypeOK'
  <2>1. passed' \subseteq 1..MaxPackets /\ arrived' \in 0..MaxPackets
    BY <1>1 DEF TypeOK
  <2> QED
    BY <1>1, <2>1 DEF TypeOK
<1>3. io'.pkt # <<>> /\ io'.pkt[1].n = arrived'
  BY <1>1, OnePacket
<1>4. \A j \in 1..Len(verdicts') : verdicts'[j].n <= arrived' /\ verdicts'[j].n < arrived'
  BY <1>1, Types DEF Packet
<1>5. ASSUME NEW w \in Workers PROVE WorkerInv(w)'
  <2>1. WorkerInv(w)
    OBVIOUS
  <2>2. \A k \in 1..Len(queue[w]) : queue[w][k].n <= arrived /\ queue[w][k].n \in Nat
    BY <2>1, Types, WorkerOf DEF WorkerInv
  <2>3. worker[w].pkt # <<>> => worker[w].pkt[1].n <= arrived /\ worker[w].pkt[1].n \in Nat
    BY <2>1, Types, WorkerOf, OnePacket DEF WorkerInv
  <2>4. /\ Increasing(queue[w])'
        /\ \A k \in 1..Len(queue'[w]) : /\ index(queue'[w][k]) = w
                                        /\ queue'[w][k].n < arrived'
        /\ worker'[w].pkt # <<>> => /\ index(worker'[w].pkt[1]) = w
                                    /\ worker'[w].pkt[1].n < arrived'
    BY <1>1, <2>1, <2>2, <2>3 DEF WorkerInv, Increasing
  <2>5. \A m, n \in Nat : m < n => m <= n
    OBVIOUS
  <2> QED
    BY <1>1, <2>1, <2>2, <2>3, <2>4, <2>5 DEF WorkerInv
<1>6. Partition(At, 1..arrived)'
  <2>1. arrived' \notin 1..arrived /\ 1..arrived' = 1..arrived \cup {arrived'}
    BY <1>1
  <2>2. At[here] = {} /\ At'[here] = {arrived'}
    BY <1>1, OnePacket DEF At, PacketsAt, Places
  <2>3. \A q \in Places \ {here} : At'[q] = At[q]
    BY <1>1 DEF At, PacketsAt, Places
  <2>4. here \in Places /\ At'[here] = At[here] \cup {arrived'}
    BY <2>2, PlaceFacts
  <2>5. Partition(At, 1..arrived)
    OBVIOUS
  <2>6. Partition(At', 1..arrived \cup {arrived'})
    BY ONLY <2>1, <2>3, <2>4, <2>5, Add
  <2> QED
    BY <2>1, <2>6 DEF Partition
<1>7. IInv'
  BY <1>1, <1>2, <1>3, <1>4, <1>5, <1>6 DEF NoneTwice
<1>8. \A m \in line[id] \cup answered[id] : m < arrived'
  <2>1. \A j \in 1..Len(verdicts) : verdicts[j].n < arrived'
    BY <1>1, <1>4
  <2>2. \A w \in Workers : WorkerInv(w)
    OBVIOUS
  <2> QED
    BY <1>1, <2>1, <2>2, Types, WorkerOf, OnePacket DEF line, answered, NumbersOf, WorkerInv
<1>9. line' = [line EXCEPT ![id] = @ \cup {arrived'}]
  <2>1. \A i \in StreamIDs : NumbersOf(i, io.pkt) = {}
                             /\ NumbersOf(i, io'.pkt) = IF i = id THEN {arrived'} ELSE {}
    BY <1>1, OnePacket
  <2>2. \A i \in StreamIDs : line'[i] = NumbersOf(i, io'.pkt) \cup line[i]
    BY <1>1, <2>1 DEF line, NumbersOf
  <2> QED
    BY <2>1, <2>2 DEF line
<1>10. answered' = answered
  BY <1>1 DEF answered, NumbersOf
<1> QED
  BY <1>7, <1>8, <1>9, <1>10 DEF Order!Arrive

\* So is one let through at once, which no line sees.
LEMMA UnsupportedStep ==
  ASSUME IInv, ReceiveUnsupported
  PROVE  IInv' /\ UNCHANGED <<line, answered>>
<1> USE DEF IInv
<1> DEFINE here == [kind |-> "passed", of |-> 0]
<1>1. /\ arrived' = arrived + 1 /\ arrived' \in 1..MaxPackets /\ arrived \in Nat
      /\ io.pkt = <<>> /\ passed' = passed \cup {arrived'}
      /\ UNCHANGED <<run, ctx, ioCtx, errChan, io, queue, worker, verdicts>>
  BY Types DEF ReceiveUnsupported
<1>2. TypeOK'
  <2>1. passed' \subseteq 1..MaxPackets /\ arrived' \in 0..MaxPackets
    BY <1>1 DEF TypeOK
  <2> QED
    BY <1>1, <2>1 DEF TypeOK
<1>3. \A j \in 1..Len(verdicts') : verdicts'[j].n <= arrived'
  BY <1>1, Types DEF Packet
<1>4. ASSUME NEW w \in Workers PROVE WorkerInv(w)'
  <2>1. WorkerInv(w)
    OBVIOUS
  <2>2. \A k \in 1..Len(queue[w]) : queue[w][k].n <= arrived /\ queue[w][k].n \in Nat
    BY <2>1, Types, WorkerOf DEF WorkerInv
  <2>3. worker[w].pkt # <<>> => worker[w].pkt[1].n <= arrived /\ worker[w].pkt[1].n \in Nat
    BY <2>1, Types, WorkerOf, OnePacket DEF WorkerInv
  <2>4. /\ \A k \in 1..Len(queue[w]) : queue[w][k].n <= arrived'
        /\ worker[w].pkt # <<>> => worker[w].pkt[1].n <= arrived'
    BY <1>1, <2>2, <2>3
  <2> QED
    BY <1>1, <2>1, <2>4 DEF WorkerInv, Increasing
<1>5. Partition(At, 1..arrived)'
  <2>1. arrived' \notin 1..arrived /\ 1..arrived' = 1..arrived \cup {arrived'}
    BY <1>1
  <2>2. here \in Places /\ At'[here] = At[here] \cup {arrived'}
    BY <1>1, PlaceFacts DEF At, PacketsAt
  <2>3. \A q \in Places \ {here} : At'[q] = At[q]
    BY <1>1 DEF At, PacketsAt, Places
  <2>4. Partition(At, 1..arrived)
    OBVIOUS
  <2>5. Partition(At', 1..arrived \cup {arrived'})
    BY ONLY <2>1, <2>2, <2>3, <2>4, Add
  <2> QED
    BY <2>1, <2>5 DEF Partition
<1>6. IInv'
  BY <1>1, <1>2, <1>3, <1>4, <1>5 DEF NoneTwice
<1>7. UNCHANGED <<line, answered>>
  BY <1>1 DEF line, answered, NumbersOf
<1> QED
  BY <1>6, <1>7

\* A packet fed to its worker goes to the end of what that worker holds.
LEMMA FeedStep ==
  ASSUME IInv, Feed
  PROVE  IInv' /\ UNCHANGED <<line, answered>>
<1> USE DEF IInv
<1> DEFINE p == io.pkt[1]
           i == index(p)
           from == [kind |-> "io", of |-> 0]
           to == [kind |-> "queue", of |-> i]
<1>1. /\ p \in Packet /\ io.pkt = <<p>> /\ i \in Workers /\ i = p.id % N /\ index(p) = i
      /\ Len(queue[i]) < ChanSize
      /\ queue' = [queue EXCEPT ![i] = Append(@, p)]
      /\ io' = [pc |-> "receive", pkt |-> <<>>]
      /\ UNCHANGED <<run, ctx, ioCtx, errChan, arrived, worker, verdicts, passed>>
  BY Types, OnePacket, Index DEF Feed
<1> HIDE DEF p, i
<1>2. /\ queue[i] \in Seq(Packet) /\ Len(queue[i]) \in Nat
      /\ queue'[i] = Append(queue[i], p)
      /\ \A w \in Workers \ {i} : queue'[w] = queue[w]
  BY <1>1 DEF TypeOK
<1>3. /\ queue'[i] \in Seq(Packet)
      /\ Len(queue'[i]) = Len(queue[i]) + 1
      /\ \A k \in 1..Len(queue[i]) : queue'[i][k] = queue[i][k]
      /\ queue'[i][Len(queue[i]) + 1] = p
      /\ Numbers(queue'[i]) = Numbers(queue[i]) \cup {p.n}
      /\ \A id : NumbersOf(id, queue'[i]) =
                   NumbersOf(id, queue[i]) \cup (IF p.id = id THEN {p.n} ELSE {})
  BY <1>1, <1>2, AppendPacket
<1>4. TypeOK'
  <2>1. queue' \in [Workers -> Seq(Packet)]
    BY <1>1, <1>3 DEF TypeOK
  <2>2. ASSUME NEW w \in Workers PROVE Len(queue'[w]) <= ChanSize
    <3>1. CASE w = i
      <4>1. Len(queue'[w]) = Len(queue[i]) + 1 /\ ChanSize \in Nat
        BY <1>3, <3>1, EngineAssumption
      <4> QED
        BY <1>1, <1>2, <4>1
    <3>2. CASE w # i
      BY <1>2, <3>2 DEF TypeOK
    <3> QED
      BY <3>1, <3>2
  <2> QED
    BY <1>1, <2>1, <2>2 DEF TypeOK
<1>5. io'.pkt = <<>> /\ io'.pc # "off" /\ io.pkt # <<>> /\ p.n = arrived
      /\ run \notin {"new", "register"}
  BY <1>1, Types, OnePacket DEF Feed
<1>6. ASSUME NEW w \in Workers PROVE WorkerInv(w)'
  <2>1. WorkerInv(w)
    OBVIOUS
  <2>2. CASE w # i
    <3>1. queue'[w] = queue[w]
      BY <1>2, <2>2
    <3> QED
      BY <1>1, <1>5, <2>1, <3>1 DEF WorkerInv, Increasing
  <2>3. CASE w = i
    <3> DEFINE q == queue[i]
    <3>1. \A k \in 1..Len(queue'[i]) :
             \/ k \in 1..Len(q) /\ queue'[i][k] = q[k]
             \/ k = Len(q) + 1 /\ queue'[i][k] = p
      BY <1>2, <1>3
    <3>2. /\ Increasing(q)
          /\ \A k \in 1..Len(q) : index(q[k]) = i /\ q[k].n < arrived /\ q[k].n <= arrived
      BY <1>5, <2>1, <2>3 DEF WorkerInv
    <3>3. Increasing(queue'[i])
      <4>1. \A k \in 1..Len(q) : k < Len(q) + 1 /\ ~(Len(q) + 1 < k)
        BY <1>2
      <4>2. ~(Len(q) + 1 < Len(q) + 1)
        BY <1>2
      <4> QED
        BY <1>5, <3>1, <3>2, <4>1, <4>2 DEF Increasing
    <3>4. p.n <= arrived
      BY <1>5, Types
    <3>5. \A k \in 1..Len(queue'[i]) : index(queue'[i][k]) = i /\ queue'[i][k].n <= arrived
      BY <1>1, <3>1, <3>2, <3>4
    <3>6. worker[i].pkt # <<>> =>
             /\ index(worker[i].pkt[1]) = i /\ worker[i].pkt[1].n <= arrived
             /\ \A k \in 1..Len(queue'[i]) : worker[i].pkt[1].n < queue'[i][k].n
      BY <1>5, <2>1, <2>3, <3>1 DEF WorkerInv
    <3>7. \A j \in 1..Len(verdicts) : index(verdicts[j]) = i =>
             /\ worker[i].pkt # <<>> => verdicts[j].n < worker[i].pkt[1].n
             /\ \A k \in 1..Len(queue'[i]) : verdicts[j].n < queue'[i][k].n
      BY <1>5, <2>1, <2>3, <3>1 DEF WorkerInv
    <3> QED
      BY <1>1, <1>5, <2>3, <3>3, <3>5, <3>6, <3>7 DEF WorkerInv
  <2> QED
    BY <2>2, <2>3
<1>7. Partition(At, 1..arrived)'
  <2>1. from \in Places /\ to \in Places /\ from # to
    BY <1>1, PlaceFacts
  <2>2. At[from] = {p.n} /\ At'[from] = {} /\ At[to] = Numbers(queue[i])
        /\ At'[to] = Numbers(queue'[i])
    BY <1>1, <1>5, <2>1, OnePacket DEF At, PacketsAt
  <2>3. p.n \in At[from] /\ At'[from] = At[from] \ {p.n} /\ At'[to] = At[to] \cup {p.n}
    BY <1>3, <2>2
  <2>4. ASSUME NEW x \in Places \ {from, to} PROVE At'[x] = At[x]
    <3>1. CASE x.kind = "queue"
      BY <1>2, <2>4, <3>1 DEF At, PacketsAt, Places
    <3>2. CASE x.kind \in {"passed", "verdicts", "worker"}
      BY <1>1, <3>2 DEF At, PacketsAt, Places
    <3> QED
      BY <2>4, <3>1, <3>2 DEF Places
  <2>5. Partition(At, 1..arrived)
    OBVIOUS
  <2>6. Partition(At', 1..arrived)
    BY ONLY <2>1, <2>3, <2>4, <2>5, Move
  <2> QED
    BY <1>1, <2>6 DEF Partition
<1>8. IInv'
  BY <1>1, <1>4, <1>5, <1>6, <1>7 DEF NoneTwice
<1>9. ASSUME NEW id \in StreamIDs PROVE line'[id] = line[id]
  <2>1. NumbersOf(id, io.pkt) = (IF p.id = id THEN {p.n} ELSE {}) /\ NumbersOf(id, io'.pkt) = {}
    BY <1>1, <1>5, OnePacket
  <2>2. CASE p.id = id
    BY <1>1, <1>3, <2>1, <2>2 DEF line, NumbersOf
  <2>3. CASE p.id # id
    <3>1. NumbersOf(id, queue'[id % N]) = NumbersOf(id, queue[id % N])
      <4>1. CASE id % N = i
        <5>1. NumbersOf(id, queue'[i]) = NumbersOf(id, queue[i]) \cup {}
          BY <1>3, <2>3
        <5> QED
          BY <4>1, <5>1
      <4>2. CASE id % N # i
        BY <1>2, <4>2, WorkerOf
      <4> QED
        BY <4>1, <4>2
    <3> QED
      BY <1>1, <2>1, <2>3, <3>1 DEF line
  <2> QED
    BY <2>2, <2>3
<1>10. line' = line
  BY <1>9 DEF line
<1>11. answered' = answered
  BY <1>1 DEF answered, NumbersOf
<1> QED
  BY <1>8, <1>10, <1>11

\* A worker takes the first of its packets: it holds what it held.
LEMMA TakeStep ==
  ASSUME IInv, NEW w \in Workers, Take(w)
  PROVE  IInv' /\ UNCHANGED <<line, answered>>
<1> USE DEF IInv
<1> DEFINE q == queue[w]
           p == q[1]
           from == [kind |-> "queue", of |-> w]
           to == [kind |-> "worker", of |-> w]
<1>1. /\ q \in Seq(Packet) /\ q # <<>> /\ p \in Packet /\ p = Head(q) /\ p = q[1]
      /\ worker[w].pc = "select" /\ worker[w].pkt = <<>>
      /\ worker' = [worker EXCEPT ![w] = [pc |-> "handle", pkt |-> <<p>>]]
      /\ queue' = [queue EXCEPT ![w] = Tail(q)]
      /\ UNCHANGED <<run, ctx, ioCtx, errChan, io, arrived, verdicts, passed>>
  BY Types, TailPacket DEF Take
<1>2. WorkerInv(w) /\ Increasing(q)
  BY DEF WorkerInv
<1>3. /\ Len(q) \in Nat /\ 1 \in 1..Len(q) /\ Len(Tail(q)) = Len(q) - 1
      /\ Tail(q) \in Seq(Packet)
      /\ \A k \in 1..Len(Tail(q)) : k + 1 \in 1..Len(q) /\ 1 < k + 1 /\ Tail(q)[k] = q[k + 1]
  BY <1>1, TailPacket
<1>4. /\ Numbers(Tail(q)) = Numbers(q) \ {p.n} /\ p.n \in Numbers(q)
      /\ \A id : NumbersOf(id, q) = (IF p.id = id THEN {p.n} ELSE {}) \cup NumbersOf(id, Tail(q))
  BY <1>1, <1>2, TailNumbers
<1>5. queue'[w] = Tail(q) /\ worker'[w] = [pc |-> "handle", pkt |-> <<p>>]
      /\ \A v \in Workers \ {w} : queue'[v] = queue[v] /\ worker'[v] = worker[v]
  BY <1>1 DEF TypeOK
<1> HIDE DEF q, p
<1>6. TypeOK'
  <2>1. queue' \in [Workers -> Seq(Packet)]
    BY <1>1, <1>3 DEF TypeOK
  <2>2. ASSUME NEW v \in Workers PROVE Len(queue'[v]) <= ChanSize
    <3>1. CASE v = w
      <4>1. Len(q) <= ChanSize /\ ChanSize \in Nat
        BY EngineAssumption DEF TypeOK, q
      <4> QED
        BY <1>3, <1>5, <3>1, <4>1
    <3>2. CASE v # w
      BY <1>5, <3>2 DEF TypeOK
    <3> QED
      BY <3>1, <3>2
  <2>3. worker' \in [Workers -> [pc : {"off", "select", "stopped"}, pkt : {<<>>}]
                                   \cup [pc : {"handle"}, pkt : {<<x>> : x \in Packet}]]
    BY <1>1 DEF TypeOK
  <2> QED
    BY <1>1, <2>1, <2>2, <2>3 DEF TypeOK
<1>7. run # "new"
  BY <1>1
<1>8. ASSUME NEW v \in Workers PROVE WorkerInv(v)'
  <2>1. WorkerInv(v)
    OBVIOUS
  <2>2. CASE v # w
    <3>1. queue'[v] = queue[v] /\ worker'[v] = worker[v]
      BY <1>5, <2>2
    <3> QED
      BY <1>1, <2>1, <3>1 DEF WorkerInv, Increasing
  <2>3. CASE v = w
    <3>1. Increasing(Tail(q))
      <4>1. \A j, k \in 1..Len(Tail(q)) : j < k => j + 1 < k + 1
        OBVIOUS
      <4> QED
        BY <1>2, <1>3, <4>1 DEF Increasing
    <3>2. /\ \A k \in 1..Len(q) : /\ index(q[k]) = w /\ q[k].n <= arrived
                                  /\ io.pkt # <<>> => q[k].n < arrived
          /\ \A j \in 1..Len(verdicts) : index(verdicts[j]) = w =>
                \A k \in 1..Len(q) : verdicts[j].n < q[k].n
      BY <1>2 DEF WorkerInv, q
    <3>3. \A k \in 1..Len(Tail(q)) : p.n < Tail(q)[k].n
      BY <1>2, <1>3 DEF Increasing, p
    <3>4. <<p>> # <<>> /\ <<p>>[1] = p
      BY <1>1, OnePacket
    <3>5. index(p) = w /\ p.n <= arrived /\ (io.pkt # <<>> => p.n < arrived)
          /\ \A j \in 1..Len(verdicts) : index(verdicts[j]) = w => verdicts[j].n < p.n
      <4>1. 1 \in 1..Len(q) /\ p = q[1]
        BY <1>1, <1>3
      <4>2. index(p) = w /\ p.n <= arrived /\ (io.pkt # <<>> => p.n < arrived)
        <5>1. index(q[1]) = w /\ q[1].n <= arrived /\ (io.pkt # <<>> => q[1].n < arrived)
          BY <3>2, <4>1
        <5> QED
          BY <4>1, <5>1
      <4>3. \A j \in 1..Len(verdicts) : index(verdicts[j]) = w => verdicts[j].n < p.n
        BY <3>2, <4>1
      <4> QED
        BY <4>2, <4>3
    <3>6. /\ \A k \in 1..Len(Tail(q)) : /\ index(Tail(q)[k]) = w /\ Tail(q)[k].n <= arrived
                                        /\ io.pkt # <<>> => Tail(q)[k].n < arrived
          /\ \A j \in 1..Len(verdicts) : index(verdicts[j]) = w =>
                \A k \in 1..Len(Tail(q)) : verdicts[j].n < Tail(q)[k].n
      BY <1>3, <3>2
    <3>7. queue'[v] = Tail(q) /\ worker'[v].pkt = <<p>>
      BY <1>5, <2>3
    <3>8. io' = io /\ arrived' = arrived /\ verdicts' = verdicts
      BY <1>1
    <3>9. worker'[v].pkt[1] = p
      BY <3>4, <3>7
    <3>10. /\ Increasing(queue'[v])
           /\ \A k \in 1..Len(queue'[v]) : /\ index(queue'[v][k]) = v
                                           /\ queue'[v][k].n <= arrived'
                                           /\ io'.pkt # <<>> => queue'[v][k].n < arrived'
      BY <2>3, <3>1, <3>6, <3>7, <3>8
    <3>11. /\ index(worker'[v].pkt[1]) = v
           /\ worker'[v].pkt[1].n <= arrived'
           /\ io'.pkt # <<>> => worker'[v].pkt[1].n < arrived'
           /\ \A k \in 1..Len(queue'[v]) : worker'[v].pkt[1].n < queue'[v][k].n
      BY <2>3, <3>3, <3>5, <3>7, <3>8, <3>9
    <3>12. \A j \in 1..Len(verdicts') : index(verdicts'[j]) = v =>
             /\ verdicts'[j].n < worker'[v].pkt[1].n
             /\ \A k \in 1..Len(queue'[v]) : verdicts'[j].n < queue'[v][k].n
      BY <2>3, <3>5, <3>6, <3>7, <3>8, <3>9
    <3> QED
      BY <3>10, <3>11, <3>12 DEF WorkerInv, Increasing, index
  <2> QED
    BY <2>2, <2>3
<1>9. Partition(At, 1..arrived)'
  <2>1. from \in Places /\ to \in Places /\ from # to
    BY PlaceFacts
  <2>2. At[from] = Numbers(q) /\ At'[from] = Numbers(Tail(q)) /\ At[to] = {} /\ At'[to] = {p.n}
    <3>1. At[from] = Numbers(queue[w]) /\ At'[from] = Numbers(queue'[w])
      BY <2>1 DEF At, PacketsAt
    <3>2. At[to] = Numbers(worker[w].pkt) /\ At'[to] = Numbers(worker'[w].pkt)
      BY <2>1 DEF At, PacketsAt
    <3>3. Numbers(worker[w].pkt) = {} /\ Numbers(worker'[w].pkt) = {p.n}
      <4>1. worker[w].pkt = <<>> /\ worker'[w].pkt = <<p>> /\ p \in Packet
        BY <1>1, <1>5
      <4> QED
        BY <4>1, OnePacket
    <3> QED
      BY <1>5, <3>1, <3>2, <3>3 DEF q
  <2>3. p.n \in At[from] /\ At'[from] = At[from] \ {p.n} /\ At'[to] = At[to] \cup {p.n}
    BY <1>4, <2>2
  <2>4. ASSUME NEW x \in Places \ {from, to} PROVE At'[x] = At[x]
    <3>1. CASE x.kind \in {"queue", "worker"}
      BY <1>5, <2>4, <3>1 DEF At, PacketsAt, Places
    <3>2. CASE x.kind \in {"passed", "verdicts", "io"}
      BY <1>1, <3>2 DEF At, PacketsAt, Places
    <3> QED
      BY <3>1, <3>2 DEF Places
  <2>5. Partition(At, 1..arrived)
    OBVIOUS
  <2>6. Partition(At', 1..arrived)
    BY ONLY <2>1, <2>3, <2>4, <2>5, Move
  <2> QED
    BY <1>1, <2>6 DEF Partition
<1>10. IInv'
  BY <1>1, <1>6, <1>7, <1>8, <1>9 DEF NoneTwice
<1>11. ASSUME NEW id \in StreamIDs PROVE line'[id] = line[id]
  <2>1. CASE id % N = w
    <3>1. NumbersOf(id, worker[w].pkt) = {}
          /\ NumbersOf(id, worker'[w].pkt) = (IF p.id = id THEN {p.n} ELSE {})
      <4>1. worker[w].pkt = <<>> /\ worker'[w].pkt = <<p>> /\ p \in Packet
        BY <1>1, <1>5
      <4> QED
        BY <4>1, OnePacket
    <3>2. NumbersOf(id, q) = NumbersOf(id, worker'[w].pkt) \cup NumbersOf(id, queue'[w])
      BY <1>4, <1>5, <3>1
    <3> QED
      BY <1>1, <2>1, <3>1, <3>2 DEF line, q
  <2>2. CASE id % N # w
    BY <1>1, <1>5, <2>2, WorkerOf DEF line
  <2> QED
    BY <2>1, <2>2
<1>12. line' = line
  BY <1>11 DEF line
<1>13. answered' = answered
  BY <1>1 DEF answered, NumbersOf
<1> QED
  BY <1>10, <1>12, <1>13

\* The packet a worker has handled is the first in its stream's line.
LEMMA VerdictStep ==
  ASSUME IInv, NEW w \in Workers, SetVerdict(w)
  PROVE  IInv' /\ \E p \in Packet : Order!Answer(p.id, p.n)
<1> USE DEF IInv
<1> DEFINE p == worker[w].pkt[1]
           from == [kind |-> "worker", of |-> w]
           to == [kind |-> "verdicts", of |-> 0]
<1>1. /\ p \in Packet /\ worker[w].pkt = <<p>> /\ worker[w].pkt # <<>>
      /\ verdicts \in Seq(Packet) /\ verdicts' = Append(verdicts, p)
      /\ worker' = [worker EXCEPT ![w] = [pc |-> "select", pkt |-> <<>>]]
      /\ UNCHANGED <<run, ctx, ioCtx, errChan, io, arrived, queue, passed>>
  BY Types, OnePacket DEF SetVerdict
<1>2. WorkerInv(w)
  OBVIOUS
<1>3. /\ index(p) = w /\ p.n <= arrived /\ (io.pkt # <<>> => p.n < arrived)
      /\ \A k \in 1..Len(queue[w]) : p.n < queue[w][k].n
      /\ \A j \in 1..Len(verdicts) : index(verdicts[j]) = w => verdicts[j].n < p.n
  BY <1>1, <1>2 DEF WorkerInv
<1>4. worker'[w] = [pc |-> "select", pkt |-> <<>>]
      /\ \A v \in Workers \ {w} : worker'[v] = worker[v]
  BY <1>1 DEF TypeOK
<1> HIDE DEF p
<1>5. /\ verdicts' \in Seq(Packet)
      /\ Len(verdicts) \in Nat /\ Len(verdicts') = Len(verdicts) + 1
      /\ \A k \in 1..Len(verdicts) : verdicts'[k] = verdicts[k]
      /\ verdicts'[Len(verdicts) + 1] = p
      /\ Numbers(verdicts') = Numbers(verdicts) \cup {p.n}
      /\ \A id : NumbersOf(id, verdicts') =
                   NumbersOf(id, verdicts) \cup (IF p.id = id THEN {p.n} ELSE {})
  BY <1>1, AppendPacket
<1>6. \A j \in 1..Len(verdicts') :
        \/ j \in 1..Len(verdicts) /\ verdicts'[j] = verdicts[j]
        \/ j = Len(verdicts) + 1 /\ verdicts'[j] = p
  BY <1>5
<1>7. TypeOK'
  <2>1. worker' \in [Workers -> [pc : {"off", "select", "stopped"}, pkt : {<<>>}]
                                  \cup [pc : {"handle"}, pkt : {<<x>> : x \in Packet}]]
    BY <1>1 DEF TypeOK
  <2> QED
    BY <1>1, <1>5, <2>1 DEF TypeOK
<1>8. run # "new"
  BY <1>1, Types DEF SetVerdict
<1>9. \A j \in 1..Len(verdicts') : /\ verdicts'[j].n <= arrived'
                                   /\ io'.pkt # <<>> => verdicts'[j].n < arrived'
  BY <1>1, <1>3, <1>6
<1>10. p.n \in Numbers(worker[w].pkt) /\ p.n \notin Numbers(verdicts)
  <2>1. p.n \in Numbers(worker[w].pkt)
    <3>1. p \in Packet /\ worker[w].pkt = <<p>>
      BY <1>1
    <3> QED
      BY <3>1, OnePacket
  <2>2. from \in Places /\ to \in Places /\ from # to
    BY PlaceFacts
  <2>3. At[from] = Numbers(worker[w].pkt) /\ At[to] = Numbers(verdicts)
    BY AtPlaces
  <2>4. At[from] \cap At[to] = {}
    BY <2>2 DEF Partition
  <2> QED
    BY <2>1, <2>3, <2>4
<1>11. NoneTwice(verdicts')
  <2>1. \A j \in 1..Len(verdicts) : verdicts[j].n # p.n
    BY <1>10 DEF Numbers
  <2>2. NoneTwice(verdicts)
    OBVIOUS
  <2> QED
    BY <1>6, <2>1, <2>2 DEF NoneTwice
<1>12. ASSUME NEW v \in Workers PROVE WorkerInv(v)'
  <2>1. WorkerInv(v)
    OBVIOUS
  <2>2. queue'[v] = queue[v] /\ io' = io /\ arrived' = arrived
    BY <1>1
  <2>3. CASE v # w
    <3>1. worker'[v] = worker[v]
      BY <1>4, <2>3
    <3>2. index(p) # v
      BY <1>3, <2>3
    <3>3. \A j \in 1..Len(verdicts') : index(verdicts'[j]) = v =>
            /\ worker'[v].pkt # <<>> => verdicts'[j].n < worker'[v].pkt[1].n
            /\ \A k \in 1..Len(queue'[v]) : verdicts'[j].n < queue'[v][k].n
      BY <1>6, <2>1, <2>2, <3>1, <3>2 DEF WorkerInv
    <3> QED
      BY <2>1, <2>2, <3>1, <3>3 DEF WorkerInv, Increasing
  <2>4. CASE v = w
    <3>1. worker'[v].pkt = <<>>
      BY <1>4, <2>4
    <3>2. \A j \in 1..Len(verdicts') : index(verdicts'[j]) = v =>
            \A k \in 1..Len(queue'[v]) : verdicts'[j].n < queue'[v][k].n
      BY <1>3, <1>6, <2>1, <2>2, <2>4 DEF WorkerInv
    <3> QED
      BY <2>1, <2>2, <3>1, <3>2 DEF WorkerInv, Increasing
  <2> QED
    BY <2>3, <2>4
<1>13. Partition(At, 1..arrived)'
  <2>1. from \in Places /\ to \in Places /\ from # to
    BY PlaceFacts
  <2>2. At[from] = {p.n} /\ At'[from] = {} /\ At[to] = Numbers(verdicts) /\ At'[to] = Numbers(verdicts')
    <3>1. At[from] = Numbers(worker[w].pkt) /\ At'[from] = Numbers(worker'[w].pkt)
      BY <2>1 DEF At, PacketsAt
    <3>2. At[to] = Numbers(verdicts) /\ At'[to] = Numbers(verdicts')
      BY <2>1 DEF At, PacketsAt
    <3>3. Numbers(worker[w].pkt) = {p.n} /\ Numbers(worker'[w].pkt) = {}
      <4>1. p \in Packet /\ worker[w].pkt = <<p>> /\ worker'[w].pkt = <<>>
        BY <1>1, <1>4
      <4> QED
        BY <4>1, OnePacket
    <3> QED
      BY <3>1, <3>2, <3>3
  <2>3. p.n \in At[from] /\ At'[from] = At[from] \ {p.n} /\ At'[to] = At[to] \cup {p.n}
    BY <1>5, <2>2
  <2>4. ASSUME NEW x \in Places \ {from, to} PROVE At'[x] = At[x]
    <3>1. CASE x.kind = "worker"
      BY <1>4, <2>4, <3>1 DEF At, PacketsAt, Places
    <3>2. CASE x.kind \in {"passed", "queue", "io"}
      BY <1>1, <3>2 DEF At, PacketsAt, Places
    <3> QED
      BY <2>4, <3>1, <3>2 DEF Places
  <2>5. Partition(At, 1..arrived)
    OBVIOUS
  <2>6. Partition(At', 1..arrived)
    BY ONLY <2>1, <2>3, <2>4, <2>5, Move
  <2> QED
    BY <1>1, <2>6 DEF Partition
<1>14. IInv'
  BY <1>1, <1>7, <1>8, <1>9, <1>11, <1>12, <1>13 DEF NoneTwice
<1>15. p.id \in StreamIDs /\ p.id % N = w
  BY <1>1, <1>3, WorkerOf
<1>16. /\ \A id : NumbersOf(id, worker[w].pkt) = (IF p.id = id THEN {p.n} ELSE {})
       /\ \A id : NumbersOf(id, worker'[w].pkt) = {}
  <2>1. p \in Packet /\ worker[w].pkt = <<p>> /\ worker'[w].pkt = <<>>
    BY <1>1, <1>4
  <2> QED
    BY <2>1, OnePacket
<1>17. p.n \in line[p.id] /\ \A m \in line[p.id] : p.n <= m
  <2>1. line[p.id] = NumbersOf(p.id, io.pkt) \cup {p.n} \cup NumbersOf(p.id, queue[w])
    BY <1>15, <1>16 DEF line
  <2>2. p.n \in Nat /\ arrived \in Nat
    BY <1>1, Types DEF Packet
  <2>3. \A m \in NumbersOf(p.id, io.pkt) : p.n <= m
    <3>1. CASE io.pkt = <<>>
      BY <3>1, OnePacket
    <3>2. ASSUME NEW x \in Packet, io.pkt = <<x>> PROVE \A m \in NumbersOf(p.id, io.pkt) : p.n <= m
      <4>1. x.n = arrived /\ io.pkt # <<>>
        BY <3>2, OnePacket
      <4>2. NumbersOf(p.id, io.pkt) \subseteq {arrived}
        BY <3>2, <4>1, OnePacket
      <4> QED
        BY <1>3, <2>2, <4>1, <4>2
    <3> QED
      BY <3>1, <3>2, Types
  <2>4. \A m \in NumbersOf(p.id, queue[w]) : p.n <= m
    <3>1. \A k \in 1..Len(queue[w]) : queue[w][k].n \in Nat
      BY Types DEF Packet
    <3> QED
      BY <1>3, <2>2, <3>1 DEF NumbersOf
  <2> QED
    BY <2>1, <2>2, <2>3, <2>4
<1>18. line' = [line EXCEPT ![p.id] = @ \ {p.n}]
  <2>1. ASSUME NEW id \in StreamIDs, id # p.id PROVE line'[id] = line[id]
    <3>1. CASE id % N = w
      <4>1. NumbersOf(id, worker[w].pkt) = {} /\ NumbersOf(id, worker'[w].pkt) = {}
        BY <1>16, <2>1
      <4> QED
        BY <1>1, <3>1, <4>1 DEF line
    <3>2. CASE id % N # w
      BY <1>1, <1>4, <3>2, WorkerOf DEF line
    <3> QED
      BY <3>1, <3>2
  <2>2. line'[p.id] = line[p.id] \ {p.n}
    <3>1. p.n \notin NumbersOf(p.id, io.pkt) /\ p.n \notin NumbersOf(p.id, queue[w])
      <4>1. [kind |-> "io", of |-> 0] \in Places /\ [kind |-> "queue", of |-> w] \in Places
            /\ from \in Places /\ from # [kind |-> "io", of |-> 0] /\ from # [kind |-> "queue", of |-> w]
        BY PlaceFacts
      <4>2. At[from] \cap At[[kind |-> "io", of |-> 0]] = {}
            /\ At[from] \cap At[[kind |-> "queue", of |-> w]] = {}
        BY <4>1 DEF Partition
      <4>3. p.n \notin Numbers(io.pkt) /\ p.n \notin Numbers(queue[w])
        BY <1>10, <4>2, AtPlaces
      <4> QED
        BY <4>3 DEF Numbers, NumbersOf
    <3>2. line[p.id] = NumbersOf(p.id, io.pkt) \cup {p.n} \cup NumbersOf(p.id, queue[w])
      BY <1>15, <1>16 DEF line
    <3>3. line'[p.id] = NumbersOf(p.id, io.pkt) \cup {} \cup NumbersOf(p.id, queue[w])
      BY <1>1, <1>15, <1>16 DEF line
    <3> QED
      BY <3>1, <3>2, <3>3
  <2> QED
    BY <1>15, <2>1, <2>2 DEF line
<1>19. answered' = [answered EXCEPT ![p.id] = @ \cup {p.n}]
  <2>1. ASSUME NEW id \in StreamIDs, id # p.id PROVE answered'[id] = answered[id]
    <3>1. NumbersOf(id, verdicts') = NumbersOf(id, verdicts) \cup {}
      BY <1>5, <2>1
    <3> QED
      BY <3>1 DEF answered
  <2>2. answered'[p.id] = answered[p.id] \cup {p.n}
    BY <1>5, <1>15 DEF answered
  <2> QED
    BY <1>15, <2>1, <2>2 DEF answered
<1>20. Order!Answer(p.id, p.n)
  BY <1>17, <1>18, <1>19 DEF Order!Answer
<1> QED
  BY <1>1, <1>14, <1>20

-----------------------------------------------------------------------------
(* The theorems. *)

LEMMA Stutter ==
  ASSUME IInv, UNCHANGED vars
  PROVE  IInv' /\ UNCHANGED <<line, answered>>
<1> USE DEF IInv
<1>1. TypeOK'
  BY DEF vars, TypeOK
<1> QED
  BY <1>1, Quiet DEF vars

\* Every step keeps the invariant, and is a step of PacketOrder or none.
LEMMA EveryStep ==
  ASSUME IInv, [Next]_vars
  PROVE  IInv' /\ [Order!Next]_<<line, answered>>
<1>1. CASE RunNext \/ RegisterFails \/ Cancel
  BY <1>1, RunSteps
<1>2. ASSUME NEW id \in StreamIDs, Receive(id)
      PROVE  IInv' /\ [Order!Next]_<<line, answered>>
  <2>1. arrived' \in 1..MaxPackets
    BY <1>2, Types DEF Receive, IInv
  <2> QED
    BY <1>2, <2>1, ReceiveStep DEF Order!Next
<1>3. CASE ReceiveUnsupported
  BY <1>3, UnsupportedStep
<1>4. CASE Feed
  BY <1>4, FeedStep
<1>5. CASE ReceiveError \/ IOStop
  BY <1>5, Stops
<1>6. ASSUME NEW w \in Workers, WorkerNext(w)
      PROVE  IInv' /\ [Order!Next]_<<line, answered>>
  <2>1. CASE Take(w)
    BY <2>1, TakeStep
  <2>2. CASE SetVerdict(w)
    <3>1. PICK p \in Packet : Order!Answer(p.id, p.n)
      BY <2>2, VerdictStep
    <3>2. p.id \in StreamIDs /\ p.n \in 1..MaxPackets
      BY WorkerOf
    <3> QED
      BY <2>2, <3>1, <3>2, VerdictStep DEF Order!Next
  <2>3. CASE WorkerStop(w)
    BY <2>3, Stops
  <2> QED
    BY <1>6, <2>1, <2>2, <2>3 DEF WorkerNext
<1>7. CASE UNCHANGED vars
  BY <1>7, Stutter
<1> QED
  BY <1>1, <1>2, <1>3, <1>4, <1>5, <1>6, <1>7 DEF Next, IONext

\* The strengthening that makes the others inductive.
THEOREM Inductive == Spec => []IInv
<1>1. IInv /\ [Next]_vars => IInv'
  BY EveryStep
<1> QED
  BY InitIInv, <1>1, PTL DEF Spec

\* TypeOK: what the engine's state is made of.
THEOREM TypeCorrect == Spec => []TypeOK
<1>1. IInv => TypeOK
  BY DEF IInv
<1> QED
  BY Inductive, <1>1, PTL

\* EachPacketOnce: no packet is lost between two channels and a select, and none
\* is answered twice.
THEOREM PacketsOnce == Spec => []EachPacketOnce
<1>1. IInv => EachPacketOnce
  <2> SUFFICES ASSUME IInv PROVE EachPacketOnce
    OBVIOUS
  <2>1. UNION {PacketsAt(place) : place \in Places} = 1..arrived
        /\ \A p, q \in Places : p # q => PacketsAt(p) \cap PacketsAt(q) = {}
    BY DEF IInv, Partition, At
  <2>2. ASSUME NEW w \in Workers PROVE NoneTwice(queue[w])
    <3>1. Increasing(queue[w]) /\ \A k \in 1..Len(queue[w]) : queue[w][k].n \in Nat
      BY Types DEF IInv, WorkerInv, Packet
    <3>2. Len(queue[w]) \in Nat
      BY Types DEF IInv
    <3> QED
      BY <3>1, <3>2 DEF Increasing, NoneTwice
  <2> QED
    BY <2>1, <2>2 DEF IInv, EachPacketOnce
<1> QED
  BY Inductive, <1>1, PTL

\* OneWorkerPerStream: the state of a stream is one goroutine's own.
THEOREM StreamsHaveOneWorker == Spec => []OneWorkerPerStream
<1>1. IInv => OneWorkerPerStream
  <2> SUFFICES ASSUME IInv, NEW v \in Workers, NEW id \in StreamIDs,
                      NumbersOf(id, worker[v].pkt) \cup NumbersOf(id, queue[v]) # {}
               PROVE  id % N = v
    BY DEF OneWorkerPerStream
  <2>1. WorkerInv(v)
    BY DEF IInv
  <2>2. CASE NumbersOf(id, queue[v]) # {}
    <3>1. PICK k \in 1..Len(queue[v]) : queue[v][k].id = id
      BY <2>2 DEF NumbersOf
    <3> QED
      BY <2>1, <3>1 DEF WorkerInv, index
  <2>3. CASE NumbersOf(id, worker[v].pkt) # {}
    <3>1. PICK p \in Packet : worker[v].pkt = <<p>>
      BY <2>3, Types, OnePacket DEF IInv
    <3>2. p.id = id /\ worker[v].pkt # <<>> /\ worker[v].pkt[1] = p
      BY <2>3, <3>1, OnePacket
    <3> QED
      BY <2>1, <3>2 DEF WorkerInv, index
  <2> QED
    BY <2>2, <2>3
<1> QED
  BY Inductive, <1>1, PTL

\* ImplementsPacketOrder: every stream's packets are answered in their order.
THEOREM Refinement == Spec => ImplementsPacketOrder
<1>1. Init => Order!Init
  BY OnePacket, WorkerOf DEF Init, Order!Init, line, answered
<1>2. IInv /\ [Next]_vars => [Order!Next]_<<line, answered>>
  BY EveryStep
<1> QED
  BY Inductive, <1>1, <1>2, PTL DEF Spec, Order!Spec, ImplementsPacketOrder
=============================================================================
