------------------------------- MODULE Engine -------------------------------
(***************************************************************************)
(* The engine's goroutines (engine/engine.go, engine/worker.go): Run, the  *)
(* IO goroutine in which the registered callback dispatches packets, and   *)
(* the workers, each with a bounded channel of packets.  What a worker     *)
(* makes of a packet is left to TCPStream and UDPStream; here a packet is  *)
(* its place in the order of arrival and the ID of its stream.             *)
(*                                                                         *)
(* The PacketIO is the nfqueue one: its library, outside src/, calls the   *)
(* callback from one goroutine that ends when the callback says so or when *)
(* it sees the context cancelled between two packets.                      *)
(***************************************************************************)
EXTENDS Integers, Sequences, FiniteSets

CONSTANTS
  N,          \* number of workers
  StreamIDs,  \* stream IDs packets arrive with
  ChanSize,   \* capacity of a worker's packetChan
  MaxPackets  \* bound on the packets that arrive

ASSUME EngineAssumption ==
  /\ N \in Nat \ {0}
  /\ StreamIDs \subseteq Nat
  /\ ChanSize \in Nat \ {0}
  /\ MaxPackets \in Nat

Workers == 0..(N - 1)

\* n is the place in the order of arrival.
Packet == [n : 1..MaxPackets, id : StreamIDs]

VARIABLES
  run,       \* where Run is
  ctx,       \* the caller's context is cancelled
  ioCtx,     \* the context of workers and IO is cancelled
  errChan,   \* Run's channel of errors, for one error
  io,        \* where the IO goroutine is, and the packets it is dispatching
  arrived,   \* number of packets received
  queue,     \* packetChan of each worker
  worker,    \* where each worker is, and the packets it is handling
  verdicts,  \* the packets the workers gave a verdict, in that order
  passed     \* the packets dispatch let through without a worker

vars == <<run, ctx, ioCtx, errChan, io, arrived, queue, worker, verdicts, passed>>

\* Faulty: packets are dealt out in turn.
InTurn(p) == p.n % N

\* dispatch: the worker of a packet.
index(p) == p.id % N

Init ==
  /\ run = "new"
  /\ ctx = FALSE
  /\ ioCtx = FALSE
  /\ errChan = <<>>
  /\ io = [pc |-> "off", pkt |-> <<>>]
  /\ arrived = 0
  /\ queue = [w \in Workers |-> <<>>]
  /\ worker = [w \in Workers |-> [pc |-> "off", pkt |-> <<>>]]
  /\ verdicts = <<>>
  /\ passed = {}

-----------------------------------------------------------------------------
\* Run starts the workers before it registers the callback.
StartWorkers ==
  /\ run = "new"
  /\ run' = "register"
  /\ worker' = [w \in Workers |-> [pc |-> "select", pkt |-> <<>>]]
  /\ UNCHANGED <<ctx, ioCtx, errChan, io, arrived, queue, verdicts, passed>>

\* io.Register hooks the callback, which may be called from now on, ...
Hook ==
  /\ run = "register"
  /\ run' = "hooked"
  /\ io' = [io EXCEPT !.pc = "receive"]
  /\ UNCHANGED <<ctx, ioCtx, errChan, arrived, queue, worker, verdicts, passed>>

\* ... and then sets up the rules that send packets.
Registered ==
  /\ run = "hooked"
  /\ run' = "wait"
  /\ UNCHANGED <<ctx, ioCtx, errChan, io, arrived, queue, worker, verdicts, passed>>

\* Run returns, and its deferred ioCancel stops workers and IO.
Return(from) ==
  /\ run = from
  /\ run' = "returned"
  /\ ioCtx' = TRUE
  /\ UNCHANGED <<ctx, errChan, io, arrived, queue, worker, verdicts, passed>>

\* Either half of Register fails.
RegisterFails == Return("register") \/ Return("hooked")

\* Run's select: an error of the IO, or the caller's cancellation.
IOFailed == errChan # <<>> /\ Return("wait")

\* Faulty: Run waits for an error only.
WaitForError == ctx /\ errChan # <<>> /\ Return("wait")

Cancelled == ctx /\ Return("wait")

\* The caller cancels (a signal, in cmd/root.go); ioCtx is a child of ctx.
Cancel ==
  /\ ~ctx
  /\ ctx' = TRUE
  /\ ioCtx' = TRUE
  /\ UNCHANGED <<run, errChan, io, arrived, queue, worker, verdicts, passed>>

-----------------------------------------------------------------------------
\* The callback gets a packet and dispatch picks its worker.
Receive(id) ==
  /\ io.pc = "receive"
  /\ arrived < MaxPackets
  /\ arrived' = arrived + 1
  /\ io' = [pc |-> "feed", pkt |-> <<[n |-> arrived', id |-> id]>>]
  /\ UNCHANGED <<run, ctx, ioCtx, errChan, queue, worker, verdicts, passed>>

\* dispatch lets through what is neither IPv4 nor IPv6, without a worker.
ReceiveUnsupported ==
  /\ io.pc = "receive"
  /\ arrived < MaxPackets
  /\ arrived' = arrived + 1
  /\ passed' = passed \cup {arrived'}
  /\ UNCHANGED <<run, ctx, ioCtx, errChan, io, queue, worker, verdicts>>

\* Faulty: a packet for a full channel is discarded.
FeedOrDiscard ==
  /\ io.pc = "feed"
  /\ LET p == io.pkt[1]
     IN  queue' = IF Len(queue[index(p)]) < ChanSize
                  THEN [queue EXCEPT ![index(p)] = Append(@, p)] ELSE queue
  /\ io' = [pc |-> "receive", pkt |-> <<>>]
  /\ UNCHANGED <<run, ctx, ioCtx, errChan, arrived, worker, verdicts, passed>>

\* worker.Feed: a send on the worker's channel, which waits for room in it and
\* for nothing else.
Feed ==
  /\ io.pc = "feed"
  /\ LET p == io.pkt[1]
     IN  /\ Len(queue[index(p)]) < ChanSize
         /\ queue' = [queue EXCEPT ![index(p)] = Append(@, p)]
  /\ io' = [pc |-> "receive", pkt |-> <<>>]
  /\ UNCHANGED <<run, ctx, ioCtx, errChan, arrived, worker, verdicts, passed>>

\* The callback gets an error, reports it to Run and unregisters.
ReceiveError ==
  /\ io.pc = "receive"
  /\ Len(errChan) < 1
  /\ errChan' = Append(errChan, "error")
  /\ io' = [pc |-> "stopped", pkt |-> <<>>]
  /\ UNCHANGED <<run, ctx, ioCtx, arrived, queue, worker, verdicts, passed>>

\* The library sees its context cancelled.
IOStop ==
  /\ io.pc = "receive"
  /\ ioCtx
  /\ io' = [pc |-> "stopped", pkt |-> <<>>]
  /\ UNCHANGED <<run, ctx, ioCtx, errChan, arrived, queue, worker, verdicts, passed>>

-----------------------------------------------------------------------------
\* Faulty: the packet is looked at and left in the channel.
Peek(w) ==
  /\ worker[w].pc = "select"
  /\ queue[w] # <<>>
  /\ worker' = [worker EXCEPT ![w] = [pc |-> "handle", pkt |-> <<Head(queue[w])>>]]
  /\ UNCHANGED <<run, ctx, ioCtx, errChan, io, arrived, queue, verdicts, passed>>

\* worker.Run's select takes the next packet, ...
Take(w) ==
  /\ worker[w].pc = "select"
  /\ queue[w] # <<>>
  /\ worker' = [worker EXCEPT ![w] = [pc |-> "handle", pkt |-> <<Head(queue[w])>>]]
  /\ queue' = [queue EXCEPT ![w] = Tail(@)]
  /\ UNCHANGED <<run, ctx, ioCtx, errChan, io, arrived, verdicts, passed>>

\* ... which is handled and given its verdict, ...
SetVerdict(w) ==
  /\ worker[w].pc = "handle"
  /\ verdicts' = Append(verdicts, worker[w].pkt[1])
  /\ worker' = [worker EXCEPT ![w] = [pc |-> "select", pkt |-> <<>>]]
  /\ UNCHANGED <<run, ctx, ioCtx, errChan, io, arrived, queue, passed>>

\* ... or, at the choice of select when both are ready, sees the cancellation.
WorkerStop(w) ==
  /\ worker[w].pc = "select"
  /\ ioCtx
  /\ worker' = [worker EXCEPT ![w] = [pc |-> "stopped", pkt |-> <<>>]]
  /\ UNCHANGED <<run, ctx, ioCtx, errChan, io, arrived, queue, verdicts, passed>>

-----------------------------------------------------------------------------
RunNext == StartWorkers \/ Hook \/ Registered \/ IOFailed \/ Cancelled

IONext ==
  \/ \E id \in StreamIDs : Receive(id)
  \/ ReceiveUnsupported
  \/ Feed
  \/ ReceiveError
  \/ IOStop

WorkerNext(w) == Take(w) \/ SetVerdict(w) \/ WorkerStop(w)

Next ==
  \/ RunNext
  \/ RegisterFails
  \/ Cancel
  \/ IONext
  \/ \E w \in Workers : WorkerNext(w)

Spec == Init /\ [][Next]_vars

\* Every goroutine that can go on does: the Go scheduler starves none.  Packets,
\* errors, failures of Register and the cancellation need never come.
Fairness ==
  /\ WF_vars(RunNext)
  /\ WF_vars(Feed)
  /\ WF_vars(IOStop)
  /\ \A w \in Workers : WF_vars(Take(w) \/ SetVerdict(w)) /\ WF_vars(WorkerStop(w))

FairSpec == Spec /\ Fairness
-----------------------------------------------------------------------------
TypeOK ==
  /\ run \in {"new", "register", "hooked", "wait", "returned"}
  /\ ctx \in BOOLEAN /\ ioCtx \in BOOLEAN
  /\ errChan \in {<<>>, <<"error">>}
  /\ io \in [pc : {"off", "receive", "stopped"}, pkt : {<<>>}]
            \cup [pc : {"feed"}, pkt : {<<p>> : p \in Packet}]
  /\ arrived \in 0..MaxPackets
  /\ queue \in [Workers -> Seq(Packet)]
  /\ \A w \in Workers : Len(queue[w]) <= ChanSize
  /\ worker \in [Workers -> [pc : {"off", "select", "stopped"}, pkt : {<<>>}]
                             \cup [pc : {"handle"}, pkt : {<<p>> : p \in Packet}]]
  /\ verdicts \in Seq(Packet)
  /\ passed \subseteq 1..MaxPackets

\* The numbers of the packets in s.
Numbers(s) == {s[k].n : k \in 1..Len(s)}

\* The numbers of the packets of stream id in s.
NumbersOf(id, s) == {s[k].n : k \in {k \in 1..Len(s) : s[k].id = id}}

NoneTwice(s) == \A j, k \in 1..Len(s) : s[j].n = s[k].n => j = k

\* All the places a packet can be.
Places == [kind : {"passed", "verdicts", "io"}, of : {0}]
            \cup [kind : {"worker", "queue"}, of : Workers]

PacketsAt(place) ==
  CASE place.kind = "passed"   -> passed
    [] place.kind = "verdicts" -> Numbers(verdicts)
    [] place.kind = "io"       -> Numbers(io.pkt)
    [] place.kind = "worker"   -> Numbers(worker[place.of].pkt)
    [] place.kind = "queue"    -> Numbers(queue[place.of])

\* No packet is lost or answered twice: each one received has its verdict or is
\* in exactly one place on its way to it, once, and no other is anywhere.
EachPacketOnce ==
  /\ UNION {PacketsAt(place) : place \in Places} = 1..arrived
  /\ \A p, q \in Places : p # q => PacketsAt(p) \cap PacketsAt(q) = {}
  /\ NoneTwice(verdicts)
  /\ \A w \in Workers : NoneTwice(queue[w])

\* A stream belongs to one worker: no two of them ever hold packets of the same
\* stream, which is why a stream's state needs no lock.
OneWorkerPerStream ==
  \A v, w \in Workers, id \in StreamIDs :
    /\ NumbersOf(id, worker[v].pkt) \cup NumbersOf(id, queue[v]) # {}
    /\ NumbersOf(id, worker[w].pkt) \cup NumbersOf(id, queue[w]) # {}
    => v = w

\* The engine answers the packets of a stream one at a time in the order in
\* which they arrived (PacketOrder), through two channels and a select.
line == [id \in StreamIDs |-> NumbersOf(id, io.pkt) \cup NumbersOf(id, worker[id % N].pkt)
                                 \cup NumbersOf(id, queue[id % N])]

answered == [id \in StreamIDs |-> NumbersOf(id, verdicts)]

Order == INSTANCE PacketOrder

ImplementsPacketOrder == Order!Spec

\* Without a failure or a cancellation, every packet received is answered, even
\* when the dispatcher has to wait for the slowest worker.
EveryPacketAnswered ==
  \A n \in 1..MaxPackets :
    (arrived >= n) ~>
      (ioCtx \/ n \in passed \/ \E k \in 1..Len(verdicts) : verdicts[k].n = n)

\* Once the context is cancelled or the IO has failed, Run returns, whatever the
\* IO goroutine is waiting for; and with Run every worker stops.
RunAndWorkersStop ==
  (ctx \/ errChan # <<>> \/ run = "returned")
    ~> (run = "returned" /\ \A w \in Workers : worker[w].pc = "stopped")
=============================================================================
