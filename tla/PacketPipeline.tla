--------------------------- MODULE PacketPipeline ----------------------------
(***************************************************************************)
(* The way of a datagram through the server                                *)
(* (Server_Core/Network/IOCPServer.cpp, LogicQueue.h): completion port ->  *)
(* I/O worker (DispatchPacket) -> RudpChannel of the session -> LogicQueue *)
(* of the session -> logic thread (DispatchApp), and the way it is all     *)
(* stopped by Shutdown.                                                    *)
(*                                                                         *)
(* The channel's mutex is held for one call at a time.  What a call of     *)
(* OnReliableReceived delivers is in the worker's own vector until the     *)
(* worker pushes it, packet by packet, under the mutex of the queue; other *)
(* workers run between any two of these steps.                             *)
(*                                                                         *)
(* The sessions exist already (SessionManager models how).  A packet is    *)
(* one of the reliable stream or a transform; datagrams arrive in any      *)
(* order, any number of times.                                             *)
(***************************************************************************)
EXTENDS RudpChannel

CONSTANTS Session,      \* SessionIds
          Worker,       \* WORKER_THREAD_COUNT threads
          LogicCount,   \* LOGIC_THREAD_COUNT
          RecvBuffers,  \* RECV_BUFFER_COUNT
          MaxSeq,       \* bound on the numbers of the reliable stream
          MaxTransform  \* bound on the numbers of the transforms

ASSUME PipelineAssumption == /\ Session \subseteq Nat
                             /\ IsFiniteSet(Worker)
                             /\ LogicCount \in Nat \ {0}
                             /\ RecvBuffers \in Nat \ {0}
                             /\ MaxSeq \in Nat
                             /\ MaxTransform \in Nat

VARIABLES
    in,        \* inbound reliable half of each session's channel
    un,        \* transform half of each session's channel
    worker,    \* what each worker is doing
    queue,     \* m_LogicQueues
    handling,  \* the packet each logic thread is handling
    posted,    \* receives registered with the completion port
    stage,     \* how far Shutdown has come
    handled,   \* history: the packets handled for each session, in order
    acked      \* history: the highest acknowledgement sent to each session

pipeVars == <<in, un, worker, queue, handling, posted, stage, handled, acked>>

Reliable(s) == [session : {s}, kind : {"reliable"}, seq : 1..MaxSeq]
Transform(s) == [session : {s}, kind : {"transform"}, seq : 1..MaxTransform]
Packet == UNION {Reliable(s) \union Transform(s) : s \in Session}

None == [kind |-> "none"]

LogicThread == 0..(LogicCount - 1)

Waiting == [pc |-> "wait"]
Exited == [pc |-> "exited"]

PipeInit ==
    /\ in = [s \in Session |-> InboundInit]
    /\ un = [s \in Session |-> UnreliableInit]
    /\ worker = [w \in Worker |-> Waiting]
    /\ queue = [t \in LogicThread |-> <<>>]
    /\ handling = [t \in LogicThread |-> None]
    /\ posted = RecvBuffers
    /\ stage = "running"
    /\ handled = [s \in Session |-> <<>>]
    /\ acked = [s \in Session |-> 0]

-----------------------------------------------------------------------------
(* I/O workers *)

\* What is left of DispatchPacket once the channel has been asked: packets to
\* push for a session, and whether an acknowledgement is owed.
Dispatching(s, out, ack) ==
    [pc |-> "push", session |-> s, out |-> out, ack |-> ack]

DispatchReliable(w, p) ==
    /\ p.kind = "reliable"
    /\ LET r == OnReliableReceived(in[p.session], p.seq, p)
       IN  /\ in' = [in EXCEPT ![p.session] = r.in]
           /\ worker' = [worker EXCEPT ![w] =
                            Dispatching(p.session, r.delivered, TRUE)]
    /\ UNCHANGED un

DispatchTransform(w, p) ==
    /\ p.kind = "transform"
    /\ LET out == IF AcceptUnreliable(un[p.session], p.seq) THEN <<p>>
                                                           ELSE <<>>
       IN  worker' = [worker EXCEPT ![w] = Dispatching(p.session, out, FALSE)]
    /\ un' = [un EXCEPT ![p.session] = UnreliableAfter(@, p.seq)]
    /\ UNCHANGED in

\* A receive completes on worker w.  After the Shutdown keys were posted the
\* receives that completed before may still be handed to a worker.
Receive(w, p) ==
    /\ worker[w] = Waiting
    /\ posted > 0
    /\ posted' = posted - 1
    /\ DispatchReliable(w, p) \/ DispatchTransform(w, p)
    /\ UNCHANGED <<queue, handling, stage, handled, acked>>

QueuesShut == stage \in {"joinLogic", "down"}

QueueOf(p) == p.session % LogicCount

\* EnqueueLogic: LogicQueue::Push ignores what comes after its Shutdown.
EnqueueLogic(w) ==
    /\ worker[w].pc = "push"
    /\ worker[w].out # <<>>
    /\ worker' = [worker EXCEPT ![w].out = Tail(@)]
    /\ LET p == Head(worker[w].out)
       IN  queue' = IF QueuesShut
                    THEN queue
                    ELSE [queue EXCEPT ![QueueOf(p)] = Append(@, p)]
    /\ UNCHANGED <<in, un, handling, posted, stage, handled, acked>>

\* The acknowledgement number is asked for in a second call of the channel.
SendAck(w) ==
    /\ worker[w].pc = "push"
    /\ worker[w].out = <<>>
    /\ worker[w].ack
    /\ LET s == worker[w].session
           a == GetCumulativeAck(in[s])
       IN  acked' = [acked EXCEPT ![s] = IF a > @ THEN a ELSE @]
    /\ worker' = [worker EXCEPT ![w].ack = FALSE]
    /\ UNCHANGED <<in, un, queue, handling, posted, stage, handled>>

\* Fault: the buffer is registered twice.
RepostTwice(w) ==
    /\ worker[w].pc = "push"
    /\ worker[w].out = <<>>
    /\ ~worker[w].ack
    /\ worker' = [worker EXCEPT ![w] = Waiting]
    /\ posted' = posted + (IF stage = "running" THEN 2 ELSE 0)
    /\ UNCHANGED <<in, un, queue, handling, stage, handled, acked>>

\* PostRecv registers the buffer again while the server runs; when
\* WSARecvFrom fails the buffer stays unregistered.
Repost(w) ==
    /\ worker[w].pc = "push"
    /\ worker[w].out = <<>>
    /\ ~worker[w].ack
    /\ worker' = [worker EXCEPT ![w] = Waiting]
    /\ posted' \in IF stage = "running" THEN {posted, posted + 1}
                                        ELSE {posted}
    /\ UNCHANGED <<in, un, queue, handling, stage, handled, acked>>

\* The worker gets one of the Shutdown keys.
ExitWorker(w) ==
    /\ stage # "running"
    /\ worker[w] = Waiting
    /\ worker' = [worker EXCEPT ![w] = Exited]
    /\ UNCHANGED <<in, un, queue, handling, posted, stage, handled, acked>>

-----------------------------------------------------------------------------
(* Logic threads *)

Pop(t) ==
    /\ handling[t] = None
    /\ queue[t] # <<>>
    /\ handling' = [handling EXCEPT ![t] = Head(queue[t])]
    /\ queue' = [queue EXCEPT ![t] = Tail(@)]
    /\ UNCHANGED <<in, un, worker, posted, stage, handled, acked>>

DispatchApp(t) ==
    /\ handling[t] # None
    /\ LET p == handling[t]
       IN  handled' = [handled EXCEPT ![p.session] = Append(@, p)]
    /\ handling' = [handling EXCEPT ![t] = None]
    /\ UNCHANGED <<in, un, worker, queue, posted, stage, acked>>

-----------------------------------------------------------------------------
(* IOCPServer::Shutdown *)

StopWorkers ==
    /\ stage = "running"
    /\ stage' = "joinWorkers"
    /\ UNCHANGED <<in, un, worker, queue, handling, posted, handled, acked>>

\* Fault: the queues are shut while workers still push.
StopLogicAtOnce ==
    /\ stage = "joinWorkers"
    /\ stage' = "joinLogic"
    /\ UNCHANGED <<in, un, worker, queue, handling, posted, handled, acked>>

\* Every worker was joined; the queues are told to shut down.
StopLogic ==
    /\ stage = "joinWorkers"
    /\ \A w \in Worker : worker[w] = Exited
    /\ stage' = "joinLogic"
    /\ UNCHANGED <<in, un, worker, queue, handling, posted, handled, acked>>

\* A logic thread leaves its loop when its queue is shut and empty.
JoinLogic ==
    /\ stage = "joinLogic"
    /\ \A t \in LogicThread : queue[t] = <<>> /\ handling[t] = None
    /\ stage' = "down"
    /\ UNCHANGED <<in, un, worker, queue, handling, posted, handled, acked>>

-----------------------------------------------------------------------------
PipeNext ==
    \/ \E w \in Worker, p \in Packet : Receive(w, p)
    \/ \E w \in Worker : \/ EnqueueLogic(w)
                         \/ SendAck(w)
                         \/ Repost(w)
                         \/ ExitWorker(w)
    \/ \E t \in LogicThread : Pop(t) \/ DispatchApp(t)
    \/ StopWorkers
    \/ StopLogic
    \/ JoinLogic

-----------------------------------------------------------------------------
(* Properties *)

\* The type of the pipeline's state.
PipeTypeOK ==
    /\ \A s \in Session :
           /\ in[s].next \in 1..(MaxSeq + 1)
           /\ \A k \in DOMAIN in[s].reasm : in[s].reasm[k] \in Reliable(s)
           /\ un[s] \in [has : BOOLEAN, high : 0..MaxTransform]
           /\ handled[s] \in Seq(Reliable(s) \union Transform(s))
           /\ acked[s] \in 0..MaxSeq
    /\ \A w \in Worker :
           \/ worker[w] \in {Waiting, Exited}
           \/ /\ worker[w].pc = "push"
              /\ worker[w].session \in Session
              /\ worker[w].out \in Seq(Packet)
              /\ worker[w].ack \in BOOLEAN
    /\ \A t \in LogicThread : /\ queue[t] \in Seq(Packet)
                              /\ handling[t] \in Packet \union {None}
    /\ posted \in 0..RecvBuffers
    /\ stage \in {"running", "joinWorkers", "joinLogic", "down"}

\* Where packets are, in lines: with a worker, in a queue, with a logic thread,
\* handled.
Lines == ({"handled"} \X Session) \union ({"handling", "queue"} \X LogicThread)
             \union ({"worker"} \X Worker)

Line == [l \in Lines |->
    CASE l[1] = "handled" -> handled[l[2]]
      [] l[1] = "handling" -> IF handling[l[2]] = None THEN <<>> ELSE <<handling[l[2]]>>
      [] l[1] = "queue" -> queue[l[2]]
      [] l[1] = "worker" -> IF worker[l[2]].pc = "push" THEN worker[l[2]].out ELSE <<>>]

\* A place is a line and a position in it.
PlacesOf(p, lines) ==
    {x \in UNION {{l} \X DOMAIN lines[l] : l \in DOMAIN lines} : lines[x[1]][x[2]] = p}

\* From the moment the channel delivers a reliable packet until the server is
\* down, the packet exists exactly once between the workers, the queues, the
\* logic threads and what was handled: none is dropped by the shutdown of a
\* queue and none is handled twice.
NoneLostNoneTwice ==
    \A s \in Session : \A p \in Reliable(s) :
        Cardinality(PlacesOf(p, Line)) = IF p.seq < in[s].next THEN 1 ELSE 0

OfKind(seq, kind) == SelectSeq(seq, LAMBDA p : p.kind = kind)

\* The reliable packets of a session are handled in the order of their
\* numbers, without a gap (IOCPServer.h:268-270).
HandledInOrder ==
    \A s \in Session :
        LET h == OfKind(handled[s], "reliable")
        IN  \A i \in DOMAIN h : h[i].seq = i

\* The joins of Shutdown have begun and not ended.
Joining == stage \in {"joinWorkers", "joinLogic"}
=============================================================================
