---------------------------- MODULE ServerProcess ----------------------------
(***************************************************************************)
(* The life of the server's process (Server_Core/main.cpp, and Start,      *)
(* RunRecvLoop, Shutdown and the pool of send buffers of IOCPServer): main *)
(* starts the server and keeps it alive, a handler thread of the console   *)
(* stops it, and workers, the broadcast thread and main send through       *)
(* buffers that the port gives back.  What workers and logic threads do    *)
(* with a packet is in PacketPipeline; here it is one acknowledgement.     *)
(***************************************************************************)
EXTENDS Naturals, Sequences, FiniteSets

CONSTANTS
    Workers,         \* WORKER_THREAD_COUNT threads
    RecvCount,       \* RECV_BUFFER_COUNT
    SendCount,       \* SEND_BUFFER_COUNT
    MaxSendBuffers   \* bound on the sends that are under way, and so on the pool

ASSUME ProcessAssumption ==
    /\ {RecvCount, SendCount, MaxSendBuffers} \subseteq Nat \ {0}
    /\ SendCount <= MaxSendBuffers
    /\ IsFiniteSet(Workers) /\ Workers \intersect {"main", "broadcast"} = {}

Senders == Workers \union {"main", "broadcast"}

VARIABLES
    main,        \* what main has come to: a step of Start, "loop", "exit"
    running,     \* m_bRunning
    shutting,    \* how far Shutdown has come, and whom it joins
    thread,      \* the workers' and the broadcast thread's state
    port,        \* the completions that wait at m_hIOCP
    socket,      \* whether m_Socket is open
    registered,      \* the receives that are registered
    pool, free,  \* m_SendPool, m_SendFreeList
    sending,     \* the buffers the system is sending
    sender,      \* where each thread is in SendTo
    process      \* "alive", or how the process ended

procVars == <<main, running, shutting, thread, port, socket, registered, pool, free, sending, sender, process>>

Key == [is |-> "key"]
Steps == <<"winsock", "socket", "bind", "iocp", "associate", "sendPool", "run", "workers", "broadcast", "recvs", "loop">>
Away == [at |-> "away"]

ProcInit ==
    /\ main = 1 /\ running = FALSE /\ socket = FALSE /\ registered = 0
    /\ shutting = Away
    /\ thread = [t \in Workers \union {"broadcast"} |-> "none"]
    /\ port = <<>> /\ pool = {} /\ free = {} /\ sending = {}
    /\ sender = [t \in Senders |-> Away] /\ process = "alive"

---------------------------------------------------------------------------
(* Start                                                                   *)

At(step) == process = "alive" /\ main \in DOMAIN Steps /\ Steps[main] = step
StartKeeps == UNCHANGED <<shutting, port, sending, sender>>

\* InitWinsock to AssociateSocketWithIOCP; when one fails main returns.
Prepare ==
    /\ \E step \in {"winsock", "socket", "bind", "iocp", "associate"} :
           /\ At(step) /\ socket' = (socket \/ step = "socket")
           /\ \/ main' = main + 1 /\ UNCHANGED process
              \/ main' = main /\ process' = "failed"
    /\ StartKeeps /\ UNCHANGED <<running, thread, registered, pool, free>>

InitSendPool ==
    /\ At("sendPool") /\ main' = main + 1 /\ pool' = 1..SendCount /\ free' = 1..SendCount
    /\ StartKeeps /\ UNCHANGED <<running, thread, socket, registered, process>>

SetRunning ==
    /\ At("run") /\ main' = main + 1 /\ running' = TRUE
    /\ StartKeeps /\ UNCHANGED <<thread, socket, registered, pool, free, process>>

StartThreads ==
    /\ \E step \in {"workers", "broadcast"} :
           /\ At(step)
           /\ thread' = [t \in DOMAIN thread |->
                  IF t \in (IF step = "workers" THEN Workers ELSE {"broadcast"}) THEN "on" ELSE thread[t]]
    /\ main' = main + 1
    /\ StartKeeps /\ UNCHANGED <<running, socket, registered, pool, free, process>>

\* Those that cannot be registered are only logged; Start succeeds all the same.
PostInitialRecvs ==
    /\ At("recvs") /\ main' = main + 1 /\ registered' \in (IF socket THEN 0..RecvCount ELSE {0})
    /\ StartKeeps /\ UNCHANGED <<running, thread, socket, pool, free, process>>

---------------------------------------------------------------------------
(* SendTo                                                                  *)

SendKeeps == UNCHANGED <<main, running, shutting, socket, registered, process>>

\* Who sends: main in RetransmitSweep, the broadcast thread in its tick, a
\* worker that owes an acknowledgement.
MaySend(t) ==
    CASE t = "main" -> At("loop")
      [] t = "broadcast" -> thread[t] = "on"
      [] OTHER -> thread[t] = "acks"

CheckRunning(t) ==
    /\ process = "alive" /\ MaySend(t) /\ sender[t] = Away /\ running
    /\ Cardinality({s \in Senders : sender[s] # Away}) + Cardinality(sending) < MaxSendBuffers
    /\ sender' = [sender EXCEPT ![t] = [at |-> "checked"]]
    /\ thread' = [w \in DOMAIN thread |-> IF w = t /\ w \in Workers THEN "acked" ELSE thread[w]]
    /\ SendKeeps /\ UNCHANGED <<port, pool, free, sending>>

\* A buffer of the free list, or a new one.
AcquireSendOverlapped(t) ==
    /\ process = "alive" /\ sender[t].at = "checked"
    /\ \E b \in 1..MaxSendBuffers :
           /\ IF free # {} THEN b \in free
              ELSE b \notin pool \union sending /\ \A s \in Senders : sender[s].at = "holds" => sender[s].buf # b
           /\ free' = free \ {b} /\ pool' = pool \union {b}
           /\ sender' = [sender EXCEPT ![t] = [at |-> "holds", buf |-> b]]
    /\ SendKeeps /\ UNCHANGED <<thread, port, sending>>

\* Given back whether or not a completion will come (for a mutant).
PostedTwice(t, b, fails) == free' = free \union {b} /\ sending' = IF fails THEN sending ELSE sending \union {b}

\* A send that fails gives its buffer back at once, for nobody else will; any
\* other is given back by the worker that gets its completion.
PostedOrBack(t, b, fails) ==
    IF fails THEN free' = free \union {b} /\ sending' = sending
             ELSE free' = free /\ sending' = sending \union {b}

PostSend(t) ==
    /\ process = "alive" /\ sender[t].at = "holds"
    /\ \E fails \in BOOLEAN : (~socket => fails) /\ PostedOrBack(t, sender[t].buf, fails)
    /\ sender' = [sender EXCEPT ![t] = Away]
    /\ SendKeeps /\ UNCHANGED <<thread, port, pool>>

---------------------------------------------------------------------------
(* The port and the workers                                                *)

PortKeeps == UNCHANGED <<main, running, shutting, socket, pool, sender, process>>

SendCompletes(b) ==
    /\ process = "alive" /\ b \in sending /\ [is |-> "send", buf |-> b] \notin {port[i] : i \in DOMAIN port}
    /\ port' = Append(port, [is |-> "send", buf |-> b])
    /\ PortKeeps /\ UNCHANGED <<thread, registered, free, sending>>

ReceiveCompletes ==
    /\ process = "alive" /\ registered > 0 /\ registered' = registered - 1
    /\ port' = Append(port, [is |-> "recv"])
    /\ PortKeeps /\ UNCHANGED <<thread, free, sending>>

\* GetQueuedCompletionStatus, and the switch on what has completed; a worker
\* that nobody joined gets nothing more once the port is closed.
WorkerThread(w) ==
    /\ process = "alive" /\ thread[w] = "on" /\ port # <<>> /\ shutting.at \notin {"pools", "freed"}
    /\ port' = Tail(port)
    /\ LET c == Head(port)
       IN \/ c = Key /\ thread' = [thread EXCEPT ![w] = "exited"] /\ UNCHANGED <<free, sending>>
          \/ /\ c.is = "send" /\ free' = (IF c.buf \in pool THEN free \union {c.buf} ELSE free)
             /\ sending' = sending \ {c.buf} /\ UNCHANGED thread
          \/ c.is = "recv" /\ thread' = [thread EXCEPT ![w] = "acks"] /\ UNCHANGED <<free, sending>>
    /\ PortKeeps /\ UNCHANGED registered

\* The packet is dealt with, and the buffer registered again if that succeeds.
RepostRecv(w) ==
    /\ process = "alive" /\ thread[w] \in {"acks", "acked"} /\ sender[w] = Away
    /\ thread' = [thread EXCEPT ![w] = "on"]
    /\ registered' \in {registered} \union IF running /\ socket THEN {registered + 1} ELSE {}
    /\ PortKeeps /\ UNCHANGED <<port, free, sending>>

\* The loop goes on whatever happens (for a mutant).
LoopEnds(t) == FALSE

\* BroadcastLoop and RunRecvLoop end when they find the server stopped.
BroadcastEnds(t) == ~running

BroadcastLoopEnds ==
    /\ process = "alive" /\ thread["broadcast"] = "on" /\ sender["broadcast"] = Away /\ BroadcastEnds("broadcast")
    /\ thread' = [thread EXCEPT !["broadcast"] = "exited"]
    /\ PortKeeps /\ UNCHANGED <<port, registered, free, sending>>

---------------------------------------------------------------------------
(* Shutdown                                                                *)

\* ConsoleCtrlHandler, in a thread of its own.  The first call stops the server;
\* one that finds it not running, or not yet running, does nothing.
Shutdown ==
    /\ process = "alive" /\ running /\ running' = FALSE
    /\ LET mine == {w \in Workers : thread[w] # "none"}
       IN shutting' = [at |-> "workers", of |-> mine] /\ port' = port \o [i \in 1..Cardinality(mine) |-> Key]
    /\ UNCHANGED <<main, thread, socket, registered, pool, free, sending, sender, process>>

ShutKeeps == UNCHANGED <<main, running, port, sending, sender, process>>

\* The joins; those of the logic threads are in PacketPipeline.
JoinThreads ==
    /\ process = "alive"
    /\ \/ /\ shutting.at = "workers" /\ \A w \in shutting.of : thread[w] = "exited"
          /\ thread' = [t \in DOMAIN thread |-> IF t \in shutting.of THEN "joined" ELSE thread[t]]
          /\ shutting' = [at |-> "broadcast"]
       \/ /\ shutting.at = "broadcast" /\ thread["broadcast"] # "on"
          /\ thread' = [thread EXCEPT !["broadcast"] = IF @ = "none" THEN @ ELSE "joined"]
          /\ shutting' = [at |-> "close"]
    /\ ShutKeeps /\ UNCHANGED <<socket, registered, pool, free>>

\* The socket and the port are closed, which ends what is registered.
CloseSocket ==
    /\ process = "alive" /\ shutting.at = "close"
    /\ shutting' = [at |-> "pools"] /\ socket' = FALSE /\ registered' = 0
    /\ ShutKeeps /\ UNCHANGED <<thread, pool, free>>

FreePools ==
    /\ process = "alive" /\ shutting.at = "pools"
    /\ shutting' = [at |-> "freed"] /\ pool' = {} /\ free' = {}
    /\ ShutKeeps /\ UNCHANGED <<thread, socket, registered>>

---------------------------------------------------------------------------
(* The end of main: the server's destructor calls Shutdown, which returns at
   once, and destroys the members; a thread not joined ends the process.    *)

MainReturns ==
    /\ At("loop") /\ sender["main"] = Away /\ ~running
    /\ process' = IF \E t \in DOMAIN thread : thread[t] \in {"on", "acks", "acked", "exited"} THEN "terminated" ELSE "over"
    /\ UNCHANGED <<main, running, shutting, thread, port, socket, registered, pool, free, sending, sender>>

Sends(t) == AcquireSendOverlapped(t) \/ PostSend(t)
Starting == Prepare \/ InitSendPool \/ SetRunning \/ StartThreads \/ PostInitialRecvs
Stopping == JoinThreads \/ CloseSocket \/ FreePools

ProcNext ==
    \/ Starting \/ Shutdown \/ MainReturns \/ BroadcastLoopEnds \/ ReceiveCompletes
    \/ \E t \in Senders : CheckRunning(t) \/ Sends(t)
    \/ \E b \in sending : SendCompletes(b)
    \/ \E w \in Workers : WorkerThread(w) \/ RepostRecv(w)
    \/ Stopping

ProcTypeOK ==
    /\ main \in DOMAIN Steps /\ {running, socket} \subseteq BOOLEAN
    /\ \A t \in DOMAIN thread : thread[t] \in {"none", "on", "acks", "acked", "exited", "joined"}
    /\ pool \union free \union sending \subseteq 1..MaxSendBuffers /\ registered \in 0..RecvCount
    /\ \A t \in Senders : sender[t].at \in {"away", "checked", "holds"}
    /\ process \in {"alive", "failed", "over", "terminated"}

---------------------------------------------------------------------------
(* Properties                                                              *)

HeldBy(b) == {t \in Senders : sender[t].at = "holds" /\ sender[t].buf = b}
Freed == shutting.at = "freed"

\* Until the pools are freed every buffer of the pool is in one place: free, with
\* one thread, or with the system, whose completion comes once; and the receives
\* are no more than their buffers (SendTo, OnSendCompleted, PostRecv).
BuffersInOnePlace ==
    ~Freed =>
        /\ \A b \in pool : (IF b \in free THEN 1 ELSE 0) + Cardinality(HeldBy(b)) + (IF b \in sending THEN 1 ELSE 0) = 1
        /\ registered + Cardinality({i \in DOMAIN port : port[i].is = "recv"})
               + Cardinality({w \in Workers : thread[w] \in {"acks", "acked"}}) <= RecvCount

\* "No send is in flight" when the pool is freed (IOCPServer.cpp:144).
NoSendWhenFreed == Freed => sending = {} /\ \A t \in Senders : sender[t].at # "holds"

\* Somebody has begun to stop the server and has not got to the end of it, nor
\* has the process ended.
StopUnderWay == shutting.at # "away" /\ ~Freed /\ process = "alive"

=============================================================================
