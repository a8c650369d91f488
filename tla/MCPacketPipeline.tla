-------------------------- MODULE MCPacketPipeline --------------------------
\* The instance TLC checks.  A behaviour is of one side of the server: the way
\* of packets through it, the life of its process, or what it tells visitors of
\* each other.  Threads are model values; sessions are numbers, for their queue
\* is chosen by the remainder.
EXTENDS PacketPipeline, ServerProcess, WorldState

MCEraOf == [u \in 1..4 |-> 1]

VARIABLE side

vars == <<side, pipeVars, procVars, worldVars>>

Init == side \in {"pipeline", "process", "world"} /\ PipeInit /\ ProcInit /\ WorldInit

Pipeline(A) == side = "pipeline" /\ A /\ UNCHANGED <<side, procVars, worldVars>>
Process(A) == side = "process" /\ A /\ UNCHANGED <<side, pipeVars, worldVars>>
World(A) == side = "world" /\ A /\ UNCHANGED <<side, pipeVars, procVars>>

Next == Pipeline(PipeNext) \/ Process(ProcNext) \/ World(WorldNext)

Spec == Init /\ [][Next]_vars

\* Threads that can run do run, and the system completes the sends it took.
\* Nothing is assumed of the receives, of the success of a call, or that the
\* server is ever told to stop.
ThreadsRun ==
    /\ \A w \in Worker : WF_vars(Pipeline(EnqueueLogic(w) \/ SendAck(w) \/ Repost(w) \/ ExitWorker(w)))
    /\ \A t \in LogicThread : WF_vars(Pipeline(Pop(t) \/ DispatchApp(t)))
    /\ WF_vars(Pipeline(StopLogic \/ JoinLogic))
    /\ \A w \in Workers : WF_vars(Process(WorkerThread(w) \/ RepostRecv(w)))
    /\ \A t \in Senders : WF_vars(Process(Sends(t)))
    /\ WF_vars(Process(BroadcastLoopEnds)) /\ WF_vars(Process(Stopping))
    /\ \A h \in Handled : WF_vars(World(\E p \in pushed : <<p.kind, p.user, p.seq>> = h /\ Handle(p)))
    /\ WF_vars(World(Broadcasting))

\* Clients that joined go on sending, the network does not lose every transform,
\* and the reliable stream delivers (RudpLink).
ClientsSend == \A u \in Movers :
    /\ SF_vars(World(SendTransform(u) /\ TransformOf(u) \in air' \ air))
    /\ SF_vars(World(\E t \in air : t.user = u /\ t.seq = MaxNumber /\ ReceiveTransform(t)))
    /\ WF_vars(World(ReceiveChange(u)))

FairSpec == Spec /\ ThreadsRun /\ ClientsSend

\* Told to stop, the server comes down, whatever its threads are doing: no join
\* waits for ever, and Shutdown waits for no thread that does.
ServerStops == []<>((side = "pipeline" => ~Joining) /\ (side = "process" => ~StopUnderWay))

\* What visitors are told of each other comes right, and stays so.
VisitorsAreTold == <>[](side = "world" => ViewsRight)

\* The types of the three sides.
TypeOK == PipeTypeOK /\ ProcTypeOK /\ WorldTypeOK
==============================================================================
