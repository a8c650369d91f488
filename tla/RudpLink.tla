------------------------------ MODULE RudpLink -------------------------------
(***************************************************************************)
(* One direction of a session: the outbound half of one RudpChannel, the   *)
(* datagrams between the two ends, and the inbound half of the channel at  *)
(* the other end.  The sending end runs                                    *)
(*                                                                         *)
(*   IOCPServer::SendReliableToSession, which takes the channel mutex      *)
(*     twice (AssignSendSeq, OnReliableSent) and then sends, on any        *)
(*     number of threads at once;                                          *)
(*   the acknowledgement step of IOCPServer::DispatchPacket;               *)
(*   IOCPServer::RetransmitSweep on the main thread.                       *)
(*                                                                         *)
(* The network loses, duplicates and reorders: a datagram that was sent    *)
(* stays in net (or acks) and may be received any number of times, at any  *)
(* later moment, or never.                                                 *)
(***************************************************************************)
EXTENDS RudpChannel

CONSTANTS Msg,      \* message payloads
          MaxMsgs   \* bound on the number of messages submitted

ASSUME LinkAssumption == MaxMsgs \in Nat

VARIABLES
    sendNext,    \* m_SendNextSeq
    retransQ,    \* m_RetransQ
    assigned,    \* packets of calls between AssignSendSeq and OnReliableSent
    registered,  \* packets of calls between OnReliableSent and SendTo
    net,         \* packets that were put on the wire
    in,          \* the receiving end's inbound half
    acks,        \* acknowledgement numbers that were put on the wire
    open,        \* the session is still in the session manager
    \* history
    submitted,   \* the messages in the order of AssignSendSeq
    delivered,   \* everything OnReliableReceived handed up, in order
    acked,       \* the highest acknowledgement the sender has processed
    sends        \* how often each number was put on the wire

linkVars == <<sendNext, retransQ, assigned, registered, net, in, acks, open,
          submitted, delivered, acked, sends>>

Packet == [seq : Nat \ {0}, data : Msg]

LinkInit ==
    /\ sendNext = 1
    /\ retransQ = <<>>
    /\ assigned = {}
    /\ registered = {}
    /\ net = {}
    /\ in = InboundInit
    /\ acks = {}
    /\ open = TRUE
    /\ submitted = <<>>
    /\ delivered = <<>>
    /\ acked = 0
    /\ sends = [k \in 1..MaxMsgs |-> 0]

-----------------------------------------------------------------------------
(* SendReliableToSession *)

AssignSendSeq(m) ==
    /\ Len(submitted) < MaxMsgs
    /\ assigned' = assigned \union {[seq |-> sendNext, data |-> m]}
    /\ sendNext' = sendNext + 1
    /\ submitted' = Append(submitted, m)
    /\ UNCHANGED <<retransQ, registered, net, in, acks, open, delivered,
                   acked, sends>>

Register(p) ==
    /\ p \in assigned
    /\ assigned' = assigned \ {p}
    /\ registered' = registered \union {p}
    /\ retransQ' = OnReliableSent(retransQ, p.seq, p.data)
    /\ UNCHANGED <<sendNext, net, in, acks, open, submitted, delivered,
                   acked, sends>>

Transmit(p) ==
    /\ p \in registered
    /\ registered' = registered \ {p}
    /\ net' = net \union {p}
    /\ sends' = [sends EXCEPT ![p.seq] = @ + 1]
    /\ UNCHANGED <<sendNext, retransQ, assigned, in, acks, open, submitted,
                   delivered, acked>>

-----------------------------------------------------------------------------
(* Acknowledgements and the retransmission timer *)

\* Once the session is removed FindByAddr drops the packet before its AckNum
\* is looked at.
ReceiveAck(a) ==
    /\ open
    /\ a \in acks
    /\ retransQ' = OnAckReceived(retransQ, a)
    /\ acked' = IF a > acked THEN a ELSE acked
    /\ UNCHANGED <<sendNext, assigned, registered, net, in, acks, open,
                   submitted, delivered, sends>>

LinkTick ==
    /\ retransQ' = Aged(retransQ)
    /\ UNCHANGED <<sendNext, assigned, registered, net, in, acks, open,
                   submitted, delivered, acked, sends>>

\* Fault: a packet is given up and the session stays.
RetransmitSweepKeepingSession ==
    /\ open
    /\ Expired(retransQ) # {}
    /\ retransQ' = AfterCollect(retransQ)
    /\ net' = net \union {[seq |-> k, data |-> retransQ[k].data] :
                              k \in Resent(retransQ)}
    /\ sends' = [k \in 1..MaxMsgs |->
                    IF k \in Resent(retransQ) THEN sends[k] + 1 ELSE sends[k]]
    /\ UNCHANGED <<sendNext, assigned, registered, in, acks, open, submitted,
                   delivered, acked>>

RetransmitSweep ==
    /\ open
    /\ Expired(retransQ) # {}
    /\ retransQ' = AfterCollect(retransQ)
    /\ net' = net \union {[seq |-> k, data |-> retransQ[k].data] :
                              k \in Resent(retransQ)}
    /\ sends' = [k \in 1..MaxMsgs |->
                    IF k \in Resent(retransQ) THEN sends[k] + 1 ELSE sends[k]]
    /\ open' = (Dead(retransQ) = {})
    /\ UNCHANGED <<sendNext, assigned, registered, in, acks, submitted,
                   delivered, acked>>

-----------------------------------------------------------------------------
(* The receiving end *)

Receive(p) ==
    /\ p \in net
    /\ LET r == OnReliableReceived(in, p.seq, p.data)
       IN  /\ in' = r.in
           /\ delivered' = delivered \o r.delivered
    /\ UNCHANGED <<sendNext, retransQ, assigned, registered, net, acks, open,
                   submitted, acked, sends>>

\* Every header carries the cumulative acknowledgement, so one may leave the
\* receiver at any time.
SendAck ==
    /\ acks' = acks \union {GetCumulativeAck(in)}
    /\ UNCHANGED <<sendNext, retransQ, assigned, registered, net, in, open,
                   submitted, delivered, acked, sends>>

-----------------------------------------------------------------------------
LinkNext ==
    \/ \E m \in Msg : AssignSendSeq(m)
    \/ \E p \in assigned : Register(p)
    \/ \E p \in registered : Transmit(p)
    \/ \E a \in acks : ReceiveAck(a)
    \/ LinkTick
    \/ RetransmitSweep
    \/ \E p \in net : Receive(p)
    \/ SendAck

LinkSpec == LinkInit /\ [][LinkNext]_linkVars

\* The calls in progress finish and the main loop keeps ticking; nothing is
\* assumed of the network or of the other end.
LinkFairness ==
    /\ WF_linkVars(\E p \in assigned : Register(p))
    /\ WF_linkVars(\E p \in registered : Transmit(p))
    /\ WF_linkVars(LinkTick)
    /\ WF_linkVars(RetransmitSweep)

LinkFairSpec == LinkSpec /\ LinkFairness

-----------------------------------------------------------------------------
(* Properties *)

\* The type of the state: what each member of the channel, the calls in
\* progress and the wire may hold.
LinkTypeOK ==
    /\ sendNext \in Nat \ {0}
    /\ DOMAIN retransQ \subseteq Nat
    /\ \A k \in DOMAIN retransQ :
           retransQ[k] \in [data : Msg, age : Nat, retry : Nat]
    /\ assigned \subseteq Packet
    /\ registered \subseteq Packet
    /\ net \subseteq Packet
    /\ in.next \in Nat \ {0}
    /\ DOMAIN in.reasm \subseteq Nat
    /\ \A k \in DOMAIN in.reasm : in.reasm[k] \in Msg
    /\ acks \subseteq Nat
    /\ open \in BOOLEAN
    /\ submitted \in Seq(Msg)
    /\ delivered \in Seq(Msg)
    /\ acked \in Nat
    /\ sends \in [1..MaxMsgs -> Nat]

\* However datagrams are lost, repeated or reordered, the messages handed up
\* by OnReliableReceived are the submitted ones, in the order of
\* AssignSendSeq, none twice and none skipped.
InOrderExactlyOnce ==
    /\ Len(delivered) <= Len(submitted)
    /\ \A i \in 1..Len(delivered) : delivered[i] = submitted[i]

\* While the session lives, a message the other end has not been handed is
\* still owned by someone at the sending end: a call that will register it,
\* or the retransmission queue.  A cumulative acknowledgement never removes
\* an undelivered packet.
NoSilentLoss ==
    open => \A k \in 1..Len(submitted) :
                \/ k <= Len(delivered)
                \/ k \in DOMAIN retransQ
                \/ \E p \in assigned : p.seq = k

\* No packet is queued for retransmission after its acknowledgement was
\* processed (it would be resent until the session is dropped): the copy
\* must be registered before the packet can be seen by the peer.
NoPendingBelowAck == \A k \in DOMAIN retransQ : k > acked

\* The reassembly buffer holds only packets that cannot be delivered yet,
\* and at most REASM_MAX_ENTRIES of them.
ReassemblyHoldsOnlyFuture ==
    /\ \A k \in DOMAIN in.reasm : k > in.next
    /\ Cardinality(DOMAIN in.reasm) <= ReasmMax

\* The session is dropped for lack of acknowledgement only after one packet
\* was really repeated MaxRetries times.
DroppedOnlyAfterRetries ==
    ~open => \E k \in 1..MaxMsgs : sends[k] >= MaxRetries

\* Every message submitted to a session is acknowledged in the end, or the
\* session is dropped: nothing is retransmitted for ever.  (What is submitted or
\* acknowledged stays so, and a dropped session is not opened again: that it is
\* settled over and over is that it is settled in the end.)
EverySendSettles ==
    \A n \in 1..MaxMsgs : []<>(Len(submitted) >= n => acked >= n \/ ~open)

\* The link implements the abstract stream.
Stream == INSTANCE ReliableStream WITH confirmed <- acked

ImplementsStream == Stream!Spec
=============================================================================
