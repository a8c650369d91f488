--------------------------- MODULE RudpLinkProofs ----------------------------
(***************************************************************************)
(* Proofs about RudpLink, for every value of its constants.                *)
(***************************************************************************)
EXTENDS RudpLink, SequenceTheorems, Induction

-----------------------------------------------------------------------------
(* The inductive invariant.  InOrderExactlyOnce and the others are not      *)
(* inductive by themselves: they depend on what a packet on the wire, a     *)
(* buffered packet and an acknowledgement on the wire may say.              *)

\* The counters number the messages.
CountersOK ==
    /\ sendNext = Len(submitted) + 1
    /\ Len(submitted) <= MaxMsgs
    /\ in = [next |-> in.next, reasm |-> in.reasm]
    /\ in.next = Len(delivered) + 1

Numbered(p) == p.seq <= Len(submitted) /\ p.data = submitted[p.seq]

\* Wherever a copy of message k is, it is the message submitted as k.
CopiesOK ==
    /\ \A p \in assigned \union registered \union net : Numbered(p)
    /\ \A k \in DOMAIN retransQ : /\ k \in 1..Len(submitted)
                                  /\ retransQ[k].data = submitted[k]
                                  /\ retransQ[k].retry <= sends[k]
    /\ \A k \in DOMAIN in.reasm : /\ k > in.next
                                  /\ k <= Len(submitted)
                                  /\ in.reasm[k] = submitted[k]

\* No acknowledgement claims more than was delivered.
AcksOK == /\ \A a \in acks : a <= Len(delivered)
          /\ acked <= Len(delivered)

\* The other end knows nothing of a packet that is not registered yet.
UnregisteredUnseen ==
    \A p \in assigned : /\ p.seq > Len(delivered)
                        /\ p.seq \notin DOMAIN in.reasm
                        /\ p.seq \notin DOMAIN retransQ
                        /\ \A q \in registered \union net : q.seq # p.seq

IInv == /\ LinkTypeOK
        /\ CountersOK
        /\ InOrderExactlyOnce
        /\ CopiesOK
        /\ AcksOK
        /\ UnregisteredUnseen
        /\ NoSilentLoss
        /\ NoPendingBelowAck
        /\ DroppedOnlyAfterRetries

-----------------------------------------------------------------------------

\* The initial state, a fresh link, satisfies the inductive invariant.
LEMMA InitIInv == LinkInit => IInv
<1> SUFFICES ASSUME LinkInit
             PROVE  IInv
  OBVIOUS
<1>1. LinkTypeOK
  BY DEF LinkInit, LinkTypeOK, InboundInit
<1>2. CountersOK
  BY LinkAssumption DEF LinkInit, CountersOK, InboundInit
<1>3. /\ InOrderExactlyOnce /\ CopiesOK /\ AcksOK /\ UnregisteredUnseen
      /\ NoSilentLoss /\ NoPendingBelowAck /\ DroppedOnlyAfterRetries
  BY DEF LinkInit, InboundInit, InOrderExactlyOnce, CopiesOK, AcksOK,
         UnregisteredUnseen, NoSilentLoss, NoPendingBelowAck,
         DroppedOnlyAfterRetries
<1> QED
  BY <1>1, <1>2, <1>3 DEF IInv

(***************************************************************************)
(* AssignSendSeq takes a number above every one in use.                    *)
(***************************************************************************)
LEMMA AssignSendSeqIInv ==
    ASSUME IInv, NEW m \in Msg, AssignSendSeq(m)
    PROVE  IInv'
<1> DEFINE p == [seq |-> sendNext, data |-> m]
<1>1. /\ submitted \in Seq(Msg)
      /\ submitted' = Append(submitted, m)
      /\ submitted' \in Seq(Msg)
      /\ Len(submitted') = Len(submitted) + 1
      /\ \A i \in 1..Len(submitted) : submitted'[i] = submitted[i]
      /\ submitted'[Len(submitted) + 1] = m
  BY DEF IInv, LinkTypeOK, AssignSendSeq
<1>2. p \in Packet
  BY DEF IInv, LinkTypeOK, Packet
<1>3. LinkTypeOK'
  BY <1>1, <1>2 DEF IInv, LinkTypeOK, AssignSendSeq
<1>4. CountersOK'
  BY <1>1, LinkAssumption DEF IInv, LinkTypeOK, CountersOK, AssignSendSeq
<1>5. InOrderExactlyOnce'
  BY <1>1 DEF IInv, LinkTypeOK, InOrderExactlyOnce, AssignSendSeq
<1>6. CopiesOK'
  BY <1>1 DEF IInv, LinkTypeOK, CountersOK, CopiesOK, Numbered, Packet,
              AssignSendSeq
<1>7. AcksOK'
  BY DEF IInv, AcksOK, AssignSendSeq
<1>8. UnregisteredUnseen'
  BY <1>1 DEF IInv, LinkTypeOK, CountersOK, InOrderExactlyOnce, CopiesOK,
              Numbered, Packet, UnregisteredUnseen, AssignSendSeq
<1>9. NoSilentLoss'
  <2>1. p \in assigned' /\ p.seq = Len(submitted) + 1
    BY DEF IInv, CountersOK, AssignSendSeq
  <2>2. assigned \subseteq assigned'
    BY DEF AssignSendSeq
  <2>3. \A k \in 1..Len(submitted') :
            k \in 1..Len(submitted) \/ k = Len(submitted) + 1
    BY <1>1
  <2> QED
    BY <2>1, <2>2, <2>3 DEF IInv, NoSilentLoss, AssignSendSeq
<1>10. NoPendingBelowAck' /\ DroppedOnlyAfterRetries'
  BY DEF IInv, NoPendingBelowAck, DroppedOnlyAfterRetries, AssignSendSeq
<1> QED
  BY <1>3, <1>4, <1>5, <1>6, <1>7, <1>8, <1>9, <1>10 DEF IInv

(***************************************************************************)
(* Register queues a packet nobody can have acknowledged.                  *)
(***************************************************************************)
LEMMA RegisterIInv ==
    ASSUME IInv, NEW p \in assigned, Register(p)
    PROVE  IInv'
<1>1. /\ p \in Packet
      /\ Numbered(p)
      /\ p.seq \in 1..Len(submitted)
      /\ p.seq > Len(delivered)
      /\ submitted \in Seq(Msg)
      /\ delivered \in Seq(Msg)
  BY DEF IInv, LinkTypeOK, CopiesOK, Numbered, Packet, UnregisteredUnseen
<1>2. /\ DOMAIN retransQ' = DOMAIN retransQ \union {p.seq}
      /\ retransQ'[p.seq] = [data |-> p.data, age |-> 0, retry |-> 0]
      /\ \A k \in DOMAIN retransQ \ {p.seq} : retransQ'[k] = retransQ[k]
  BY DEF Register, OnReliableSent, Put
<1>3. LinkTypeOK'
  BY <1>1, <1>2 DEF IInv, LinkTypeOK, Packet, Register
<1>4. CountersOK' /\ InOrderExactlyOnce' /\ AcksOK'
  BY DEF IInv, CountersOK, InOrderExactlyOnce, AcksOK, Register
<1>5. CopiesOK'
  <2>1. Len(submitted) <= MaxMsgs /\ p.seq \in 1..MaxMsgs
    BY <1>1, LinkAssumption DEF IInv, CountersOK
  <2>2. sends[p.seq] >= 0
    BY <2>1 DEF IInv, LinkTypeOK
  <2> QED
    BY <1>1, <1>2, <2>2 DEF IInv, LinkTypeOK, CopiesOK, Numbered, Register
<1>6. UnregisteredUnseen'
  <2>1. \A q \in assigned \ {p} : q.seq # p.seq
    BY <1>1 DEF IInv, LinkTypeOK, CopiesOK, Numbered, Packet
  <2> QED
    BY <1>2, <2>1 DEF IInv, UnregisteredUnseen, Register
<1>7. NoSilentLoss'
  BY <1>2 DEF IInv, NoSilentLoss, Register
<1>8. NoPendingBelowAck'
  BY <1>1, <1>2 DEF IInv, LinkTypeOK, AcksOK, NoPendingBelowAck, Register
<1>9. DroppedOnlyAfterRetries'
  BY DEF IInv, DroppedOnlyAfterRetries, Register
<1> QED
  BY <1>3, <1>4, <1>5, <1>6, <1>7, <1>8, <1>9 DEF IInv

\* Handing a registered packet to the socket keeps the invariant.
LEMMA TransmitIInv ==
    ASSUME IInv, NEW p \in registered, Transmit(p)
    PROVE  IInv'
<1>1. /\ p \in Packet
      /\ Numbered(p)
      /\ submitted \in Seq(Msg)
      /\ p.seq \in 1..MaxMsgs
  BY LinkAssumption
     DEF IInv, LinkTypeOK, CopiesOK, Numbered, Packet, CountersOK
<1>2. /\ sends' \in [1..MaxMsgs -> Nat]
      /\ \A k \in 1..MaxMsgs : sends'[k] >= sends[k]
  BY <1>1 DEF IInv, LinkTypeOK, Transmit
<1>3. LinkTypeOK'
  BY <1>1, <1>2 DEF IInv, LinkTypeOK, Transmit
<1>4. CountersOK' /\ InOrderExactlyOnce' /\ AcksOK'
  BY DEF IInv, CountersOK, InOrderExactlyOnce, AcksOK, Transmit
<1>5. CopiesOK'
  <2>1. \A k \in DOMAIN retransQ :
            /\ k \in 1..MaxMsgs
            /\ retransQ[k].retry \in Nat
            /\ retransQ[k].retry <= sends'[k]
    BY <1>1, <1>2, LinkAssumption DEF IInv, LinkTypeOK, CopiesOK, CountersOK
  <2> QED
    BY <1>1, <2>1 DEF IInv, CopiesOK, Numbered, Transmit
<1>6. UnregisteredUnseen' /\ NoSilentLoss' /\ NoPendingBelowAck'
  BY DEF IInv, UnregisteredUnseen, NoSilentLoss, NoPendingBelowAck, Transmit
<1>7. DroppedOnlyAfterRetries'
  BY <1>2, ChannelAssumption
     DEF IInv, LinkTypeOK, DroppedOnlyAfterRetries, Transmit
<1> QED
  BY <1>3, <1>4, <1>5, <1>6, <1>7 DEF IInv

(***************************************************************************)
(* An acknowledgement removes only what was delivered.                     *)
(***************************************************************************)
LEMMA ReceiveAckIInv ==
    ASSUME IInv, NEW a \in acks, ReceiveAck(a)
    PROVE  IInv'
<1>1. a \in Nat /\ a <= Len(delivered) /\ acked \in Nat
      /\ acked' \in Nat /\ acked' <= Len(delivered)
      /\ delivered \in Seq(Msg)
  BY DEF IInv, LinkTypeOK, AcksOK, ReceiveAck
<1>2. /\ DOMAIN retransQ' = {k \in DOMAIN retransQ : k > a}
      /\ \A k \in DOMAIN retransQ' : retransQ'[k] = retransQ[k]
  BY <1>1 DEF IInv, LinkTypeOK, ReceiveAck, OnAckReceived, Erase, Restrict
<1>3. LinkTypeOK'
  BY <1>1, <1>2 DEF IInv, LinkTypeOK, ReceiveAck
<1>4. CountersOK' /\ InOrderExactlyOnce' /\ AcksOK'
  BY <1>1 DEF IInv, CountersOK, InOrderExactlyOnce, AcksOK, ReceiveAck
<1>5. CopiesOK' /\ UnregisteredUnseen'
  BY <1>2 DEF IInv, CopiesOK, Numbered, UnregisteredUnseen, ReceiveAck
<1>6. NoSilentLoss'
  BY <1>1, <1>2 DEF IInv, LinkTypeOK, NoSilentLoss, ReceiveAck
<1>7. NoPendingBelowAck'
  BY <1>1, <1>2 DEF IInv, LinkTypeOK, NoPendingBelowAck, ReceiveAck
<1>8. DroppedOnlyAfterRetries'
  BY DEF IInv, DroppedOnlyAfterRetries, ReceiveAck
<1> QED
  BY <1>3, <1>4, <1>5, <1>6, <1>7, <1>8 DEF IInv

\* The passing of time touches the ages of the pending packets only.
LEMMA TickIInv ==
    ASSUME IInv, LinkTick
    PROVE  IInv'
<1>1. /\ DOMAIN retransQ' = DOMAIN retransQ
      /\ \A k \in DOMAIN retransQ :
             /\ retransQ'[k] \in [data : Msg, age : Nat, retry : Nat]
             /\ retransQ'[k].data = retransQ[k].data
             /\ retransQ'[k].retry = retransQ[k].retry
  BY DEF IInv, LinkTypeOK, LinkTick, Aged
<1>2. LinkTypeOK'
  BY <1>1 DEF IInv, LinkTypeOK, LinkTick
<1>3. CopiesOK'
  BY <1>1 DEF IInv, CopiesOK, Numbered, LinkTick
<1>4. /\ CountersOK' /\ InOrderExactlyOnce' /\ AcksOK'
      /\ UnregisteredUnseen' /\ NoSilentLoss' /\ NoPendingBelowAck'
      /\ DroppedOnlyAfterRetries'
  BY <1>1 DEF IInv, CountersOK, InOrderExactlyOnce, AcksOK,
              UnregisteredUnseen, NoSilentLoss, NoPendingBelowAck,
              DroppedOnlyAfterRetries, LinkTick
<1> QED
  BY <1>2, <1>3, <1>4 DEF IInv

(***************************************************************************)
(* A sweep resends the stored copies; it removes a packet only together    *)
(* with the session.                                                       *)
(***************************************************************************)
LEMMA RetransmitSweepIInv ==
    ASSUME IInv, RetransmitSweep
    PROVE  IInv'
<1>1. /\ Resent(retransQ) \subseteq DOMAIN retransQ
      /\ Dead(retransQ) \subseteq DOMAIN retransQ
      /\ Resent(retransQ) \intersect Dead(retransQ) = {}
  BY DEF Resent, Dead, Expired
<1>2. \A k \in DOMAIN retransQ :
          /\ k \in 1..Len(submitted)
          /\ k \in 1..MaxMsgs
          /\ retransQ[k] \in [data : Msg, age : Nat, retry : Nat]
          /\ retransQ[k].data = submitted[k]
          /\ retransQ[k].retry <= sends[k]
  BY LinkAssumption DEF IInv, LinkTypeOK, CopiesOK, CountersOK
<1>3. /\ DOMAIN retransQ' = DOMAIN retransQ \ Dead(retransQ)
      /\ \A k \in DOMAIN retransQ' :
             IF k \in Resent(retransQ)
             THEN retransQ'[k] = [retransQ[k] EXCEPT !.age = 0,
                                                     !.retry = @ + 1]
             ELSE retransQ'[k] = retransQ[k]
  BY DEF RetransmitSweep, AfterCollect
<1>4. \A k \in DOMAIN retransQ' :
          /\ retransQ'[k] \in [data : Msg, age : Nat, retry : Nat]
          /\ retransQ'[k].data = submitted[k]
          /\ retransQ'[k].retry = IF k \in Resent(retransQ)
                                  THEN retransQ[k].retry + 1
                                  ELSE retransQ[k].retry
  <2> SUFFICES ASSUME NEW k \in DOMAIN retransQ'
               PROVE  /\ retransQ'[k] \in [data : Msg, age : Nat, retry : Nat]
                      /\ retransQ'[k].data = submitted[k]
                      /\ retransQ'[k].retry = IF k \in Resent(retransQ)
                                              THEN retransQ[k].retry + 1
                                              ELSE retransQ[k].retry
    OBVIOUS
  <2>1. /\ k \in DOMAIN retransQ
        /\ retransQ[k] \in [data : Msg, age : Nat, retry : Nat]
        /\ retransQ[k].data = submitted[k]
    BY <1>2, <1>3
  <2>2. CASE k \in Resent(retransQ)
    <3> DEFINE e == retransQ[k]
    <3>1. retransQ'[k] = [e EXCEPT !.age = 0, !.retry = @ + 1]
      BY <1>3, <2>2
    <3>2. e \in [data : Msg, age : Nat, retry : Nat]
      BY <2>1
    <3> HIDE DEF e
    <3>3. retransQ'[k] = [data |-> e.data, age |-> 0, retry |-> e.retry + 1]
      BY <3>1, <3>2
    <3> QED
      BY <2>1, <2>2, <3>2, <3>3 DEF e
  <2>3. CASE k \notin Resent(retransQ)
    BY <1>3, <2>1, <2>3
  <2> QED
    BY <2>2, <2>3
<1>5. /\ sends' \in [1..MaxMsgs -> Nat]
      /\ \A k \in 1..MaxMsgs :
             sends'[k] = IF k \in Resent(retransQ) THEN sends[k] + 1
                                                   ELSE sends[k]
  BY DEF IInv, LinkTypeOK, RetransmitSweep
<1> DEFINE again == {[seq |-> k, data |-> retransQ[k].data] :
                         k \in Resent(retransQ)}
<1>6. /\ net' = net \union again
      /\ \A p \in again : /\ p \in Packet
                           /\ Numbered(p)
                           /\ p.seq \in DOMAIN retransQ
  <2>1. \A k \in Resent(retransQ) :
            /\ k \in Nat \ {0} /\ k <= Len(submitted)
            /\ retransQ[k].data \in Msg
            /\ retransQ[k].data = submitted[k]
    BY <1>1, <1>2
  <2> QED
    BY <1>1, <2>1 DEF RetransmitSweep, Packet, Numbered
<1>7. LinkTypeOK'
  <2>1. open' \in BOOLEAN
    BY DEF RetransmitSweep
  <2>2. net' \subseteq Packet
    BY <1>6 DEF IInv, LinkTypeOK
  <2>3. DOMAIN retransQ' \subseteq Nat
    BY <1>3 DEF IInv, LinkTypeOK
  <2> QED
    BY <1>4, <1>5, <2>1, <2>2, <2>3 DEF IInv, LinkTypeOK, RetransmitSweep
<1>8. CountersOK' /\ InOrderExactlyOnce' /\ AcksOK'
  BY DEF IInv, CountersOK, InOrderExactlyOnce, AcksOK, RetransmitSweep
<1>9. CopiesOK'
  <2>1. \A p \in assigned \union registered \union net' : Numbered(p)
    BY <1>6 DEF IInv, CopiesOK
  <2>2. \A k \in DOMAIN retransQ' : /\ k \in 1..Len(submitted)
                                   /\ retransQ'[k].data = submitted[k]
                                   /\ retransQ'[k].retry <= sends'[k]
    <3> SUFFICES ASSUME NEW k \in DOMAIN retransQ'
                 PROVE  /\ k \in 1..Len(submitted)
                        /\ retransQ'[k].data = submitted[k]
                        /\ retransQ'[k].retry <= sends'[k]
      OBVIOUS
    <3>1. k \in DOMAIN retransQ
      BY <1>3
    <3>2. retransQ[k].retry \in Nat /\ sends[k] \in Nat
      BY <3>1, <1>2 DEF IInv, LinkTypeOK
    <3> QED
      BY <3>1, <3>2, <1>2, <1>4, <1>5
  <2> QED
    BY <2>1, <2>2 DEF IInv, CopiesOK, Numbered, RetransmitSweep
<1>10. UnregisteredUnseen'
  BY <1>3, <1>6 DEF IInv, UnregisteredUnseen, RetransmitSweep
<1>11. NoSilentLoss'
  BY <1>3 DEF IInv, NoSilentLoss, RetransmitSweep
<1>12. NoPendingBelowAck'
  BY <1>3 DEF IInv, NoPendingBelowAck, RetransmitSweep
<1>13. DroppedOnlyAfterRetries'
  <2>1. ASSUME NEW k \in Dead(retransQ)
        PROVE  k \in 1..MaxMsgs /\ sends'[k] >= MaxRetries
    <3>1. k \in DOMAIN retransQ /\ retransQ[k].retry >= MaxRetries
      BY DEF Dead, Expired
    <3>2. sends'[k] = sends[k] /\ sends[k] \in Nat
      BY <1>1, <1>2, <1>5, <3>1 DEF IInv, LinkTypeOK
    <3> QED
      BY <1>2, <3>1, <3>2, ChannelAssumption
  <2> QED
    BY <2>1 DEF DroppedOnlyAfterRetries, RetransmitSweep
<1> QED
  BY <1>7, <1>8, <1>9, <1>10, <1>11, <1>12, <1>13 DEF IInv

(***************************************************************************)
(* What OnReliableReceived does with packet number in.next: it hands up    *)
(* the messages from in.next to just below some g, and expects g next.     *)
(***************************************************************************)
LEMMA AcceptNextDelivers ==
    ASSUME IInv, NEW p \in net, p.seq = in.next,
           NEW r, r = AcceptNext(in, p.data)
    PROVE  \E g \in Nat :
               /\ g > in.next
               /\ g <= Len(submitted) + 1
               /\ r.in = [next  |-> g,
                          reasm |-> [k \in {j \in DOMAIN in.reasm : j >= g}
                                        |-> in.reasm[k]]]
               /\ g \notin DOMAIN in.reasm
               /\ \A k \in in.next + 1 .. g - 1 : k \in DOMAIN in.reasm
               /\ r.delivered \in Seq(Msg)
               /\ Len(r.delivered) = g - in.next
               /\ \A i \in 1..(g - in.next) :
                      r.delivered[i] = submitted[in.next + i - 1]
<1> DEFINE n == in.next + 1
           run == Drained(in.reasm, n)
           tail == [i \in 1..Cardinality(run) |-> in.reasm[in.next + i]]
<1>1. /\ in.next \in Nat \ {0}
      /\ Numbered(p) /\ p \in Packet
      /\ submitted \in Seq(Msg)
      /\ \A k \in DOMAIN in.reasm : /\ k \in Nat
                                    /\ k > in.next
                                    /\ k <= Len(submitted)
                                    /\ in.reasm[k] = submitted[k]
                                    /\ in.reasm[k] \in Msg
  BY DEF IInv, LinkTypeOK, CopiesOK
<1>2. DOMAIN in.reasm \subseteq 0..Len(submitted)
  BY <1>1
<1>3. PICK g \in Nat : /\ g >= n
                       /\ run = n..(g - 1)
                       /\ n..(g - 1) \subseteq DOMAIN in.reasm
                       /\ g \notin DOMAIN in.reasm
                       /\ Cardinality(run) = g - n
  <2>1. n \in Nat /\ Len(submitted) \in Nat
    BY <1>1
  <2> HIDE DEF n
  <2>2. Drained(in.reasm, n) = Run(DOMAIN in.reasm, n)
    BY Zenon DEF Drained, Run
  <2> QED
    BY <1>2, <2>1, <2>2, RunToGap
<1>4. g <= Len(submitted) + 1
  <2>1. CASE g = n
    BY <1>1, <2>1 DEF Numbered
  <2>2. CASE g # n
    <3>1. g - 1 \in DOMAIN in.reasm
      BY <1>1, <1>3, <2>2
    <3> QED
      BY <1>1, <3>1
  <2> QED
    BY <2>1, <2>2
<1>5. /\ tail \in Seq(Msg)
      /\ Len(tail) = g - n
      /\ \A i \in 1..(g - n) : tail[i] = submitted[in.next + i]
  <2>1. \A i \in 1..(g - n) : /\ in.next + i \in DOMAIN in.reasm
                              /\ in.reasm[in.next + i] \in Msg
                              /\ in.reasm[in.next + i] = submitted[in.next + i]
    BY <1>1, <1>3
  <2>2. tail = [i \in 1..(g - n) |-> in.reasm[in.next + i]]
    BY <1>3
  <2> DEFINE c == g - n
  <2>3. c \in Nat
    BY <1>1, <1>3
  <2> HIDE DEF tail, c
  <2>4. tail \in [1..c -> Msg]
    BY <2>1, <2>2 DEF c
  <2>5. tail \in Seq(Msg) /\ Len(tail) = c
    BY <2>3, <2>4
  <2>6. \A i \in 1..c : tail[i] = submitted[in.next + i]
    BY <2>1, <2>2 DEF c
  <2> QED
    BY <2>5, <2>6 DEF c
<1>6. /\ r.delivered = <<p.data>> \o tail
      /\ r.in.next = n + Cardinality(run)
      /\ r.in = [next  |-> in.next + 1 + Cardinality(run),
                 reasm |-> Erase(in.reasm, run)]
  BY DEF AcceptNext
<1>7. in.next + 1 + Cardinality(run) = g
  BY <1>1, <1>3
<1>8. DOMAIN in.reasm \ run = {j \in DOMAIN in.reasm : j >= g}
  BY <1>1, <1>3
<1>9. r.in = [next  |-> g,
              reasm |-> [k \in {j \in DOMAIN in.reasm : j >= g}
                            |-> in.reasm[k]]]
  BY <1>6, <1>7, <1>8 DEF Erase, Restrict
<1>10. /\ r.delivered \in Seq(Msg)
       /\ Len(r.delivered) = g - in.next
       /\ \A i \in 1..(g - in.next) :
              r.delivered[i] = submitted[in.next + i - 1]
  <2>1. <<p.data>> \in Seq(Msg) /\ p.data = submitted[in.next]
    BY <1>1 DEF Packet, Numbered
  <2> HIDE DEF tail
  <2>2. /\ r.delivered \in Seq(Msg)
        /\ Len(r.delivered) = 1 + (g - n)
        /\ r.delivered[1] = p.data
        /\ \A i \in 1..(g - n) : r.delivered[i + 1] = tail[i]
    BY <1>5, <1>6, <2>1
  <2>3. \A i \in 2..(g - in.next) :
            r.delivered[i] = submitted[in.next + i - 1]
    <3> SUFFICES ASSUME NEW i \in 2..(g - in.next)
                 PROVE  r.delivered[i] = submitted[in.next + i - 1]
      OBVIOUS
    <3> DEFINE j == i - 1
    <3>1. /\ j \in 1..(g - n)
          /\ i = j + 1
          /\ in.next + i - 1 = in.next + j
      BY <1>1, <1>3
    <3> HIDE DEF j, n
    <3> QED
      BY <1>5, <2>2, <3>1
  <2>4. 1 + (g - n) = g - in.next
    BY <1>1, <1>3
  <2>5. r.delivered[1] = submitted[in.next + 1 - 1]
    BY <1>1, <2>1, <2>2
  <2>6. \A i \in 1..(g - in.next) : i = 1 \/ i \in 2..(g - in.next)
    BY <1>1, <1>3
  <2> QED
    BY <2>2, <2>3, <2>4, <2>5, <2>6
<1>11. g > in.next /\ in.next + 1 .. g - 1 \subseteq DOMAIN in.reasm
  BY <1>1, <1>3
<1> QED
  BY <1>3, <1>4, <1>9, <1>10, <1>11

\* Receiving a reliable datagram, whichever of the three cases applies, keeps
\* the invariant.
LEMMA ReceiveIInv ==
    ASSUME IInv, NEW p \in net, Receive(p)
    PROVE  IInv'
<1>1. /\ p \in Packet
      /\ Numbered(p)
      /\ submitted \in Seq(Msg)
      /\ delivered \in Seq(Msg)
      /\ in.next = Len(delivered) + 1
      /\ \A q \in assigned : q \in Packet /\ q.seq # p.seq
  BY DEF IInv, LinkTypeOK, CopiesOK, CountersOK, UnregisteredUnseen
<1>2. CASE p.seq < in.next
  <2>1. UNCHANGED linkVars
    <3>1. delivered \o <<>> = delivered
      BY <1>1
    <3>2. OnReliableReceived(in, p.seq, p.data)
              = [in |-> in, accepted |-> FALSE, delivered |-> <<>>]
      BY <1>1, <1>2 DEF OnReliableReceived, Packet, IInv, LinkTypeOK
    <3> QED
      BY <3>1, <3>2 DEF Receive, linkVars
  <2> QED
    BY <2>1 DEF IInv, LinkTypeOK, CountersOK, InOrderExactlyOnce, CopiesOK,
       Numbered, AcksOK, UnregisteredUnseen, NoSilentLoss,
       NoPendingBelowAck, DroppedOnlyAfterRetries, linkVars
<1>3. CASE p.seq = in.next
  <2> DEFINE r == AcceptNext(in, p.data)
  <2>1. PICK g \in Nat :
           /\ g > in.next
           /\ g <= Len(submitted) + 1
           /\ r.in = [next   |-> g,
                      reasm  |-> [k \in {j \in DOMAIN in.reasm : j >= g}
                                     |-> in.reasm[k]]]
           /\ g \notin DOMAIN in.reasm
           /\ \A k \in in.next + 1 .. g - 1 : k \in DOMAIN in.reasm
           /\ r.delivered \in Seq(Msg)
           /\ Len(r.delivered) = g - in.next
           /\ \A i \in 1..(g - in.next) :
                  r.delivered[i] = submitted[in.next + i - 1]
    BY <1>3, AcceptNextDelivers
  <2>2. /\ in' = r.in
        /\ delivered' = delivered \o r.delivered
    BY <1>1, <1>3 DEF Receive, OnReliableReceived, Packet
  <2> HIDE DEF r
  <2>3. /\ in'.next = g
        /\ in' = [next |-> in'.next, reasm |-> in'.reasm]
        /\ DOMAIN in'.reasm = {j \in DOMAIN in.reasm : j >= g}
        /\ \A k \in DOMAIN in'.reasm : in'.reasm[k] = in.reasm[k]
    BY <2>1, <2>2
  <2>4. /\ delivered' \in Seq(Msg)
        /\ Len(delivered') = g - 1
        /\ \A i \in 1..Len(delivered) : delivered'[i] = delivered[i]
        /\ \A i \in 1..(g - in.next) :
               delivered'[Len(delivered) + i] = submitted[in.next + i - 1]
    BY <1>1, <2>1, <2>2
  <2>5. \A k \in in.next .. g - 1 : delivered'[k] = submitted[k]
    <3> SUFFICES ASSUME NEW k \in in.next .. g - 1
                 PROVE  delivered'[k] = submitted[k]
      OBVIOUS
    <3> DEFINE i == k - Len(delivered)
    <3>1. /\ i \in 1..(g - in.next)
          /\ Len(delivered) + i = k
          /\ in.next + i - 1 = k
      BY <1>1
    <3> HIDE DEF i
    <3> QED
      BY <2>4, <3>1
  <2>6. LinkTypeOK'
    BY <2>1, <2>3, <2>4 DEF IInv, LinkTypeOK, Receive
  <2>7. CountersOK'
    BY <2>3, <2>4 DEF IInv, CountersOK, Receive
  <2>8. InOrderExactlyOnce'
    BY <1>1, <2>1, <2>4, <2>5 DEF IInv, InOrderExactlyOnce, Receive
  <2>9. CopiesOK'
    <3>1. \A k \in DOMAIN in'.reasm : k > g
      BY <2>1, <2>3 DEF IInv, LinkTypeOK
    <3> QED
      BY <2>3, <3>1 DEF IInv, CopiesOK, Numbered, Receive
  <2>10. AcksOK'
    BY <1>1, <2>1, <2>4 DEF IInv, LinkTypeOK, AcksOK, Receive
  <2>11. UnregisteredUnseen'
    <3> SUFFICES ASSUME NEW q \in assigned
                 PROVE  /\ q.seq > Len(delivered')
                        /\ q.seq \notin DOMAIN in'.reasm
                        /\ q.seq \notin DOMAIN retransQ
                        /\ \A s \in registered \union net : s.seq # q.seq
      BY DEF UnregisteredUnseen, Receive
    <3>1. /\ q.seq \in Nat /\ q.seq # p.seq /\ q.seq > Len(delivered)
          /\ q.seq \notin DOMAIN in.reasm
          /\ q.seq \notin DOMAIN retransQ
          /\ \A s \in registered \union net : s.seq # q.seq
      BY <1>1 DEF IInv, UnregisteredUnseen, Packet
    <3>2. q.seq \notin in.next + 1 .. g - 1
      BY <2>1, <3>1
    <3> QED
      BY <1>1, <1>3, <2>1, <2>3, <2>4, <3>1, <3>2
  <2>12. NoSilentLoss'
    <3>1. \A k \in 1..Len(submitted) :
              k <= Len(delivered) => k <= Len(delivered')
      BY <1>1, <2>1, <2>4
    <3> QED
      BY <3>1 DEF IInv, NoSilentLoss, Receive
  <2>13. NoPendingBelowAck' /\ DroppedOnlyAfterRetries'
    BY DEF IInv, NoPendingBelowAck, DroppedOnlyAfterRetries, Receive
  <2> QED
    BY <2>6, <2>7, <2>8, <2>9, <2>10, <2>11, <2>12, <2>13 DEF IInv
<1>4. CASE p.seq > in.next
  <2>1. /\ in' = Stash(in, p.seq, p.data)
        /\ delivered' = delivered
    BY <1>1, <1>4 DEF Receive, OnReliableReceived, Packet, IInv, LinkTypeOK
  <2>2. /\ in'.next = in.next
        /\ in' = [next |-> in'.next, reasm |-> in'.reasm]
        /\ DOMAIN in'.reasm \subseteq DOMAIN in.reasm \union {p.seq}
        /\ \A k \in DOMAIN in'.reasm :
               in'.reasm[k] = IF k \in DOMAIN in.reasm THEN in.reasm[k]
                                                       ELSE p.data
    <3>1. CASE in' = in
      BY <3>1 DEF IInv, CountersOK
    <3>2. CASE /\ p.seq \notin DOMAIN in.reasm
               /\ in' = [in EXCEPT !.reasm = Put(@, p.seq, p.data)]
      BY <3>2 DEF IInv, CountersOK, Put
    <3> QED
      BY <2>1, <3>1, <3>2 DEF Stash
  <2>3. LinkTypeOK'
    BY <1>1, <2>1, <2>2 DEF IInv, LinkTypeOK, Packet, Receive
  <2>4. CopiesOK'
    BY <1>1, <1>4, <2>2 DEF IInv, CopiesOK, Numbered, Receive
  <2>5. CountersOK' /\ InOrderExactlyOnce' /\ AcksOK'
    BY <2>1, <2>2 DEF IInv, CountersOK, InOrderExactlyOnce, AcksOK, Receive
  <2>6. UnregisteredUnseen'
    BY <1>1, <2>1, <2>2 DEF IInv, UnregisteredUnseen, Receive
  <2>7. NoSilentLoss' /\ NoPendingBelowAck' /\ DroppedOnlyAfterRetries'
    BY <2>1 DEF IInv, NoSilentLoss, NoPendingBelowAck,
                DroppedOnlyAfterRetries, Receive
  <2> QED
    BY <2>3, <2>4, <2>5, <2>6, <2>7 DEF IInv
<1> QED
  BY <1>1, <1>2, <1>3, <1>4 DEF Packet

\* An acknowledgement that is sent says no more than what was delivered.
LEMMA SendAckIInv ==
    ASSUME IInv, SendAck
    PROVE  IInv'
<1>1. /\ acks' = acks \union {in.next - 1}
      /\ in.next - 1 = Len(delivered)
      /\ Len(delivered) \in Nat
  BY DEF IInv, LinkTypeOK, CountersOK, SendAck, GetCumulativeAck
<1>2. acks' \subseteq Nat
  BY <1>1 DEF IInv, LinkTypeOK
<1>3. LinkTypeOK'
  BY <1>2 DEF IInv, LinkTypeOK, SendAck
<1>4. AcksOK'
  BY <1>1 DEF IInv, AcksOK, SendAck
<1>5. /\ CountersOK' /\ InOrderExactlyOnce' /\ CopiesOK'
      /\ UnregisteredUnseen' /\ NoSilentLoss' /\ NoPendingBelowAck'
      /\ DroppedOnlyAfterRetries'
  BY DEF IInv, CountersOK, InOrderExactlyOnce, CopiesOK, Numbered,
         UnregisteredUnseen, NoSilentLoss, NoPendingBelowAck,
         DroppedOnlyAfterRetries, SendAck
<1> QED
  BY <1>3, <1>4, <1>5 DEF IInv

\* Every step keeps the inductive invariant.
LEMMA NextIInv == IInv /\ [LinkNext]_linkVars => IInv'
<1> SUFFICES ASSUME IInv, [LinkNext]_linkVars
             PROVE  IInv'
  OBVIOUS
<1>1. CASE \E m \in Msg : AssignSendSeq(m)
  BY <1>1, AssignSendSeqIInv
<1>2. CASE \E p \in assigned : Register(p)
  BY <1>2, RegisterIInv
<1>3. CASE \E p \in registered : Transmit(p)
  BY <1>3, TransmitIInv
<1>4. CASE \E a \in acks : ReceiveAck(a)
  BY <1>4, ReceiveAckIInv
<1>5. CASE LinkTick
  BY <1>5, TickIInv
<1>6. CASE RetransmitSweep
  BY <1>6, RetransmitSweepIInv
<1>7. CASE \E p \in net : Receive(p)
  BY <1>7, ReceiveIInv
<1>8. CASE SendAck
  BY <1>8, SendAckIInv
<1>9. CASE UNCHANGED linkVars
  BY <1>9 DEF IInv, LinkTypeOK, CountersOK, InOrderExactlyOnce, CopiesOK,
     Numbered, AcksOK, UnregisteredUnseen, NoSilentLoss,
     NoPendingBelowAck, DroppedOnlyAfterRetries, linkVars
<1> QED
  BY <1>1, <1>2, <1>3, <1>4, <1>5, <1>6, <1>7, <1>8, <1>9 DEF LinkNext

(***************************************************************************)
(* The inductive invariant holds in every state the link can reach.        *)
(***************************************************************************)
THEOREM LinkInvariant == LinkSpec => []IInv
BY InitIInv, NextIInv, PTL DEF LinkSpec

(***************************************************************************)
(* Whatever the network does, the state is well typed.                     *)
(***************************************************************************)
THEOREM LinkTypeCorrect == LinkSpec => []LinkTypeOK
<1>1. IInv => LinkTypeOK
  BY DEF IInv
<1> QED
  BY <1>1, LinkInvariant, PTL

(***************************************************************************)
(* What OnReliableReceived hands up is always a prefix of what was         *)
(* submitted, in order and without repetition.                             *)
(***************************************************************************)
THEOREM LinkDeliversInOrder == LinkSpec => []InOrderExactlyOnce
<1>1. IInv => InOrderExactlyOnce
  BY DEF IInv
<1> QED
  BY <1>1, LinkInvariant, PTL

(***************************************************************************)
(* While the session lives no undelivered message leaves the sender.       *)
(***************************************************************************)
THEOREM LinkLosesNothing == LinkSpec => []NoSilentLoss
<1>1. IInv => NoSilentLoss
  BY DEF IInv
<1> QED
  BY <1>1, LinkInvariant, PTL

(***************************************************************************)
(* No packet stays queued below a processed acknowledgement.               *)
(***************************************************************************)
THEOREM LinkQueueAboveAck == LinkSpec => []NoPendingBelowAck
<1>1. IInv => NoPendingBelowAck
  BY DEF IInv
<1> QED
  BY <1>1, LinkInvariant, PTL

(***************************************************************************)
(* A session is dropped only after MaxRetries repetitions of one packet.   *)
(***************************************************************************)
THEOREM LinkDropsAfterRetries == LinkSpec => []DroppedOnlyAfterRetries
<1>1. IInv => DroppedOnlyAfterRetries
  BY DEF IInv
<1> QED
  BY <1>1, LinkInvariant, PTL

-----------------------------------------------------------------------------
(* The reassembly buffer *)

LEMMA BufferFinite ==
    ASSUME IInv
    PROVE  IsFiniteSet(DOMAIN in.reasm)
<1>1. DOMAIN in.reasm \subseteq 0..Len(submitted)
  BY DEF IInv, LinkTypeOK, CopiesOK
<1>2. IsFiniteSet(0..Len(submitted))
  <2>1. 0 \in Int /\ Len(submitted) \in Int
    BY DEF IInv, LinkTypeOK
  <2> QED
    BY <2>1, FS_Interval
<1> QED
  BY <1>1, <1>2, FS_Subset

\* Receiving never fills the buffer beyond its bound: draining only takes out.
LEMMA ReceiveKeepsBufferBound ==
    ASSUME IInv, ReassemblyHoldsOnlyFuture, NEW p \in net, Receive(p)
    PROVE  Cardinality(DOMAIN in'.reasm) <= ReasmMax
<1> DEFINE D == DOMAIN in.reasm
<1>1. /\ IsFiniteSet(D) /\ Cardinality(D) \in Nat
      /\ Cardinality(D) <= ReasmMax
      /\ p.seq \in Nat /\ in.next \in Nat
  BY BufferFinite, FS_CardinalityType
     DEF IInv, LinkTypeOK, Packet, ReassemblyHoldsOnlyFuture
<1>2. CASE p.seq < in.next
  <2>1. in' = in
    BY <1>1, <1>2 DEF Receive, OnReliableReceived
  <2> QED
    BY <1>1, <2>1
<1>3. CASE p.seq = in.next
  <2>1. in' = AcceptNext(in, p.data).in
    BY <1>1, <1>3 DEF Receive, OnReliableReceived
  <2>2. DOMAIN in'.reasm \subseteq D
    BY <2>1 DEF AcceptNext, Erase, Restrict
  <2>3. /\ Cardinality(DOMAIN in'.reasm) <= Cardinality(D)
        /\ Cardinality(DOMAIN in'.reasm) \in Nat
    BY <1>1, <2>2, FS_Subset, FS_CardinalityType
  <2> QED
    BY <1>1, <2>3, ChannelAssumption
<1>4. CASE p.seq > in.next
  <2>1. in' = Stash(in, p.seq, p.data)
    BY <1>1, <1>4 DEF Receive, OnReliableReceived
  <2>2. CASE in' = in
    BY <1>1, <2>2
  <2>3. CASE /\ p.seq \notin D /\ Cardinality(D) < ReasmMax
             /\ in' = [in EXCEPT !.reasm = Put(@, p.seq, p.data)]
    <3>1. DOMAIN in'.reasm = D \union {p.seq}
      BY <2>3 DEF IInv, CountersOK, Put
    <3>2. Cardinality(D \union {p.seq}) = Cardinality(D) + 1
      BY <1>1, <2>3, FS_AddElement
    <3> QED
      BY <1>1, <2>3, <3>1, <3>2, ChannelAssumption
  <2> QED
    BY <2>1, <2>2, <2>3 DEF Stash
<1> QED
  BY <1>1, <1>2, <1>3, <1>4

(***************************************************************************)
(* The reassembly buffer never exceeds REASM_MAX_ENTRIES and never keeps a *)
(* packet that could be delivered.                                         *)
(***************************************************************************)
THEOREM LinkBufferBounded == LinkSpec => []ReassemblyHoldsOnlyFuture
<1>1. LinkInit => ReassemblyHoldsOnlyFuture
  BY ChannelAssumption, FS_EmptySet
     DEF LinkInit, InboundInit, ReassemblyHoldsOnlyFuture
<1>2. IInv /\ IInv' /\ ReassemblyHoldsOnlyFuture /\ [LinkNext]_linkVars
          => ReassemblyHoldsOnlyFuture'
  <2> SUFFICES ASSUME IInv, IInv', ReassemblyHoldsOnlyFuture, [LinkNext]_linkVars
               PROVE  ReassemblyHoldsOnlyFuture'
    OBVIOUS
  <2>1. CASE \E p \in net : Receive(p)
    <3>1. Cardinality(DOMAIN in'.reasm) <= ReasmMax
      BY <2>1, ReceiveKeepsBufferBound
    <3> QED
      BY <3>1 DEF IInv, CopiesOK, ReassemblyHoldsOnlyFuture
  <2>2. CASE in' = in
    BY <2>2 DEF ReassemblyHoldsOnlyFuture
  <2> QED
    BY <2>1, <2>2 DEF LinkNext, AssignSendSeq, Register, Transmit, ReceiveAck,
       LinkTick, RetransmitSweep, SendAck, linkVars
<1> QED
  BY <1>1, <1>2, LinkInvariant, PTL DEF LinkSpec

-----------------------------------------------------------------------------
(* Refinement *)

LEMMA ReceiveRefines ==
    ASSUME IInv, IInv', NEW p \in net, Receive(p)
    PROVE  Stream!Next \/ UNCHANGED Stream!vars
<1>1. UNCHANGED <<submitted, acked, open>>
  BY DEF Receive
<1>2. /\ submitted \in Seq(Msg) /\ delivered \in Seq(Msg)
      /\ delivered' \in Seq(Msg)
      /\ Len(delivered') <= Len(submitted)
      /\ \A i \in 1..Len(delivered') : delivered'[i] = submitted[i]
  BY <1>1 DEF IInv, LinkTypeOK, InOrderExactlyOnce
<1>3. delivered' = SubSeq(submitted, 1, Len(delivered'))
  BY <1>2
<1>4. Len(delivered) <= Len(delivered')
  <2>1. in.next \in Nat /\ in'.next \in Nat
        /\ in.next = Len(delivered) + 1 /\ in'.next = Len(delivered') + 1
    BY DEF IInv, LinkTypeOK, CountersOK
  <2>2. p.seq \in Nat
    BY DEF IInv, LinkTypeOK, Packet
  <2>3. CASE p.seq # in.next
    <3>1. OnReliableReceived(in, p.seq, p.data).in.next = in.next
      BY <2>1, <2>2, <2>3 DEF OnReliableReceived, Stash, IInv, CountersOK
    <3> QED
      BY <2>1, <1>2, <3>1 DEF Receive
  <2>4. CASE p.seq = in.next
    <3> DEFINE r == AcceptNext(in, p.data)
    <3>0. in' = r.in
      BY <2>1, <2>4 DEF Receive, OnReliableReceived
    <3> HIDE DEF r
    <3>1. PICK g \in Nat :
             /\ g > in.next
             /\ r.in = [next  |-> g,
                        reasm |-> [k \in {j \in DOMAIN in.reasm : j >= g}
                                      |-> in.reasm[k]]]
      BY <2>4, AcceptNextDelivers DEF r
    <3>2. in'.next = g
      BY <3>0, <3>1
    <3> QED
      BY <1>2, <2>1, <3>1, <3>2
  <2> QED
    BY <2>3, <2>4
<1>5. CASE Len(delivered) = Len(delivered')
  <2>1. delivered' = delivered
    BY <1>2, <1>5 DEF IInv, InOrderExactlyOnce
  <2> QED
    BY <1>1, <2>1 DEF Stream!vars
<1>6. CASE Len(delivered) < Len(delivered')
  <2>1. Len(delivered') \in Len(delivered) + 1 .. Len(submitted)
    BY <1>2, <1>6
  <2> QED
    BY <1>1, <1>3, <2>1 DEF Stream!Next, Stream!Deliver
<1> QED
  BY <1>2, <1>4, <1>5, <1>6

\* Every step of the link is a step of the abstract stream or a stutter.
LEMMA NextRefines ==
    ASSUME IInv, IInv', [LinkNext]_linkVars
    PROVE  Stream!Next \/ UNCHANGED Stream!vars
<1>1. CASE \E m \in Msg : AssignSendSeq(m)
  BY <1>1 DEF AssignSendSeq, Stream!Next, Stream!Submit
<1>2. CASE \/ \E p \in assigned : Register(p)
           \/ \E p \in registered : Transmit(p)
           \/ LinkTick \/ SendAck \/ UNCHANGED linkVars
  BY <1>2 DEF Register, Transmit, LinkTick, SendAck, linkVars, Stream!vars
<1>3. CASE \E a \in acks : ReceiveAck(a)
  <2>1. /\ open /\ UNCHANGED <<submitted, delivered, open>>
        /\ acked \in Nat /\ acked' \in Nat
        /\ acked' >= acked /\ acked' <= Len(delivered)
        /\ delivered \in Seq(Msg)
    BY <1>3 DEF ReceiveAck, IInv, LinkTypeOK, AcksOK
  <2>2. acked' = acked \/ acked' \in acked + 1 .. Len(delivered)
    BY <2>1
  <2> QED
    BY <2>1, <2>2 DEF Stream!Next, Stream!Confirm, Stream!vars
<1>4. CASE RetransmitSweep
  <2>1. /\ open /\ open' = (Dead(retransQ) = {})
        /\ UNCHANGED <<submitted, delivered, acked>>
    BY <1>4 DEF RetransmitSweep
  <2>2. CASE Dead(retransQ) = {}
    BY <2>1, <2>2 DEF IInv, LinkTypeOK, Stream!vars
  <2>3. CASE Dead(retransQ) # {}
    <3>1. PICK k \in Dead(retransQ) : TRUE
      BY <2>3
    <3>2. k \in DOMAIN retransQ
      BY DEF Dead, Expired
    <3>3. acked < Len(submitted)
      BY <3>2 DEF IInv, LinkTypeOK, CopiesOK, NoPendingBelowAck
    <3> QED
      BY <2>1, <2>3, <3>3 DEF Stream!Next, Stream!GiveUp
  <2> QED
    BY <2>2, <2>3
<1>5. CASE \E p \in net : Receive(p)
  BY <1>5, ReceiveRefines
<1> QED
  BY <1>1, <1>2, <1>3, <1>4, <1>5 DEF LinkNext

(***************************************************************************)
(* The link of two channels over an unreliable network implements the      *)
(* reliable stream.                                                        *)
(***************************************************************************)
THEOREM LinkImplementsStream == LinkSpec => ImplementsStream
<1>1. LinkInit => Stream!Init
  BY DEF LinkInit, Stream!Init
<1>2. IInv /\ IInv' /\ [LinkNext]_linkVars => [Stream!Next]_(Stream!vars)
  BY NextRefines
<1> QED
  BY <1>1, <1>2, LinkInvariant, PTL DEF LinkSpec, ImplementsStream, Stream!Spec
=============================================================================
