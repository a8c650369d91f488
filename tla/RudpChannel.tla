----------------------------- MODULE RudpChannel -----------------------------
(***************************************************************************)
(* The reliability state machine one session owns                          *)
(* (Server_Core/Network/RudpChannel.h, RudpChannel.cpp).                   *)
(*                                                                         *)
(* Every public method runs under the channel's mutex, so each one is a    *)
(* function here: it takes one half of the channel and returns its next    *)
(* value together with what the method returns or appends to its output    *)
(* parameters.  The three halves are independent:                          *)
(*                                                                         *)
(*   inbound reliable    [next, reasm]  m_RecvNextSeq, m_Reasm             *)
(*   inbound transforms  [has, high]    m_HasUnreliable, m_UnreliableHigh  *)
(*   outbound reliable   a number m_SendNextSeq and a map m_RetransQ from  *)
(*                       sequence numbers to [data, age, retry]            *)
(*                                                                         *)
(* A packet's bytes are one value.  A pending packet's LastSentMs is kept  *)
(* as its age, the time since LastSentMs, which stops counting at the      *)
(* timeout: CollectRetransmits asks nothing else of it.                    *)
(***************************************************************************)
EXTENDS Integers, Sequences, FiniteSets, Maps

CONSTANTS ReasmMax,       \* REASM_MAX_ENTRIES
          RetransTimeout, \* RUDP_RETRANS_TIMEOUT_MS, in ticks of the clock
          MaxRetries      \* RUDP_MAX_RETRIES

ASSUME ChannelAssumption == /\ ReasmMax \in Nat
                            /\ RetransTimeout \in Nat \ {0}
                            /\ MaxRetries \in Nat

-----------------------------------------------------------------------------
(* Inbound reliable stream *)

InboundInit == [next |-> 1, reasm |-> <<>>]

\* The run of consecutive numbers, starting at n, that the loop of
\* OnReliableReceived finds in the reassembly buffer and drains.
Drained(reasm, n) ==
    {k \in DOMAIN reasm : k >= n /\ n..k \subseteq DOMAIN reasm}

\* Fault: everything buffered is drained, consecutive or not.
AcceptNextIgnoringGaps(in, data) ==
    LET run == DOMAIN in.reasm
    IN  [in        |-> [next   |-> in.next + 1 + Cardinality(run),
                        reasm  |-> Erase(in.reasm, run)],
         accepted  |-> TRUE,
         delivered |-> <<data>> \o [i \in 1..Cardinality(run) |->
                        in.reasm[CHOOSE k \in run :
                                   Cardinality({j \in run : j < k}) = i - 1]]]

AcceptNext(in, data) ==
    LET run == Drained(in.reasm, in.next + 1)
    IN  [in        |-> [next   |-> in.next + 1 + Cardinality(run),
                        reasm  |-> Erase(in.reasm, run)],
         accepted  |-> TRUE,
         delivered |-> <<data>> \o [i \in 1..Cardinality(run) |->
                                        in.reasm[in.next + i]]]

Stash(in, seq, data) ==
    IF seq \notin DOMAIN in.reasm /\ Cardinality(DOMAIN in.reasm) < ReasmMax
    THEN [in EXCEPT !.reasm = Put(@, seq, data)]
    ELSE in

\* Fault: a repeated packet is handed up again.
OnReliableReceivedRepeats(in, seq, data) ==
    CASE seq < in.next ->
             [in |-> in, accepted |-> TRUE, delivered |-> <<data>>]
      [] seq = in.next -> AcceptNext(in, data)
      [] OTHER ->
             [in |-> Stash(in, seq, data), accepted |-> TRUE,
              delivered |-> <<>>]

OnReliableReceived(in, seq, data) ==
    CASE seq < in.next ->
             [in |-> in, accepted |-> FALSE, delivered |-> <<>>]
      [] seq = in.next -> AcceptNext(in, data)
      [] OTHER ->
             [in |-> Stash(in, seq, data), accepted |-> TRUE,
              delivered |-> <<>>]

\* Fault: the next expected number is acknowledged.
GetCumulativeAckTooHigh(in) == in.next

GetCumulativeAck(in) == in.next - 1

-----------------------------------------------------------------------------
(* Inbound transforms: only a number above every earlier one is accepted *)

UnreliableInit == [has |-> FALSE, high |-> 0]

AcceptUnreliable(un, seq) == ~un.has \/ seq > un.high

UnreliableAfter(un, seq) ==
    IF AcceptUnreliable(un, seq) THEN [has |-> TRUE, high |-> seq] ELSE un

-----------------------------------------------------------------------------
(* Outbound reliable stream *)

OnReliableSent(q, seq, data) ==
    Put(q, seq, [data |-> data, age |-> 0, retry |-> 0])

OnAckReceived(q, ack) == Erase(q, {k \in DOMAIN q : k <= ack})

\* The clock advances by one tick for every pending packet.
Aged(q) ==
    [k \in DOMAIN q |->
        [q[k] EXCEPT !.age = IF @ < RetransTimeout THEN @ + 1 ELSE @]]

Expired(q) == {k \in DOMAIN q : q[k].age >= RetransTimeout}

Dead(q) == {k \in Expired(q) : q[k].retry >= MaxRetries}

Resent(q) == Expired(q) \ Dead(q)

AfterCollect(q) ==
    [k \in DOMAIN q \ Dead(q) |->
        IF k \in Resent(q)
        THEN [q[k] EXCEPT !.age = 0, !.retry = @ + 1]
        ELSE q[k]]

=============================================================================
