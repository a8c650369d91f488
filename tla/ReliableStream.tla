--------------------------- MODULE ReliableStream ----------------------------
(***************************************************************************)
(* What a session's reliable stream promises, with no packet, number or    *)
(* timer in sight: messages are submitted one after another, the receiver  *)
(* obtains a growing prefix of them, the sender learns of a growing prefix *)
(* of what was delivered, and the stream may be given up for good.         *)
(***************************************************************************)
EXTENDS Integers, Sequences

CONSTANT Msg

VARIABLES submitted,  \* the messages, in the order of their numbers
          delivered,  \* what the receiving side was handed, in order
          confirmed,  \* how many of them the sender knows to be delivered
          open        \* FALSE once the sender gave the session up

vars == <<submitted, delivered, confirmed, open>>

Init == /\ submitted = <<>>
        /\ delivered = <<>>
        /\ confirmed = 0
        /\ open = TRUE

Submit == /\ \E m \in Msg : submitted' = Append(submitted, m)
          /\ UNCHANGED <<delivered, confirmed, open>>

Deliver == /\ \E n \in Len(delivered) + 1 .. Len(submitted) :
                 delivered' = SubSeq(submitted, 1, n)
           /\ UNCHANGED <<submitted, confirmed, open>>

Confirm == /\ open
           /\ confirmed' \in confirmed + 1 .. Len(delivered)
           /\ UNCHANGED <<submitted, delivered, open>>

\* Only a stream with something unconfirmed is ever given up.
GiveUp == /\ open
          /\ confirmed < Len(submitted)
          /\ open' = FALSE
          /\ UNCHANGED <<submitted, delivered, confirmed>>

Next == Submit \/ Deliver \/ Confirm \/ GiveUp

Spec == Init /\ [][Next]_vars
=============================================================================
