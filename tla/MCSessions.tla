----------------------------- MODULE MCSessions ------------------------------
(***************************************************************************)
(* What the server keeps of a visitor, in three parts: the table of         *)
(* sessions and, in each session, the transform under its seqlock and the   *)
(* reliable channel to the visitor's device.  A behaviour is of one of      *)
(* them, the others at rest: the table hands out pointers and never looks   *)
(* inside.                                                                  *)
(***************************************************************************)
EXTENDS SessionManager, Seqlock, RudpLink, TLC

VARIABLE side

Sides == {"table", "transform", "link"}
vars == <<side, tableVars, lockVars, linkVars>>

\* s2 may happen to equal any value of the counter; or it holds no value of the
\* counter, as what the torn run shows needs no luck.
AnyCounter == 0..(2 * MaxWrites)
NoCounter == {2 * MaxWrites + 1}

Init == side \in Sides /\ TableInit /\ LockInit /\ LinkInit

Table(A) == side = "table" /\ A /\ UNCHANGED <<side, lockVars, linkVars>>
Transform(A) == side = "transform" /\ A /\ UNCHANGED <<side, tableVars, linkVars>>
Link(A) == side = "link" /\ A /\ UNCHANGED <<side, tableVars, lockVars>>

Next == Table(TableNext) \/ Transform(LockNext) \/ Link(LinkNext)

\* The main thread ticks, ends its sweeps, cleans up and retransmits.  The
\* owner thread finishes the write it is in, every reader keeps running and the
\* calls that send finish; nobody is bound to write, to call or to send again.
Fairness ==
    /\ WF_vars(Table(Tick))
    /\ WF_vars(Table(\E u \in doomed : SweepRemove(u)))
    /\ SF_vars(Table(RemoveTimedOut))
    /\ WF_vars(Transform(EndWrite \/ \E w \in Word : PutWord(w)))
    /\ \A r \in Reader : WF_vars(Transform(Read(r)))
    /\ WF_vars(Link(\E p \in assigned : Register(p)))
    /\ WF_vars(Link(\E p \in registered : Transmit(p)))
    /\ WF_vars(Link(LinkTick))
    /\ WF_vars(Link(RetransmitSweep))

Spec == Init /\ [][Next]_vars /\ Fairness

\* The types of the three parts (SessionManager.h:88-91, Session.h:140-155,
\* RudpChannel.h).
TypeOK == TableTypeOK /\ LockTypeOK /\ LinkTypeOK
==============================================================================
