------------------------------- MODULE Seqlock -------------------------------
(***************************************************************************)
(* The transform of a session (Server_Core/Network/Session.h): one writer, *)
(* the logic thread that owns the session, and readers that take no lock,  *)
(* the broadcast thread first among them.  A counter is odd while a write  *)
(* is in progress; a reader copies the structure between two loads of the  *)
(* counter and keeps the copy when the loads agree.                        *)
(*                                                                         *)
(* The structure is copied word by word and memcpy promises no order, so   *)
(* both sides move their words one at a time, in any order.  The content   *)
(* of a word is named by the number of the write that put it there, 0 for  *)
(* the member initialisers.                                                *)
(*                                                                         *)
(* The "continue" of ReadTransform goes to the condition of its do-while,  *)
(* which compares s1 with what s2 holds: on the first pass nothing yet     *)
(* (any value at all), later the second load of an earlier pass.           *)
(***************************************************************************)
EXTENDS Integers, Maps

CONSTANTS Reader,
          Word,      \* the parts of FTransformState
          EraWord,   \* the part SetEra writes
          Garbage,   \* what the uninitialised s2 may hold
          MaxWrites  \* bound on the number of writes

ASSUME SeqlockAssumption ==
    EraWord \in Word /\ Garbage \subseteq Nat /\ MaxWrites \in Nat

VARIABLES
    lock,       \* m_TransformSeqLock
    transform,  \* m_Transform
    toWrite,    \* the words the write in progress has yet to put
    reader,     \* where each reader is in ReadTransform, with its locals
    \* history
    published,  \* what m_Transform held after each completed write
    returned    \* what ReadTransform last returned to each reader

lockVars == <<lock, transform, toWrite, reader, published, returned>>

Odd(n) == n % 2 = 1
Completed == lock \div 2    \* the number of completed writes
Initial == [w \in Word |-> 0]

Idle == [pc |-> "idle"]

\* A reader inside ReadTransform: its locals, the words it has yet to copy
\* and the number of writes completed when its call began.
Inside(pc, s1, s2, out, left, from) ==
    [pc |-> pc, s1 |-> s1, s2 |-> s2, out |-> out, left |-> left,
     from |-> from]

LockInit == /\ lock = 0
        /\ transform = Initial
        /\ toWrite = {}
        /\ reader = [r \in Reader |-> Idle]
        /\ published = [k \in {0} |-> Initial]
        /\ returned = [r \in Reader |-> [value |-> Initial, copied |-> TRUE,
                                         from |-> 0, to |-> 0]]

-----------------------------------------------------------------------------
(* The owner thread *)

\* Fault: the counter is not made odd before the words are written.
BeginWriteUnmarked(ws) ==
    /\ ~Odd(lock) /\ toWrite = {}
    /\ Completed < MaxWrites
    /\ toWrite' = ws
    /\ UNCHANGED <<lock, transform, reader, published, returned>>

BeginWrite(ws) ==
    /\ ~Odd(lock)
    /\ Completed < MaxWrites
    /\ lock' = lock + 1
    /\ toWrite' = ws
    /\ UNCHANGED <<transform, reader, published, returned>>

PublishTransform == BeginWrite(Word)

SetEra == BeginWrite({EraWord})

PutWord(w) ==
    /\ w \in toWrite
    /\ transform' = [transform EXCEPT ![w] = Completed + 1]
    /\ toWrite' = toWrite \ {w}
    /\ UNCHANGED <<lock, reader, published, returned>>

\* Fault: the counter is left odd.
EndWriteLeftOdd ==
    /\ Odd(lock)
    /\ toWrite = {}
    /\ Completed + 1 < MaxWrites
    /\ lock' = lock + 2
    /\ published' = Put(published, Completed + 1, transform)
    /\ UNCHANGED <<transform, toWrite, reader, returned>>

EndWrite ==
    /\ Odd(lock)
    /\ toWrite = {}
    /\ lock' = lock + 1
    /\ published' = Put(published, Completed + 1, transform)
    /\ UNCHANGED <<transform, toWrite, reader, returned>>

-----------------------------------------------------------------------------
(* ReadTransform *)

\* The locals are set up: out by its initialisers, s2 not at all.
Call(r) ==
    /\ reader[r].pc = "idle"
    /\ \E s2 \in Garbage :
         reader' = [reader EXCEPT ![r] =
                      Inside("load", 0, s2, Initial, {}, Completed)]
    /\ UNCHANGED <<lock, transform, toWrite, published, returned>>

Return(r, copied) ==
    /\ reader' = [reader EXCEPT ![r] = Idle]
    /\ returned' = [returned EXCEPT ![r] =
                      [value |-> reader[r].out, copied |-> copied,
                       from |-> reader[r].from, to |-> Completed]]

Again(r, s2) ==
    /\ reader' = [reader EXCEPT ![r] =
                     Inside("load", @.s1, s2, @.out, @.left, @.from)]
    /\ UNCHANGED returned

\* The first load finds no write in progress: the copy begins.
LoadStable(r) ==
    /\ reader[r].pc = "load"
    /\ ~Odd(lock)
    /\ reader' = [reader EXCEPT ![r] =
                     Inside("copy", lock, @.s2, @.out, Word, @.from)]
    /\ UNCHANGED <<lock, transform, toWrite, published, returned>>

\* The first load finds a write in progress: "continue".
LoadWriting(r) ==
    /\ reader[r].pc = "load"
    /\ Odd(lock)
    /\ IF lock = reader[r].s2
       THEN Return(r, FALSE)
       ELSE Again(r, reader[r].s2)
    /\ UNCHANGED <<lock, transform, toWrite, published>>

CopyWord(r, w) ==
    /\ reader[r].pc = "copy"
    /\ w \in reader[r].left
    /\ LET out == [reader[r].out EXCEPT ![w] = transform[w]]
       IN  reader' = [reader EXCEPT ![r] =
                        Inside("copy", @.s1, @.s2, out, @.left \ {w}, @.from)]
    /\ UNCHANGED <<lock, transform, toWrite, published, returned>>

\* Fault: the second load only has to be even.
LoadAgainParityOnly(r) ==
    /\ reader[r].pc = "copy"
    /\ reader[r].left = {}
    /\ IF ~Odd(lock) THEN Return(r, TRUE)
                     ELSE Again(r, lock)
    /\ UNCHANGED <<lock, transform, toWrite, published>>

LoadAgain(r) ==
    /\ reader[r].pc = "copy"
    /\ reader[r].left = {}
    /\ IF lock = reader[r].s1 THEN Return(r, TRUE)
                              ELSE Again(r, lock)
    /\ UNCHANGED <<lock, transform, toWrite, published>>

-----------------------------------------------------------------------------

Write == \/ PublishTransform \/ SetEra \/ EndWrite
         \/ \E w \in Word : PutWord(w)

Read(r) == \/ LoadStable(r) \/ LoadWriting(r) \/ LoadAgain(r)
           \/ \E w \in Word : CopyWord(r, w)

LockNext == Write \/ \E r \in Reader : Call(r) \/ Read(r)

LockSpec == LockInit /\ [][LockNext]_lockVars

-----------------------------------------------------------------------------
(* Properties *)

Snapshot == [Word -> Nat]

Busy == [pc : {"load", "copy"}, s1 : Nat, s2 : Nat, out : Snapshot,
         left : SUBSET Word, from : Nat]

\* Type correctness; words are outstanding only while the counter is odd,
\* and every even value of the counter stands for one published snapshot
\* (Session.h:77-98).
LockTypeOK ==
    /\ lock \in 0..(2 * MaxWrites)
    /\ transform \in Snapshot
    /\ toWrite \subseteq Word
    /\ toWrite # {} => Odd(lock)
    /\ reader \in [Reader -> {Idle} \cup Busy]
    /\ published \in [0..Completed -> Snapshot]
    /\ returned \in [Reader -> [value : Snapshot, copied : BOOLEAN,
                                from : Nat, to : Nat]]

WasCurrent(ret) == \E k \in ret.from..ret.to : ret.value = published[k]

\* A read whose last pass copied the words between two equal loads returns a
\* snapshot that was the published one at some moment of the call: nothing
\* torn, nothing outdated (the protocol of Session.h:105-111).
CopiedReadsAreSnapshots ==
    \A r \in Reader : returned[r].copied => WasCurrent(returned[r])

\* Every read returns such a snapshot: readers get a consistent snapshot
\* (comment at Session.h:72-73), and a load that finds a write in progress
\* is retried (comment at Session.h:107).
ReadsAreSnapshots == \A r \in Reader : WasCurrent(returned[r])

\* A reader gets through: once the writes stop, its call returns, however
\* many passes writes spoiled before (Session.h:101-113).
ReadersGetThrough ==
    \A r \in Reader : []<>(reader[r].pc = "idle")

=============================================================================
