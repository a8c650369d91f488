---------------------------- MODULE SessionProofs -----------------------------
(***************************************************************************)
(* Theorems about what the server keeps of a visitor (MCSessions), for     *)
(* every value of the constants.                                           *)
(*                                                                         *)
(* The table: TableTypeOK and IndexesAgree are inductive together, for     *)
(* each removal finds the entry of the other index through the session's   *)
(* immutable address or UserId.                                            *)
(*                                                                         *)
(* The seqlock: a read that ends with a copy between two equal loads       *)
(* returns a snapshot that was the published one during the call.          *)
(***************************************************************************)
EXTENDS MCSessions, RudpLinkProofs, TLAPS

-----------------------------------------------------------------------------
(* The table of sessions *)


TableInv == TableTypeOK /\ IndexesAgree

\* The empty table satisfies the inductive invariant.
LEMMA TableInvInit == TableInit => TableInv
BY DEF TableInit, TableInv, TableTypeOK, IndexesAgree, Nothing

(***************************************************************************)
(* A new session in place of an old one of the same user.                  *)
(***************************************************************************)
LEMMA JoinTableInv ==
    ASSUME TableInv, NEW w \in Worker, NEW u \in User, NEW a \in Addr,
           Join(w, u, a)
    PROVE  TableInv'
<1>1. CASE ReuseByAddr(w, a)
  <2>1. UNCHANGED <<byAddr, byUser, nextSessionId, session, idle, leaving,
                    doomed>>
    BY <1>1 DEF Join, ReuseByAddr
  <2>2. \A v \in Worker : held'[v] = Nothing \/ held'[v].id \in DOMAIN session
    BY <1>1 DEF ReuseByAddr, TableInv, TableTypeOK
  <2> QED
    BY <2>1, <2>2 DEF TableInv, TableTypeOK, IndexesAgree
<1>2. CASE CreateSession(w, u, a)
  <2> DEFINE n == nextSessionId
             old == IF u \in DOMAIN byUser THEN {session[byUser[u]].addr}
                                           ELSE {}
  <2>1. /\ n \in Nat \ {0} /\ DOMAIN session = 1..(n - 1)
        /\ DOMAIN session' = 1..n
        /\ nextSessionId' = n + 1
        /\ session'[n] = [user |-> u, addr |-> a]
        /\ \A s \in DOMAIN session : session'[s] = session[s]
        /\ DOMAIN session \subseteq DOMAIN session'
        /\ n \notin DOMAIN session
    BY <1>2 DEF CreateSession, Put, TableInv, TableTypeOK
  <2>2. /\ DOMAIN byAddr' = (DOMAIN byAddr \ old) \union {a}
        /\ byAddr'[a] = n
        /\ \A b \in DOMAIN byAddr \ old : byAddr'[b] = byAddr[b]
        /\ a \notin DOMAIN byAddr
    BY <1>2 DEF CreateSession, Put, Erase, Restrict
  <2>3. /\ DOMAIN byUser' = DOMAIN byUser \union {u}
        /\ byUser'[u] = n
        /\ \A v \in DOMAIN byUser \ {u} : byUser'[v] = byUser[v]
    BY <1>2 DEF CreateSession, Put
  <2>4. /\ DOMAIN idle' = DOMAIN idle \union {n}
        /\ idle'[n] = 0
        /\ \A s \in DOMAIN idle \ {n} : idle'[s] = idle[s]
    BY <1>2 DEF CreateSession, Put
  <2>5. /\ UNCHANGED <<leaving, doomed>>
        /\ \A v \in Worker : \/ held'[v] = Nothing
                             \/ held'[v].id \in DOMAIN session'
    BY <1>2, <2>1 DEF CreateSession, Join, TableInv, TableTypeOK
  <2>6. TableTypeOK'
    <3>1. DOMAIN byAddr' \subseteq Addr /\ DOMAIN byUser' \subseteq User
      BY <2>2, <2>3 DEF TableInv, TableTypeOK
    <3>2. \A s \in DOMAIN session' : session'[s] \in [user : User, addr : Addr]
      BY <2>1 DEF TableInv, TableTypeOK
    <3>3. /\ DOMAIN idle' = DOMAIN session'
          /\ \A s \in DOMAIN idle' : idle'[s] \in 0..(SessionTimeout + 1)
      BY <2>1, <2>4, SessionAssumption DEF TableInv, TableTypeOK
    <3>4. /\ \A b \in DOMAIN byAddr' : byAddr'[b] \in DOMAIN session'
          /\ \A v \in DOMAIN byUser' : byUser'[v] \in DOMAIN session'
      BY <2>1, <2>2, <2>3 DEF TableInv, TableTypeOK
    <3> QED
      BY <2>1, <2>5, <3>1, <3>2, <3>3, <3>4 DEF TableInv, TableTypeOK
  <2>7. IndexesAgree'
    <3>1. \A b \in DOMAIN byAddr \ old :
              /\ byAddr[b] \in DOMAIN session
              /\ session[byAddr[b]].user \in DOMAIN byUser \ {u}
      BY DEF TableInv, TableTypeOK, IndexesAgree
    <3>2. \A v \in DOMAIN byUser \ {u} :
              /\ byUser[v] \in DOMAIN session
              /\ session[byUser[v]].addr \in DOMAIN byAddr \ old
      BY DEF TableInv, TableTypeOK, IndexesAgree
    <3>3. \A b \in DOMAIN byAddr' :
              LET s == byAddr'[b] IN /\ session'[s].addr = b
                                     /\ session'[s].user \in DOMAIN byUser'
                                     /\ byUser'[session'[s].user] = s
      <4> SUFFICES ASSUME NEW b \in DOMAIN byAddr'
                   PROVE  LET s == byAddr'[b]
                          IN  /\ session'[s].addr = b
                              /\ session'[s].user \in DOMAIN byUser'
                              /\ byUser'[session'[s].user] = s
        OBVIOUS
      <4>1. CASE b = a
        BY <4>1, <2>1, <2>2, <2>3
      <4>2. CASE b \in DOMAIN byAddr \ old
        BY <4>2, <3>1, <2>1, <2>2, <2>3 DEF TableInv, IndexesAgree
      <4> QED
        BY <2>2, <4>1, <4>2
    <3>4. \A v \in DOMAIN byUser' :
              LET s == byUser'[v] IN /\ session'[s].user = v
                                     /\ session'[s].addr \in DOMAIN byAddr'
                                     /\ byAddr'[session'[s].addr] = s
      <4> SUFFICES ASSUME NEW v \in DOMAIN byUser'
                   PROVE  LET s == byUser'[v]
                          IN  /\ session'[s].user = v
                              /\ session'[s].addr \in DOMAIN byAddr'
                              /\ byAddr'[session'[s].addr] = s
        OBVIOUS
      <4>1. CASE v = u
        BY <4>1, <2>1, <2>2, <2>3
      <4>2. CASE v \in DOMAIN byUser \ {u}
        BY <4>2, <3>2, <2>1, <2>2, <2>3 DEF TableInv, IndexesAgree
      <4> QED
        BY <2>3, <4>1, <4>2
    <3> QED
      BY <3>3, <3>4 DEF IndexesAgree
  <2> QED
    BY <2>6, <2>7 DEF TableInv
<1> QED
  BY <1>1, <1>2 DEF Join, CreateOrGet

(***************************************************************************)
(* RemoveByUserId empties both indexes of the user's session and leaves    *)
(* every other entry alone.                                                *)
(***************************************************************************)
LEMMA RemoveByUserIdAgrees ==
    ASSUME TableInv, NEW u, RemoveByUserId(u), UNCHANGED session
    PROVE  /\ IndexesAgree'
           /\ DOMAIN byAddr' \subseteq DOMAIN byAddr
           /\ DOMAIN byUser' \subseteq DOMAIN byUser
           /\ \A a \in DOMAIN byAddr' : byAddr'[a] = byAddr[a]
           /\ \A v \in DOMAIN byUser' : byUser'[v] = byUser[v]
           /\ u \notin DOMAIN byUser'
<1>1. CASE u \in DOMAIN byUser
  <2> DEFINE a == session[byUser[u]].addr
  <2>1. /\ DOMAIN byAddr' = DOMAIN byAddr \ {a}
        /\ DOMAIN byUser' = DOMAIN byUser \ {u}
        /\ \A b \in DOMAIN byAddr' : byAddr'[b] = byAddr[b]
        /\ \A v \in DOMAIN byUser' : byUser'[v] = byUser[v]
    BY <1>1 DEF RemoveByUserId, Erase, Restrict
  <2>2. \A b \in DOMAIN byAddr' : session[byAddr[b]].user # u
    BY <2>1 DEF TableInv, IndexesAgree
  <2>3. \A v \in DOMAIN byUser' : session[byUser[v]].addr # a
    BY <1>1, <2>1 DEF TableInv, IndexesAgree
  <2>4. IndexesAgree'
    BY <2>1, <2>2, <2>3 DEF TableInv, IndexesAgree
  <2> QED
    BY <2>1, <2>4
<1>2. CASE u \notin DOMAIN byUser
  BY <1>2 DEF RemoveByUserId, TableInv, IndexesAgree
<1> QED
  BY <1>1, <1>2

\* Removing the sessions that timed out keeps the invariant: each leaves both
\* indexes.
LEMMA RemoveTimedOutTableInv ==
    ASSUME TableInv, RemoveTimedOut
    PROVE  TableInv'
<1> DEFINE gone == {session[byAddr[a]].user : a \in TimedOut}
<1>1. /\ DOMAIN byAddr' = DOMAIN byAddr \ TimedOut
      /\ DOMAIN byUser' = DOMAIN byUser \ gone
      /\ \A b \in DOMAIN byAddr' : byAddr'[b] = byAddr[b]
      /\ \A v \in DOMAIN byUser' : byUser'[v] = byUser[v]
      /\ UNCHANGED <<nextSessionId, session, idle, held, leaving, doomed>>
      /\ TimedOut \subseteq DOMAIN byAddr
  BY DEF RemoveTimedOut, TimedOut, Erase, Restrict
<1>2. \A b \in DOMAIN byAddr' : session[byAddr[b]].user \notin gone
  <2> SUFFICES ASSUME NEW b \in DOMAIN byAddr', NEW a \in TimedOut,
                      session[byAddr[b]].user = session[byAddr[a]].user
               PROVE  FALSE
    OBVIOUS
  <2>1. byAddr[a] = byAddr[b] /\ a # b
    BY <1>1 DEF TableInv, IndexesAgree
  <2> QED
    BY <1>1, <2>1 DEF TableInv, IndexesAgree
<1>3. \A v \in DOMAIN byUser' : session[byUser[v]].addr \notin TimedOut
  <2> SUFFICES ASSUME NEW v \in DOMAIN byUser',
                      session[byUser[v]].addr \in TimedOut
               PROVE  FALSE
    OBVIOUS
  <2>1. session[byAddr[session[byUser[v]].addr]].user = v
    BY <1>1 DEF TableInv, IndexesAgree
  <2> QED
    BY <1>1, <2>1
<1>4. IndexesAgree'
  <2>1. \A b \in DOMAIN byAddr' :
            /\ session[byAddr[b]].addr = b
            /\ session[byAddr[b]].user \in DOMAIN byUser'
            /\ byUser[session[byAddr[b]].user] = byAddr[b]
    BY <1>1, <1>2 DEF TableInv, IndexesAgree
  <2>2. \A v \in DOMAIN byUser' :
            /\ session[byUser[v]].user = v
            /\ session[byUser[v]].addr \in DOMAIN byAddr'
            /\ byAddr[session[byUser[v]].addr] = byUser[v]
    BY <1>1, <1>3 DEF TableInv, IndexesAgree
  <2> QED
    BY <1>1, <2>1, <2>2 DEF IndexesAgree
<1>5. TableTypeOK'
  BY <1>1 DEF TableInv, TableTypeOK
<1> QED
  BY <1>4, <1>5 DEF TableInv

\* Every step keeps the inductive invariant.
LEMMA TableInvNext == TableInv /\ [TableNext]_tableVars => TableInv'
<1> SUFFICES ASSUME TableInv, [TableNext]_tableVars
             PROVE  TableInv'
  OBVIOUS
<1>1. CASE \E w \in Worker, u \in User, a \in Addr : Join(w, u, a)
  BY <1>1, JoinTableInv
<1>2. CASE \E w \in Worker, a \in Addr, what \in {"leave", "other"} :
               FindByAddr(w, a, what)
  <2>1. PICK w \in Worker, a \in Addr, what \in {"leave", "other"} :
            FindByAddr(w, a, what)
    BY <1>2
  <2>2. \A v \in Worker : held'[v] = Nothing \/ held'[v].id \in DOMAIN session
    BY <2>1 DEF FindByAddr, TableInv, TableTypeOK
  <2> QED
    BY <2>1, <2>2 DEF FindByAddr, TableInv, TableTypeOK, IndexesAgree
<1>3. CASE \E w \in Worker : Process(w)
  <2>1. PICK w \in Worker : Process(w)
    BY <1>3
  <2>2. held[w].id \in DOMAIN session
    BY <2>1 DEF Process, TableInv, TableTypeOK
  <2>3. /\ \A v \in Worker : \/ held'[v] = Nothing
                             \/ held'[v].id \in DOMAIN session
        /\ leaving' \subseteq DOMAIN session
    BY <2>1, <2>2 DEF Process, TableInv, TableTypeOK
  <2>4. /\ DOMAIN idle' = DOMAIN idle
        /\ \A s \in DOMAIN idle' : idle'[s] \in 0..(SessionTimeout + 1)
    BY <2>1, SessionAssumption DEF Process, TableInv, TableTypeOK
  <2> QED
    BY <2>1, <2>3, <2>4 DEF Process, TableInv, TableTypeOK, IndexesAgree
<1>4. CASE \E s \in leaving : HandleLeave(s)
  <2>1. PICK s \in leaving : HandleLeave(s)
    BY <1>4
  <2>2. /\ RemoveByUserId(session[s].user)
        /\ UNCHANGED <<nextSessionId, session, idle, held, doomed>>
        /\ leaving' \subseteq leaving
    BY <2>1 DEF HandleLeave
  <2> QED
    BY <2>2, RemoveByUserIdAgrees DEF TableInv, TableTypeOK
<1>5. CASE \E exhausted \in SUBSET Registered : SweepCollect(exhausted)
  <2>1. PICK exhausted \in SUBSET Registered : SweepCollect(exhausted)
    BY <1>5
  <2>2. doomed' \subseteq User
    BY <2>1 DEF SweepCollect, Registered, TableInv, TableTypeOK
  <2> QED
    BY <2>1, <2>2 DEF SweepCollect, TableInv, TableTypeOK, IndexesAgree
<1>6. CASE \E u \in doomed : SweepRemove(u)
  <2>1. PICK u \in doomed : SweepRemove(u)
    BY <1>6
  <2>2. /\ RemoveByUserId(u)
        /\ UNCHANGED <<nextSessionId, session, idle, held, leaving>>
        /\ doomed' \subseteq doomed
    BY <2>1 DEF SweepRemove
  <2> QED
    BY <2>2, RemoveByUserIdAgrees DEF TableInv, TableTypeOK
<1>7. CASE RemoveTimedOut
  BY <1>7, RemoveTimedOutTableInv
<1>8. CASE Tick
  <2>1. /\ DOMAIN idle' = DOMAIN idle
        /\ \A s \in DOMAIN idle' : idle'[s] \in 0..(SessionTimeout + 1)
    BY <1>8, SessionAssumption DEF Tick, TableInv, TableTypeOK
  <2> QED
    BY <1>8, <2>1 DEF Tick, TableInv, TableTypeOK, IndexesAgree
<1>9. CASE UNCHANGED tableVars
  BY <1>9 DEF tableVars, TableInv, TableTypeOK, IndexesAgree
<1> QED
  BY <1>1, <1>2, <1>3, <1>4, <1>5, <1>6, <1>7, <1>8, <1>9 DEF TableNext

(***************************************************************************)
(* The table is well typed in every reachable state.                       *)
(***************************************************************************)
THEOREM SessionsTypeCorrect == TableSpec => []TableTypeOK
<1>1. TableInv => TableTypeOK
  BY DEF TableInv
<1> QED
  BY <1>1, TableInvInit, TableInvNext, PTL DEF TableSpec

(***************************************************************************)
(* The index by address and the index by UserId always agree.              *)
(***************************************************************************)
THEOREM SessionsIndexesAgree == TableSpec => []IndexesAgree
<1>1. TableInv => IndexesAgree
  BY DEF TableInv
<1> QED
  BY <1>1, TableInvInit, TableInvNext, PTL DEF TableSpec

(***************************************************************************)
(* After a LEAVE was handled its session is not registered, whether or not *)
(* it still was before.                                                    *)
(***************************************************************************)
THEOREM SessionsLeaverIsGone == TableSpec => LeaverIsGone
<1> DEFINE Gone == \A s \in leaving \ leaving' : s \notin Registered'
<1>1. TableInv /\ [TableNext]_tableVars => [Gone]_tableVars
  <2> SUFFICES ASSUME TableInv, [TableNext]_tableVars,
                      NEW s \in leaving \ leaving'
               PROVE  s \notin Registered'
    OBVIOUS
  <2>1. HandleLeave(s)
    BY DEF TableNext, Join, FindByAddr, Process, HandleLeave, SweepCollect,
           SweepRemove, RemoveTimedOut, Tick, tableVars
  <2>2. /\ RemoveByUserId(session[s].user)
        /\ UNCHANGED session
    BY <2>1 DEF HandleLeave
  <2>3. /\ IndexesAgree'
        /\ session[s].user \notin DOMAIN byUser'
    BY <2>2, RemoveByUserIdAgrees
  <2> QED
    BY <2>2, <2>3 DEF IndexesAgree, Registered
<1> QED
  BY <1>1, TableInvInit, TableInvNext, PTL DEF TableSpec, LeaverIsGone

(***************************************************************************)
(* A session that left the table never comes back.                         *)
(***************************************************************************)
THEOREM SessionsGoneForGood == TableSpec => GoneForGood
<1> DEFINE Gone == \A s \in DOMAIN session \ Registered : s \notin Registered'
<1>1. TableInv /\ [TableNext]_tableVars => [Gone]_tableVars
  <2> SUFFICES ASSUME TableInv, [TableNext]_tableVars,
                      NEW s \in DOMAIN session \ Registered,
                      s \in Registered'
               PROVE  FALSE
    OBVIOUS
  <2>1. PICK b \in DOMAIN byAddr' : byAddr'[b] = s
    BY DEF Registered
  <2>2. CASE \E w \in Worker, u \in User, a \in Addr : Join(w, u, a)
    <3>1. PICK w \in Worker, u \in User, a \in Addr : Join(w, u, a)
      BY <2>2
    <3>2. CASE ReuseByAddr(w, a)
      BY <3>2, <2>1 DEF ReuseByAddr, Registered
    <3>3. CASE CreateSession(w, u, a)
      <4>1. s # nextSessionId
        BY DEF TableInv, TableTypeOK
      <4>2. b \in DOMAIN byAddr /\ byAddr[b] = s
        BY <2>1, <3>3, <4>1 DEF CreateSession, Put, Erase, Restrict
      <4> QED
        BY <4>2 DEF Registered
    <3> QED
      BY <3>1, <3>2, <3>3 DEF Join, CreateOrGet
  <2>3. CASE \/ \E t \in leaving : HandleLeave(t)
             \/ \E u \in doomed : SweepRemove(u)
    <3>1. /\ DOMAIN byAddr' \subseteq DOMAIN byAddr
          /\ \A a \in DOMAIN byAddr' : byAddr'[a] = byAddr[a]
      BY <2>3, RemoveByUserIdAgrees DEF HandleLeave, SweepRemove
    <3> QED
      BY <2>1, <3>1 DEF Registered
  <2>4. CASE RemoveTimedOut
    BY <2>1, <2>4 DEF RemoveTimedOut, Erase, Restrict, Registered
  <2>5. CASE byAddr' = byAddr
    BY <2>5 DEF Registered
  <2> QED
    BY <2>2, <2>3, <2>4, <2>5
       DEF TableNext, FindByAddr, Process, SweepCollect, Tick, tableVars
<1> QED
  BY <1>1, TableInvInit, TableInvNext, PTL DEF TableSpec, GoneForGood

-----------------------------------------------------------------------------
(* The seqlock *)


-----------------------------------------------------------------------------
(* The inductive invariant *)

\* Between writes the structure holds the snapshot published last.
StableIsPublished == ~Odd(lock) => /\ toWrite = {}
                                   /\ transform = published[Completed]

\* A copy began at an even value of the counter, and the words it has are
\* those of the structure as long as the counter keeps that value.
CopyIsCurrent(r) ==
    reader[r].pc = "copy" =>
      /\ ~Odd(reader[r].s1)
      /\ reader[r].s1 <= lock
      /\ lock = reader[r].s1 =>
           \A w \in Word \ reader[r].left : reader[r].out[w] = transform[w]

CallBegan(r) == reader[r].pc # "idle" => reader[r].from <= Completed

ReturnIsSound(r) == /\ returned[r].to <= Completed
                    /\ returned[r].copied => WasCurrent(returned[r])

LockInv == /\ LockTypeOK
        /\ StableIsPublished
        /\ \A r \in Reader : /\ CopyIsCurrent(r)
                             /\ CallBegan(r)
                             /\ ReturnIsSound(r)

-----------------------------------------------------------------------------

\* The arithmetic of the counter: a step from even to odd begins a write and
\* a step from odd to even completes one.
LEMMA CounterStep ==
    ASSUME NEW n \in Nat
    PROVE  /\ n \div 2 \in Nat
           /\ 0 \div 2 = 0 /\ ~Odd(0)
           /\ ~Odd(n) => Odd(n + 1) /\ (n + 1) \div 2 = n \div 2
           /\ Odd(n) => ~Odd(n + 1) /\ (n + 1) \div 2 = (n \div 2) + 1
           /\ ~Odd(n) => n = 2 * (n \div 2)
           /\ Odd(n) => n = 2 * (n \div 2) + 1
BY DEF Odd

\* The initial state satisfies the inductive invariant.
LEMMA LockInvInit == LockInit => LockInv
<1> SUFFICES ASSUME LockInit PROVE LockInv
    OBVIOUS
<1>1. Completed = 0 /\ ~Odd(lock) /\ lock \in 0..(2 * MaxWrites)
      BY CounterStep, SeqlockAssumption DEF LockInit, Completed
<1>2. Initial \in Snapshot
      BY DEF Initial, Snapshot
<1>3. LockTypeOK
      BY <1>1, <1>2 DEF LockInit, LockTypeOK, Idle
<1>4. StableIsPublished
      BY <1>1 DEF LockInit, StableIsPublished
<1>5. ASSUME NEW r \in Reader
      PROVE  CopyIsCurrent(r) /\ CallBegan(r) /\ ReturnIsSound(r)
      <2>1. returned[r] = [value |-> Initial, copied |-> TRUE,
                           from |-> 0, to |-> 0]
            BY DEF LockInit
      <2>2. published[0] = Initial
            BY DEF LockInit
      <2>3. WasCurrent(returned[r])
            BY <2>1, <2>2 DEF WasCurrent
      <2> QED BY <1>1, <2>1, <2>3
              DEF LockInit, Idle, CopyIsCurrent, CallBegan, ReturnIsSound
<1> QED BY <1>3, <1>4, <1>5 DEF LockInv

-----------------------------------------------------------------------------
(* The steps of the owner thread *)

\* Making the counter odd keeps the invariant: copies in progress are now
\* out of date by the counter.
LEMMA BeginWriteLockInv ==
    ASSUME LockInv, NEW ws \in SUBSET Word, BeginWrite(ws)
    PROVE  LockInv'
<1> DEFINE k == Completed
<1>1. lock \in Nat /\ ~Odd(lock) /\ lock' = lock + 1 /\ k < MaxWrites
      BY SeqlockAssumption DEF LockInv, LockTypeOK, BeginWrite
<1>2. Odd(lock') /\ Completed' = k /\ lock = 2 * k /\ k \in Nat
      BY <1>1, CounterStep DEF Completed, Odd
<1>3. LockTypeOK'
      <2>1. lock' \in 0..(2 * MaxWrites)
            BY <1>1, <1>2, SeqlockAssumption
      <2> QED BY <1>2, <2>1 DEF LockInv, LockTypeOK, BeginWrite, Odd
<1>4. StableIsPublished'
      BY <1>2 DEF StableIsPublished
<1>5. ASSUME NEW r \in Reader
      PROVE  (CopyIsCurrent(r) /\ CallBegan(r) /\ ReturnIsSound(r))'
      <2>1. CopyIsCurrent(r) /\ CallBegan(r) /\ ReturnIsSound(r)
            BY DEF LockInv
      <2>2. reader' = reader /\ returned' = returned /\ published' = published
            BY DEF BeginWrite
      <2>3. reader[r].pc = "copy" => reader[r].s1 \in Nat
            BY DEF LockInv, LockTypeOK, Busy, Idle
      <2>4. CopyIsCurrent(r)'
            BY <1>1, <2>1, <2>2, <2>3 DEF CopyIsCurrent
      <2> QED BY <1>2, <2>1, <2>2, <2>4
              DEF CallBegan, ReturnIsSound, WasCurrent
<1> QED BY <1>3, <1>4, <1>5 DEF LockInv

\* A word is written only while the counter is odd, which no copy's first
\* load was.
LEMMA PutWordLockInv ==
    ASSUME LockInv, NEW w \in Word, PutWord(w)
    PROVE  LockInv'
<1>1. Odd(lock) /\ lock \in Nat
      BY DEF LockInv, LockTypeOK, PutWord
<1>2. Completed \in Nat /\ Completed' = Completed /\ lock' = lock
      BY <1>1, CounterStep DEF Completed, PutWord
<1>3. LockTypeOK'
      <2>1. transform' \in Snapshot
            BY <1>2 DEF LockInv, LockTypeOK, PutWord, Snapshot
      <2> QED BY <1>2, <2>1 DEF LockInv, LockTypeOK, PutWord
<1>4. StableIsPublished'
      BY <1>1, <1>2 DEF StableIsPublished
<1>5. ASSUME NEW r \in Reader
      PROVE  (CopyIsCurrent(r) /\ CallBegan(r) /\ ReturnIsSound(r))'
      <2>1. CopyIsCurrent(r) /\ CallBegan(r) /\ ReturnIsSound(r)
            BY DEF LockInv
      <2>2. reader' = reader /\ returned' = returned /\ published' = published
            BY DEF PutWord
      <2>3. CopyIsCurrent(r)'
            BY <1>1, <1>2, <2>1, <2>2 DEF CopyIsCurrent
      <2> QED BY <1>2, <2>1, <2>2, <2>3
              DEF CallBegan, ReturnIsSound, WasCurrent
<1> QED BY <1>3, <1>4, <1>5 DEF LockInv

\* Completing a write publishes what the structure now holds.
LEMMA EndWriteLockInv ==
    ASSUME LockInv, EndWrite
    PROVE  LockInv'
<1> DEFINE k == Completed
<1>1. lock \in Nat /\ Odd(lock) /\ lock' = lock + 1 /\ lock <= 2 * MaxWrites
      BY SeqlockAssumption DEF LockInv, LockTypeOK, EndWrite
<1>2. k \in Nat /\ ~Odd(lock') /\ Completed' = k + 1 /\ lock = 2 * k + 1
      BY <1>1, CounterStep DEF Completed, Odd
<1>3. published \in [0..k -> Snapshot] /\ transform \in Snapshot
      BY DEF LockInv, LockTypeOK
<1>4. published' = [j \in 0..(k + 1) |-> IF j = k + 1 THEN transform
                                                     ELSE published[j]]
      <2>1. published' = Put(published, k + 1, transform)
            BY DEF EndWrite
      <2>2. (DOMAIN published) \cup {k + 1} = 0..(k + 1)
            BY <1>2, <1>3
      <2> QED BY <2>1, <2>2 DEF Put
<1>5. LockTypeOK'
      <2>1. published' \in [0..(k + 1) -> Snapshot]
            BY <1>2, <1>3, <1>4
      <2>2. lock' \in 0..(2 * MaxWrites)
            BY <1>1, <1>2, SeqlockAssumption
      <2> QED BY <1>2, <2>1, <2>2 DEF LockInv, LockTypeOK, EndWrite
<1>6. StableIsPublished'
      BY <1>2, <1>4 DEF StableIsPublished, EndWrite
<1>7. ASSUME NEW r \in Reader
      PROVE  (CopyIsCurrent(r) /\ CallBegan(r) /\ ReturnIsSound(r))'
      <2>1. CopyIsCurrent(r) /\ CallBegan(r) /\ ReturnIsSound(r)
            BY DEF LockInv
      <2>2. reader' = reader /\ returned' = returned
            BY DEF EndWrite
      <2>3. reader[r].pc = "copy" => reader[r].s1 \in Nat
            BY DEF LockInv, LockTypeOK, Busy, Idle
      <2>4. CopyIsCurrent(r)'
            BY <1>1, <2>1, <2>2, <2>3 DEF CopyIsCurrent
      <2>5. reader[r].pc # "idle" => reader[r].from \in Nat
            BY DEF LockInv, LockTypeOK, Busy, Idle
      <2>6. CallBegan(r)'
            BY <1>2, <2>1, <2>2, <2>5 DEF CallBegan
      <2>7. returned[r].to \in Nat /\ returned[r].from \in Nat
            BY DEF LockInv, LockTypeOK
      <2>8. \A j \in returned[r].from..returned[r].to :
              published'[j] = published[j]
            BY <1>2, <1>4, <2>1, <2>7 DEF ReturnIsSound
      <2>9. ReturnIsSound(r)'
            BY <1>2, <2>1, <2>2, <2>7, <2>8 DEF ReturnIsSound, WasCurrent
      <2> QED BY <2>4, <2>6, <2>9
<1> QED BY <1>5, <1>6, <1>7 DEF LockInv

-----------------------------------------------------------------------------
(* The steps of a reader *)

\* A step of one reader leaves the structure and the other readers alone, so
\* only its own part of the invariant is at stake.
LEMMA ReaderLockInv ==
    ASSUME LockInv, NEW r \in Reader, NEW rec, NEW ret,
           UNCHANGED <<lock, transform, toWrite, published>>,
           reader' = [reader EXCEPT ![r] = rec],
           returned' = [returned EXCEPT ![r] = ret],
           rec \in {Idle} \cup Busy,
           ret \in [value : Snapshot, copied : BOOLEAN, from : Nat, to : Nat],
           (CopyIsCurrent(r) /\ CallBegan(r) /\ ReturnIsSound(r))'
    PROVE  LockInv'
<1>1. Completed' = Completed
      BY DEF Completed
<1>2. LockTypeOK'
      BY <1>1 DEF LockInv, LockTypeOK
<1>3. StableIsPublished'
      BY <1>1 DEF LockInv, StableIsPublished
<1>4. ASSUME NEW q \in Reader
      PROVE  (CopyIsCurrent(q) /\ CallBegan(q) /\ ReturnIsSound(q))'
      <2>1. CASE q = r
            BY <2>1
      <2>2. CASE q # r
            <3>1. reader'[q] = reader[q] /\ returned'[q] = returned[q]
                  BY <2>2 DEF LockInv, LockTypeOK
            <3> QED BY <1>1, <3>1
                    DEF LockInv, CopyIsCurrent, CallBegan, ReturnIsSound,
                        WasCurrent
      <2> QED BY <2>1, <2>2
<1> QED BY <1>2, <1>3, <1>4 DEF LockInv

\* A call starts from the initialisers and the counter of the moment.
LEMMA CallLockInv ==
    ASSUME LockInv, NEW r \in Reader, Call(r)
    PROVE  LockInv'
<1>1. PICK g \in Garbage :
        reader' = [reader EXCEPT ![r] =
                     [pc |-> "load", s1 |-> 0, s2 |-> g, out |-> Initial,
                      left |-> {}, from |-> Completed]]
      BY DEF Call, Inside
<1> DEFINE rec == [pc |-> "load", s1 |-> 0, s2 |-> g, out |-> Initial,
                   left |-> {}, from |-> Completed]
<1>2. lock \in Nat /\ Completed \in Nat /\ Completed' = Completed
      <2>1. lock \in Nat
            BY SeqlockAssumption DEF LockInv, LockTypeOK
      <2> QED BY <2>1, CounterStep DEF Completed, Call
<1>3. rec \in Busy
      BY <1>2, SeqlockAssumption DEF Busy, Snapshot, Initial
<1>4. UNCHANGED <<lock, transform, toWrite, published, returned>>
      BY DEF Call
<1>5. returned' = [returned EXCEPT ![r] = returned[r]]
      BY <1>4 DEF LockInv, LockTypeOK
<1>6. reader'[r] = rec
      BY <1>1 DEF LockInv, LockTypeOK
<1>7. returned[r] \in [value : Snapshot, copied : BOOLEAN, from : Nat,
                       to : Nat]
      BY DEF LockInv, LockTypeOK
<1>8. (CopyIsCurrent(r) /\ CallBegan(r) /\ ReturnIsSound(r))'
      <2>1. CopyIsCurrent(r)' /\ CallBegan(r)'
            BY <1>2, <1>6 DEF CopyIsCurrent, CallBegan
      <2>2. ReturnIsSound(r)'
            BY <1>2, <1>4 DEF LockInv, ReturnIsSound, WasCurrent
      <2> QED BY <2>1, <2>2
<1> HIDE DEF rec
<1> QED BY <1>1, <1>3, <1>4, <1>5, <1>7, <1>8, ReaderLockInv DEF rec

\* The record of a reader that is in ReadTransform, whose fields the steps
\* below replace one by one.
LEMMA BusyReader ==
    ASSUME LockInv, NEW r \in Reader, reader[r].pc # "idle"
    PROVE  /\ reader[r] \in Busy
           /\ reader[r].from <= Completed
           /\ returned[r] \in [value : Snapshot, copied : BOOLEAN,
                               from : Nat, to : Nat]
           /\ lock \in Nat /\ Completed \in Nat
<1>1. reader[r] \in {Idle} \cup Busy /\ Idle.pc = "idle"
      BY DEF LockInv, LockTypeOK, Idle
<1>2. lock \in Nat
      BY SeqlockAssumption DEF LockInv, LockTypeOK
<1> QED BY <1>1, <1>2, CounterStep DEF LockInv, LockTypeOK, CallBegan, Completed

\* The first load of a pass that may copy sees an even counter, and nothing
\* is copied yet.
LEMMA LoadStableLockInv ==
    ASSUME LockInv, NEW r \in Reader, LoadStable(r)
    PROVE  LockInv'
<1> DEFINE old == reader[r]
           rec == [pc |-> "copy", s1 |-> lock, s2 |-> old.s2, out |-> old.out,
                   left |-> Word, from |-> old.from]
<1>1. /\ old \in Busy /\ old.from <= Completed
      /\ returned[r] \in [value : Snapshot, copied : BOOLEAN,
                          from : Nat, to : Nat]
      /\ lock \in Nat
      BY BusyReader DEF LoadStable
<1>2. rec \in Busy
      BY <1>1 DEF Busy
<1>3. UNCHANGED <<lock, transform, toWrite, published, returned>> /\ ~Odd(lock)
      BY DEF LoadStable
<1>4. reader' = [reader EXCEPT ![r] = rec]
      BY DEF LoadStable, Inside
<1>5. reader'[r] = rec
      BY <1>4 DEF LockInv, LockTypeOK
<1>6. returned' = [returned EXCEPT ![r] = returned[r]]
      BY <1>3 DEF LockInv, LockTypeOK
<1>7. (CopyIsCurrent(r) /\ CallBegan(r) /\ ReturnIsSound(r))'
      <2>1. CopyIsCurrent(r)' /\ CallBegan(r)'
            BY <1>1, <1>3, <1>5 DEF CopyIsCurrent, CallBegan, Completed
      <2>2. ReturnIsSound(r)'
            BY <1>3 DEF LockInv, ReturnIsSound, WasCurrent, Completed
      <2> QED BY <2>1, <2>2
<1> HIDE DEF rec
<1> QED BY <1>1, <1>2, <1>3, <1>4, <1>6, <1>7, ReaderLockInv

\* A first load that finds a write in progress either starts another pass
\* or returns, without a copy.
LEMMA LoadWritingLockInv ==
    ASSUME LockInv, NEW r \in Reader, LoadWriting(r)
    PROVE  LockInv'
<1> DEFINE old == reader[r]
           rec == [pc |-> "load", s1 |-> old.s1, s2 |-> old.s2,
                   out |-> old.out, left |-> old.left, from |-> old.from]
           ret == [value |-> old.out, copied |-> FALSE, from |-> old.from,
                   to |-> Completed]
<1>1. /\ old \in Busy /\ old.from <= Completed
      /\ returned[r] \in [value : Snapshot, copied : BOOLEAN,
                          from : Nat, to : Nat]
      /\ Completed \in Nat
      BY BusyReader DEF LoadWriting
<1>2. UNCHANGED <<lock, transform, toWrite, published>>
      BY DEF LoadWriting
<1>3. CASE lock = old.s2
      <2>1. /\ reader' = [reader EXCEPT ![r] = Idle]
            /\ returned' = [returned EXCEPT ![r] = ret]
            BY <1>3 DEF LoadWriting, Return
      <2>2. ret \in [value : Snapshot, copied : BOOLEAN, from : Nat,
                     to : Nat]
            BY <1>1 DEF Busy
      <2>3. reader'[r] = Idle /\ returned'[r] = ret
            BY <2>1 DEF LockInv, LockTypeOK
      <2>4. (CopyIsCurrent(r) /\ CallBegan(r) /\ ReturnIsSound(r))'
            BY <1>1, <1>2, <2>3
            DEF CopyIsCurrent, CallBegan, ReturnIsSound, Idle, Completed
      <2> HIDE DEF ret
      <2> QED BY <1>2, <2>1, <2>2, <2>4, ReaderLockInv
<1>4. CASE lock # old.s2
      <2>1. reader' = [reader EXCEPT ![r] = rec] /\ returned' = returned
            BY <1>4 DEF LoadWriting, Again, Inside
      <2>2. rec \in Busy /\ rec.pc = "load" /\ rec.from = old.from
            BY <1>1 DEF Busy
      <2>3. reader'[r] = rec
            BY <2>1 DEF LockInv, LockTypeOK
      <2>4. returned' = [returned EXCEPT ![r] = returned[r]]
            BY <2>1 DEF LockInv, LockTypeOK
      <2>5. CopyIsCurrent(r)' /\ CallBegan(r)'
            BY <1>1, <1>2, <2>2, <2>3 DEF CopyIsCurrent, CallBegan, Completed
      <2>6. ReturnIsSound(r)'
            BY <1>2, <2>1 DEF LockInv, ReturnIsSound, WasCurrent, Completed
      <2> HIDE DEF rec
      <2> QED BY <1>1, <1>2, <2>1, <2>2, <2>4, <2>5, <2>6, ReaderLockInv
<1> QED BY <1>3, <1>4

\* A copied word is the one the structure holds.
LEMMA CopyWordLockInv ==
    ASSUME LockInv, NEW r \in Reader, NEW w \in Word, CopyWord(r, w)
    PROVE  LockInv'
<1> DEFINE old == reader[r]
           out == [old.out EXCEPT ![w] = transform[w]]
           rec == [pc |-> "copy", s1 |-> old.s1, s2 |-> old.s2, out |-> out,
                   left |-> old.left \ {w}, from |-> old.from]
<1>1. /\ old \in Busy /\ old.from <= Completed
      /\ returned[r] \in [value : Snapshot, copied : BOOLEAN,
                          from : Nat, to : Nat]
      BY BusyReader DEF CopyWord
<1>2. out \in Snapshot
      BY <1>1 DEF LockInv, LockTypeOK, Busy, Snapshot
<1>3. rec \in Busy
      BY <1>1, <1>2 DEF Busy
<1>4. UNCHANGED <<lock, transform, toWrite, published, returned>>
      BY DEF CopyWord
<1>5. reader' = [reader EXCEPT ![r] = rec]
      BY DEF CopyWord, Inside
<1>6. reader'[r] = rec
      BY <1>5 DEF LockInv, LockTypeOK
<1>7. returned' = [returned EXCEPT ![r] = returned[r]]
      BY <1>4 DEF LockInv, LockTypeOK
<1>8. CopyIsCurrent(r)'
      <2>1. CopyIsCurrent(r) /\ old.pc = "copy"
            BY DEF LockInv, CopyWord
      <2>2. \A v \in Word : out[v] = IF v = w THEN transform[w]
                                              ELSE old.out[v]
            BY <1>1 DEF Busy, Snapshot
      <2>3. \A v \in Word \ rec.left : v = w \/ v \in Word \ old.left
            OBVIOUS
      <2> HIDE DEF out
      <2> QED BY <1>4, <1>6, <2>1, <2>2, <2>3 DEF CopyIsCurrent
<1>9. CallBegan(r)'
      BY <1>1, <1>4, <1>6 DEF CallBegan, Completed
<1>10. ReturnIsSound(r)'
      BY <1>4 DEF LockInv, ReturnIsSound, WasCurrent, Completed
<1> HIDE DEF rec
<1> QED BY <1>1, <1>3, <1>4, <1>5, <1>7, <1>8, <1>9, <1>10, ReaderLockInv

\* A copy is kept when the counter has not moved: it is then the snapshot
\* published last.
LEMMA LoadAgainLockInv ==
    ASSUME LockInv, NEW r \in Reader, LoadAgain(r)
    PROVE  LockInv'
<1> DEFINE old == reader[r]
           rec == [pc |-> "load", s1 |-> old.s1, s2 |-> lock,
                   out |-> old.out, left |-> old.left, from |-> old.from]
           ret == [value |-> old.out, copied |-> TRUE, from |-> old.from,
                   to |-> Completed]
<1>1. /\ old \in Busy /\ old.from <= Completed
      /\ returned[r] \in [value : Snapshot, copied : BOOLEAN,
                          from : Nat, to : Nat]
      /\ lock \in Nat /\ Completed \in Nat
      BY BusyReader DEF LoadAgain
<1>2. UNCHANGED <<lock, transform, toWrite, published>>
      BY DEF LoadAgain
<1>3. CASE lock = old.s1
      <2>1. /\ reader' = [reader EXCEPT ![r] = Idle]
            /\ returned' = [returned EXCEPT ![r] = ret]
            BY <1>3 DEF LoadAgain, Return
      <2>2. ret \in [value : Snapshot, copied : BOOLEAN, from : Nat,
                     to : Nat]
            BY <1>1 DEF Busy
      <2>3. reader'[r] = Idle /\ returned'[r] = ret
            BY <2>1 DEF LockInv, LockTypeOK
      <2>4. ~Odd(lock) /\ \A w \in Word : old.out[w] = transform[w]
            BY <1>3 DEF LockInv, CopyIsCurrent, LoadAgain
      <2>5. old.out = transform
            BY <1>1, <2>4 DEF LockInv, LockTypeOK, Busy, Snapshot
      <2>6. transform = published[Completed]
            BY <2>4 DEF LockInv, StableIsPublished
      <2>7. Completed \in old.from..Completed
            BY <1>1 DEF Busy
      <2>8. (ReturnIsSound(r))'
            BY <1>1, <1>2, <2>3, <2>5, <2>6, <2>7
            DEF ReturnIsSound, WasCurrent, Completed
      <2>9. CopyIsCurrent(r)' /\ CallBegan(r)'
            BY <2>3 DEF CopyIsCurrent, CallBegan, Idle
      <2> HIDE DEF ret
      <2> QED BY <1>2, <2>1, <2>2, <2>8, <2>9, ReaderLockInv
<1>4. CASE lock # old.s1
      <2>1. reader' = [reader EXCEPT ![r] = rec] /\ returned' = returned
            BY <1>4 DEF LoadAgain, Again, Inside
      <2>2. rec \in Busy
            BY <1>1 DEF Busy
      <2>3. reader'[r] = rec
            BY <2>1 DEF LockInv, LockTypeOK
      <2>4. returned' = [returned EXCEPT ![r] = returned[r]]
            BY <2>1 DEF LockInv, LockTypeOK
      <2>5. CopyIsCurrent(r)' /\ CallBegan(r)'
            BY <1>1, <1>2, <2>3 DEF CopyIsCurrent, CallBegan, Completed
      <2>6. ReturnIsSound(r)'
            BY <1>2, <2>1 DEF LockInv, ReturnIsSound, WasCurrent, Completed
      <2> HIDE DEF rec
      <2> QED BY <1>1, <1>2, <2>1, <2>2, <2>4, <2>5, <2>6, ReaderLockInv
<1> QED BY <1>3, <1>4

-----------------------------------------------------------------------------

\* Every step keeps the inductive invariant.
LEMMA LockInvNext == LockInv /\ [LockNext]_lockVars => LockInv'
<1> SUFFICES ASSUME LockInv, [LockNext]_lockVars PROVE LockInv'
    OBVIOUS
<1>1. CASE PublishTransform
      BY <1>1, BeginWriteLockInv DEF PublishTransform
<1>2. CASE SetEra
      BY <1>2, BeginWriteLockInv, SeqlockAssumption DEF SetEra
<1>3. ASSUME NEW w \in Word, PutWord(w) PROVE LockInv'
      BY <1>3, PutWordLockInv
<1>4. CASE EndWrite
      BY <1>4, EndWriteLockInv
<1>5. ASSUME NEW r \in Reader, Call(r) \/ Read(r) PROVE LockInv'
      BY <1>5, CallLockInv, LoadStableLockInv, LoadWritingLockInv, CopyWordLockInv,
         LoadAgainLockInv DEF Read
<1>6. CASE UNCHANGED lockVars
      BY <1>6 DEF lockVars, LockInv, LockTypeOK, StableIsPublished, CopyIsCurrent,
                  CallBegan, ReturnIsSound, WasCurrent, Completed
<1> QED BY <1>1, <1>2, <1>3, <1>4, <1>5, <1>6 DEF LockNext, Write

\* The inductive invariant holds of every behaviour.
LEMMA SeqlockInvariant == LockSpec => []LockInv
<1> QED BY LockInvInit, LockInvNext, PTL DEF LockSpec

\* Type correctness, and the parity of the counter, for every instance.
THEOREM SeqlockTypeCorrect == LockSpec => []LockTypeOK
<1>1. LockInv => LockTypeOK
      BY DEF LockInv
<1> QED BY <1>1, SeqlockInvariant, PTL

\* Every read that ends with a copy between two equal loads of the counter
\* returns a snapshot that was the published one during the call, for every
\* set of readers, every structure and any number of writes.
THEOREM SeqlockCopiesAreSnapshots == LockSpec => []CopiedReadsAreSnapshots
<1>1. LockInv => CopiedReadsAreSnapshots
      BY DEF LockInv, ReturnIsSound, CopiedReadsAreSnapshots
<1> QED BY <1>1, SeqlockInvariant, PTL

-----------------------------------------------------------------------------
(* All three *)

\* The state of the three parts keeps its types: a step is of one of them and
\* leaves the others at rest.
THEOREM SessionsKeepTheirTypes == Spec => []TypeOK
<1>1. Init => TableInv /\ LockInv /\ IInv
  BY TableInvInit, LockInvInit, InitIInv DEF Init
<1>2. TableInv /\ LockInv /\ IInv /\ [Next]_vars => (TableInv /\ LockInv /\ IInv)'
  <2> SUFFICES ASSUME TableInv, LockInv, IInv, [Next]_vars PROVE TableInv' /\ LockInv' /\ IInv'
    OBVIOUS
  <2>1. [TableNext]_tableVars /\ [LockNext]_lockVars /\ [LinkNext]_linkVars
    BY DEF Next, Table, Transform, Link, vars
  <2> QED BY <2>1, TableInvNext, LockInvNext, NextIInv
<1>3. TableInv /\ LockInv /\ IInv => TypeOK
  BY DEF TableInv, LockInv, IInv, TypeOK
<1> QED BY <1>1, <1>2, <1>3, PTL DEF Spec
=============================================================================
