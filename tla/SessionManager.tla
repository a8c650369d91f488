--------------------------- MODULE SessionManager ----------------------------
(***************************************************************************)
(* The table of sessions (Server_Core/Network/SessionManager.cpp) and the  *)
(* threads that use it.  The table keeps one index by remote address and   *)
(* one by UserId, both under a shared_mutex; a Session object lives on     *)
(* behind shared_ptr after it left the table, so a thread may still act    *)
(* for a session that is no longer registered:                             *)
(*                                                                         *)
(*   workers (DispatchPacket) look a session up, release the lock, and     *)
(*     then Touch it and queue its packet;                                 *)
(*   logic threads (HandleLeave) take a queued LEAVE and remove by UserId; *)
(*   the main thread (RunRecvLoop) first collects the UserIds of sessions  *)
(*     whose retransmissions are exhausted under the shared lock and       *)
(*     removes them afterwards, and removes sessions idle for too long.    *)
(*                                                                         *)
(* Time is counted in periods of the clean-up (one second): idle stops     *)
(* counting one above SessionTimeout.                                      *)
(***************************************************************************)
EXTENDS Integers, FiniteSets, Maps

CONSTANTS User, Addr,
          Worker,          \* threads that run DispatchPacket
          SessionTimeout,  \* SESSION_TIMEOUT_MS
          MaxSessions      \* bound on the number of sessions ever created

ASSUME SessionAssumption == /\ SessionTimeout \in Nat
                            /\ MaxSessions \in Nat

VARIABLES
    byAddr,         \* m_ByAddr
    byUser,         \* m_ByUserId
    nextSessionId,  \* m_NextSessionId
    session,        \* the immutable members of every session ever created
    idle,           \* periods since the session was last touched
    held,           \* what each worker is about to do with which session
    leaving,        \* sessions with a LEAVE packet in a logic queue
    doomed          \* deadSessions of the sweep in progress, as UserIds

tableVars == <<byAddr, byUser, nextSessionId, session, idle, held, leaving, doomed>>

Registered == {byAddr[a] : a \in DOMAIN byAddr}

Nothing == [what |-> "nothing"]

TableInit == /\ byAddr = <<>>
        /\ byUser = <<>>
        /\ nextSessionId = 1
        /\ session = <<>>
        /\ idle = <<>>
        /\ held = [w \in Worker |-> Nothing]
        /\ leaving = {}
        /\ doomed = {}

-----------------------------------------------------------------------------
(* The operations of SessionManager *)

\* The session already known at the address is used again, whatever UserId
\* the packet names.
ReuseByAddr(w, a) ==
    /\ a \in DOMAIN byAddr
    /\ held' = [held EXCEPT ![w] = [what |-> "join", id |-> byAddr[a]]]
    /\ UNCHANGED <<byAddr, byUser, nextSessionId, session, idle>>

\* Fault: the old session of a user who came back keeps its address entry.
CreateSessionKeepingOldAddr(w, u, a) ==
    /\ a \notin DOMAIN byAddr
    /\ nextSessionId <= MaxSessions
    /\ byAddr' = Put(byAddr, a, nextSessionId)
    /\ byUser' = Put(byUser, u, nextSessionId)
    /\ session' = Put(session, nextSessionId, [user |-> u, addr |-> a])
    /\ idle' = Put(idle, nextSessionId, 0)
    /\ held' = [held EXCEPT ![w] = [what |-> "join", id |-> nextSessionId]]
    /\ nextSessionId' = nextSessionId + 1

\* A user known at another address is taken to have come back: the old
\* session leaves both indexes, and a new one is entered in both.
CreateSession(w, u, a) ==
    /\ a \notin DOMAIN byAddr
    /\ nextSessionId <= MaxSessions
    /\ LET old == IF u \in DOMAIN byUser THEN {session[byUser[u]].addr}
                                         ELSE {}
       IN  byAddr' = Put(Erase(byAddr, old), a, nextSessionId)
    /\ byUser' = Put(byUser, u, nextSessionId)
    /\ session' = Put(session, nextSessionId, [user |-> u, addr |-> a])
    /\ idle' = Put(idle, nextSessionId, 0)
    /\ held' = [held EXCEPT ![w] = [what |-> "join", id |-> nextSessionId]]
    /\ nextSessionId' = nextSessionId + 1

CreateOrGet(w, u, a) == ReuseByAddr(w, a) \/ CreateSession(w, u, a)

RemoveByUserId(u) ==
    IF u \in DOMAIN byUser
    THEN /\ byAddr' = Erase(byAddr, {session[byUser[u]].addr})
         /\ byUser' = Erase(byUser, {u})
    ELSE UNCHANGED <<byAddr, byUser>>

TimedOut == {a \in DOMAIN byAddr : idle[byAddr[a]] > SessionTimeout}

-----------------------------------------------------------------------------
(* Worker threads: DispatchPacket *)

Join(w, u, a) ==
    /\ held[w] = Nothing
    /\ CreateOrGet(w, u, a)
    /\ UNCHANGED <<leaving, doomed>>

\* Any other packet: without a session for its address it is dropped.
FindByAddr(w, a, what) ==
    /\ held[w] = Nothing
    /\ a \in DOMAIN byAddr
    /\ held' = [held EXCEPT ![w] = [what |-> what, id |-> byAddr[a]]]
    /\ UNCHANGED <<byAddr, byUser, nextSessionId, session, idle, leaving,
                   doomed>>

\* Fault: a session that was removed meanwhile is entered again.
ProcessRegisteringAgain(w) ==
    /\ held[w] # Nothing
    /\ LET s == held[w].id
       IN  /\ idle' = [idle EXCEPT ![s] = 0]
           /\ leaving' = IF held[w].what = "leave" THEN leaving \union {s}
                                                   ELSE leaving
           /\ byAddr' = Put(byAddr, session[s].addr, s)
           /\ byUser' = Put(byUser, session[s].user, s)
    /\ held' = [held EXCEPT ![w] = Nothing]
    /\ UNCHANGED <<nextSessionId, session, doomed>>

\* Touch, then the packet goes to the session's logic queue.
Process(w) ==
    /\ held[w] # Nothing
    /\ LET s == held[w].id
       IN  /\ idle' = [idle EXCEPT ![s] = 0]
           /\ leaving' = IF held[w].what = "leave" THEN leaving \union {s}
                                                   ELSE leaving
    /\ held' = [held EXCEPT ![w] = Nothing]
    /\ UNCHANGED <<byAddr, byUser, nextSessionId, session, doomed>>

-----------------------------------------------------------------------------
(* Logic threads *)

HandleLeave(s) ==
    /\ s \in leaving
    /\ leaving' = leaving \ {s}
    /\ RemoveByUserId(session[s].user)
    /\ UNCHANGED <<nextSessionId, session, idle, held, doomed>>

-----------------------------------------------------------------------------
(* The main thread: RunRecvLoop *)

\* Fault: SessionIds are collected where UserIds are removed.
SweepCollectSessionIds(exhausted) ==
    /\ doomed = {}
    /\ exhausted # {}
    /\ doomed' = exhausted
    /\ UNCHANGED <<byAddr, byUser, nextSessionId, session, idle, held,
                   leaving>>

\* ForEach visits the registered sessions under the shared lock; those in
\* exhausted have a packet that was repeated RUDP_MAX_RETRIES times.
SweepCollect(exhausted) ==
    /\ doomed = {}
    /\ exhausted # {}
    /\ doomed' = {session[s].user : s \in exhausted}
    /\ UNCHANGED <<byAddr, byUser, nextSessionId, session, idle, held,
                   leaving>>

SweepRemove(u) ==
    /\ u \in doomed
    /\ doomed' = doomed \ {u}
    /\ RemoveByUserId(u)
    /\ UNCHANGED <<nextSessionId, session, idle, held, leaving>>

\* Fault: the index by address is not cleaned.
RemoveTimedOutFromOneIndex ==
    /\ doomed = {}
    /\ TimedOut # {}
    /\ byUser' = Erase(byUser, {session[byAddr[a]].user : a \in TimedOut})
    /\ UNCHANGED <<byAddr, nextSessionId, session, idle, held, leaving,
                   doomed>>

RemoveTimedOut ==
    /\ doomed = {}
    /\ TimedOut # {}
    /\ byUser' = Erase(byUser, {session[byAddr[a]].user : a \in TimedOut})
    /\ byAddr' = Erase(byAddr, TimedOut)
    /\ UNCHANGED <<nextSessionId, session, idle, held, leaving, doomed>>

Tick ==
    /\ idle' = [s \in DOMAIN idle |->
                   IF idle[s] <= SessionTimeout THEN idle[s] + 1 ELSE idle[s]]
    /\ UNCHANGED <<byAddr, byUser, nextSessionId, session, held, leaving,
                   doomed>>

-----------------------------------------------------------------------------
TableNext ==
    \/ \E w \in Worker, u \in User, a \in Addr : Join(w, u, a)
    \/ \E w \in Worker, a \in Addr, what \in {"leave", "other"} :
           FindByAddr(w, a, what)
    \/ \E w \in Worker : Process(w)
    \/ \E s \in leaving : HandleLeave(s)
    \/ \E exhausted \in SUBSET Registered : SweepCollect(exhausted)
    \/ \E u \in doomed : SweepRemove(u)
    \/ RemoveTimedOut
    \/ Tick

TableSpec == TableInit /\ [][TableNext]_tableVars

-----------------------------------------------------------------------------
(* Properties *)

\* The type of the table and of what the threads hold.
TableTypeOK ==
    /\ DOMAIN byAddr \subseteq Addr
    /\ DOMAIN byUser \subseteq User
    /\ nextSessionId \in Nat \ {0}
    /\ DOMAIN session = 1..(nextSessionId - 1)
    /\ \A s \in DOMAIN session : session[s] \in [user : User, addr : Addr]
    /\ DOMAIN idle = DOMAIN session
    /\ \A s \in DOMAIN idle : idle[s] \in 0..(SessionTimeout + 1)
    /\ \A a \in DOMAIN byAddr : byAddr[a] \in DOMAIN session
    /\ \A u \in DOMAIN byUser : byUser[u] \in DOMAIN session
    /\ \A w \in Worker : \/ held[w] = Nothing
                         \/ held[w].id \in DOMAIN session
    /\ leaving \subseteq DOMAIN session
    /\ doomed \subseteq User

\* The two indexes always describe the same sessions: each entry of one has
\* its counterpart in the other, so no user is heard at an address nobody
\* can remove, and no user has two sessions.
IndexesAgree ==
    /\ \A a \in DOMAIN byAddr :
           LET s == byAddr[a] IN /\ session[s].addr = a
                                 /\ session[s].user \in DOMAIN byUser
                                 /\ byUser[session[s].user] = s
    /\ \A u \in DOMAIN byUser :
           LET s == byUser[u] IN /\ session[s].user = u
                                 /\ session[s].addr \in DOMAIN byAddr
                                 /\ byAddr[session[s].addr] = s

\* Whatever the other threads do meanwhile, the session whose LEAVE was
\* handled is not registered afterwards.
LeaverIsGone ==
    [][\A s \in leaving \ leaving' : s \notin Registered']_tableVars

\* A session that has left the table never comes back into it, although
\* workers, logic queues and the sweep still hold pointers to it.
GoneForGood ==
    [][\A s \in DOMAIN session \ Registered : s \notin Registered']_tableVars

\* No session of a client that fell silent stays in the table: each one is
\* touched again and again or is removed.
SilentSessionsExpire ==
    \A s \in 1..MaxSessions :
        <>[](s \in Registered) => []<>(s \in DOMAIN idle /\ idle[s] = 0)

=============================================================================
