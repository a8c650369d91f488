----------------------------- MODULE WorldState ------------------------------
(***************************************************************************)
(* What visitors see of each other: the handlers of IOCPServer that write  *)
(* a session's state (HandleTransform, HandleEraChange), BroadcastTick,    *)
(* which reads all of them and tells everybody who is near, and a client   *)
(* that joins once and then sends transforms (DummyClient).                *)
(*                                                                         *)
(* A reliable packet is accepted once and in order (RudpLink), a transform *)
(* at most once; but between accepting and handling, packets that several  *)
(* workers hold may change places (PacketPipeline), so here what was       *)
(* accepted is handled in any order.  Of a transform the model keeps its   *)
(* number and its era; the number MaxNumber stands for all later ones too.    *)
(***************************************************************************)
EXTENDS RudpChannel, SequencesExt

CONSTANTS
    Users,        \* UserIds, numbers
    Movers,       \* those who join and move; the others are there and stay
    Eras,         \* the eras one can be in, numbers above 0
    EraOf,        \* the era each user starts in
    MaxEntries,   \* kMaxEntries, the entries that fit a packet
    FragModulus,  \* the values of uint8_t
    MaxAir,       \* bound on the transforms on their way
    MaxNumber,    \* bound on the numbers of a client's transforms
    MaxChanges    \* bound on the changes of era of a client

ASSUME WorldAssumption ==
    /\ Users \subseteq Nat /\ Movers \subseteq Users /\ Eras \subseteq Nat \ {0} /\ EraOf \in [Users -> Eras]
    /\ {MaxEntries, FragModulus, MaxAir, MaxNumber} \subseteq Nat \ {0} /\ MaxChanges \in Nat

VARIABLES
    client,    \* each client: its era, its next number, the eras it changed to
    air,       \* transforms on their way
    session,   \* m_AddrToSession: what the server knows of each user
    pushed,    \* packets accepted and not handled yet
    peers,     \* what BroadcastTick has read so far
    views      \* the last packets sent to each user

worldVars == <<client, air, session, pushed, peers, views>>

\* A mover's number says which transform or change it is.
Handled == ({"transform"} \X Movers \X (0..MaxNumber)) \union ({"change"} \X Movers \X (1..MaxChanges))
Absent == [here |-> FALSE]
Present(seq, era) == [here |-> TRUE, seq |-> seq, era |-> era, changes |-> 0, un |-> UnreliableInit]
TransformOf(u) == [kind |-> "transform", user |-> u, seq |-> client[u].seq, era |-> client[u].era]

WorldInit ==
    /\ client = [u \in Users |-> [era |-> EraOf[u], seq |-> 0, changes |-> <<>>, joined |-> FALSE]]
    /\ session = [u \in Users |-> IF u \in Movers THEN Absent ELSE Present(MaxNumber, EraOf[u])]
    /\ air = {} /\ pushed = {} /\ peers = <<>> /\ views = [u \in Users |-> <<>>]

---------------------------------------------------------------------------
(* The client                                                              *)

\* JOIN is sent once; when it is lost nobody sends it again.
SendJoin(u) ==
    /\ u \in Movers /\ ~client[u].joined
    /\ client' = [client EXCEPT ![u].joined = TRUE]
    /\ session' \in {session, [session EXCEPT ![u] = Present(0, 0)]}
    /\ UNCHANGED <<air, pushed, peers, views>>

\* At 30 Hz; the network may lose it, or one still on its way.
SendTransform(u) ==
    /\ client[u].joined
    /\ client' = [client EXCEPT ![u].seq = IF @ = MaxNumber THEN @ ELSE @ + 1]
    /\ LET t == TransformOf(u)
       IN air' \in {air} \union {(air \ {old}) \union {t} : old \in air \union {t}}
    /\ Cardinality(air') <= MaxAir
    /\ UNCHANGED <<session, pushed, peers, views>>

\* ERA_CHANGE, on the reliable stream.
ChangeEra(u, e) ==
    /\ client[u].joined /\ client[u].seq < MaxNumber /\ Len(client[u].changes) < MaxChanges /\ e # client[u].era
    /\ client' = [client EXCEPT ![u].era = e, ![u].changes = Append(@, e)]
    /\ UNCHANGED <<air, session, pushed, peers, views>>

---------------------------------------------------------------------------
(* The server takes and handles what comes                                 *)

\* A transform comes, perhaps not for the last time.
ReceiveTransform(t) ==
    /\ t \in air /\ air' \in {air, air \ {t}}
    /\ LET s == session[t.user]
       IN IF s.here /\ (t.seq = MaxNumber \/ AcceptUnreliable(s.un, t.seq))
          THEN /\ session' = [session EXCEPT ![t.user].un = [has |-> TRUE, high |-> t.seq]]
               /\ pushed' = pushed \union {t}
          ELSE UNCHANGED <<session, pushed>>
    /\ UNCHANGED <<client, peers, views>>

\* The next change of era comes, at last.
ReceiveChange(u) ==
    /\ session[u].here /\ session[u].changes < Len(client[u].changes)
    /\ LET n == session[u].changes + 1
       IN /\ session' = [session EXCEPT ![u].changes = n]
          /\ pushed' = pushed \union {[kind |-> "change", user |-> u, seq |-> n, era |-> client[u].changes[n]]}
    /\ UNCHANGED <<client, air, peers, views>>

\* HandleTransform publishes the whole transform, its era included.
PublishTransform(s, p) == [s EXCEPT !.seq = p.seq, !.era = p.era]

SetEra(s, p) == [s EXCEPT !.era = p.era]

Handle(p) ==
    /\ p \in pushed /\ pushed' = pushed \ {p}
    /\ session' = [session EXCEPT ![p.user] = IF p.kind = "transform" THEN PublishTransform(@, p) ELSE SetEra(@, p)]
    /\ UNCHANGED <<client, air, peers, views>>

---------------------------------------------------------------------------
(* The broadcast                                                           *)

\* One session after the other is read, while the logic threads write.
ReadPeer(u) ==
    /\ session[u].here /\ u \notin {peers[i].user : i \in DOMAIN peers}
    /\ \A v \in 1..(u - 1) : v \in Users /\ session[v].here => \E i \in DOMAIN peers : peers[i].user = v
    /\ peers' = Append(peers, [user |-> u, seq |-> session[u].seq, era |-> session[u].era])
    /\ UNCHANGED <<client, air, session, pushed, views>>

\* Who is told to me: all others that have a place, in the same era.
Near(me) == SelectSeq(peers, LAMBDA o : o.user # me.user /\ o.seq # 0 /\ o.era = me.era)

\* The last packet is forgotten unless it is full (for a mutant).
FragCountDown(total) == IF total = 0 THEN 1 ELSE IF total < MaxEntries THEN 1 ELSE total \div MaxEntries

\* The number of packets, cut to 8 bits.
FragCount(total) == (IF total = 0 THEN 1 ELSE (total + MaxEntries - 1) \div MaxEntries) % FragModulus

Fragments(me) ==
    LET near == Near(me)
        n == FragCount(Len(near))
        upto(f) == IF (f + 1) * MaxEntries < Len(near) THEN (f + 1) * MaxEntries ELSE Len(near)
    IN [i \in 1..n |-> [index |-> i - 1, count |-> n, entries |-> SubSeq(near, (i - 1) * MaxEntries + 1, upto(i - 1))]]

BroadcastTick ==
    /\ peers # <<>> /\ \A u \in Users : session[u].here => \E i \in DOMAIN peers : peers[i].user = u
    /\ views' = [u \in Users |->
           IF \E i \in DOMAIN peers : peers[i].user = u
           THEN Fragments(CHOOSE p \in {peers[i] : i \in DOMAIN peers} : p.user = u) ELSE views[u]]
    /\ peers' = <<>> /\ UNCHANGED <<client, air, session, pushed>>

Broadcasting == BroadcastTick \/ \E u \in Users : ReadPeer(u)

WorldNext ==
    \/ \E u \in Movers : SendJoin(u) \/ SendTransform(u) \/ ReceiveChange(u) \/ \E e \in Eras : ChangeEra(u, e)
    \/ \E t \in air : ReceiveTransform(t)
    \/ \E p \in pushed : Handle(p)
    \/ Broadcasting

WorldTypeOK ==
    /\ \A u \in Users : client[u].era \in Eras /\ client[u].seq \in 0..MaxNumber
    /\ \A u \in Users : session[u].here => session[u].seq \in 0..MaxNumber /\ session[u].era \in Eras \union {0}
    /\ \A t \in air \union pushed : t.user \in Users /\ t.era \in Eras

---------------------------------------------------------------------------
(* Properties                                                              *)

Entries(u) == {e \in (DOMAIN views[u]) \X (1..MaxEntries) : e[2] \in DOMAIN views[u][e[1]].entries}
Times(u, v) == Cardinality({e \in Entries(u) : views[u][e[1]].entries[e[2]].user = v})

\* Each of two users who are known to the server is told of the other, in one
\* packet of the tick, just when they are in one era.  That this comes to hold
\* for good, however transforms and changes of era overtake each other, says
\* that no late packet leaves somebody in an era already left and that nobody
\* falls between two packets.
ViewsRight == \A u, v \in Users : u # v /\ session[u].here /\ session[v].here =>
    Times(u, v) = IF client[u].era = client[v].era THEN 1 ELSE 0
==============================================================================
