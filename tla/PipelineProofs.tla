---------------------------- MODULE PipelineProofs ----------------------------
(***************************************************************************)
(* Theorems about the server (MCPacketPipeline): that no reliable packet   *)
(* is lost or handled twice between the channel and the logic threads,     *)
(* that every send buffer is in one place until the pools are freed, and   *)
(* that the state keeps its types.  All are proved of Spec, without its    *)
(* fairness.                                                               *)
(***************************************************************************)
EXTENDS MCPacketPipeline, SequenceTheorems, Induction

-----------------------------------------------------------------------------
(* What a call of OnReliableReceived (RudpChannel) hands up: the packet    *)
(* that was expected, and what was buffered up to the first gap.           *)

\* What the buffer keeps when g is expected next.
Beyond(reasm, g) == [k \in {j \in DOMAIN reasm : j > g} |-> reasm[k]]

\* The expected packet and what was buffered up to the gap g are handed up as d.
HandsUp(c, data, g, d) ==
    /\ g > c.next /\ g \notin DOMAIN c.reasm
    /\ AcceptNext(c, data).in = [next |-> g, reasm |-> Beyond(c.reasm, g)]
    /\ AcceptNext(c, data).delivered = d
    /\ Len(d) = g - c.next /\ d[1] = data
    /\ \A i \in 2..(g - c.next) : c.next + i - 1 \in DOMAIN c.reasm /\ d[i] = c.reasm[c.next + i - 1]

\* There is such a gap, and the rest stays in the buffer.
LEMMA AcceptNextHandsUp ==
    ASSUME NEW S, NEW c, NEW data \in S, NEW N \in Nat, c.next \in Nat, c.next <= N,
           DOMAIN c.reasm \subseteq (c.next + 1)..N,
           \A k \in DOMAIN c.reasm : c.reasm[k] \in S
    PROVE  \E g \in 1..(N + 1) : \E d \in Seq(S) : HandsUp(c, data, g, d)
<1> DEFINE n == c.next + 1
           run == Drained(c.reasm, n)
           tail == [i \in 1..Cardinality(run) |-> c.reasm[c.next + i]]
<1>1. n \in Nat /\ DOMAIN c.reasm \subseteq 0..N
  OBVIOUS
<1>2. PICK g \in Nat : /\ g >= n
                       /\ run = n..(g - 1)
                       /\ n..(g - 1) \subseteq DOMAIN c.reasm
                       /\ g \notin DOMAIN c.reasm
                       /\ Cardinality(run) = g - n
  <2> HIDE DEF n
  <2>1. Drained(c.reasm, n) = Run(DOMAIN c.reasm, n)
    BY Zenon DEF Drained, Run
  <2> QED BY <1>1, <2>1, RunToGap
<1>3. g <= N + 1
  <2>1. g # n => g - 1 \in DOMAIN c.reasm
    BY <1>2
  <2> QED BY <2>1
<1>4. /\ AcceptNext(c, data).delivered = <<data>> \o tail
      /\ AcceptNext(c, data).in = [next |-> c.next + 1 + Cardinality(run), reasm |-> Erase(c.reasm, run)]
  BY DEF AcceptNext
<1>5. c.next + 1 + Cardinality(run) = g
  BY <1>2
<1>6. DOMAIN c.reasm \ run = {j \in DOMAIN c.reasm : j > g}
  BY <1>2
<1>7. Erase(c.reasm, run) = Beyond(c.reasm, g)
  BY <1>6 DEF Erase, Restrict, Beyond
<1> DEFINE e == g - n
<1>8. e \in Nat
  BY <1>2
<1>9. tail = [i \in 1..e |-> c.reasm[c.next + i]]
  BY <1>2
<1>10. \A i \in 1..e : c.next + i \in DOMAIN c.reasm
  BY <1>2
<1>11. tail \in Seq(S) /\ Len(tail) = e /\ \A i \in 1..e : tail[i] = c.reasm[c.next + i]
  <2> HIDE DEF tail, e
  <2>1. tail \in [1..e -> S]
    BY <1>9, <1>10
  <2> QED BY <1>8, <1>9, <2>1
<1> HIDE DEF tail
<1>12. /\ <<data>> \in Seq(S) /\ Len(<<data>>) = 1 /\ <<data>>[1] = data
  OBVIOUS
<1>13. /\ <<data>> \o tail \in Seq(S) /\ Len(<<data>> \o tail) = 1 + e
       /\ \A i \in 1..(1 + e) : (<<data>> \o tail)[i] = IF i <= 1 THEN <<data>>[i] ELSE tail[i - 1]
  BY <1>11, <1>12, ConcatProperties
<1>14. 1 + e = g - c.next
  OBVIOUS
<1>15. (<<data>> \o tail)[1] = data
  BY <1>8, <1>12, <1>13
<1>16. \A i \in 2..(g - c.next) : /\ c.next + i - 1 \in DOMAIN c.reasm
                                  /\ (<<data>> \o tail)[i] = c.reasm[c.next + i - 1]
  <2> SUFFICES ASSUME NEW i \in 2..(g - c.next)
               PROVE  /\ c.next + i - 1 \in DOMAIN c.reasm
                      /\ (<<data>> \o tail)[i] = c.reasm[c.next + i - 1]
    OBVIOUS
  <2>1. i - 1 \in 1..e /\ i \in 1..(1 + e) /\ ~(i <= 1)
    BY <1>14
  <2>2. (<<data>> \o tail)[i] = tail[i - 1]
    BY <1>13, <2>1
  <2>3. tail[i - 1] = c.reasm[c.next + (i - 1)] /\ c.next + (i - 1) \in DOMAIN c.reasm
    BY <1>10, <1>11, <2>1
  <2>4. c.next + (i - 1) = c.next + i - 1
    BY <2>1
  <2> HIDE DEF e
  <2> QED BY <2>2, <2>3, <2>4
<1>17. g > c.next
  BY <1>2
<1> DEFINE d == <<data>> \o tail
<1>18. /\ d \in Seq(S) /\ AcceptNext(c, data).delivered = d /\ Len(d) = g - c.next /\ d[1] = data
       /\ AcceptNext(c, data).in =
              [next |-> g, reasm |-> Beyond(c.reasm, g)]
  BY <1>4, <1>5, <1>7, <1>13, <1>14, <1>15
<1> HIDE DEF d, e, n, run
<1>19. g \in 1..(N + 1)
  BY <1>3, <1>17
<1> QED BY <1>2, <1>16, <1>17, <1>18, <1>19 DEF d, HandsUp

-----------------------------------------------------------------------------
(* Lines: sequences of packets, and moves from the head of one to the end  *)
(* of another.                                                             *)

\* Packet p is nowhere, is somewhere, is in one place at most.
Nowhere(p, L) == \A l \in DOMAIN L : \A i \in 1..Len(L[l]) : L[l][i] # p
Somewhere(p, L) == \E l \in DOMAIN L : \E i \in 1..Len(L[l]) : L[l][i] = p
Once(p, L) == \A l, m \in DOMAIN L : \A i \in 1..Len(L[l]) : \A j \in 1..Len(L[m]) :
                  L[l][i] = p /\ L[m][j] = p => l = m /\ i = j

\* What the cardinality of PlacesOf says.
LEMMA PlacesCounted ==
    ASSUME NEW D, NEW P, NEW L \in [D -> Seq(P)], NEW p
    PROVE  /\ Nowhere(p, L) => Cardinality(PlacesOf(p, L)) = 0
           /\ Somewhere(p, L) /\ Once(p, L) => Cardinality(PlacesOf(p, L)) = 1
<1>1. \A x : x \in PlacesOf(p, L) <=>
          \E l \in D : \E i \in 1..Len(L[l]) : x = <<l, i>> /\ L[l][i] = p
  <2>1. \A l \in D : DOMAIN L[l] = 1..Len(L[l])
    OBVIOUS
  <2> QED BY <2>1 DEF PlacesOf
<1>2. ASSUME Nowhere(p, L) PROVE Cardinality(PlacesOf(p, L)) = 0
  <2>1. PlacesOf(p, L) = {}
    BY <1>1, <1>2 DEF Nowhere
  <2> QED BY <2>1, FS_EmptySet
<1>3. ASSUME Somewhere(p, L), Once(p, L) PROVE Cardinality(PlacesOf(p, L)) = 1
  <2>1. PICK l \in D, i \in Nat : i \in 1..Len(L[l]) /\ L[l][i] = p
    BY <1>3 DEF Somewhere
  <2>2. PlacesOf(p, L) = {<<l, i>>}
    BY <1>1, <1>3, <2>1 DEF Once
  <2> QED BY <2>2, FS_Singleton
<1> QED BY <1>2, <1>3

\* The head of line a has become the last of line b.
Moved(L, M, a, b) ==
    /\ DOMAIN M = DOMAIN L /\ a \in DOMAIN L /\ b \in DOMAIN L /\ a # b /\ L[a] # <<>>
    /\ M[a] = Tail(L[a]) /\ M[b] = Append(L[b], Head(L[a]))
    /\ \A l \in DOMAIN L \ {a, b} : M[l] = L[l]

\* A move leaves every packet in as many places as it was in.
LEMMA MoveKeeps ==
    ASSUME NEW D, NEW P, NEW L, NEW M, NEW a, NEW b, L \in [D -> Seq(P)], Moved(L, M, a, b)
    PROVE  \A p : /\ Nowhere(p, L) => Nowhere(p, M)
                  /\ Somewhere(p, L) => Somewhere(p, M)
                  /\ Once(p, L) => Once(p, M)
<1>1. /\ L[a] \in Seq(P) /\ L[b] \in Seq(P) /\ Len(L[a]) \in Nat \ {0} /\ Len(L[b]) \in Nat
      /\ Head(L[a]) = L[a][1] /\ L[a][1] \in P /\ a # b /\ a \in D /\ b \in D
  BY EmptySeq DEF Moved
<1>2. /\ Tail(L[a]) \in Seq(P) /\ Len(Tail(L[a])) = Len(L[a]) - 1
      /\ \A i \in 1..(Len(L[a]) - 1) : Tail(L[a])[i] = L[a][i + 1]
  BY <1>1, HeadTailProperties DEF Moved
<1>3. LET s == Append(L[b], Head(L[a]))
      IN /\ s \in Seq(P) /\ Len(s) = Len(L[b]) + 1 /\ s[Len(L[b]) + 1] = L[a][1]
         /\ \A i \in 1..Len(L[b]) : s[i] = L[b][i]
  BY <1>1, AppendProperties
<1>4. /\ M[a] = Tail(L[a]) /\ M[b] = Append(L[b], Head(L[a])) /\ \A l \in D \ {a, b} : M[l] = L[l]
  BY DEF Moved
<1>5. /\ Len(M[a]) = Len(L[a]) - 1 /\ \A i \in 1..(Len(L[a]) - 1) : M[a][i] = L[a][i + 1]
      /\ Len(M[b]) = Len(L[b]) + 1 /\ M[b][Len(L[b]) + 1] = L[a][1]
      /\ \A i \in 1..Len(L[b]) : M[b][i] = L[b][i]
  BY <1>2, <1>3, <1>4
<1>14. \A l \in D : Len(L[l]) \in Nat /\ Len(M[l]) \in Nat
  BY <1>1, <1>4, <1>5
<1> DEFINE K(l, i) == IF l = a \/ (l = b /\ i = Len(L[b]) + 1) THEN a ELSE l
           J(l, i) == IF l = a THEN i + 1 ELSE IF l = b /\ i = Len(L[b]) + 1 THEN 1 ELSE i
<1>6. ASSUME NEW l \in D, NEW i \in 1..Len(M[l])
      PROVE  K(l, i) \in D /\ J(l, i) \in 1..Len(L[K(l, i)]) /\ M[l][i] = L[K(l, i)][J(l, i)]
  <2>1. CASE l = a
    <3>1. i + 1 \in 1..Len(L[a]) /\ M[a][i] = L[a][i + 1]
      BY <1>1, <1>5, <2>1
    <3>2. K(l, i) = a /\ J(l, i) = i + 1
      BY <2>1
    <3> QED BY <2>1, <3>1, <3>2
  <2>2. CASE l = b /\ i = Len(L[b]) + 1
    <3>1. 1 \in 1..Len(L[a]) /\ M[b][i] = L[a][1]
      BY <1>1, <1>5, <2>2
    <3>2. K(l, i) = a /\ J(l, i) = 1
      BY <1>1, <2>2
    <3> QED BY <1>1, <2>2, <3>1, <3>2
  <2>3. CASE l # a /\ l = b /\ i # Len(L[b]) + 1
    <3>1. i \in 1..Len(L[b]) /\ M[b][i] = L[b][i]
      BY <1>1, <1>5, <2>3
    <3>2. K(l, i) = l /\ J(l, i) = i
      BY <2>3
    <3> QED BY <2>3, <3>1, <3>2
  <2>4. CASE l \notin {a, b}
    <3>1. K(l, i) = l /\ J(l, i) = i
      BY <2>4
    <3> QED BY <1>4, <2>4, <3>1
  <2> QED BY <2>1, <2>2, <2>3, <2>4
<1>7. ASSUME NEW k \in D, NEW j \in 1..Len(L[k]), NEW p, L[k][j] = p
      PROVE  \E l \in D : \E i \in 1..Len(M[l]) : M[l][i] = p
  <2>1. CASE k = a /\ j = 1
    <3>1. Len(L[b]) + 1 \in 1..Len(M[b]) /\ M[b][Len(L[b]) + 1] = L[a][1]
      BY <1>1, <1>5
    <3> QED BY <1>1, <1>7, <2>1, <3>1
  <2>2. CASE k = a /\ j # 1
    <3>1. j - 1 \in 1..Len(M[a]) /\ M[a][j - 1] = L[a][j]
      BY <1>1, <1>5, <2>2
    <3> QED BY <1>7, <2>2, <3>1
  <2>3. CASE k = b
    <3>1. j \in 1..Len(M[b]) /\ M[b][j] = L[b][j]
      BY <1>1, <1>5, <2>3
    <3> QED BY <1>7, <2>3, <3>1
  <2>4. CASE k \notin {a, b}
    BY <1>4, <1>7, <2>4
  <2> QED BY <2>1, <2>2, <2>3, <2>4
<1>8. ASSUME NEW l \in D, NEW i \in 1..Len(M[l]), NEW m \in D, NEW j \in 1..Len(M[m]),
             K(l, i) = K(m, j), J(l, i) = J(m, j)
      PROVE  l = m /\ i = j
  <2>1. i \in Int /\ j \in Int /\ i >= 1 /\ j >= 1
    BY <1>14
  <2>2. l = a => i + 1 # 1
    BY <2>1
  <2>3. m = a => j + 1 # 1
    BY <2>1
  <2>4. l = a => K(l, i) = a /\ J(l, i) = i + 1
    OBVIOUS
  <2>5. m = a => K(m, j) = a /\ J(m, j) = j + 1
    OBVIOUS
  <2>6. l = b /\ i = Len(L[b]) + 1 => K(l, i) = a /\ J(l, i) = 1
    BY <1>1
  <2>7. m = b /\ j = Len(L[b]) + 1 => K(m, j) = a /\ J(m, j) = 1
    BY <1>1
  <2>8. l # a /\ ~(l = b /\ i = Len(L[b]) + 1) => K(l, i) = l /\ J(l, i) = i
    OBVIOUS
  <2>9. m # a /\ ~(m = b /\ j = Len(L[b]) + 1) => K(m, j) = m /\ J(m, j) = j
    OBVIOUS
  <2> HIDE DEF K, J
  <2> QED BY <1>8, <2>1, <2>2, <2>3, <2>4, <2>5, <2>6, <2>7, <2>8, <2>9
<1>9. DOMAIN L = D /\ DOMAIN M = D
  BY DEF Moved
<1> HIDE DEF K, J
<1>10. ASSUME NEW p, Nowhere(p, L) PROVE Nowhere(p, M)
  BY <1>6, <1>9, <1>10 DEF Nowhere
<1>11. ASSUME NEW p, Somewhere(p, L) PROVE Somewhere(p, M)
  BY <1>7, <1>9, <1>11 DEF Somewhere
<1>12. ASSUME NEW p, Once(p, L) PROVE Once(p, M)
  <2> SUFFICES ASSUME NEW l \in D, NEW m \in D, NEW i \in 1..Len(M[l]), NEW j \in 1..Len(M[m]),
                      M[l][i] = p, M[m][j] = p
               PROVE  l = m /\ i = j
    BY <1>9 DEF Once
  <2>1. K(l, i) \in D /\ J(l, i) \in 1..Len(L[K(l, i)]) /\ L[K(l, i)][J(l, i)] = p
    BY <1>6
  <2>2. K(m, j) \in D /\ J(m, j) \in 1..Len(L[K(m, j)]) /\ L[K(m, j)][J(m, j)] = p
    BY <1>6
  <2>3. K(l, i) = K(m, j) /\ J(l, i) = J(m, j)
    BY <1>9, <1>12, <2>1, <2>2 DEF Once
  <2> QED BY <1>8, <2>3
<1> QED BY <1>10, <1>11, <1>12

\* The empty line a has become d.
Filled(L, M, a, d) ==
    /\ DOMAIN M = DOMAIN L /\ a \in DOMAIN L /\ L[a] = <<>> /\ M[a] = d
    /\ \A l \in DOMAIN L \ {a} : M[l] = L[l]

\* A line that was empty is filled with packets that were nowhere, each once.
LEMMA FillKeeps ==
    ASSUME NEW D, NEW P, NEW L, NEW M, NEW a, NEW d \in Seq(P), L \in [D -> Seq(P)], Filled(L, M, a, d)
    PROVE  /\ \A p : (\A i \in 1..Len(d) : d[i] # p) =>
                  /\ Nowhere(p, L) => Nowhere(p, M)
                  /\ Somewhere(p, L) => Somewhere(p, M)
                  /\ Once(p, L) => Once(p, M)
           /\ \A p : \A i \in 1..Len(d) :
                  d[i] = p /\ (\A j \in 1..Len(d) : d[j] = p => j = i) /\ Nowhere(p, L) =>
                  Somewhere(p, M) /\ Once(p, M)
<1>1. /\ a \in D /\ M[a] = d /\ (\A l \in D \ {a} : M[l] = L[l]) /\ DOMAIN M = D /\ DOMAIN L = D
      /\ L[a] = <<>>
  BY DEF Filled
<1>2. \A i \in 1..Len(L[a]) : FALSE
  BY <1>1, EmptySeq
<1>3. ASSUME NEW p, \A i \in 1..Len(d) : d[i] # p
      PROVE  /\ Nowhere(p, L) => Nowhere(p, M)
             /\ Somewhere(p, L) => Somewhere(p, M)
             /\ Once(p, L) => Once(p, M)
  <2>1. \A l \in D : \A i \in 1..Len(M[l]) : M[l][i] = p => l # a /\ i \in 1..Len(L[l]) /\ L[l][i] = p
    BY <1>1, <1>3
  <2>2. \A l \in D : \A i \in 1..Len(L[l]) : L[l][i] = p => i \in 1..Len(M[l]) /\ M[l][i] = p
    BY <1>1, <1>2
  <2> QED BY <1>1, <2>1, <2>2 DEF Nowhere, Somewhere, Once
<1>4. ASSUME NEW p, NEW i \in 1..Len(d), d[i] = p, \A j \in 1..Len(d) : d[j] = p => j = i, Nowhere(p, L)
      PROVE  Somewhere(p, M) /\ Once(p, M)
  <2>1. \A l \in D : \A j \in 1..Len(M[l]) : M[l][j] = p => l = a /\ j = i
    BY <1>1, <1>4 DEF Nowhere
  <2> QED BY <1>1, <1>4, <2>1 DEF Somewhere, Once
<1> QED BY <1>1, <1>3, <1>4

-----------------------------------------------------------------------------
(* The pipeline *)

Numbered(s, k) == [session |-> s, kind |-> "reliable", seq |-> k]

Pushing == [pc : {"push"}, session : Session, out : Seq(Packet), ack : BOOLEAN]

\* The channels: what is buffered are the session's packets beyond the next.
ChannelsOK ==
    /\ DOMAIN in = Session
    /\ \A s \in Session :
           /\ in[s] = [next |-> in[s].next, reasm |-> in[s].reasm]
           /\ in[s].next \in 1..(MaxSeq + 1)
           /\ DOMAIN in[s].reasm \subseteq (in[s].next + 1)..MaxSeq
           /\ \A k \in DOMAIN in[s].reasm : in[s].reasm[k] = Numbered(s, k)
    /\ un \in [Session -> [has : BOOLEAN, high : 0..MaxTransform]]
    /\ acked \in [Session -> 0..MaxSeq]

\* What is on the lines are packets.
PacketsOK ==
    /\ worker \in [Worker -> {Waiting, Exited} \union Pushing]
    /\ queue \in [LogicThread -> Seq(Packet)]
    /\ handling \in [LogicThread -> Packet \union {None}]
    /\ handled \in [Session -> Seq(Packet)]
    /\ \A s \in Session : handled[s] \in Seq(Reliable(s) \union Transform(s))

Busy == {w \in Worker : worker[w].pc = "push"}

\* A receive is registered or its buffer is with a worker, and no worker pushes
\* when the queues are shut.
ReceivesOK ==
    /\ posted \in Nat /\ posted + Cardinality(Busy) <= RecvBuffers
    /\ stage \in {"running", "joinWorkers", "joinLogic", "down"}
    /\ QueuesShut => \A w \in Worker : worker[w] = Exited

\* Every reliable packet that the channel has delivered is in one place, and
\* no other is in any.
AllOnce ==
    \A s \in Session : \A p \in Reliable(s) :
        IF p.seq < in[s].next THEN Somewhere(p, Line) /\ Once(p, Line) ELSE Nowhere(p, Line)

PipeInv == ChannelsOK /\ PacketsOK /\ ReceivesOK /\ AllOnce

\* What each line is.
LinesOK ==
    /\ Line \in [Lines -> Seq(Packet)]
    /\ \A s \in Session : <<"handled", s>> \in Lines /\ Line[<<"handled", s>>] = handled[s]
    /\ \A t \in LogicThread :
           /\ <<"queue", t>> \in Lines /\ Line[<<"queue", t>>] = queue[t]
           /\ <<"handling", t>> \in Lines
           /\ Line[<<"handling", t>>] = IF handling[t] = None THEN <<>> ELSE <<handling[t]>>
    /\ \A w \in Worker :
           /\ <<"worker", w>> \in Lines
           /\ Line[<<"worker", w>>] = IF worker[w].pc = "push" THEN worker[w].out ELSE <<>>

LEMMA LinesAre == PacketsOK => LinesOK
<1> SUFFICES ASSUME PacketsOK PROVE LinesOK
  OBVIOUS
<1>1. \A l \in Lines : \/ \E s \in Session : l = <<"handled", s>>
                       \/ \E t \in LogicThread : l = <<"handling", t>> \/ l = <<"queue", t>>
                       \/ \E w \in Worker : l = <<"worker", w>>
  BY DEF Lines
<1>2. \A s \in Session : <<"handled", s>> \in Lines /\ Line[<<"handled", s>>] = handled[s]
  BY DEF Line, Lines
<1>3. \A t \in LogicThread :
          /\ <<"queue", t>> \in Lines /\ Line[<<"queue", t>>] = queue[t]
          /\ <<"handling", t>> \in Lines
          /\ Line[<<"handling", t>>] = IF handling[t] = None THEN <<>> ELSE <<handling[t]>>
  BY DEF Line, Lines
<1>4. \A w \in Worker : /\ <<"worker", w>> \in Lines
                        /\ Line[<<"worker", w>>] = IF worker[w].pc = "push" THEN worker[w].out ELSE <<>>
  BY DEF Line, Lines
<1>5. ASSUME NEW l \in Lines PROVE Line[l] \in Seq(Packet)
  <2>1. ASSUME NEW s \in Session, l = <<"handled", s>> PROVE Line[l] \in Seq(Packet)
    BY <1>2, <2>1 DEF PacketsOK
  <2>2. ASSUME NEW t \in LogicThread, l = <<"queue", t>> PROVE Line[l] \in Seq(Packet)
    BY <1>3, <2>2 DEF PacketsOK
  <2>3. ASSUME NEW t \in LogicThread, l = <<"handling", t>> PROVE Line[l] \in Seq(Packet)
    <3>1. handling[t] \in Packet \union {None}
      BY DEF PacketsOK
    <3>2. handling[t] # None => <<handling[t]>> \in Seq(Packet)
      BY <3>1
    <3> QED BY <1>3, <2>3, <3>2, EmptySeq
  <2>4. ASSUME NEW w \in Worker, l = <<"worker", w>> PROVE Line[l] \in Seq(Packet)
    <3>1. worker[w].pc = "push" => worker[w].out \in Seq(Packet)
      BY DEF PacketsOK, Waiting, Exited, Pushing
    <3> QED BY <1>4, <2>4, <3>1, EmptySeq
  <2> QED BY <1>1, <2>1, <2>2, <2>3, <2>4
<1> DEFINE On(l) ==
        CASE l[1] = "handled" -> handled[l[2]]
          [] l[1] = "handling" -> IF handling[l[2]] = None THEN <<>> ELSE <<handling[l[2]]>>
          [] l[1] = "queue" -> queue[l[2]]
          [] l[1] = "worker" -> IF worker[l[2]].pc = "push" THEN worker[l[2]].out ELSE <<>>
<1>6. Line = [l \in Lines |-> On(l)]
  BY Zenon DEF Line
<1> HIDE DEF On
<1>7. Line \in [Lines -> Seq(Packet)]
  BY <1>5, <1>6
<1> QED BY <1>2, <1>3, <1>4, <1>7 DEF LinesOK

LEMMA LinesAreNext == PacketsOK' => LinesOK'
BY LinesAre, PTL

LEMMA LineKinds ==
    \A l \in Lines : \/ \E s \in Session : l = <<"handled", s>>
                     \/ \E t \in LogicThread : l = <<"handling", t>> \/ l = <<"queue", t>>
                     \/ \E w \in Worker : l = <<"worker", w>>
BY DEF Lines

\* A line whose sequence stays is the same line; what a packet's places are
\* follows from the lines alone.
LEMMA AllOnceByMove ==
    ASSUME PipeInv, LinesOK, NEW a, NEW b, Moved(Line, Line', a, b), in' = in
    PROVE  AllOnce'
<1>1. \A p : /\ Nowhere(p, Line) => Nowhere(p, Line')
             /\ Somewhere(p, Line) => Somewhere(p, Line')
             /\ Once(p, Line) => Once(p, Line')
  BY MoveKeeps DEF LinesOK
<1>2. \A s \in Session : \A p \in Reliable(s) :
          IF p.seq < in[s].next THEN Somewhere(p, Line) /\ Once(p, Line) ELSE Nowhere(p, Line)
  BY DEF PipeInv, AllOnce
<1>3. AllOnce' <=> \A s \in Session : \A p \in Reliable(s) :
          IF p.seq < in'[s].next THEN Somewhere(p, Line') /\ Once(p, Line') ELSE Nowhere(p, Line')
  BY DEF AllOnce, Nowhere, Somewhere, Once
<1> QED BY <1>1, <1>2, <1>3

\* A line stays when its part of the state does.
LEMMA LineStays ==
    ASSUME LinesOK, LinesOK'
    PROVE  /\ \A s \in Session : handled'[s] = handled[s] => Line'[<<"handled", s>>] = Line[<<"handled", s>>]
           /\ \A t \in LogicThread :
                  /\ queue'[t] = queue[t] => Line'[<<"queue", t>>] = Line[<<"queue", t>>]
                  /\ handling'[t] = handling[t] => Line'[<<"handling", t>>] = Line[<<"handling", t>>]
           /\ \A w \in Worker : worker'[w] = worker[w] => Line'[<<"worker", w>>] = Line[<<"worker", w>>]
<1>1. ASSUME NEW s \in Session, handled'[s] = handled[s]
      PROVE  Line'[<<"handled", s>>] = Line[<<"handled", s>>]
  BY <1>1 DEF LinesOK
<1>2. ASSUME NEW t \in LogicThread, queue'[t] = queue[t]
      PROVE  Line'[<<"queue", t>>] = Line[<<"queue", t>>]
  BY <1>2 DEF LinesOK
<1>3. ASSUME NEW t \in LogicThread, handling'[t] = handling[t]
      PROVE  Line'[<<"handling", t>>] = Line[<<"handling", t>>]
  <2>1. Line'[<<"handling", t>>] = IF handling'[t] = None' THEN <<>> ELSE <<handling'[t]>>
    BY DEF LinesOK
  <2>2. Line[<<"handling", t>>] = IF handling[t] = None THEN <<>> ELSE <<handling[t]>>
    BY DEF LinesOK
  <2>3. None' = None
    BY DEF None
  <2>4. CASE handling[t] = None
    <3>1. handling'[t] = None'
      BY <1>3, <2>3, <2>4
    <3> QED BY <2>1, <2>2, <2>4, <3>1
  <2>5. CASE handling[t] # None
    <3>1. handling'[t] # None'
      BY <1>3, <2>3, <2>5
    <3>2. Line[<<"handling", t>>] = <<handling[t]>> /\ Line'[<<"handling", t>>] = <<handling'[t]>>
      BY <2>1, <2>2, <2>5, <3>1
    <3> QED BY <1>3, <3>2
  <2> QED BY <2>4, <2>5
<1>4. ASSUME NEW w \in Worker, worker'[w] = worker[w]
      PROVE  Line'[<<"worker", w>>] = Line[<<"worker", w>>]
  <2>1. Line[<<"worker", w>>] = IF worker[w].pc = "push" THEN worker[w].out ELSE <<>>
    BY DEF LinesOK
  <2>2. Line'[<<"worker", w>>] = IF worker'[w].pc = "push" THEN worker'[w].out ELSE <<>>
    BY DEF LinesOK
  <2> QED BY <1>4, <2>1, <2>2
<1> QED BY <1>1, <1>2, <1>3, <1>4

\* What a packet is.
LEMMA PacketKinds ==
    /\ None \notin Packet
    /\ \A s \in Session : \A p : p \in Reliable(s) <=> \E k \in 1..MaxSeq : p = Numbered(s, k)
    /\ \A s \in Session : \A p \in Reliable(s) :
           p.seq \in 1..MaxSeq /\ p = Numbered(s, p.seq) /\ p.session = s /\ p.kind = "reliable"
    /\ \A s \in Session : \A p \in Transform(s) : p.seq \in 1..MaxTransform /\ p.session = s /\ p.kind = "transform"
    /\ \A p \in Packet : /\ p.session \in Session /\ QueueOf(p) \in LogicThread
                         /\ p \in Reliable(p.session) \union Transform(p.session)
    /\ \A s \in Session : Reliable(s) \subseteq Packet /\ Transform(s) \subseteq Packet
<1>1. \A s \in Session : \A p : p \in Reliable(s) <=> \E k \in 1..MaxSeq : p = Numbered(s, k)
  BY DEF Reliable, Numbered
<1>2. \A s \in Session : \A p \in Reliable(s) :
          p.seq \in 1..MaxSeq /\ p = Numbered(s, p.seq) /\ p.session = s /\ p.kind = "reliable"
  BY DEF Reliable, Numbered
<1>3. \A s \in Session : \A p \in Transform(s) :
          p.seq \in 1..MaxTransform /\ p.session = s /\ p.kind = "transform"
  BY DEF Transform
<1>4. \A s \in Session : Reliable(s) \subseteq Packet /\ Transform(s) \subseteq Packet
  BY DEF Packet
<1>5. ASSUME NEW p \in Packet
      PROVE  /\ p.session \in Session /\ QueueOf(p) \in LogicThread
             /\ p \in Reliable(p.session) \union Transform(p.session)
  <2>1. PICK s \in Session : p \in Reliable(s) \union Transform(s)
    BY DEF Packet
  <2>2. p.session = s
    BY <1>2, <1>3, <2>1
  <2>3. ASSUME NEW n \in Nat, NEW m \in Nat \ {0} PROVE n % m \in 0..(m - 1)
    OBVIOUS
  <2>4. s \in Nat /\ LogicCount \in Nat \ {0}
    BY PipelineAssumption
  <2>5. s % LogicCount \in 0..(LogicCount - 1)
    BY <2>3, <2>4
  <2> QED BY <2>1, <2>2, <2>5 DEF QueueOf, LogicThread
<1>6. None \notin Packet
  BY <1>2, <1>3 DEF Packet, None
<1> QED BY <1>1, <1>2, <1>3, <1>4, <1>5, <1>6

\* The workers that dispatch a packet are finitely many.
LEMMA BusyFinite == IsFiniteSet(Busy) /\ Cardinality(Busy) \in Nat
BY PipelineAssumption, FS_Subset, FS_CardinalityType DEF Busy

\* EnqueueLogic moves the worker's first packet to the end of its queue, for
\* while a worker still pushes no queue is shut.
LEMMA EnqueueKeeps == ASSUME PipeInv, NEW w \in Worker, EnqueueLogic(w) PROVE PipeInv'
<1> DEFINE p == Head(worker[w].out)
           q == QueueOf(p)
<1>1. worker[w] \in Pushing /\ worker[w].out \in Seq(Packet) /\ worker[w].out # <<>>
  BY DEF PipeInv, PacketsOK, EnqueueLogic, Waiting, Exited, Pushing
<1>2. p \in Packet /\ q \in LogicThread /\ Tail(worker[w].out) \in Seq(Packet)
  BY <1>1, HeadTailProperties, PacketKinds
<1>3. ~QueuesShut
  BY <1>1 DEF PipeInv, ReceivesOK, EnqueueLogic, Exited
<1>4. /\ worker' = [worker EXCEPT ![w] = [worker[w] EXCEPT !.out = Tail(worker[w].out)]]
      /\ queue' = [queue EXCEPT ![q] = Append(queue[q], p)]
      /\ UNCHANGED <<in, un, handling, posted, stage, handled, acked>>
  BY <1>3 DEF EnqueueLogic
<1> HIDE DEF p, q
<1>5. /\ [worker[w] EXCEPT !.out = Tail(worker[w].out)] \in Pushing
      /\ [worker[w] EXCEPT !.out = Tail(worker[w].out)].pc = "push"
      /\ [worker[w] EXCEPT !.out = Tail(worker[w].out)].out = Tail(worker[w].out)
  BY <1>1, <1>2 DEF Pushing
<1>6. queue \in [LogicThread -> Seq(Packet)] /\ Append(queue[q], p) \in Seq(Packet)
  BY <1>2 DEF PipeInv, PacketsOK
<1>7. PacketsOK'
  <2>1. worker' \in [Worker -> {Waiting, Exited} \union Pushing]
    BY <1>4, <1>5 DEF PipeInv, PacketsOK
  <2>2. queue' \in [LogicThread -> Seq(Packet)]
    BY <1>2, <1>4, <1>6
  <2> QED BY <1>4, <2>1, <2>2 DEF PipeInv, PacketsOK
<1>8. ChannelsOK'
  BY <1>4 DEF PipeInv, ChannelsOK
<1>9. ReceivesOK'
  <2>1. Busy' = Busy
    BY <1>1, <1>4, <1>5 DEF Busy, Pushing, PipeInv, PacketsOK
  <2>2. ~QueuesShut'
    BY <1>3, <1>4 DEF QueuesShut
  <2> QED BY <1>4, <2>1, <2>2 DEF PipeInv, ReceivesOK
<1>10. LinesOK /\ LinesOK'
  BY <1>7, LinesAre, LinesAreNext DEF PipeInv
<1> DEFINE a == <<"worker", w>>
           b == <<"queue", q>>
<1>11. Moved(Line, Line', a, b)
  <2>1. /\ DOMAIN Line' = Lines /\ DOMAIN Line = Lines /\ a \in Lines /\ b \in Lines /\ a # b
    BY <1>2, <1>10 DEF LinesOK
  <2>2. Line[a] = worker[w].out /\ Line'[a] = Tail(worker[w].out)
    BY <1>1, <1>4, <1>5, <1>10 DEF LinesOK, Pushing, PipeInv, PacketsOK
  <2>3. Line[b] = queue[q] /\ Line'[b] = Append(queue[q], p)
    BY <1>2, <1>4, <1>6, <1>10 DEF LinesOK
  <2>4. ASSUME NEW l \in Lines \ {a, b} PROVE Line'[l] = Line[l]
    <3>1. ASSUME NEW s \in Session, l = <<"handled", s>> PROVE Line'[l] = Line[l]
      BY <1>4, <1>10, <3>1 DEF LinesOK
    <3>2. ASSUME NEW t \in LogicThread, l = <<"handling", t>> PROVE Line'[l] = Line[l]
      BY <1>4, <1>10, <3>2 DEF LinesOK
    <3>3. ASSUME NEW t \in LogicThread, l = <<"queue", t>> PROVE Line'[l] = Line[l]
      <4>1. t # q
        BY <2>4, <3>3
      <4> QED BY <1>4, <1>6, <1>10, <3>3, <4>1 DEF LinesOK
    <3>4. ASSUME NEW v \in Worker, l = <<"worker", v>> PROVE Line'[l] = Line[l]
      <4>1. v # w
        BY <2>4, <3>4
      <4>2. worker'[v] = worker[v]
        BY <1>4, <4>1 DEF PipeInv, PacketsOK
      <4>3. Line[<<"worker", v>>] = IF worker[v].pc = "push" THEN worker[v].out ELSE <<>>
        BY <1>10 DEF LinesOK
      <4>4. Line'[<<"worker", v>>] = IF worker'[v].pc = "push" THEN worker'[v].out ELSE <<>>
        BY <1>10 DEF LinesOK
      <4> QED BY <3>4, <4>2, <4>3, <4>4, Zenon
    <3> QED BY <3>1, <3>2, <3>3, <3>4, LineKinds
  <2>5. Head(Line[a]) = p
    BY <2>2 DEF p
  <2> QED BY <1>1, <2>1, <2>2, <2>3, <2>4, <2>5 DEF Moved
<1>12. AllOnce'
  <2> HIDE DEF a, b
  <2> QED BY <1>4, <1>10, <1>11, AllOnceByMove
<1> QED BY <1>7, <1>8, <1>9, <1>12 DEF PipeInv

\* A logic thread takes the head of its queue in hand.
LEMMA PopKeeps == ASSUME PipeInv, NEW t \in LogicThread, Pop(t) PROVE PipeInv'
<1> DEFINE p == Head(queue[t])
<1>1. queue[t] \in Seq(Packet) /\ queue[t] # <<>> /\ handling[t] = None
  BY DEF PipeInv, PacketsOK, Pop
<1>2. p \in Packet /\ p # None /\ Tail(queue[t]) \in Seq(Packet)
  BY <1>1, HeadTailProperties, PacketKinds
<1>3. /\ handling' = [handling EXCEPT ![t] = p]
      /\ queue' = [queue EXCEPT ![t] = Tail(queue[t])]
      /\ UNCHANGED <<in, un, worker, posted, stage, handled, acked>>
  BY DEF Pop
<1> HIDE DEF p
<1>4. /\ queue \in [LogicThread -> Seq(Packet)] /\ handling \in [LogicThread -> Packet \union {None}]
  BY DEF PipeInv, PacketsOK
<1>5. PacketsOK'
  <2>1. queue' \in [LogicThread -> Seq(Packet)] /\ handling' \in [LogicThread -> Packet \union {None}]
    BY <1>2, <1>3, <1>4
  <2> QED BY <1>3, <2>1 DEF PipeInv, PacketsOK
<1>6. ChannelsOK' /\ ReceivesOK'
  <2>1. Busy' = Busy
    BY <1>3 DEF Busy
  <2> QED BY <1>3, <2>1 DEF PipeInv, ChannelsOK, ReceivesOK, QueuesShut
<1>7. LinesOK /\ LinesOK'
  BY <1>5, LinesAre, LinesAreNext DEF PipeInv
<1> DEFINE a == <<"queue", t>>
           b == <<"handling", t>>
<1>8. Moved(Line, Line', a, b)
  <2>1. /\ DOMAIN Line' = Lines /\ DOMAIN Line = Lines /\ a \in Lines /\ b \in Lines /\ a # b
    BY <1>7 DEF LinesOK
  <2>2. Line[a] = queue[t] /\ Line'[a] = Tail(queue[t])
    BY <1>3, <1>4, <1>7 DEF LinesOK
  <2>3. Line[b] = <<>> /\ Line'[b] = Append(<<>>, p)
    <3>1. handling'[t] = p
      BY <1>3, <1>4
    <3>2. Append(<<>>, p) = <<p>>
      OBVIOUS
    <3> QED BY <1>1, <1>2, <1>7, <3>1, <3>2 DEF LinesOK
  <2>4. ASSUME NEW l \in Lines \ {a, b} PROVE Line'[l] = Line[l]
    <3>1. ASSUME NEW s \in Session, l = <<"handled", s>> PROVE Line'[l] = Line[l]
      BY <1>3, <1>7, <3>1 DEF LinesOK
    <3>2. ASSUME NEW u \in LogicThread, l = <<"handling", u>> \/ l = <<"queue", u>> PROVE Line'[l] = Line[l]
      <4>1. u # t
        BY <2>4, <3>2
      <4>2. queue'[u] = queue[u] /\ handling'[u] = handling[u]
        BY <1>3, <1>4, <4>1
      <4> QED BY <1>7, <3>2, <4>2, LineStays
    <3>3. ASSUME NEW v \in Worker, l = <<"worker", v>> PROVE Line'[l] = Line[l]
      BY <1>3, <1>7, <3>3 DEF LinesOK
    <3> QED BY <3>1, <3>2, <3>3, LineKinds
  <2>5. Head(Line[a]) = p
    BY <2>2 DEF p
  <2> QED BY <1>1, <2>1, <2>2, <2>3, <2>4, <2>5 DEF Moved
<1>9. AllOnce'
  <2> HIDE DEF a, b
  <2> QED BY <1>3, <1>7, <1>8, AllOnceByMove
<1> QED BY <1>5, <1>6, <1>9 DEF PipeInv

\* What it has in hand it handles, as a packet of its session.
LEMMA DispatchAppKeeps == ASSUME PipeInv, NEW t \in LogicThread, DispatchApp(t) PROVE PipeInv'
<1> DEFINE p == handling[t]
           s == p.session
<1>1. p \in Packet /\ p # None /\ s \in Session /\ p \in Reliable(s) \union Transform(s)
  BY PacketKinds DEF PipeInv, PacketsOK, DispatchApp
<1>2. /\ handled' = [handled EXCEPT ![s] = Append(handled[s], p)]
      /\ handling' = [handling EXCEPT ![t] = None]
      /\ UNCHANGED <<in, un, worker, queue, posted, stage, acked>>
  BY DEF DispatchApp
<1>3. handled \in [Session -> Seq(Packet)] /\ handling \in [LogicThread -> Packet \union {None}]
  BY DEF PipeInv, PacketsOK
<1>4. handled[s] \in Seq(Reliable(s) \union Transform(s))
  BY <1>1 DEF PipeInv, PacketsOK
<1>5. p = handling[t]
  OBVIOUS
<1> HIDE DEF p, s
<1>6. PacketsOK'
  <2>1. handled' \in [Session -> Seq(Packet)] /\ handling' \in [LogicThread -> Packet \union {None}]
    BY <1>1, <1>2, <1>3
  <2>2. ASSUME NEW r \in Session PROVE handled'[r] \in Seq(Reliable(r) \union Transform(r))
    <3>1. handled[r] \in Seq(Reliable(r) \union Transform(r))
      BY DEF PipeInv, PacketsOK
    <3>2. CASE r = s
      BY <1>1, <1>2, <1>3, <1>4, <3>2
    <3>3. CASE r # s
      BY <1>2, <1>3, <3>1, <3>3
    <3> QED BY <3>2, <3>3
  <2> QED BY <1>2, <2>1, <2>2 DEF PipeInv, PacketsOK
<1>7. ChannelsOK' /\ ReceivesOK'
  <2>1. Busy' = Busy
    BY <1>2 DEF Busy
  <2> QED BY <1>2, <2>1 DEF PipeInv, ChannelsOK, ReceivesOK, QueuesShut
<1>8. LinesOK /\ LinesOK'
  BY <1>6, LinesAre, LinesAreNext DEF PipeInv
<1> DEFINE a == <<"handling", t>>
           b == <<"handled", s>>
<1>9. Moved(Line, Line', a, b)
  <2>1. /\ DOMAIN Line' = Lines /\ DOMAIN Line = Lines /\ a \in Lines /\ b \in Lines /\ a # b
    BY <1>1, <1>8 DEF LinesOK
  <2>2. Line[a] = <<p>> /\ Line'[a] = <<>>
    <3>1. handling'[t] = None
      BY <1>2, <1>3
    <3> QED BY <1>1, <1>5, <1>8, <3>1 DEF LinesOK
  <2>3. Line[b] = handled[s] /\ Line'[b] = Append(handled[s], p)
    BY <1>1, <1>2, <1>3, <1>8 DEF LinesOK
  <2>4. ASSUME NEW l \in Lines \ {a, b} PROVE Line'[l] = Line[l]
    <3>1. ASSUME NEW r \in Session, l = <<"handled", r>> PROVE Line'[l] = Line[l]
      <4>1. r # s
        BY <2>4, <3>1
      <4> QED BY <1>2, <1>3, <1>8, <3>1, <4>1 DEF LinesOK
    <3>2. ASSUME NEW u \in LogicThread, l = <<"handling", u>> PROVE Line'[l] = Line[l]
      <4>1. u # t
        BY <2>4, <3>2
      <4>2. handling'[u] = handling[u]
        BY <1>2, <1>3, <4>1
      <4> QED BY <1>8, <3>2, <4>2 DEF LinesOK
    <3>3. ASSUME NEW u \in LogicThread, l = <<"queue", u>> PROVE Line'[l] = Line[l]
      BY <1>2, <1>8, <3>3 DEF LinesOK
    <3>4. ASSUME NEW v \in Worker, l = <<"worker", v>> PROVE Line'[l] = Line[l]
      BY <1>2, <1>8, <3>4 DEF LinesOK
    <3> QED BY <3>1, <3>2, <3>3, <3>4, LineKinds
  <2>5. Head(Line[a]) = p /\ Tail(Line[a]) = <<>> /\ Line[a] # <<>>
    BY <2>2
  <2> QED BY <2>1, <2>2, <2>3, <2>4, <2>5 DEF Moved
<1>10. AllOnce'
  <2> HIDE DEF a, b
  <2> QED BY <1>2, <1>8, <1>9, AllOnceByMove
<1> QED BY <1>6, <1>7, <1>10 DEF PipeInv

\* The lines are what the four variables make them.
LEMMA AllOnceStays ==
    ASSUME PipeInv, Line' = Line, in' = in PROVE AllOnce'
<1>1. AllOnce' <=> \A s \in Session : \A p \in Reliable(s) :
          IF p.seq < in'[s].next THEN Somewhere(p, Line') /\ Once(p, Line') ELSE Nowhere(p, Line')
  BY DEF AllOnce, Nowhere, Somewhere, Once
<1> QED BY <1>1 DEF PipeInv, AllOnce

\* A worker that has nothing left to push changes no line.
LEMMA IdleWorker ==
    ASSUME PipeInv, NEW w \in Worker, NEW v \in {Waiting, Exited} \union Pushing,
           worker[w].pc = "push" => worker[w].out = <<>>, v.pc = "push" => v.out = <<>>,
           worker' = [worker EXCEPT ![w] = v], UNCHANGED <<queue, handling, handled, in>>
    PROVE  PacketsOK' /\ AllOnce'
<1>1. PacketsOK'
  BY DEF PipeInv, PacketsOK
<1>2. LinesOK /\ LinesOK'
  BY <1>1, LinesAre, LinesAreNext DEF PipeInv
<1>3. ASSUME NEW l \in Lines PROVE Line'[l] = Line[l]
  <2>1. ASSUME NEW s \in Session, l = <<"handled", s>> PROVE Line'[l] = Line[l]
    BY <1>2, <2>1, LineStays
  <2>2. ASSUME NEW t \in LogicThread, l = <<"handling", t>> \/ l = <<"queue", t>> PROVE Line'[l] = Line[l]
    BY <1>2, <2>2, LineStays
  <2>3. ASSUME NEW u \in Worker, l = <<"worker", u>>, u # w PROVE Line'[l] = Line[l]
    <3>1. worker'[u] = worker[u]
      BY <2>3 DEF PipeInv, PacketsOK
    <3> QED BY <1>2, <2>3, <3>1, LineStays
  <2>4. ASSUME l = <<"worker", w>> PROVE Line'[l] = Line[l]
    <3>1. worker'[w] = v
      BY DEF PipeInv, PacketsOK
    <3> QED BY <1>2, <2>4, <3>1 DEF LinesOK
  <2> QED BY <2>1, <2>2, <2>3, <2>4, LineKinds
<1>4. Line' = Line
  BY <1>2, <1>3 DEF LinesOK
<1> QED BY <1>1, <1>4, AllOnceStays

\* SendAck takes the acknowledgement from the channel.
LEMMA SendAckKeeps == ASSUME PipeInv, NEW w \in Worker, SendAck(w) PROVE PipeInv'
<1> DEFINE s == worker[w].session
           v == [worker[w] EXCEPT !.ack = FALSE]
<1>1. worker[w] \in Pushing /\ s \in Session /\ worker[w].out = <<>>
  BY DEF PipeInv, PacketsOK, SendAck, Waiting, Exited, Pushing
<1>2. v \in Pushing /\ v.pc = "push" /\ v.out = <<>>
  BY <1>1 DEF Pushing
<1>3. in[s].next - 1 \in 0..MaxSeq /\ acked \in [Session -> 0..MaxSeq]
  BY <1>1, PipelineAssumption DEF PipeInv, ChannelsOK
<1>4. acked' \in [Session -> 0..MaxSeq]
  BY <1>1, <1>3 DEF SendAck, GetCumulativeAck
<1>5. worker' = [worker EXCEPT ![w] = v] /\ UNCHANGED <<in, un, queue, handling, posted, stage, handled>>
  BY DEF SendAck
<1> HIDE DEF v
<1>6. PacketsOK' /\ AllOnce'
  BY <1>1, <1>2, <1>5, IdleWorker
<1>7. ChannelsOK'
  BY <1>4, <1>5 DEF PipeInv, ChannelsOK
<1>8. ReceivesOK'
  <2>1. Busy' = Busy
    BY <1>1, <1>2, <1>5 DEF Busy, Pushing, PipeInv, PacketsOK
  <2>2. worker[w] # Exited
    BY <1>1 DEF Pushing, Exited
  <2>3. ~QueuesShut /\ QueuesShut' = QueuesShut
    BY <1>5, <2>2 DEF PipeInv, ReceivesOK, QueuesShut
  <2> QED BY <1>5, <2>1, <2>3 DEF PipeInv, ReceivesOK
<1> QED BY <1>6, <1>7, <1>8 DEF PipeInv

\* A worker that has dealt with its packet waits again; its buffer is registered
\* at most once more.
LEMMA RepostKeeps == ASSUME PipeInv, NEW w \in Worker, Repost(w) PROVE PipeInv'
<1>1. worker[w] \in Pushing /\ worker[w].out = <<>>
  BY DEF PipeInv, PacketsOK, Repost, Waiting, Exited, Pushing
<1>2. worker' = [worker EXCEPT ![w] = Waiting] /\ UNCHANGED <<in, un, queue, handling, stage, handled, acked>>
  BY DEF Repost
<1>3. posted' \in {posted, posted + 1}
  BY DEF Repost
<1>4. Waiting \in {Waiting, Exited} \union Pushing /\ Waiting.pc # "push" /\ worker[w] # Exited
  BY <1>1 DEF Waiting, Exited, Pushing
<1>5. PacketsOK' /\ AllOnce'
  BY <1>1, <1>2, <1>4, IdleWorker
<1>6. ChannelsOK'
  BY <1>2 DEF PipeInv, ChannelsOK
<1>7. ReceivesOK'
  <2>1. Busy' = Busy \ {w} /\ w \in Busy
    BY <1>1, <1>2, <1>4 DEF Busy, Pushing, PipeInv, PacketsOK
  <2>2. Cardinality(Busy') = Cardinality(Busy) - 1
    BY <2>1, BusyFinite, FS_RemoveElement
  <2>3. ~QueuesShut /\ QueuesShut' = QueuesShut
    BY <1>2, <1>4 DEF PipeInv, ReceivesOK, QueuesShut
  <2>4. posted' \in Nat /\ posted' + Cardinality(Busy') <= RecvBuffers
    BY <1>3, <2>2, BusyFinite, PipelineAssumption DEF PipeInv, ReceivesOK
  <2> QED BY <1>2, <2>3, <2>4 DEF PipeInv, ReceivesOK
<1> QED BY <1>5, <1>6, <1>7 DEF PipeInv

\* A worker that waits may leave.
LEMMA ExitWorkerKeeps == ASSUME PipeInv, NEW w \in Worker, ExitWorker(w) PROVE PipeInv'
<1>1. /\ worker[w] = Waiting /\ worker' = [worker EXCEPT ![w] = Exited]
      /\ UNCHANGED <<in, un, queue, handling, posted, stage, handled, acked>>
  BY DEF ExitWorker
<1>2. Exited \in {Waiting, Exited} \union Pushing /\ Exited.pc # "push" /\ worker[w].pc # "push"
  BY <1>1 DEF Waiting, Exited
<1>3. PacketsOK' /\ AllOnce'
  BY <1>1, <1>2, IdleWorker
<1>4. Busy' = Busy
  BY <1>1, <1>2 DEF Busy, PipeInv, PacketsOK
<1>5. QueuesShut => \A v \in Worker : worker'[v] = Exited
  BY <1>1 DEF PipeInv, PacketsOK, ReceivesOK
<1>6. ReceivesOK'
  BY <1>1, <1>4, <1>5 DEF PipeInv, ReceivesOK, QueuesShut
<1> QED BY <1>1, <1>3, <1>6 DEF PipeInv, ChannelsOK

\* Shutdown: the queues are shut when every worker has left.
LEMMA ShutdownKeeps == PipeInv /\ (StopWorkers \/ StopLogic \/ JoinLogic) => PipeInv'
<1> SUFFICES ASSUME PipeInv, StopWorkers \/ StopLogic \/ JoinLogic PROVE PipeInv'
  OBVIOUS
<1>1. UNCHANGED <<in, un, worker, queue, handling, posted, handled, acked>>
  BY DEF StopWorkers, StopLogic, JoinLogic
<1>2. Line' = Line /\ Busy' = Busy
  BY <1>1 DEF Line, Busy
<1>3. ReceivesOK'
  <2>1. CASE StopWorkers
    BY <1>1, <1>2, <2>1 DEF StopWorkers, PipeInv, ReceivesOK, QueuesShut
  <2>2. CASE StopLogic
    BY <1>1, <1>2, <2>2 DEF StopLogic, PipeInv, ReceivesOK, QueuesShut
  <2>3. CASE JoinLogic
    BY <1>1, <1>2, <2>3 DEF JoinLogic, PipeInv, ReceivesOK, QueuesShut
  <2> QED BY <2>1, <2>2, <2>3
<1>4. AllOnce'
  BY <1>1, <1>2, AllOnceStays
<1> QED BY <1>1, <1>3, <1>4 DEF PipeInv, ChannelsOK, PacketsOK

\* A worker that gets a packet fills its empty line.
LEMMA WorkerFills ==
    ASSUME PipeInv, NEW w \in Worker, NEW v \in Pushing, worker[w] = Waiting,
           worker' = [worker EXCEPT ![w] = v], UNCHANGED <<queue, handling, handled>>
    PROVE  /\ PacketsOK' /\ LinesOK /\ LinesOK' /\ Filled(Line, Line', <<"worker", w>>, v.out)
           /\ w \notin Busy /\ Busy' = Busy \union {w}
<1>1. PacketsOK'
  BY DEF PipeInv, PacketsOK
<1>2. LinesOK /\ LinesOK'
  BY <1>1, LinesAre, LinesAreNext DEF PipeInv
<1>3. v.pc = "push" /\ Waiting.pc # "push" /\ worker'[w] = v /\ \A u \in Worker \ {w} : worker'[u] = worker[u]
  BY DEF Pushing, Waiting, PipeInv, PacketsOK
<1>4. ASSUME NEW l \in Lines, l # <<"worker", w>> PROVE Line'[l] = Line[l]
  <2>1. ASSUME NEW s \in Session, l = <<"handled", s>> PROVE Line'[l] = Line[l]
    BY <1>2, <2>1, LineStays
  <2>2. ASSUME NEW t \in LogicThread, l = <<"handling", t>> \/ l = <<"queue", t>> PROVE Line'[l] = Line[l]
    BY <1>2, <2>2, LineStays
  <2>3. ASSUME NEW u \in Worker, l = <<"worker", u>> PROVE Line'[l] = Line[l]
    <3>1. u # w
      BY <1>4, <2>3
    <3> QED BY <1>2, <1>3, <2>3, <3>1, LineStays
  <2> QED BY <2>1, <2>2, <2>3, LineKinds
<1>5. Line[<<"worker", w>>] = <<>> /\ Line'[<<"worker", w>>] = v.out /\ <<"worker", w>> \in Lines
      /\ DOMAIN Line = Lines /\ DOMAIN Line' = Lines
  BY <1>2, <1>3 DEF LinesOK
<1>6. w \notin Busy /\ Busy' = Busy \union {w}
  BY <1>3 DEF Busy
<1> QED BY <1>1, <1>2, <1>4, <1>5, <1>6 DEF Filled

\* FillKeeps for the lines of the pipeline.
LEMMA LineFilled ==
    ASSUME LinesOK, NEW a, NEW d \in Seq(Packet), Filled(Line, Line', a, d)
    PROVE  /\ \A p : (\A i \in 1..Len(d) : d[i] # p) =>
                  /\ Nowhere(p, Line) => Nowhere(p, Line')
                  /\ Somewhere(p, Line) => Somewhere(p, Line')
                  /\ Once(p, Line) => Once(p, Line')
           /\ \A p : \A i \in 1..Len(d) :
                  d[i] = p /\ (\A j \in 1..Len(d) : d[j] = p => j = i) /\ Nowhere(p, Line) =>
                  Somewhere(p, Line') /\ Once(p, Line')
<1>1. Line \in [Lines -> Seq(Packet)]
  BY DEF LinesOK
<1> QED BY <1>1, FillKeeps

\* What a call of the channel delivers are the session's packets from the one it
\* expected to the one before the one it expects now.
LEMMA AllOnceByFill ==
    ASSUME PipeInv, LinesOK, NEW a, NEW d \in Seq(Packet), Filled(Line, Line', a, d), NEW s \in Session,
           Len(d) = in'[s].next - in[s].next, in'[s].next \in Nat,
           \A i \in 1..Len(d) : d[i] = Numbered(s, in[s].next + i - 1),
           \A r \in Session \ {s} : in'[r].next = in[r].next
    PROVE  AllOnce'
<1>1. in[s].next \in Nat /\ Len(d) \in Nat
  BY DEF PipeInv, ChannelsOK
<1>2. /\ \A p : (\A i \in 1..Len(d) : d[i] # p) =>
             /\ Nowhere(p, Line) => Nowhere(p, Line')
             /\ Somewhere(p, Line) => Somewhere(p, Line')
             /\ Once(p, Line) => Once(p, Line')
      /\ \A p : \A i \in 1..Len(d) :
             d[i] = p /\ (\A j \in 1..Len(d) : d[j] = p => j = i) /\ Nowhere(p, Line) =>
             Somewhere(p, Line') /\ Once(p, Line')
  BY LineFilled, Zenon
<1>3. ASSUME NEW r \in Session, NEW p \in Reliable(r)
      PROVE  IF p.seq < in'[r].next THEN Somewhere(p, Line') /\ Once(p, Line') ELSE Nowhere(p, Line')
  <2>1. IF p.seq < in[r].next THEN Somewhere(p, Line) /\ Once(p, Line) ELSE Nowhere(p, Line)
    BY DEF PipeInv, AllOnce
  <2>2. p.seq \in 1..MaxSeq /\ p = Numbered(r, p.seq)
    BY PacketKinds
  <2>3. CASE r = s /\ p.seq >= in[s].next /\ p.seq < in'[s].next
    <3> DEFINE i == p.seq - in[s].next + 1
    <3>1. i \in 1..Len(d) /\ in[s].next + i - 1 = p.seq
      BY <1>1, <2>2, <2>3
    <3>2. d[i] = p
      BY <2>2, <2>3, <3>1
    <3>3. ASSUME NEW j \in 1..Len(d), d[j] = p PROVE j = i
      <4>1. Numbered(s, in[s].next + j - 1).seq = in[s].next + j - 1
        BY DEF Numbered
      <4>2. in[s].next + j - 1 = p.seq
        BY <3>3, <4>1
      <4> QED BY <1>1, <2>2, <4>2
    <3>4. Nowhere(p, Line)
      BY <1>1, <2>1, <2>2, <2>3
    <3> HIDE DEF i
    <3> QED BY <1>2, <2>3, <3>1, <3>2, <3>3, <3>4
  <2>4. CASE ~(r = s /\ p.seq >= in[s].next /\ p.seq < in'[s].next)
    <3>1. ASSUME NEW i \in 1..Len(d) PROVE d[i] # p
      <4>1. Numbered(s, in[s].next + i - 1).seq = in[s].next + i - 1
            /\ Numbered(s, in[s].next + i - 1).session = s /\ Numbered(r, p.seq).session = r
        BY DEF Numbered
      <4> QED BY <1>1, <2>2, <2>4, <4>1
    <3>2. p.seq < in'[r].next <=> p.seq < in[r].next
      BY <1>1, <2>2, <2>4
    <3> QED BY <1>2, <2>1, <3>1, <3>2
  <2> QED BY <2>3, <2>4
<1>4. AllOnce' <=> \A r \in Session : \A p \in Reliable(r) :
          IF p.seq < in'[r].next THEN Somewhere(p, Line') /\ Once(p, Line') ELSE Nowhere(p, Line')
  BY DEF AllOnce, Nowhere, Somewhere, Once
<1> QED BY <1>3, <1>4

\* Transforms are no packets of the reliable stream.
LEMMA AllOnceByTransform ==
    ASSUME PipeInv, LinesOK, NEW a, NEW d \in Seq(Packet), Filled(Line, Line', a, d), in' = in,
           \A i \in 1..Len(d) : d[i].kind = "transform"
    PROVE  AllOnce'
<1>1. \A p : (\A i \in 1..Len(d) : d[i] # p) =>
          /\ Nowhere(p, Line) => Nowhere(p, Line')
          /\ Somewhere(p, Line) => Somewhere(p, Line')
          /\ Once(p, Line) => Once(p, Line')
  BY LineFilled
<1>2. ASSUME NEW r \in Session, NEW p \in Reliable(r) PROVE \A i \in 1..Len(d) : d[i] # p
  <2>1. p.kind = "reliable"
    BY PacketKinds
  <2> QED BY <2>1
<1>3. AllOnce' <=> \A r \in Session : \A p \in Reliable(r) :
          IF p.seq < in'[r].next THEN Somewhere(p, Line') /\ Once(p, Line') ELSE Nowhere(p, Line')
  BY DEF AllOnce, Nowhere, Somewhere, Once
<1> QED BY <1>1, <1>2, <1>3 DEF PipeInv, AllOnce

\* A receive leaves the registered ones while its worker has the buffer.
LEMMA ReceivesTaken ==
    ASSUME PipeInv, NEW w \in Worker, worker[w] = Waiting, w \notin Busy, Busy' = Busy \union {w},
           posted > 0, posted' = posted - 1, stage' = stage
    PROVE  ReceivesOK'
<1>1. Cardinality(Busy') = Cardinality(Busy) + 1
  BY BusyFinite, FS_AddElement
<1>2. ~QueuesShut /\ QueuesShut' = QueuesShut
  BY DEF PipeInv, ReceivesOK, QueuesShut, Waiting, Exited
<1>3. posted' \in Nat /\ posted' + Cardinality(Busy') <= RecvBuffers
  BY <1>1, BusyFinite, PipelineAssumption DEF PipeInv, ReceivesOK
<1> QED BY <1>2, <1>3 DEF PipeInv, ReceivesOK

\* The channel of the session takes a packet: what it expects next, what it
\* hands up and what it keeps.
LEMMA ChannelTakes ==
    ASSUME PipeInv, NEW s \in Session, NEW p \in Reliable(s), NEW r, r = OnReliableReceived(in[s], p.seq, p)
    PROVE  /\ r.in = [next |-> r.in.next, reasm |-> r.in.reasm]
           /\ r.in.next \in 1..(MaxSeq + 1)
           /\ DOMAIN r.in.reasm \subseteq (r.in.next + 1)..MaxSeq
           /\ \A k \in DOMAIN r.in.reasm : r.in.reasm[k] = Numbered(s, k)
           /\ r.delivered \in Seq(Packet)
           /\ Len(r.delivered) = r.in.next - in[s].next
           /\ \A i \in 1..Len(r.delivered) : r.delivered[i] = Numbered(s, in[s].next + i - 1)
<1> DEFINE c == in[s]
<1>1. /\ c = [next |-> c.next, reasm |-> c.reasm]
      /\ c.next \in 1..(MaxSeq + 1)
      /\ DOMAIN c.reasm \subseteq (c.next + 1)..MaxSeq
      /\ \A k \in DOMAIN c.reasm : c.reasm[k] = Numbered(s, k)
  BY DEF PipeInv, ChannelsOK
<1>2. p.seq \in 1..MaxSeq /\ p = Numbered(s, p.seq) /\ p \in Packet /\ MaxSeq \in Nat
  BY PacketKinds, PipelineAssumption
<1>3. <<>> \in Seq(Packet) /\ Len(<<>>) = 0
  BY EmptySeq
<1> DEFINE Right(x, d) ==
        /\ x = [next |-> x.next, reasm |-> x.reasm]
        /\ x.next \in 1..(MaxSeq + 1)
        /\ DOMAIN x.reasm \subseteq (x.next + 1)..MaxSeq
        /\ \A k \in DOMAIN x.reasm : x.reasm[k] = Numbered(s, k)
        /\ d \in Seq(Packet)
        /\ Len(d) = x.next - c.next
        /\ \A i \in 1..Len(d) : d[i] = Numbered(s, c.next + i - 1)
<1>4. CASE p.seq < c.next
  <2>1. r.in = c /\ r.delivered = <<>>
    <3>1. p.seq # c.next
      BY <1>1, <1>2, <1>4
    <3>2. r = [in |-> c, accepted |-> FALSE, delivered |-> <<>>]
      BY <1>4, <3>1, Zenon DEF OnReliableReceived
    <3> QED BY <3>2
  <2>2. Right(c, <<>>)
    BY <1>1, <1>3
  <2> QED BY <2>1, <2>2
<1>5. CASE p.seq = c.next
  <2>1. r = AcceptNext(c, p)
    BY <1>5 DEF OnReliableReceived
  <2>2. /\ c.next \in Nat /\ c.next <= MaxSeq
        /\ \A k \in DOMAIN c.reasm : c.reasm[k] \in Packet
        /\ DOMAIN c.reasm \subseteq (c.next + 1)..MaxSeq /\ p \in Packet /\ MaxSeq \in Nat
    <3>1. \A k \in DOMAIN c.reasm : k \in 1..MaxSeq
      BY <1>1
    <3> QED BY <1>1, <1>2, <1>5, <3>1, PacketKinds
  <2> HIDE DEF c
  <2>3. PICK g \in 1..(MaxSeq + 1), d \in Seq(Packet) : HandsUp(c, p, g, d)
    BY <2>2, AcceptNextHandsUp
  <2>4. /\ g > c.next /\ AcceptNext(c, p).in = [next |-> g, reasm |-> Beyond(c.reasm, g)]
        /\ AcceptNext(c, p).delivered = d /\ Len(d) = g - c.next /\ d[1] = p
        /\ \A i \in 2..(g - c.next) : c.next + i - 1 \in DOMAIN c.reasm /\ d[i] = c.reasm[c.next + i - 1]
    BY <2>3 DEF HandsUp
  <2>5. ASSUME NEW i \in 1..Len(d) PROVE d[i] = Numbered(s, c.next + i - 1)
    <3>1. CASE i = 1
      <4>1. c.next + i - 1 = p.seq
        BY <1>5, <2>2, <3>1
      <4> QED BY <1>2, <2>4, <3>1, <4>1
    <3>2. CASE i # 1
      <4>1. i \in 2..(g - c.next)
        BY <2>4, <3>2
      <4> QED BY <1>1, <2>4, <4>1
    <3> QED BY <3>1, <3>2
  <2>6. /\ DOMAIN Beyond(c.reasm, g) \subseteq (g + 1)..MaxSeq
        /\ \A k \in DOMAIN Beyond(c.reasm, g) : Beyond(c.reasm, g)[k] = Numbered(s, k)
    BY <1>1 DEF Beyond
  <2>7. g \in 1..(MaxSeq + 1)
    BY <1>1, <1>2, <2>4
  <2>8. r.in = [next |-> g, reasm |-> Beyond(c.reasm, g)] /\ r.in.next = g /\ r.in.reasm = Beyond(c.reasm, g) /\ r.delivered = d
    BY <2>1, <2>4
  <2> QED BY <2>4, <2>5, <2>6, <2>7, <2>8 DEF c
<1>6. CASE p.seq > c.next
  <2>1. r.in = Stash(c, p.seq, p) /\ r.delivered = <<>>
    BY <1>1, <1>2, <1>6 DEF OnReliableReceived
  <2>2. CASE Stash(c, p.seq, p) = c
    <3>1. Right(c, <<>>)
      BY <1>1, <1>3
    <3> QED BY <2>1, <2>2, <3>1
  <2>3. CASE Stash(c, p.seq, p) # c
    <3> DEFINE more == Put(c.reasm, p.seq, p)
               x == [next |-> c.next, reasm |-> more]
    <3>1. Stash(c, p.seq, p) = [c EXCEPT !.reasm = more]
      BY <2>3 DEF Stash
    <3>2. DOMAIN more = DOMAIN c.reasm \union {p.seq}
          /\ \A k \in DOMAIN more : more[k] = IF k = p.seq THEN p ELSE c.reasm[k]
      BY DEF Put
    <3> HIDE DEF more
    <3>3. [c EXCEPT !.reasm = more] = x
      BY <1>1
    <3>4. x.next = c.next /\ x.reasm = more
      OBVIOUS
    <3>5. DOMAIN more \subseteq (c.next + 1)..MaxSeq /\ \A k \in DOMAIN more : more[k] = Numbered(s, k)
      BY <1>1, <1>2, <1>6, <3>2
    <3> HIDE DEF x
    <3>6. r.in = x /\ r.delivered = <<>>
      BY <2>1, <3>1, <3>3
    <3>7. x = [next |-> x.next, reasm |-> x.reasm]
      BY <3>4 DEF x
    <3> QED BY <1>1, <1>3, <3>4, <3>5, <3>6, <3>7
  <2> QED BY <2>2, <2>3
<1>7. p.seq < c.next \/ p.seq = c.next \/ p.seq > c.next
  BY <1>1, <1>2
<1> QED BY <1>4, <1>5, <1>6, <1>7

\* A receive: the channel takes the packet and the worker what it hands up.
LEMMA ReceiveKeeps == ASSUME PipeInv, NEW w \in Worker, NEW p \in Packet, Receive(w, p) PROVE PipeInv'
<1> DEFINE s == p.session
           a == <<"worker", w>>
<1>1. s \in Session /\ p \in Reliable(s) \union Transform(s)
  BY PacketKinds
<1>2. /\ worker[w] = Waiting /\ posted > 0 /\ posted' = posted - 1
      /\ UNCHANGED <<queue, handling, stage, handled, acked>>
  BY DEF Receive
<1> HIDE DEF s
<1>3. CASE p \in Reliable(s)
  <2> DEFINE r == OnReliableReceived(in[s], p.seq, p)
             v == Dispatching(s, r.delivered, TRUE)
  <2>1. p.kind = "reliable" /\ p.session = s
    BY <1>1, <1>3, PacketKinds
  <2>2. in' = [in EXCEPT ![s] = r.in] /\ worker' = [worker EXCEPT ![w] = v] /\ un' = un
    BY <2>1 DEF Receive, DispatchReliable, DispatchTransform
  <2>3. /\ r.in = [next |-> r.in.next, reasm |-> r.in.reasm]
        /\ r.in.next \in 1..(MaxSeq + 1)
        /\ DOMAIN r.in.reasm \subseteq (r.in.next + 1)..MaxSeq
        /\ \A k \in DOMAIN r.in.reasm : r.in.reasm[k] = Numbered(s, k)
        /\ r.delivered \in Seq(Packet)
        /\ Len(r.delivered) = r.in.next - in[s].next
        /\ \A i \in 1..Len(r.delivered) : r.delivered[i] = Numbered(s, in[s].next + i - 1)
    BY <1>1, <1>3, ChannelTakes
  <2>4. v \in Pushing /\ v.out = r.delivered
    BY <1>1, <2>3 DEF Dispatching, Pushing
  <2> HIDE DEF r, v
  <2>5. /\ PacketsOK' /\ LinesOK /\ Filled(Line, Line', a, v.out)
        /\ w \notin Busy /\ Busy' = Busy \union {w}
    BY <1>2, <2>2, <2>4, WorkerFills
  <2>6. ReceivesOK'
    BY <1>2, <2>5, ReceivesTaken
  <2>7. DOMAIN in' = Session /\ in'[s] = r.in /\ \A q \in Session \ {s} : in'[q] = in[q]
    BY <1>1, <2>2 DEF PipeInv, ChannelsOK
  <2>8. ChannelsOK'
    <3> SUFFICES ASSUME NEW q \in Session
                 PROVE  /\ in'[q] = [next |-> in'[q].next, reasm |-> in'[q].reasm]
                        /\ in'[q].next \in 1..(MaxSeq + 1)
                        /\ DOMAIN in'[q].reasm \subseteq (in'[q].next + 1)..MaxSeq
                        /\ \A k \in DOMAIN in'[q].reasm : in'[q].reasm[k] = Numbered(q, k)
      BY <1>2, <2>2, <2>7 DEF PipeInv, ChannelsOK, Numbered
    <3>1. CASE q = s
      BY <2>3, <2>7, <3>1
    <3>2. CASE q # s
      BY <2>7, <3>2 DEF PipeInv, ChannelsOK
    <3> QED BY <3>1, <3>2
  <2>9. AllOnce'
    <3>1. Len(r.delivered) = in'[s].next - in[s].next /\ in'[s].next \in Nat
      BY <2>3, <2>7
    <3>2. \A q \in Session \ {s} : in'[q].next = in[q].next
      BY <2>7
    <3>3. Filled(Line, Line', a, r.delivered)
      BY <2>4, <2>5
    <3> HIDE DEF a
    <3> QED BY <1>1, <2>3, <2>5, <3>1, <3>2, <3>3, AllOnceByFill
  <2> QED BY <2>5, <2>6, <2>8, <2>9 DEF PipeInv
<1>4. CASE p \in Transform(s)
  <2> DEFINE d == IF AcceptUnreliable(un[s], p.seq) THEN <<p>> ELSE <<>>
             v == Dispatching(s, d, FALSE)
  <2>1. p.kind = "transform" /\ p.session = s /\ p.seq \in 1..MaxTransform
    BY <1>1, <1>4, PacketKinds
  <2>2. /\ in' = in /\ worker' = [worker EXCEPT ![w] = v]
        /\ un' = [un EXCEPT ![s] = UnreliableAfter(un[s], p.seq)]
    BY <2>1 DEF Receive, DispatchReliable, DispatchTransform
  <2>3. d \in Seq(Packet) /\ \A i \in 1..Len(d) : d[i].kind = "transform"
    <3>1. <<p>> \in Seq(Packet) /\ Len(<<p>>) = 1 /\ <<p>>[1] = p
      OBVIOUS
    <3>2. <<>> \in Seq(Packet) /\ Len(<<>>) = 0
      BY EmptySeq
    <3>3. CASE d = <<p>>
      BY <2>1, <3>1, <3>3
    <3>4. CASE d = <<>>
      BY <3>2, <3>4
    <3> QED BY <3>3, <3>4
  <2> HIDE DEF d
  <2>4. v \in Pushing /\ v.out = d
    BY <1>1, <2>3 DEF Dispatching, Pushing
  <2> HIDE DEF v
  <2>5. /\ PacketsOK' /\ LinesOK /\ Filled(Line, Line', a, v.out)
        /\ w \notin Busy /\ Busy' = Busy \union {w}
    BY <1>2, <2>2, <2>4, WorkerFills
  <2>6. ReceivesOK'
    BY <1>2, <2>5, ReceivesTaken
  <2>7. un' \in [Session -> [has : BOOLEAN, high : 0..MaxTransform]]
    <3>1. un \in [Session -> [has : BOOLEAN, high : 0..MaxTransform]]
      BY DEF PipeInv, ChannelsOK
    <3>2. [has |-> TRUE, high |-> p.seq] \in [has : BOOLEAN, high : 0..MaxTransform]
      BY <2>1
    <3>3. UnreliableAfter(un[s], p.seq) \in [has : BOOLEAN, high : 0..MaxTransform]
      BY <1>1, <3>1, <3>2 DEF UnreliableAfter
    <3> QED BY <2>2, <3>1, <3>3
  <2>8. ChannelsOK'
    BY <1>2, <2>2, <2>7 DEF PipeInv, ChannelsOK, Numbered
  <2>9. AllOnce'
    <3>1. Filled(Line, Line', a, d)
      BY <2>4, <2>5
    <3> HIDE DEF a
    <3> QED BY <2>2, <2>3, <2>5, <3>1, AllOnceByTransform
  <2> QED BY <2>5, <2>6, <2>8, <2>9 DEF PipeInv
<1> QED BY <1>1, <1>3, <1>4

\* Before the first packet there is none.
LEMMA PipeInvInit == PipeInit => PipeInv
<1> SUFFICES ASSUME PipeInit PROVE PipeInv
  OBVIOUS
<1>1. <<>> \in Seq(Packet) /\ \A s \in Session : <<>> \in Seq(Reliable(s) \union Transform(s))
  BY EmptySeq
<1>2. PacketsOK
  BY <1>1 DEF PipeInit, PacketsOK
<1>3. ChannelsOK
  <2>1. DOMAIN <<>> = {}
    OBVIOUS
  <2>2. MaxSeq \in Nat /\ MaxTransform \in Nat
    BY PipelineAssumption
  <2> QED BY <2>1, <2>2 DEF PipeInit, ChannelsOK, InboundInit, UnreliableInit
<1>4. ReceivesOK
  <2>1. Busy = {}
    BY DEF PipeInit, Busy, Waiting
  <2> QED BY <2>1, FS_EmptySet, PipelineAssumption DEF PipeInit, ReceivesOK, QueuesShut
<1>5. ASSUME NEW l \in Lines PROVE Line[l] = <<>>
  <2>1. \A s \in Session : handled[s] = <<>>
    BY DEF PipeInit
  <2>2. \A t \in LogicThread : queue[t] = <<>> /\ handling[t] = None
    BY DEF PipeInit
  <2>3. \A w \in Worker : worker[w].pc # "push"
    BY DEF PipeInit, Waiting
  <2>4. LinesOK
    BY <1>2, LinesAre
  <2>5. ASSUME NEW s \in Session, l = <<"handled", s>> PROVE Line[l] = <<>>
    BY <2>1, <2>4, <2>5 DEF LinesOK
  <2>6. ASSUME NEW t \in LogicThread, l = <<"queue", t>> \/ l = <<"handling", t>> PROVE Line[l] = <<>>
    <3>1. Line[<<"queue", t>>] = <<>> /\ Line[<<"handling", t>>] = <<>>
      BY <2>2, <2>4 DEF LinesOK
    <3> QED BY <2>6, <3>1
  <2>7. ASSUME NEW w \in Worker, l = <<"worker", w>> PROVE Line[l] = <<>>
    BY <2>3, <2>4, <2>7 DEF LinesOK
  <2> QED BY <2>5, <2>6, <2>7, LineKinds
<1>6. AllOnce
  <2>1. \A p : Nowhere(p, Line)
    <3>1. DOMAIN Line = Lines
      BY <1>2, LinesAre DEF LinesOK
    <3> QED BY <1>5, <3>1, EmptySeq DEF Nowhere
  <2>2. \A s \in Session : in[s].next = 1
    BY DEF PipeInit, InboundInit
  <2>3. \A s \in Session : \A p \in Reliable(s) : ~(p.seq < 1)
    BY PacketKinds
  <2> QED BY <2>1, <2>2, <2>3 DEF AllOnce
<1> QED BY <1>2, <1>3, <1>4, <1>6 DEF PipeInv

\* No step of the pipeline loses or doubles a packet.
LEMMA PipeInvNext == PipeInv /\ [PipeNext]_pipeVars => PipeInv'
<1> SUFFICES ASSUME PipeInv, [PipeNext]_pipeVars PROVE PipeInv'
  OBVIOUS
<1>1. CASE PipeNext
  <2>1. \A w \in Worker, p \in Packet : Receive(w, p) => PipeInv'
    BY ReceiveKeeps
  <2>2. \A w \in Worker : EnqueueLogic(w) => PipeInv'
    BY EnqueueKeeps
  <2>3. \A w \in Worker : SendAck(w) => PipeInv'
    BY SendAckKeeps
  <2>4. \A w \in Worker : Repost(w) => PipeInv'
    BY RepostKeeps
  <2>5. \A w \in Worker : ExitWorker(w) => PipeInv'
    BY ExitWorkerKeeps
  <2>6. \A t \in LogicThread : Pop(t) \/ DispatchApp(t) => PipeInv'
    BY PopKeeps, DispatchAppKeeps
  <2>7. StopWorkers \/ StopLogic \/ JoinLogic => PipeInv'
    BY ShutdownKeeps
  <2> QED BY <1>1, <2>1, <2>2, <2>3, <2>4, <2>5, <2>6, <2>7 DEF PipeNext
<1>2. CASE UNCHANGED pipeVars
  <2>1. UNCHANGED <<in, un, worker, queue, handling, posted, stage, handled, acked>>
    BY <1>2 DEF pipeVars
  <2>2. Line' = Line /\ Busy' = Busy
    BY <2>1 DEF Line, Busy
  <2>3. AllOnce'
    BY <2>1, <2>2, AllOnceStays
  <2> QED BY <2>1, <2>2, <2>3 DEF PipeInv, ChannelsOK, PacketsOK, ReceivesOK, QueuesShut
<1> QED BY <1>1, <1>2

\* What the invariant says of the copies of a packet.
LEMMA PipeInvCounts == PipeInv => NoneLostNoneTwice
<1> SUFFICES ASSUME PipeInv, NEW s \in Session, NEW p \in Reliable(s)
             PROVE  Cardinality(PlacesOf(p, Line)) = IF p.seq < in[s].next THEN 1 ELSE 0
  BY DEF NoneLostNoneTwice
<1>1. Line \in [Lines -> Seq(Packet)]
  BY LinesAre DEF PipeInv, LinesOK
<1>2. IF p.seq < in[s].next THEN Somewhere(p, Line) /\ Once(p, Line) ELSE Nowhere(p, Line)
  BY DEF PipeInv, AllOnce
<1> QED BY <1>1, <1>2, PlacesCounted

\* The state of the pipeline keeps its type.
LEMMA PipeInvType == PipeInv => PipeTypeOK
<1> SUFFICES ASSUME PipeInv PROVE PipeTypeOK
  OBVIOUS
<1>1. ASSUME NEW s \in Session
      PROVE  /\ in[s].next \in 1..(MaxSeq + 1)
             /\ \A k \in DOMAIN in[s].reasm : in[s].reasm[k] \in Reliable(s)
             /\ un[s] \in [has : BOOLEAN, high : 0..MaxTransform]
             /\ handled[s] \in Seq(Reliable(s) \union Transform(s))
             /\ acked[s] \in 0..MaxSeq
  <2>1. \A k \in DOMAIN in[s].reasm : k \in 1..MaxSeq /\ in[s].reasm[k] = Numbered(s, k)
    BY PipelineAssumption DEF PipeInv, ChannelsOK
  <2> QED BY <2>1, PacketKinds DEF PipeInv, ChannelsOK, PacketsOK
<1>2. ASSUME NEW w \in Worker
      PROVE  \/ worker[w] \in {Waiting, Exited}
             \/ /\ worker[w].pc = "push"
                /\ worker[w].session \in Session
                /\ worker[w].out \in Seq(Packet)
                /\ worker[w].ack \in BOOLEAN
  BY DEF PipeInv, PacketsOK, Pushing
<1>3. posted \in 0..RecvBuffers
  BY BusyFinite, PipelineAssumption DEF PipeInv, ReceivesOK
<1>4. \A t \in LogicThread : queue[t] \in Seq(Packet) /\ handling[t] \in Packet \union {None}
  BY DEF PipeInv, PacketsOK
<1> QED BY <1>1, <1>2, <1>3, <1>4 DEF PipeInv, ReceivesOK, PipeTypeOK

-----------------------------------------------------------------------------
(* The process: what is counted at the port *)

SendDone == [is : {"send"}, buf : 1..MaxSendBuffers]
RecvDone == [is |-> "recv"]
Completion == {Key, RecvDone} \union SendDone

Recvs(q) == {i \in DOMAIN q : q[i].is = "recv"}
RecvsOf(c) == IF c.is = "recv" THEN 1 ELSE 0

\* How many receives a sequence of completions holds when one is added, when the
\* first is taken, and when keys are added.
LEMMA RecvsFinite == ASSUME NEW q \in Seq(Completion) PROVE IsFiniteSet(Recvs(q)) /\ Cardinality(Recvs(q)) \in Nat
<1>1. Recvs(q) \in SUBSET (1..Len(q)) /\ IsFiniteSet(1..Len(q))
  BY FS_Interval DEF Recvs
<1> QED BY <1>1, FS_Subset, FS_CardinalityType

LEMMA RecvsAppend ==
    ASSUME NEW q \in Seq(Completion), NEW c \in Completion
    PROVE  Cardinality(Recvs(Append(q, c))) = Cardinality(Recvs(q)) + RecvsOf(c)
<1>1. /\ DOMAIN Append(q, c) = 1..(Len(q) + 1) /\ DOMAIN q = 1..Len(q) /\ Len(q) \in Nat
      /\ Append(q, c)[Len(q) + 1] = c /\ \A i \in 1..Len(q) : Append(q, c)[i] = q[i]
  OBVIOUS
<1>2. CASE c.is = "recv"
  <2>1. Recvs(Append(q, c)) = Recvs(q) \union {Len(q) + 1} /\ Len(q) + 1 \notin Recvs(q)
    BY <1>1, <1>2 DEF Recvs
  <2> QED BY <1>2, <2>1, RecvsFinite, FS_AddElement DEF RecvsOf
<1>3. CASE c.is # "recv"
  <2>1. Recvs(Append(q, c)) = Recvs(q)
    BY <1>1, <1>3 DEF Recvs
  <2> QED BY <1>3, <2>1, RecvsFinite DEF RecvsOf
<1> QED BY <1>2, <1>3

LEMMA RecvsTail ==
    ASSUME NEW q \in Seq(Completion), q # <<>>
    PROVE  Cardinality(Recvs(q)) = Cardinality(Recvs(Tail(q))) + RecvsOf(Head(q))
<1>1. /\ Tail(q) \in Seq(Completion) /\ Len(q) \in Nat \ {0} /\ Len(Tail(q)) = Len(q) - 1
      /\ \A i \in 1..(Len(q) - 1) : Tail(q)[i] = q[i + 1]
  BY HeadTailProperties, EmptySeq
<1>2. DOMAIN q = 1..Len(q) /\ DOMAIN Tail(q) = 1..(Len(q) - 1) /\ Head(q) = q[1]
  BY <1>1
<1> DEFINE up == [i \in Recvs(Tail(q)) |-> i + 1]
           rest == Recvs(q) \ {1}
<1>3. \A i \in Recvs(Tail(q)) : i \in Nat /\ i + 1 \in rest
  BY <1>1, <1>2 DEF Recvs
<1>4. \A j \in rest : j - 1 \in Recvs(Tail(q)) /\ (j - 1) + 1 = j
  BY <1>1, <1>2 DEF Recvs
<1>5. up \in [Recvs(Tail(q)) -> rest]
  BY <1>3
<1>6. \A i, j \in Recvs(Tail(q)) : up[i] = up[j] => i = j
  BY <1>3
<1>7. \A j \in rest : \E i \in Recvs(Tail(q)) : up[i] = j
  BY <1>4
<1>8. ExistsBijection(Recvs(Tail(q)), rest)
  <2> HIDE DEF up, rest
  <2>1. up \in Injection(Recvs(Tail(q)), rest)
    BY <1>5, <1>6 DEF Injection, IsInjective
  <2>2. up \in Surjection(Recvs(Tail(q)), rest)
    BY <1>5, <1>7 DEF Surjection
  <2> QED BY <2>1, <2>2 DEF ExistsBijection, Bijection
<1>9. Cardinality(rest) = Cardinality(Recvs(Tail(q)))
  BY <1>1, <1>8, RecvsFinite, FS_Bijection
<1>10. Cardinality(rest) = IF 1 \in Recvs(q) THEN Cardinality(Recvs(q)) - 1 ELSE Cardinality(Recvs(q))
  BY RecvsFinite, FS_RemoveElement
<1>11. 1 \in Recvs(q) <=> Head(q).is = "recv"
  BY <1>1, <1>2 DEF Recvs
<1>12. Cardinality(Recvs(q)) \in Nat /\ Cardinality(Recvs(Tail(q))) \in Nat
  BY <1>1, RecvsFinite
<1> QED BY <1>9, <1>10, <1>11, <1>12 DEF RecvsOf

LEMMA RecvsKeys ==
    ASSUME NEW q \in Seq(Completion), NEW n \in Nat
    PROVE  LET r == q \o [i \in 1..n |-> Key]
           IN  /\ r \in Seq(Completion) /\ Recvs(r) = Recvs(q)
               /\ \A i \in 1..Len(r) : IF i <= Len(q) THEN r[i] = q[i] ELSE r[i] = Key
<1> DEFINE k == [i \in 1..n |-> Key]
<1>1. k \in Seq(Completion) /\ Len(k) = n /\ \A i \in 1..n : k[i] = Key
  BY DEF Completion
<1> HIDE DEF k
<1>2. /\ q \o k \in Seq(Completion) /\ Len(q \o k) = Len(q) + n
      /\ \A i \in 1..(Len(q) + n) : (q \o k)[i] = IF i <= Len(q) THEN q[i] ELSE k[i - Len(q)]
  BY <1>1, ConcatProperties
<1>3. \A i \in 1..(Len(q) + n) : ~(i <= Len(q)) => i - Len(q) \in 1..n
  OBVIOUS
<1>4. \A i \in 1..(Len(q) + n) : IF i <= Len(q) THEN (q \o k)[i] = q[i] ELSE (q \o k)[i] = Key
  BY <1>1, <1>2, <1>3
<1>5. Recvs(q \o k) = Recvs(q)
  <2>1. DOMAIN q = 1..Len(q) /\ DOMAIN (q \o k) = 1..(Len(q) + n) /\ Len(q) \in Nat
    BY <1>2
  <2>2. Key.is # "recv"
    BY DEF Key
  <2> QED BY <1>4, <2>1, <2>2 DEF Recvs
<1> QED BY <1>2, <1>4, <1>5 DEF k

-----------------------------------------------------------------------------
(* The process: its invariant *)

Threads == Workers \union {"broadcast"}
Checked == [at |-> "checked"]
Holding == [at : {"holds"}, buf : 1..MaxSendBuffers]
Stages == {[at |-> x] : x \in {"away", "broadcast", "close", "pools", "freed"}}
              \union [at : {"workers"}, of : SUBSET Workers]

ShapeOK ==
    /\ main \in 1..11 /\ running \in BOOLEAN /\ socket \in BOOLEAN
    /\ process \in {"alive", "failed", "over", "terminated"}
    /\ shutting \in Stages
    /\ thread \in [Threads -> {"none", "on", "acks", "acked", "exited", "joined"}]
    /\ port \in Seq(Completion)
    /\ registered \in Nat
    /\ pool \subseteq 1..MaxSendBuffers /\ free \subseteq 1..MaxSendBuffers /\ sending \subseteq 1..MaxSendBuffers
    /\ sender \in [Senders -> {Away, Checked} \union Holding]

Acking == {w \in Workers : thread[w] \in {"acks", "acked"}}

\* What has not begun before its step of Start.
StartOK ==
    /\ main <= 10 => registered = 0 /\ Recvs(port) = {} /\ Acking = {}
    /\ main <= 7 => ~running /\ shutting.at = "away"
    /\ main <= 6 => pool = {} /\ free = {} /\ sending = {} /\ \A t \in Senders : sender[t] = Away
    /\ running => shutting.at = "away"

\* A completed send waits at the port once, and its buffer is still the system's.
SentOK ==
    /\ \A i \in DOMAIN port : port[i].is = "send" => port[i].buf \in sending
    /\ \A i, j \in DOMAIN port : port[i].is = "send" /\ port[j].is = "send" /\ port[i].buf = port[j].buf => i = j

Holds(t, b) == sender[t].at = "holds" /\ sender[t].buf = b

\* A buffer that is in use is of the pool, is in some place, and not in two.
PlacedOK ==
    ~Freed =>
        /\ free \subseteq pool /\ sending \subseteq pool /\ free \intersect sending = {}
        /\ \A t \in Senders : \A b : Holds(t, b) => b \in pool /\ b \notin free /\ b \notin sending
        /\ \A t, u \in Senders : \A b : Holds(t, b) /\ Holds(u, b) => t = u
        /\ \A b \in pool : b \in free \/ b \in sending \/ \E t \in Senders : Holds(t, b)

RecvsOK == registered + Cardinality(Recvs(port)) + Cardinality(Acking) <= RecvCount

ProcInv == ShapeOK /\ StartOK /\ SentOK /\ PlacedOK /\ RecvsOK

\* The steps of Start by their numbers.
LEMMA StepNumbers ==
    /\ DOMAIN Steps = 1..11
    /\ \A step \in {"winsock", "socket", "bind", "iocp", "associate"} : At(step) => main \in 1..5
    /\ At("sendPool") => main = 6
    /\ At("run") => main = 7
    /\ At("workers") \/ At("broadcast") => main \in 8..9
    /\ At("recvs") => main = 10
    /\ At("loop") => main = 11
<1>1. DOMAIN Steps = 1..11
  BY DEF Steps
<1>2. ASSUME NEW step \in {"winsock", "socket", "bind", "iocp", "associate"}, At(step) PROVE main \in 1..5
  <2>1. main \in 1..11 /\ Steps[main] = step
    BY <1>1, <1>2 DEF At
  <2> QED BY <2>1 DEF Steps
<1>3. At("sendPool") => main = 6
  BY <1>1 DEF At, Steps
<1>4. At("run") => main = 7
  BY <1>1 DEF At, Steps
<1>5. At("workers") \/ At("broadcast") => main \in 8..9
  BY <1>1 DEF At, Steps
<1>6. At("recvs") => main = 10
  BY <1>1 DEF At, Steps
<1>7. At("loop") => main = 11
  BY <1>1 DEF At, Steps
<1> QED BY <1>1, <1>2, <1>3, <1>4, <1>5, <1>6, <1>7

\* The workers with a receive are finitely many.
LEMMA AckingFinite == IsFiniteSet(Acking) /\ Cardinality(Acking) \in Nat
BY ProcessAssumption, FS_Subset, FS_CardinalityType DEF Acking

\* What the parts of the invariant depend on.
LEMMA SentStays == SentOK /\ UNCHANGED <<port, sending>> => SentOK'
BY DEF SentOK
LEMMA PlacedStays == PlacedOK /\ UNCHANGED <<pool, free, sending, sender>> /\ (Freed => Freed') => PlacedOK'
BY DEF PlacedOK, Holds
LEMMA RecvsStays == RecvsOK /\ UNCHANGED <<registered, port>> /\ Acking' = Acking => RecvsOK'
BY DEF RecvsOK, Recvs

\* Start, step by step.
LEMMA StartKeepsInv == ProcInv /\ Starting => ProcInv'
<1> SUFFICES ASSUME ProcInv, Starting PROVE ProcInv'
  OBVIOUS
<1>1. UNCHANGED <<shutting, port, sending, sender>>
  BY DEF Starting, Prepare, InitSendPool, SetRunning, StartThreads, PostInitialRecvs, StartKeeps
<1>2. Freed' = Freed /\ SentOK'
  BY <1>1, SentStays DEF ProcInv, Freed
<1>3. CASE Prepare
  <2>1. main \in 1..5 /\ main' \in {main, main + 1} /\ socket' \in BOOLEAN
    BY <1>3, StepNumbers DEF Prepare, ProcInv, ShapeOK
  <2>2. UNCHANGED <<running, thread, registered, pool, free>> /\ process' \in {"alive", "failed", "over", "terminated"}
    BY <1>3 DEF Prepare, ProcInv, ShapeOK
  <2>3. Acking' = Acking
    BY <2>2 DEF Acking
  <2>4. ShapeOK' /\ StartOK'
    BY <1>1, <2>1, <2>2, <2>3 DEF ProcInv, ShapeOK, StartOK, Recvs
  <2> QED BY <1>1, <1>2, <2>2, <2>3, <2>4, PlacedStays, RecvsStays DEF ProcInv
<1>4. CASE InitSendPool
  <2>1. main = 6 /\ main' = 7 /\ pool' = 1..SendCount /\ free' = 1..SendCount
    BY <1>4, StepNumbers DEF InitSendPool
  <2>2. UNCHANGED <<running, thread, socket, registered, process>>
    BY <1>4 DEF InitSendPool
  <2>3. Acking' = Acking
    BY <2>2 DEF Acking
  <2>4. 1..SendCount \subseteq 1..MaxSendBuffers
    BY ProcessAssumption
  <2>5. sending = {} /\ \A t \in Senders : sender[t] = Away
    BY <2>1 DEF ProcInv, StartOK
  <2>6. PlacedOK'
    BY <1>1, <2>1, <2>5 DEF PlacedOK, Holds, Away
  <2>7. ShapeOK' /\ StartOK'
    BY <1>1, <2>1, <2>2, <2>3, <2>4 DEF ProcInv, ShapeOK, StartOK, Recvs
  <2> QED BY <1>1, <1>2, <2>2, <2>3, <2>6, <2>7, RecvsStays DEF ProcInv
<1>5. CASE SetRunning
  <2>1. main = 7 /\ main' = 8 /\ running' = TRUE
    BY <1>5, StepNumbers DEF SetRunning
  <2>2. UNCHANGED <<thread, socket, registered, pool, free, process>>
    BY <1>5 DEF SetRunning
  <2>3. Acking' = Acking
    BY <2>2 DEF Acking
  <2>4. ShapeOK' /\ StartOK'
    BY <1>1, <2>1, <2>2, <2>3 DEF ProcInv, ShapeOK, StartOK, Recvs
  <2> QED BY <1>1, <1>2, <2>2, <2>3, <2>4, PlacedStays, RecvsStays DEF ProcInv
<1>6. CASE StartThreads
  <2>1. main \in 8..9 /\ main' = main + 1
    BY <1>6, StepNumbers DEF StartThreads
  <2>2. UNCHANGED <<running, socket, registered, pool, free, process>>
    BY <1>6 DEF StartThreads
  <2>3. PICK S : thread' = [t \in DOMAIN thread |-> IF t \in S THEN "on" ELSE thread[t]]
    BY <1>6 DEF StartThreads
  <2>4. thread \in [Threads -> {"none", "on", "acks", "acked", "exited", "joined"}]
    BY DEF ProcInv, ShapeOK
  <2>5. thread' \in [Threads -> {"none", "on", "acks", "acked", "exited", "joined"}]
    BY <2>3, <2>4
  <2>6. Acking = {}
    BY <2>1 DEF ProcInv, StartOK
  <2>7. Acking' = Acking
    <3>1. \A w \in Workers : thread[w] \notin {"acks", "acked"}
      BY <2>6 DEF Acking
    <3>2. \A w \in Workers : thread'[w] \notin {"acks", "acked"}
      BY <2>3, <2>4, <3>1 DEF Threads
    <3> QED BY <2>6, <3>2 DEF Acking
  <2>8. ShapeOK' /\ StartOK'
    BY <1>1, <2>1, <2>2, <2>5, <2>7 DEF ProcInv, ShapeOK, StartOK, Recvs
  <2> QED BY <1>1, <1>2, <2>2, <2>7, <2>8, PlacedStays, RecvsStays DEF ProcInv
<1>7. CASE PostInitialRecvs
  <2>1. main = 10 /\ main' = 11 /\ registered' \in 0..RecvCount
    <3>1. 0 \in 0..RecvCount
      BY ProcessAssumption
    <3> QED BY <1>7, <3>1, StepNumbers DEF PostInitialRecvs
  <2>2. UNCHANGED <<running, thread, socket, pool, free, process>>
    BY <1>7 DEF PostInitialRecvs
  <2>3. Acking' = Acking /\ Acking = {} /\ Recvs(port') = {}
    BY <1>1, <2>1, <2>2 DEF Acking, ProcInv, StartOK
  <2>4. ShapeOK' /\ StartOK'
    BY <1>1, <2>1, <2>2, <2>3, ProcessAssumption DEF ProcInv, ShapeOK, StartOK
  <2>5. RecvsOK'
    BY <2>1, <2>3, FS_EmptySet, ProcessAssumption DEF RecvsOK
  <2> QED BY <1>1, <1>2, <2>2, <2>4, <2>5, PlacedStays DEF ProcInv
<1> QED BY <1>3, <1>4, <1>5, <1>6, <1>7 DEF Starting

\* SendTo takes a buffer and gives it to the system, or back.
LEMMA CheckRunningKeeps == ASSUME ProcInv, NEW t \in Senders, CheckRunning(t) PROVE ProcInv'
<1>1. /\ sender' = [sender EXCEPT ![t] = Checked] /\ sender[t] = Away /\ running
      /\ thread' = [w \in DOMAIN thread |-> IF w = t /\ w \in Workers THEN "acked" ELSE thread[w]]
      /\ UNCHANGED <<main, running, shutting, socket, registered, process, port, pool, free, sending>>
  BY DEF CheckRunning, SendKeeps, Checked
<1>2. main \in 8..11
  BY <1>1 DEF ProcInv, ShapeOK, StartOK
<1>3. Acking' = Acking
  <2>1. t \in Workers => thread[t] = "acks"
    BY ProcessAssumption DEF CheckRunning, MaySend
  <2>2. DOMAIN thread = Threads
    BY DEF ProcInv, ShapeOK
  <2>3. ASSUME NEW w \in Workers
        PROVE  thread'[w] \in {"acks", "acked"} <=> thread[w] \in {"acks", "acked"}
    BY <1>1, <2>1, <2>2 DEF Threads
  <2> QED BY <2>3 DEF Acking
<1>4. thread' \in [Threads -> {"none", "on", "acks", "acked", "exited", "joined"}]
  BY <1>1 DEF ProcInv, ShapeOK
<1>5. sender' \in [Senders -> {Away, Checked} \union Holding]
  BY <1>1 DEF ProcInv, ShapeOK
<1>6. ShapeOK' /\ StartOK'
  BY <1>1, <1>2, <1>3, <1>4, <1>5 DEF ProcInv, ShapeOK, StartOK
<1>7. \A u \in Senders : \A b : Holds(u, b)' <=> Holds(u, b)
  BY <1>1 DEF Holds, Away, Checked, ProcInv, ShapeOK
<1>8. PlacedOK'
  BY <1>1, <1>7 DEF ProcInv, PlacedOK, Freed
<1> QED BY <1>1, <1>3, <1>6, <1>8, SentStays, RecvsStays DEF ProcInv

LEMMA AcquireKeeps == ASSUME ProcInv, NEW t \in Senders, AcquireSendOverlapped(t) PROVE ProcInv'
<1>1. PICK b \in 1..MaxSendBuffers :
          /\ IF free # {} THEN b \in free
             ELSE b \notin pool \union sending /\ \A s \in Senders : sender[s].at = "holds" => sender[s].buf # b
          /\ free' = free \ {b} /\ pool' = pool \union {b}
          /\ sender' = [sender EXCEPT ![t] = [at |-> "holds", buf |-> b]]
  BY DEF AcquireSendOverlapped
<1>2. UNCHANGED <<main, running, shutting, socket, registered, process, thread, port, sending>>
  BY DEF AcquireSendOverlapped, SendKeeps
<1>3. [at |-> "holds", buf |-> b] \in Holding
  BY DEF Holding
<1>4. sender[t].at = "checked"
  BY DEF AcquireSendOverlapped
<1>5. main \in 7..11
  BY <1>4 DEF ProcInv, ShapeOK, StartOK, Away
<1>6. Acking' = Acking
  BY <1>2 DEF Acking
<1>7. ShapeOK' /\ StartOK'
  BY <1>1, <1>2, <1>3, <1>5, <1>6 DEF ProcInv, ShapeOK, StartOK
<1>8. \A u \in Senders : \A c : Holds(u, c)' <=> (u = t /\ c = b) \/ (u # t /\ Holds(u, c))
  BY <1>1, <1>4 DEF Holds, ProcInv, ShapeOK
<1>9. \A c : ~Holds(t, c)
  BY <1>4 DEF Holds
<1>10. \A u \in Senders : ~Freed => ~Holds(u, b)
  BY <1>1 DEF Holds, ProcInv, PlacedOK
<1>11. ~Freed => b \notin sending
  BY <1>1 DEF ProcInv, PlacedOK
<1>12. PlacedOK'
  <2> SUFFICES ASSUME ~Freed PROVE PlacedOK'
    BY <1>2 DEF PlacedOK, Freed
  <2>1. free' \subseteq pool' /\ sending' \subseteq pool' /\ free' \intersect sending' = {}
    BY <1>1, <1>2 DEF ProcInv, PlacedOK
  <2>2. \A u \in Senders : \A c : Holds(u, c)' => c \in pool' /\ c \notin free' /\ c \notin sending'
    BY <1>1, <1>2, <1>8, <1>11 DEF ProcInv, PlacedOK
  <2>3. \A u, v \in Senders : \A c : Holds(u, c)' /\ Holds(v, c)' => u = v
    BY <1>8, <1>10 DEF ProcInv, PlacedOK
  <2>4. \A c \in pool' : c \in free' \/ c \in sending' \/ \E u \in Senders : Holds(u, c)'
    BY <1>1, <1>2, <1>8, <1>9 DEF ProcInv, PlacedOK
  <2> QED BY <2>1, <2>2, <2>3, <2>4 DEF PlacedOK
<1> QED BY <1>2, <1>6, <1>7, <1>12, SentStays, RecvsStays DEF ProcInv

LEMMA PostSendKeeps == ASSUME ProcInv, NEW t \in Senders, PostSend(t) PROVE ProcInv'
<1> DEFINE b == sender[t].buf
<1>1. PICK fails \in BOOLEAN : PostedOrBack(t, b, fails)
  BY DEF PostSend
<1>2. /\ sender' = [sender EXCEPT ![t] = Away] /\ sender[t].at = "holds"
      /\ UNCHANGED <<main, running, shutting, socket, registered, process, thread, port, pool>>
  BY DEF PostSend, SendKeeps
<1>3. b \in 1..MaxSendBuffers
  BY <1>2 DEF ProcInv, ShapeOK, Away, Checked, Holding
<1>4. \/ free' = free \union {b} /\ sending' = sending
      \/ free' = free /\ sending' = sending \union {b}
  BY <1>1 DEF PostedOrBack
<1>5. main \in 7..11
  BY <1>2 DEF ProcInv, ShapeOK, StartOK, Away
<1>6. Acking' = Acking
  BY <1>2 DEF Acking
<1>7. Holds(t, b)
  BY <1>2 DEF Holds
<1>8. b = sender[t].buf
  OBVIOUS
<1> HIDE DEF b
<1>9. ShapeOK' /\ StartOK'
  <2>1. sender' \in [Senders -> {Away, Checked} \union Holding]
    BY <1>2 DEF ProcInv, ShapeOK
  <2>2. free' \subseteq 1..MaxSendBuffers /\ sending' \subseteq 1..MaxSendBuffers
    BY <1>3, <1>4 DEF ProcInv, ShapeOK
  <2>3. ShapeOK'
    BY <1>2, <2>1, <2>2 DEF ProcInv, ShapeOK
  <2>4. Recvs(port)' = Recvs(port)
    BY <1>2 DEF Recvs
  <2> QED BY <1>2, <1>5, <1>6, <2>3, <2>4 DEF ProcInv, StartOK
<1>10. SentOK'
  <2>1. port' = port /\ sending \subseteq sending'
    BY <1>2, <1>4
  <2> QED BY <2>1 DEF ProcInv, SentOK
<1>11. \A u \in Senders : \A c : Holds(u, c)' <=> u # t /\ Holds(u, c)
  BY <1>2 DEF Holds, Away, ProcInv, ShapeOK
<1>12. \A c : Holds(t, c) => c = b
  BY <1>8 DEF Holds
<1>13. PlacedOK'
  <2> SUFFICES ASSUME ~Freed PROVE PlacedOK'
    BY <1>2 DEF PlacedOK, Freed
  <2>1. b \in pool /\ b \notin free /\ b \notin sending /\ \A u \in Senders : Holds(u, b) => u = t
    BY <1>7 DEF ProcInv, PlacedOK
  <2>2. free' \subseteq pool' /\ sending' \subseteq pool' /\ free' \intersect sending' = {}
    BY <1>2, <1>4, <2>1 DEF ProcInv, PlacedOK
  <2>3. \A u \in Senders : \A c : Holds(u, c)' => c \in pool' /\ c \notin free' /\ c \notin sending'
    BY <1>2, <1>4, <1>11, <2>1 DEF ProcInv, PlacedOK
  <2>4. \A u, v \in Senders : \A c : Holds(u, c)' /\ Holds(v, c)' => u = v
    BY <1>11 DEF ProcInv, PlacedOK
  <2>5. \A c \in pool' : c \in free' \/ c \in sending' \/ \E u \in Senders : Holds(u, c)'
    BY <1>2, <1>4, <1>11, <1>12 DEF ProcInv, PlacedOK
  <2> QED BY <2>2, <2>3, <2>4, <2>5 DEF PlacedOK
<1> QED BY <1>2, <1>6, <1>9, <1>10, <1>13, RecvsStays DEF ProcInv

\* What completes comes to the port, a send once.
LEMMA SendCompletesKeeps == ASSUME ProcInv, NEW b \in sending, SendCompletes(b) PROVE ProcInv'
<1> DEFINE c == [is |-> "send", buf |-> b]
<1>1. /\ port' = Append(port, c) /\ c \notin {port[i] : i \in DOMAIN port}
      /\ UNCHANGED <<main, running, shutting, socket, pool, sender, process, thread, registered, free, sending>>
  BY DEF SendCompletes, PortKeeps
<1>2. port \in Seq(Completion) /\ c \in Completion /\ c.is = "send" /\ c.buf = b
  BY DEF ProcInv, ShapeOK, Completion, SendDone
<1>3. /\ DOMAIN port = 1..Len(port) /\ DOMAIN port' = 1..(Len(port) + 1) /\ Len(port) \in Nat
      /\ port'[Len(port) + 1] = c /\ \A i \in 1..Len(port) : port'[i] = port[i]
  <2> HIDE DEF c
  <2> QED BY <1>1, <1>2
<1>4. \A i \in DOMAIN port : port[i].is = "send" => port[i].buf # b
  <2> SUFFICES ASSUME NEW i \in DOMAIN port, port[i].is = "send", port[i].buf = b PROVE FALSE
    OBVIOUS
  <2>1. port[i] \in Completion
    BY <1>2
  <2>2. port[i] \in SendDone
    BY <2>1 DEF Completion, Key, RecvDone
  <2>3. port[i] = c
    BY <2>2 DEF SendDone
  <2> QED BY <1>1, <2>3
<1> HIDE DEF c
<1>5. SentOK'
  BY <1>1, <1>2, <1>3, <1>4 DEF ProcInv, SentOK
<1>6. port' \in Seq(Completion)
  BY <1>1, <1>2
<1>7. Cardinality(Recvs(port')) = Cardinality(Recvs(port))
  BY <1>1, <1>2, RecvsAppend, RecvsFinite DEF RecvsOf
<1>8. Acking' = Acking /\ Freed' = Freed
  BY <1>1 DEF Acking, Freed
<1>9. Recvs(port) = {} => Recvs(port') = {}
  BY <1>6, <1>7, RecvsFinite, FS_EmptySet DEF ProcInv, ShapeOK
<1>10. ShapeOK' /\ StartOK'
  BY <1>1, <1>6, <1>8, <1>9 DEF ProcInv, ShapeOK, StartOK
<1>11. RecvsOK'
  BY <1>1, <1>7, <1>8 DEF ProcInv, RecvsOK
<1> QED BY <1>1, <1>5, <1>8, <1>10, <1>11, PlacedStays DEF ProcInv

LEMMA ReceiveCompletesKeeps == ASSUME ProcInv, ReceiveCompletes PROVE ProcInv'
<1>1. /\ port' = Append(port, RecvDone) /\ registered > 0 /\ registered' = registered - 1
      /\ UNCHANGED <<main, running, shutting, socket, pool, sender, process, thread, free, sending>>
  BY DEF ReceiveCompletes, PortKeeps, RecvDone
<1>2. port \in Seq(Completion) /\ RecvDone \in Completion /\ RecvDone.is = "recv" /\ registered \in Nat
  BY DEF ProcInv, ShapeOK, Completion, RecvDone
<1>3. /\ DOMAIN port = 1..Len(port) /\ DOMAIN port' = 1..(Len(port) + 1) /\ Len(port) \in Nat
      /\ port'[Len(port) + 1] = RecvDone /\ \A i \in 1..Len(port) : port'[i] = port[i]
  BY <1>1, <1>2
<1>4. SentOK'
  BY <1>1, <1>2, <1>3 DEF ProcInv, SentOK
<1>5. port' \in Seq(Completion)
  BY <1>1, <1>2
<1>6. Cardinality(Recvs(port')) = Cardinality(Recvs(port)) + 1 /\ Cardinality(Recvs(port)) \in Nat
  BY <1>1, <1>2, RecvsAppend, RecvsFinite DEF RecvsOf
<1>7. Acking' = Acking /\ Freed' = Freed
  BY <1>1 DEF Acking, Freed
<1>8. main \in 11..11
  BY <1>1 DEF ProcInv, ShapeOK, StartOK
<1>9. ShapeOK' /\ StartOK'
  BY <1>1, <1>2, <1>5, <1>8 DEF ProcInv, ShapeOK, StartOK
<1>10. RecvsOK'
  BY <1>1, <1>2, <1>6, <1>7, AckingFinite DEF ProcInv, RecvsOK
<1> QED BY <1>1, <1>4, <1>7, <1>9, <1>10, PlacedStays DEF ProcInv

\* A worker takes the first completion: the key to leave, a buffer that comes
\* back, or a packet.
LEMMA WorkerKeeps == ASSUME ProcInv, NEW w \in Workers, WorkerThread(w) PROVE ProcInv'
<1> DEFINE c == Head(port)
<1>1. /\ thread[w] = "on" /\ port # <<>> /\ shutting.at \notin {"pools", "freed"} /\ port' = Tail(port)
      /\ UNCHANGED <<main, running, shutting, socket, pool, sender, process, registered>>
  BY DEF WorkerThread, PortKeeps
<1>2. port \in Seq(Completion)
  BY DEF ProcInv, ShapeOK
<1>3. /\ c \in Completion /\ port' \in Seq(Completion) /\ Len(port) \in Nat \ {0}
      /\ Len(port') = Len(port) - 1 /\ \A i \in 1..(Len(port) - 1) : port'[i] = port[i + 1]
  BY <1>1, <1>2, HeadTailProperties, EmptySeq
<1>4. DOMAIN port = 1..Len(port) /\ DOMAIN port' = 1..(Len(port) - 1) /\ c = port[1] /\ 1 \in DOMAIN port
  BY <1>2, <1>3
<1>5. Cardinality(Recvs(port)) = Cardinality(Recvs(port')) + RecvsOf(c) /\ Cardinality(Recvs(port')) \in Nat
  BY <1>1, <1>2, <1>3, RecvsTail, RecvsFinite
<1>6. \/ c = Key /\ thread' = [thread EXCEPT ![w] = "exited"] /\ UNCHANGED <<free, sending>>
      \/ /\ c.is = "send" /\ free' = (IF c.buf \in pool THEN free \union {c.buf} ELSE free)
         /\ sending' = sending \ {c.buf} /\ UNCHANGED thread
      \/ c.is = "recv" /\ thread' = [thread EXCEPT ![w] = "acks"] /\ UNCHANGED <<free, sending>>
  BY DEF WorkerThread
<1> HIDE DEF c
<1>7. thread \in [Threads -> {"none", "on", "acks", "acked", "exited", "joined"}] /\ w \in Threads
  BY DEF ProcInv, ShapeOK, Threads
<1>8. thread' \in [Threads -> {"none", "on", "acks", "acked", "exited", "joined"}]
  BY <1>6, <1>7
<1>9. Freed' = Freed /\ ~Freed
  BY <1>1 DEF Freed
<1>10. w \notin Acking
  BY <1>1 DEF Acking
<1>11. CASE c.is # "send"
  <2>1. UNCHANGED <<free, sending>>
    BY <1>6, <1>11
  <2>2. SentOK'
    <3>1. \A i \in DOMAIN port' : i + 1 \in DOMAIN port /\ port'[i] = port[i + 1] /\ i \in Int
      BY <1>3, <1>4
    <3>2. \A i \in DOMAIN port' : port'[i].is = "send" => port'[i].buf \in sending'
      BY <2>1, <3>1 DEF ProcInv, SentOK
    <3>3. ASSUME NEW i \in DOMAIN port', NEW j \in DOMAIN port', port'[i].is = "send", port'[j].is = "send",
                 port'[i].buf = port'[j].buf
          PROVE  i = j
      <4>1. i + 1 = j + 1
        BY <3>1, <3>3 DEF ProcInv, SentOK
      <4> QED BY <3>1, <4>1
    <3> QED BY <3>2, <3>3 DEF SentOK
  <2>3. PlacedOK'
    BY <1>1, <1>9, <2>1, PlacedStays DEF ProcInv
  <2>4. CASE c = Key
    <3>1. Key.is = "key"
      BY DEF Key
    <3>2. thread' = [thread EXCEPT ![w] = "exited"]
      BY <1>6, <2>4, <3>1
    <3>3. Acking' = Acking
      BY <1>7, <1>10, <3>2 DEF Acking
    <3>4. Cardinality(Recvs(port')) = Cardinality(Recvs(port))
      BY <1>5, <2>4, <3>1 DEF RecvsOf
    <3>5. RecvsOK'
      BY <1>1, <3>3, <3>4 DEF ProcInv, RecvsOK
    <3>6. Recvs(port) = {} => Recvs(port') = {}
      BY <1>2, <1>3, <3>4, RecvsFinite, FS_EmptySet
    <3>7. ShapeOK' /\ StartOK'
      BY <1>1, <1>3, <1>8, <2>1, <3>3, <3>6 DEF ProcInv, ShapeOK, StartOK
    <3> QED BY <2>2, <2>3, <3>5, <3>7 DEF ProcInv
  <2>5. CASE c # Key
    <3>1. c.is = "recv" /\ thread' = [thread EXCEPT ![w] = "acks"]
      BY <1>6, <1>11, <2>5
    <3>2. Acking' = Acking \union {w}
      BY <1>7, <1>10, <3>1 DEF Acking
    <3>3. Cardinality(Acking') = Cardinality(Acking) + 1
      BY <1>10, <3>2, AckingFinite, FS_AddElement
    <3>4. Cardinality(Recvs(port)) = Cardinality(Recvs(port')) + 1
      BY <1>5, <3>1 DEF RecvsOf
    <3>5. registered \in Nat /\ RecvCount \in Nat
      BY ProcessAssumption DEF ProcInv, ShapeOK
    <3>6. RecvsOK'
      BY <1>1, <1>5, <3>3, <3>4, <3>5, AckingFinite DEF ProcInv, RecvsOK
    <3>7. Recvs(port) # {}
      BY <1>4, <3>1 DEF Recvs
    <3>8. ~(main <= 10)
      BY <3>7 DEF ProcInv, StartOK
    <3>9. ShapeOK' /\ StartOK'
      BY <1>1, <1>3, <1>8, <2>1, <3>8 DEF ProcInv, ShapeOK, StartOK
    <3> QED BY <2>2, <2>3, <3>6, <3>9 DEF ProcInv
  <2> QED BY <2>4, <2>5
<1>12. CASE c.is = "send"
  <2> DEFINE b == c.buf
  <2>1. c \notin {Key, RecvDone} /\ c \in SendDone
    BY <1>3, <1>12 DEF Completion, Key, RecvDone
  <2>2. /\ free' = (IF b \in pool THEN free \union {b} ELSE free)
        /\ sending' = sending \ {b} /\ UNCHANGED thread
    BY <1>6, <1>12, <2>1 DEF Key
  <2>3. b \in sending /\ b \in 1..MaxSendBuffers /\ b \in pool
    BY <1>4, <1>9, <1>12, <2>1 DEF ProcInv, SentOK, SendDone, PlacedOK
  <2>4. b = port[1].buf /\ port[1].is = "send"
    BY <1>4, <1>12
  <2> HIDE DEF b
  <2>5. free' = free \union {b}
    BY <2>2, <2>3
  <2>6. SentOK'
    <3>1. \A i \in DOMAIN port' : i + 1 \in DOMAIN port /\ port'[i] = port[i + 1] /\ i \in Int /\ i + 1 # 1
      BY <1>3, <1>4
    <3>2. ASSUME NEW i \in DOMAIN port', port'[i].is = "send" PROVE port'[i].buf \in sending'
      <4>1. port[i + 1].buf \in sending
        BY <3>1, <3>2 DEF ProcInv, SentOK
      <4>2. port[i + 1].buf # b
        BY <1>4, <2>4, <3>1, <3>2 DEF ProcInv, SentOK
      <4> QED BY <2>2, <3>1, <4>1, <4>2
    <3>3. ASSUME NEW i \in DOMAIN port', NEW j \in DOMAIN port', port'[i].is = "send", port'[j].is = "send",
                 port'[i].buf = port'[j].buf
          PROVE  i = j
      <4>1. i + 1 = j + 1
        BY <3>1, <3>3 DEF ProcInv, SentOK
      <4> QED BY <3>1, <4>1
    <3> QED BY <3>2, <3>3 DEF SentOK
  <2>7. PlacedOK'
    <3>1. free' \subseteq pool' /\ sending' \subseteq pool' /\ free' \intersect sending' = {}
      BY <1>1, <1>9, <2>2, <2>3, <2>5 DEF ProcInv, PlacedOK
    <3>2. \A t \in Senders : \A d : Holds(t, d)' <=> Holds(t, d)
      BY <1>1 DEF Holds
    <3>3. \A t \in Senders : \A d : Holds(t, d)' => d \in pool' /\ d \notin free' /\ d \notin sending'
      BY <1>1, <1>9, <2>2, <2>3, <2>5, <3>2 DEF ProcInv, PlacedOK
    <3>4. \A t, u \in Senders : \A d : Holds(t, d)' /\ Holds(u, d)' => t = u
      BY <1>9, <3>2 DEF ProcInv, PlacedOK
    <3>5. \A d \in pool' : d \in free' \/ d \in sending' \/ \E t \in Senders : Holds(t, d)'
      BY <1>1, <1>9, <2>2, <2>5, <3>2 DEF ProcInv, PlacedOK
    <3> QED BY <3>1, <3>3, <3>4, <3>5 DEF PlacedOK
  <2>8. Acking' = Acking
    BY <2>2 DEF Acking
  <2>9. Cardinality(Recvs(port')) = Cardinality(Recvs(port))
    BY <1>5, <1>12 DEF RecvsOf
  <2>10. RecvsOK'
    BY <1>1, <2>8, <2>9 DEF ProcInv, RecvsOK
  <2>11. Recvs(port) = {} => Recvs(port') = {}
    BY <1>2, <1>3, <2>9, RecvsFinite, FS_EmptySet
  <2>12. ~(main <= 6)
    BY <2>3 DEF ProcInv, StartOK
  <2>13. ShapeOK' /\ StartOK'
    BY <1>1, <1>3, <1>8, <2>2, <2>3, <2>5, <2>8, <2>11, <2>12 DEF ProcInv, ShapeOK, StartOK
  <2> QED BY <2>6, <2>7, <2>10, <2>13 DEF ProcInv
<1> QED BY <1>11, <1>12

LEMMA RepostRecvKeeps == ASSUME ProcInv, NEW w \in Workers, RepostRecv(w) PROVE ProcInv'
<1>1. /\ thread[w] \in {"acks", "acked"} /\ thread' = [thread EXCEPT ![w] = "on"]
      /\ UNCHANGED <<main, running, shutting, socket, pool, sender, process, port, free, sending>>
  BY DEF RepostRecv, PortKeeps
<1>2. registered' \in {registered, registered + 1}
  BY DEF RepostRecv
<1>3. thread \in [Threads -> {"none", "on", "acks", "acked", "exited", "joined"}] /\ w \in Threads
      /\ registered \in Nat /\ RecvCount \in Nat /\ port \in Seq(Completion)
  BY ProcessAssumption DEF ProcInv, ShapeOK, Threads
<1>4. w \in Acking /\ Acking' = Acking \ {w}
  BY <1>1, <1>3 DEF Acking
<1>5. Cardinality(Acking') = Cardinality(Acking) - 1
  BY <1>4, AckingFinite, FS_RemoveElement
<1>6. ~(main <= 10)
  BY <1>4 DEF ProcInv, StartOK
<1>7. thread' \in [Threads -> {"none", "on", "acks", "acked", "exited", "joined"}]
  BY <1>1, <1>3
<1>8. ShapeOK' /\ StartOK'
  BY <1>1, <1>2, <1>3, <1>6, <1>7 DEF ProcInv, ShapeOK, StartOK
<1>9. RecvsOK'
  BY <1>1, <1>2, <1>3, <1>5, AckingFinite, RecvsFinite DEF ProcInv, RecvsOK
<1>10. Freed' = Freed
  BY <1>1 DEF Freed
<1> QED BY <1>1, <1>8, <1>9, <1>10, SentStays, PlacedStays DEF ProcInv

\* The broadcast thread ends.
LEMMA BroadcastEndsKeeps == ASSUME ProcInv, BroadcastLoopEnds PROVE ProcInv'
<1>1. /\ thread' = [thread EXCEPT !["broadcast"] = "exited"]
      /\ UNCHANGED <<main, running, shutting, socket, pool, sender, process, port, registered, free, sending>>
  BY DEF BroadcastLoopEnds, PortKeeps
<1>2. thread \in [Threads -> {"none", "on", "acks", "acked", "exited", "joined"}] /\ "broadcast" \notin Workers
  BY ProcessAssumption DEF ProcInv, ShapeOK
<1>3. Acking' = Acking /\ Freed' = Freed
  BY <1>1, <1>2 DEF Acking, Freed, Threads
<1>4. thread' \in [Threads -> {"none", "on", "acks", "acked", "exited", "joined"}]
  BY <1>1, <1>2
<1>5. ShapeOK' /\ StartOK'
  BY <1>1, <1>3, <1>4 DEF ProcInv, ShapeOK, StartOK
<1> QED BY <1>1, <1>3, <1>5, SentStays, PlacedStays, RecvsStays DEF ProcInv

\* Shutdown posts a key for every worker, and joins, closes and frees.
LEMMA ShutdownBegins == ASSUME ProcInv, Shutdown PROVE ProcInv'
<1> DEFINE mine == {w \in Workers : thread[w] # "none"}
           n == Cardinality(mine)
<1>1. /\ running /\ running' = FALSE /\ shutting' = [at |-> "workers", of |-> mine]
      /\ port' = port \o [i \in 1..n |-> Key]
      /\ UNCHANGED <<main, thread, socket, registered, pool, free, sending, sender, process>>
  BY DEF Shutdown
<1>2. n \in Nat /\ port \in Seq(Completion)
  BY ProcessAssumption, FS_Subset, FS_CardinalityType DEF ProcInv, ShapeOK
<1>3. shutting' \in Stages /\ shutting'.at = "workers"
  BY <1>1 DEF Stages
<1> HIDE DEF mine, n
<1>4. /\ port' \in Seq(Completion) /\ Recvs(port') = Recvs(port)
      /\ \A i \in 1..Len(port') : IF i <= Len(port) THEN port'[i] = port[i] ELSE port'[i] = Key
  BY <1>1, <1>2, RecvsKeys
<1>5. DOMAIN port = 1..Len(port) /\ DOMAIN port' = 1..Len(port') /\ Len(port) \in Nat /\ Len(port') \in Nat
  BY <1>2, <1>4
<1>6. \A i \in DOMAIN port' : port'[i].is = "send" => i \in DOMAIN port /\ port'[i] = port[i]
  <2>1. Key.is # "send"
    BY DEF Key
  <2> QED BY <1>4, <1>5, <2>1
<1>7. SentOK'
  <2>1. sending' = sending
    BY <1>1
  <2>2. \A i \in DOMAIN port' : port'[i].is = "send" => port'[i].buf \in sending'
    BY <1>6, <2>1 DEF ProcInv, SentOK
  <2>3. ASSUME NEW i \in DOMAIN port', NEW j \in DOMAIN port', port'[i].is = "send", port'[j].is = "send",
               port'[i].buf = port'[j].buf
        PROVE  i = j
    <3>1. i \in DOMAIN port /\ j \in DOMAIN port /\ port'[i] = port[i] /\ port'[j] = port[j]
      BY <1>6, <2>3
    <3> QED BY <2>3, <3>1 DEF ProcInv, SentOK
  <2> QED BY <2>2, <2>3 DEF SentOK
<1>8. Acking' = Acking
  BY <1>1 DEF Acking
<1>9. main \in 8..11
  BY <1>1 DEF ProcInv, ShapeOK, StartOK
<1>10. ShapeOK' /\ StartOK'
  BY <1>1, <1>3, <1>4, <1>8, <1>9 DEF ProcInv, ShapeOK, StartOK
<1>11. ~Freed /\ ~Freed'
  BY <1>1, <1>3 DEF Freed, ProcInv, StartOK
<1>12. PlacedOK'
  BY <1>1, <1>11, PlacedStays DEF ProcInv
<1>13. RecvsOK'
  BY <1>1, <1>4, <1>8 DEF ProcInv, RecvsOK
<1> QED BY <1>7, <1>10, <1>12, <1>13 DEF ProcInv

LEMMA StoppingKeeps == ASSUME ProcInv, Stopping PROVE ProcInv'
<1>1. UNCHANGED <<main, running, port, sending, sender, process>>
  BY DEF Stopping, JoinThreads, CloseSocket, FreePools, ShutKeeps
<1>2. shutting.at # "away" /\ ~running /\ main \in 8..11
  BY DEF Stopping, JoinThreads, CloseSocket, FreePools, ProcInv, ShapeOK, StartOK
<1>3. SentOK'
  BY <1>1, SentStays DEF ProcInv
<1>4. thread \in [Threads -> {"none", "on", "acks", "acked", "exited", "joined"}]
  BY DEF ProcInv, ShapeOK
<1>5. CASE JoinThreads
  <2>1. UNCHANGED <<socket, registered, pool, free>>
    BY <1>5 DEF JoinThreads
  <2>2. ~Freed /\ shutting' \in Stages /\ shutting'.at \in {"broadcast", "close"}
    BY <1>5 DEF JoinThreads, Freed, Stages
  <2>3. /\ thread' \in [Threads -> {"none", "on", "acks", "acked", "exited", "joined"}]
        /\ \A w \in Workers : thread'[w] # thread[w] => thread[w] = "exited" /\ thread'[w] = "joined"
    <3>1. CASE /\ shutting.at = "workers" /\ \A w \in shutting.of : thread[w] = "exited"
               /\ thread' = [t \in DOMAIN thread |-> IF t \in shutting.of THEN "joined" ELSE thread[t]]
      BY <1>4, <3>1 DEF Threads
    <3>2. CASE thread' = [thread EXCEPT !["broadcast"] = IF @ = "none" THEN @ ELSE "joined"]
      <4>1. "broadcast" \notin Workers
        BY ProcessAssumption
      <4> QED BY <1>4, <3>2, <4>1 DEF Threads
    <3> QED BY <1>5, <3>1, <3>2 DEF JoinThreads
  <2>4. Acking' = Acking
    <3>1. \A w \in Workers : thread'[w] \in {"acks", "acked"} <=> thread[w] \in {"acks", "acked"}
      BY <2>3
    <3> QED BY <3>1 DEF Acking
  <2>5. ShapeOK' /\ StartOK'
    BY <1>1, <1>2, <2>1, <2>2, <2>3, <2>4 DEF ProcInv, ShapeOK, StartOK
  <2>6. PlacedOK' /\ RecvsOK'
    BY <1>1, <2>1, <2>2, <2>4, PlacedStays, RecvsStays DEF ProcInv
  <2> QED BY <1>3, <2>5, <2>6 DEF ProcInv
<1>6. CASE CloseSocket
  <2>1. UNCHANGED <<thread, pool, free>> /\ socket' = FALSE /\ registered' = 0
    BY <1>6 DEF CloseSocket
  <2>2. ~Freed /\ shutting' \in Stages /\ shutting'.at = "pools"
    BY <1>6 DEF CloseSocket, Freed, Stages
  <2>3. Acking' = Acking
    BY <2>1 DEF Acking
  <2>4. ShapeOK' /\ StartOK'
    BY <1>1, <1>2, <2>1, <2>2, <2>3 DEF ProcInv, ShapeOK, StartOK
  <2>5. PlacedOK'
    BY <1>1, <2>1, <2>2, PlacedStays DEF ProcInv
  <2>6. RecvsOK'
    <3>1. Cardinality(Recvs(port)) \in Nat /\ registered \in Nat /\ RecvCount \in Nat
      BY RecvsFinite, ProcessAssumption DEF ProcInv, ShapeOK
    <3> QED BY <1>1, <2>1, <2>3, <3>1, AckingFinite DEF ProcInv, RecvsOK
  <2> QED BY <1>3, <2>4, <2>5, <2>6 DEF ProcInv
<1>7. CASE FreePools
  <2>1. UNCHANGED <<thread, socket, registered>> /\ pool' = {} /\ free' = {}
    BY <1>7 DEF FreePools
  <2>2. Freed' /\ shutting' \in Stages /\ shutting'.at = "freed"
    BY <1>7 DEF FreePools, Freed, Stages
  <2>3. Acking' = Acking
    BY <2>1 DEF Acking
  <2>4. ShapeOK' /\ StartOK'
    BY <1>1, <1>2, <2>1, <2>2, <2>3 DEF ProcInv, ShapeOK, StartOK
  <2>5. PlacedOK'
    BY <2>2 DEF PlacedOK
  <2> QED BY <1>1, <1>3, <2>1, <2>3, <2>4, <2>5, RecvsStays DEF ProcInv
<1> QED BY <1>5, <1>6, <1>7 DEF Stopping

\* main returns: the process ends, and nothing else of it changes.
LEMMA MainReturnsKeeps == ASSUME ProcInv, MainReturns PROVE ProcInv'
<1>1. /\ UNCHANGED <<main, running, shutting, thread, port, socket, registered, pool, free, sending, sender>>
      /\ process' \in {"alive", "failed", "over", "terminated"}
  BY DEF MainReturns
<1>2. Acking' = Acking /\ Freed' = Freed /\ Recvs(port)' = Recvs(port)
  BY <1>1 DEF Acking, Freed, Recvs
<1>3. ShapeOK' /\ StartOK'
  BY <1>1, <1>2 DEF ProcInv, ShapeOK, StartOK
<1> QED BY <1>1, <1>2, <1>3, SentStays, PlacedStays, RecvsStays DEF ProcInv

LEMMA ProcInvInit == ProcInit => ProcInv
<1> SUFFICES ASSUME ProcInit PROVE ProcInv
  OBVIOUS
<1>1. /\ main = 1 /\ running = FALSE /\ socket = FALSE /\ registered = 0 /\ shutting = Away
      /\ thread = [t \in Workers \union {"broadcast"} |-> "none"] /\ port = <<>>
      /\ pool = {} /\ free = {} /\ sending = {} /\ sender = [t \in Senders |-> Away] /\ process = "alive"
  BY DEF ProcInit
<1>2. port \in Seq(Completion) /\ DOMAIN port = {}
  BY <1>1, EmptySeq
<1>3. shutting \in Stages /\ shutting.at = "away"
  BY <1>1 DEF Stages, Away
<1>4. thread \in [Threads -> {"none", "on", "acks", "acked", "exited", "joined"}]
  BY <1>1 DEF Threads
<1>5. ShapeOK
  <2>1. sender \in [Senders -> {Away, Checked} \union Holding]
    BY <1>1
  <2>2. main \in 1..11 /\ registered \in Nat /\ pool \subseteq 1..MaxSendBuffers
        /\ free \subseteq 1..MaxSendBuffers /\ sending \subseteq 1..MaxSendBuffers
    BY <1>1
  <2> QED BY <1>1, <1>2, <1>3, <1>4, <2>1, <2>2 DEF ShapeOK
<1>6. Recvs(port) = {} /\ Acking = {}
  BY <1>1, <1>2 DEF Recvs, Acking
<1>7. StartOK
  BY <1>1, <1>3, <1>6 DEF StartOK
<1>8. SentOK /\ PlacedOK
  BY <1>1, <1>2 DEF SentOK, PlacedOK, Holds, Away
<1>9. RecvsOK
  <2>1. Cardinality(Recvs(port)) = 0 /\ Cardinality(Acking) = 0 /\ registered = 0
    BY <1>1, <1>6, FS_EmptySet
  <2>2. RecvCount \in Nat
    BY ProcessAssumption
  <2> QED BY <2>1, <2>2 DEF RecvsOK
<1> QED BY <1>5, <1>7, <1>8, <1>9 DEF ProcInv

LEMMA ProcInvNext == ProcInv /\ [ProcNext]_procVars => ProcInv'
<1> SUFFICES ASSUME ProcInv, [ProcNext]_procVars PROVE ProcInv'
  OBVIOUS
<1>1. CASE Starting
  BY <1>1, StartKeepsInv
<1>2. CASE Shutdown \/ MainReturns \/ BroadcastLoopEnds \/ ReceiveCompletes
  BY <1>2, ShutdownBegins, MainReturnsKeeps, BroadcastEndsKeeps, ReceiveCompletesKeeps
<1>3. CASE \E t \in Senders : CheckRunning(t) \/ Sends(t)
  BY <1>3, CheckRunningKeeps, AcquireKeeps, PostSendKeeps DEF Sends
<1>4. CASE \E b \in sending : SendCompletes(b)
  BY <1>4, SendCompletesKeeps
<1>5. CASE \E w \in Workers : WorkerThread(w) \/ RepostRecv(w)
  BY <1>5, WorkerKeeps, RepostRecvKeeps
<1>6. CASE Stopping
  BY <1>6, StoppingKeeps
<1>7. CASE UNCHANGED procVars
  <2>1. UNCHANGED <<main, running, shutting, thread, port, socket, registered, pool, free, sending, sender, process>>
    BY <1>7 DEF procVars
  <2>2. Acking' = Acking /\ Freed' = Freed /\ Recvs(port)' = Recvs(port)
    BY <2>1 DEF Acking, Freed, Recvs
  <2>3. ShapeOK' /\ StartOK'
    BY <2>1, <2>2 DEF ProcInv, ShapeOK, StartOK
  <2> QED BY <2>1, <2>2, <2>3, SentStays, PlacedStays, RecvsStays DEF ProcInv
<1> QED BY <1>1, <1>2, <1>3, <1>4, <1>5, <1>6, <1>7 DEF ProcNext

\* What the invariant says of the buffers, counted.
LEMMA ProcInvCounts == ProcInv => BuffersInOnePlace
<1> SUFFICES ASSUME ProcInv, ~Freed PROVE BuffersInOnePlace
  BY DEF BuffersInOnePlace
<1>1. PlacedOK /\ RecvsOK
  BY DEF ProcInv
<1>2. ASSUME NEW b \in pool
      PROVE  (IF b \in free THEN 1 ELSE 0) + Cardinality(HeldBy(b)) + (IF b \in sending THEN 1 ELSE 0) = 1
  <2>1. HeldBy(b) = {t \in Senders : Holds(t, b)}
    BY DEF HeldBy, Holds
  <2>2. CASE \E t \in Senders : Holds(t, b)
    <3>1. PICK t \in Senders : Holds(t, b)
      BY <2>2
    <3>2. HeldBy(b) = {t} /\ b \notin free /\ b \notin sending
      <4>1. \A u \in Senders : Holds(u, b) => u = t
        BY <1>1, <3>1 DEF PlacedOK
      <4>2. b \notin free /\ b \notin sending
        BY <1>1, <3>1 DEF PlacedOK
      <4> QED BY <2>1, <3>1, <4>1, <4>2
    <3>3. Cardinality(HeldBy(b)) = 1
      BY <3>2, FS_Singleton, Zenon
    <3> QED BY <3>2, <3>3
  <2>3. CASE ~\E t \in Senders : Holds(t, b)
    <3>1. HeldBy(b) = {} /\ (b \in free \/ b \in sending) /\ ~(b \in free /\ b \in sending)
      BY <1>1, <1>2, <2>1, <2>3 DEF PlacedOK
    <3> QED BY <3>1, FS_EmptySet
  <2> QED BY <2>2, <2>3
<1>3. registered + Cardinality({i \in DOMAIN port : port[i].is = "recv"})
          + Cardinality({w \in Workers : thread[w] \in {"acks", "acked"}}) <= RecvCount
  BY <1>1 DEF RecvsOK, Recvs, Acking
<1> QED BY <1>2, <1>3 DEF BuffersInOnePlace

LEMMA ProcInvType == ProcInv => ProcTypeOK
<1> SUFFICES ASSUME ProcInv PROVE ProcTypeOK
  OBVIOUS
<1>1. ShapeOK /\ RecvsOK
  BY DEF ProcInv
<1>2. main \in DOMAIN Steps /\ {running, socket} \subseteq BOOLEAN /\ process \in {"alive", "failed", "over", "terminated"}
  BY <1>1, StepNumbers DEF ShapeOK
<1>3. \A t \in DOMAIN thread : thread[t] \in {"none", "on", "acks", "acked", "exited", "joined"}
  BY <1>1 DEF ShapeOK
<1>4. pool \union free \union sending \subseteq 1..MaxSendBuffers
  BY <1>1 DEF ShapeOK
<1>5. registered \in 0..RecvCount
  <2>1. registered \in Nat /\ Cardinality(Recvs(port)) \in Nat /\ RecvCount \in Nat
    BY <1>1, RecvsFinite, ProcessAssumption DEF ShapeOK
  <2> QED BY <1>1, <2>1, AckingFinite DEF RecvsOK
<1>6. \A t \in Senders : sender[t].at \in {"away", "checked", "holds"}
  <2> SUFFICES ASSUME NEW t \in Senders PROVE sender[t].at \in {"away", "checked", "holds"}
    OBVIOUS
  <2>1. sender[t] \in {Away, Checked} \union Holding
    BY <1>1 DEF ShapeOK
  <2> QED BY <2>1 DEF Away, Checked, Holding
<1> QED BY <1>2, <1>3, <1>4, <1>5, <1>6 DEF ProcTypeOK

-----------------------------------------------------------------------------
(* What visitors are told of each other: types *)

\* A client, and what the server knows of a user who is there.
Client == [era : Eras, seq : 0..MaxNumber, changes : Seq(Eras), joined : BOOLEAN]
Known == [here : {TRUE}, seq : 0..MaxNumber, era : Eras \union {0}, changes : Nat,
          un : [has : BOOLEAN, high : 0..MaxNumber]]
TransformPacket == [kind : {"transform"}, user : Users, seq : 0..MaxNumber, era : Eras]
ChangePacket == [kind : {"change"}, user : Users, seq : Nat, era : Eras]

WorldInv ==
    /\ client \in [Users -> Client]
    /\ session \in [Users -> {Absent} \union Known]
    /\ air \subseteq TransformPacket
    /\ pushed \subseteq TransformPacket \union ChangePacket
    /\ \A p \in pushed : session[p.user].here

LEMMA WorldInvInit == WorldInit => WorldInv
<1> SUFFICES ASSUME WorldInit PROVE WorldInv
  OBVIOUS
<1>1. client \in [Users -> Client]
  <2>1. \A u \in Users : [era |-> EraOf[u], seq |-> 0, changes |-> <<>>, joined |-> FALSE] \in Client
    <3>1. <<>> \in Seq(Eras) /\ 0 \in 0..MaxNumber
      BY EmptySeq, WorldAssumption
    <3> QED BY <3>1, WorldAssumption DEF Client
  <2> QED BY <2>1 DEF WorldInit
<1>2. session \in [Users -> {Absent} \union Known]
  <2>1. 0 \in 0..MaxNumber /\ MaxNumber \in 0..MaxNumber /\ 0 \in Nat
    BY WorldAssumption
  <2>2. \A u \in Users : Present(MaxNumber, EraOf[u]) \in Known
    BY <2>1, WorldAssumption DEF Present, Known, UnreliableInit
  <2> QED BY <2>2 DEF WorldInit
<1> QED BY <1>1, <1>2 DEF WorldInit, WorldInv

\* A client joins, sends and changes eras.
LEMMA ClientKeeps ==
    ASSUME WorldInv, NEW u \in Movers, SendJoin(u) \/ SendTransform(u) \/ \E e \in Eras : ChangeEra(u, e)
    PROVE  WorldInv'
<1>1. u \in Users /\ client[u] \in Client
  BY WorldAssumption DEF WorldInv
<1>2. CASE SendJoin(u)
  <2>1. [client[u] EXCEPT !.joined = TRUE] \in Client
    BY <1>1 DEF Client
  <2>2. client' \in [Users -> Client]
    BY <1>2, <2>1 DEF SendJoin, WorldInv
  <2>3. Present(0, 0) \in Known
    BY WorldAssumption DEF Present, Known, UnreliableInit
  <2>4. session' \in [Users -> {Absent} \union Known] /\ \A v \in Users : session[v].here => session'[v].here
    <3>1. CASE session' = session
      BY <3>1 DEF WorldInv
    <3>2. CASE session' = [session EXCEPT ![u] = Present(0, 0)]
      <4>1. Present(0, 0).here
        BY <2>3 DEF Known
      <4> QED BY <1>1, <2>3, <3>2, <4>1 DEF WorldInv
    <3> QED BY <1>2, <3>1, <3>2 DEF SendJoin
  <2>5. air' = air /\ pushed' = pushed
    BY <1>2 DEF SendJoin
  <2>6. \A p \in pushed : p.user \in Users
    BY DEF WorldInv, TransformPacket, ChangePacket
  <2>7. \A p \in pushed : session'[p.user].here
    BY <2>4, <2>6 DEF WorldInv
  <2> QED BY <2>2, <2>4, <2>5, <2>7 DEF WorldInv
<1>3. CASE SendTransform(u)
  <2>1. [client[u] EXCEPT !.seq = IF @ = MaxNumber THEN @ ELSE @ + 1] \in Client
    <3>1. MaxNumber \in Nat /\ client[u].seq \in 0..MaxNumber
      BY <1>1, WorldAssumption DEF Client
    <3>2. (IF client[u].seq = MaxNumber THEN client[u].seq ELSE client[u].seq + 1) \in 0..MaxNumber
      BY <3>1
    <3> QED BY <1>1, <3>2 DEF Client
  <2>2. client' \in [Users -> Client]
    BY <1>3, <2>1 DEF SendTransform, WorldInv
  <2>3. TransformOf(u) \in TransformPacket
    BY <1>1 DEF Client, TransformOf, TransformPacket
  <2>4. air' \subseteq TransformPacket
    BY <1>3, <2>3 DEF SendTransform, WorldInv
  <2> QED BY <1>3, <2>2, <2>4 DEF SendTransform, WorldInv
<1>4. CASE \E e \in Eras : ChangeEra(u, e)
  <2>1. PICK e \in Eras : ChangeEra(u, e)
    BY <1>4
  <2>2. Append(client[u].changes, e) \in Seq(Eras)
    BY <1>1 DEF Client
  <2>3. [client[u] EXCEPT !.era = e, !.changes = Append(@, e)] \in Client
    BY <1>1, <2>2 DEF Client
  <2>4. client' = [client EXCEPT ![u] = [client[u] EXCEPT !.era = e, !.changes = Append(@, e)]]
    BY <2>1 DEF ChangeEra
  <2> QED BY <2>1, <2>3, <2>4 DEF ChangeEra, WorldInv
<1> QED BY <1>2, <1>3, <1>4

\* The server takes what comes.
LEMMA TakenKeeps ==
    ASSUME WorldInv, (\E t \in air : ReceiveTransform(t)) \/ \E u \in Movers : ReceiveChange(u)
    PROVE  WorldInv'
<1>1. CASE \E t \in air : ReceiveTransform(t)
  <2>1. PICK t \in air : ReceiveTransform(t)
    BY <1>1
  <2>2. t \in TransformPacket /\ t.user \in Users /\ t.seq \in 0..MaxNumber
    BY DEF WorldInv, TransformPacket
  <2>3. air' \subseteq TransformPacket /\ client' = client
    BY <2>1 DEF ReceiveTransform, WorldInv
  <2>4. CASE UNCHANGED <<session, pushed>>
    BY <2>3, <2>4 DEF WorldInv
  <2>5. CASE /\ session[t.user].here
             /\ session' = [session EXCEPT ![t.user].un = [has |-> TRUE, high |-> t.seq]]
             /\ pushed' = pushed \union {t}
    <3>1. session[t.user] \in Known
      BY <2>2, <2>5 DEF WorldInv, Absent
    <3>2. [session[t.user] EXCEPT !.un = [has |-> TRUE, high |-> t.seq]] \in Known
      BY <2>2, <3>1 DEF Known
    <3>3. session' = [session EXCEPT ![t.user] = [session[t.user] EXCEPT !.un = [has |-> TRUE, high |-> t.seq]]]
      BY <2>5
    <3>4. session' \in [Users -> {Absent} \union Known]
      BY <2>2, <3>2, <3>3 DEF WorldInv
    <3>5. \A v \in Users : session[v].here => session'[v].here
      BY <2>2, <3>2, <3>3 DEF WorldInv, Known
    <3>6. \A p \in pushed : p.user \in Users
      BY DEF WorldInv, TransformPacket, ChangePacket
    <3> QED BY <2>2, <2>3, <2>5, <3>4, <3>5, <3>6 DEF WorldInv
  <2> QED BY <2>1, <2>4, <2>5 DEF ReceiveTransform
<1>2. CASE \E u \in Movers : ReceiveChange(u)
  <2>1. PICK u \in Movers : ReceiveChange(u)
    BY <1>2
  <2> DEFINE n == session[u].changes + 1
             p == [kind |-> "change", user |-> u, seq |-> n, era |-> client[u].changes[n]]
  <2>2. /\ session[u].here /\ session[u].changes < Len(client[u].changes)
        /\ session' = [session EXCEPT ![u].changes = n] /\ pushed' = pushed \union {p}
        /\ UNCHANGED <<client, air>>
    BY <2>1 DEF ReceiveChange
  <2>3. u \in Users /\ session[u] \in Known /\ client[u] \in Client
    BY <2>2, WorldAssumption DEF WorldInv, Absent
  <2>4. n \in Nat /\ n \in 1..Len(client[u].changes) /\ client[u].changes \in Seq(Eras)
    <3>1. session[u].changes \in Nat
      BY <2>3 DEF Known
    <3>2. client[u].changes \in Seq(Eras)
      BY <2>3 DEF Client
    <3>3. Len(client[u].changes) \in Nat
      BY <3>2
    <3> QED BY <2>2, <3>1, <3>2, <3>3
  <2>5. client[u].changes[n] \in Eras
    BY <2>4
  <2>6. p \in ChangePacket
    BY <2>3, <2>4, <2>5 DEF ChangePacket
  <2>7. [session[u] EXCEPT !.changes = n] \in Known
    BY <2>3, <2>4 DEF Known
  <2>8. session' = [session EXCEPT ![u] = [session[u] EXCEPT !.changes = n]] /\ p.user = u
    BY <2>2
  <2> HIDE DEF n, p
  <2>9. session' \in [Users -> {Absent} \union Known]
    BY <2>3, <2>7, <2>8 DEF WorldInv
  <2>10. \A v \in Users : session[v].here => session'[v].here
    BY <2>3, <2>7, <2>8 DEF WorldInv, Known
  <2>11. \A q \in pushed : q.user \in Users
    BY DEF WorldInv, TransformPacket, ChangePacket
  <2> QED BY <2>2, <2>3, <2>6, <2>8, <2>9, <2>10, <2>11 DEF WorldInv
<1> QED BY <1>1, <1>2

\* A logic thread handles what the server took.
LEMMA HandleKeeps == ASSUME WorldInv, NEW p \in pushed, Handle(p) PROVE WorldInv'
<1>1. p \in TransformPacket \union ChangePacket /\ p.user \in Users /\ p.era \in Eras /\ session[p.user].here
  BY DEF WorldInv, TransformPacket, ChangePacket
<1>2. session[p.user] \in Known
  BY <1>1 DEF WorldInv, Absent
<1>3. p.kind = "transform" => PublishTransform(session[p.user], p) \in Known
  BY <1>1, <1>2 DEF PublishTransform, Known, TransformPacket, ChangePacket
<1>4. SetEra(session[p.user], p) \in Known
  BY <1>1, <1>2 DEF SetEra, Known
<1>5. PICK s \in Known : session' = [session EXCEPT ![p.user] = s]
  BY <1>3, <1>4 DEF Handle
<1>6. session' \in [Users -> {Absent} \union Known]
  BY <1>1, <1>5 DEF WorldInv
<1>7. \A v \in Users : session[v].here => session'[v].here
  BY <1>1, <1>5 DEF WorldInv, Known
<1>8. \A q \in pushed : q.user \in Users
  BY DEF WorldInv, TransformPacket, ChangePacket
<1> QED BY <1>6, <1>7, <1>8 DEF Handle, WorldInv

LEMMA WorldInvNext == WorldInv /\ [WorldNext]_worldVars => WorldInv'
<1> SUFFICES ASSUME WorldInv, [WorldNext]_worldVars PROVE WorldInv'
  OBVIOUS
<1>1. CASE UNCHANGED worldVars
  BY <1>1 DEF WorldInv, worldVars
<1>2. CASE Broadcasting
  BY <1>2 DEF Broadcasting, BroadcastTick, ReadPeer, WorldInv
<1>3. CASE \E u \in Movers : SendJoin(u) \/ SendTransform(u) \/ ReceiveChange(u) \/ \E e \in Eras : ChangeEra(u, e)
  BY <1>3, ClientKeeps, TakenKeeps
<1>4. CASE \E t \in air : ReceiveTransform(t)
  BY <1>4, TakenKeeps
<1>5. CASE \E p \in pushed : Handle(p)
  BY <1>5, HandleKeeps
<1> QED BY <1>1, <1>2, <1>3, <1>4, <1>5 DEF WorldNext

LEMMA WorldInvType == WorldInv => WorldTypeOK
<1> SUFFICES ASSUME WorldInv PROVE WorldTypeOK
  OBVIOUS
<1>1. \A u \in Users : client[u].era \in Eras /\ client[u].seq \in 0..MaxNumber
  BY DEF WorldInv, Client
<1>2. ASSUME NEW u \in Users, session[u].here
      PROVE  session[u].seq \in 0..MaxNumber /\ session[u].era \in Eras \union {0}
  <2>1. session[u] \in Known
    BY <1>2 DEF WorldInv, Absent
  <2> QED BY <2>1 DEF Known
<1>3. \A t \in air \union pushed : t.user \in Users /\ t.era \in Eras
  BY DEF WorldInv, TransformPacket, ChangePacket
<1> QED BY <1>1, <1>2, <1>3 DEF WorldTypeOK

-----------------------------------------------------------------------------
(* The server *)

ServerInv == PipeInv /\ ProcInv /\ WorldInv

LEMMA ServerInvInit == Init => ServerInv
BY PipeInvInit, ProcInvInit, WorldInvInit DEF Init, ServerInv

\* A step is of one side, and leaves the other two as they are.
LEMMA ServerInvNext == ServerInv /\ [Next]_vars => ServerInv'
<1> SUFFICES ASSUME ServerInv, [Next]_vars PROVE ServerInv'
  OBVIOUS
<1>1. [PipeNext]_pipeVars /\ [ProcNext]_procVars /\ [WorldNext]_worldVars
  <2>1. CASE Pipeline(PipeNext)
    BY <2>1 DEF Pipeline
  <2>2. CASE Process(ProcNext)
    BY <2>2 DEF Process
  <2>3. CASE World(WorldNext)
    BY <2>3 DEF World
  <2>4. CASE UNCHANGED vars
    BY <2>4 DEF vars
  <2> QED BY <2>1, <2>2, <2>3, <2>4 DEF Next
<1> QED BY <1>1, PipeInvNext, ProcInvNext, WorldInvNext DEF ServerInv

\* The invariant of channel, buffers and world, at every moment.
THEOREM ServerInvAlways == Spec => []ServerInv
BY ServerInvInit, ServerInvNext, PTL DEF Spec

\* The state of the server keeps its types, on all its three sides.
THEOREM ServerKeepsItsTypes == Spec => []TypeOK
<1>1. ServerInv => TypeOK
  BY PipeInvType, ProcInvType, WorldInvType DEF ServerInv, TypeOK
<1> QED BY <1>1, ServerInvAlways, PTL

\* A reliable packet that its channel has given out is in one place of the server
\* and no more, whatever the workers and the logic threads do with their packets,
\* in whatever order, and Shutdown with them (WorkerThread, DispatchPacket,
\* EnqueueLogic, LogicThread, Shutdown).
THEOREM PacketsAreHandledOnce == Spec => []NoneLostNoneTwice
<1>1. ServerInv => NoneLostNoneTwice
  BY PipeInvCounts DEF ServerInv
<1> QED BY <1>1, ServerInvAlways, PTL

\* Every send buffer is in one place until the pools are freed, and no more
\* receives are registered, waiting or dealt with than there are buffers,
\* however many threads send and whenever the server stops (SendTo,
\* OnSendCompleted, PostRecv, Shutdown).
THEOREM BuffersAreInOnePlace == Spec => []BuffersInOnePlace
<1>1. ServerInv => BuffersInOnePlace
  BY ProcInvCounts DEF ServerInv
<1> QED BY <1>1, ServerInvAlways, PTL
=============================================================================
