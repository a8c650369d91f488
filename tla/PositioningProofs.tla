--------------------------- MODULE PositioningProofs ---------------------------
(***************************************************************************)
(* Theorems about how the app finds out where the user is (MCPositioning), *)
(* for any anchors, places, bounds, markers and lists the server answers:  *)
(* the queue of cloud anchors (NavCloudResolver), the reference anchor     *)
(* (NavReferenceAnchor), and the localizer with its overlay                *)
(* (NavLocalizer).  Each part has its invariant and the lemma that its     *)
(* steps keep it; the theorems are at the end.                             *)
(***************************************************************************)
EXTENDS MCPositioning, SequenceTheorems, Induction

---------------------------------------------------------------------------
(* Least and greatest                                                      *)

\* The least of what a function gives.
LEMMA LeastBy ==
  ASSUME NEW S, S # {}, NEW f, \A a \in S : f[a] \in Nat
  PROVE  \E m \in S : \A a \in S : f[m] <= f[a]
<1> DEFINE K == {f[a] : a \in S}
<1>1. K \in SUBSET Nat /\ K # {} /\ \A a \in S : f[a] \in K
  OBVIOUS
<1>2. \A k \in K : \E a \in S : k = f[a]
  OBVIOUS
<1> HIDE DEF K
<1>3. PICK k \in K : \A j \in K : k <= j
  BY <1>1, LeastOf
<1>4. PICK m \in S : k = f[m]
  BY <1>2
<1> QED BY <1>1, <1>3, <1>4

LEMMA GreatestOf ==
  ASSUME NEW K \in SUBSET Nat, IsFiniteSet(K), K # {}
  PROVE  \E m \in K : \A k \in K : m >= k
<1> DEFINE above == [m \in K |-> {k \in K : k > m}]
           count == [m \in K |-> Cardinality(above[m])]
<1>1. \A m \in K : above[m] \subseteq K /\ count[m] = Cardinality(above[m])
  OBVIOUS
<1>2. \A m \in K : IsFiniteSet(above[m]) /\ count[m] \in Nat
  BY <1>1, FS_Subset, FS_CardinalityType
<1> HIDE DEF count
<1>3. PICK m \in K : \A k \in K : count[m] <= count[k]
  BY <1>2, LeastBy
<1>4. ASSUME NEW k \in K, k > m PROVE FALSE
  <2>1. k \in above[m] /\ k \notin above[k]
    BY <1>4
  <2>2. above[k] \subseteq above[m]
    <3>1. \A j \in Nat : j > k => j > m
      BY <1>4
    <3> QED BY <3>1
  <2> HIDE DEF above
  <2>3. Cardinality(above[k]) <= Cardinality(above[m]) /\ Cardinality(above[k]) # Cardinality(above[m])
    BY <1>2, <2>1, <2>2, FS_Subset
  <2> QED BY <1>1, <1>2, <1>3, <2>3
<1> QED BY <1>3, <1>4

\* What a function gives of a finite set is no more than the set.
LEMMA ImageBound ==
  ASSUME NEW S, IsFiniteSet(S), NEW f, NEW T, T \subseteq {f[x] : x \in S}
  PROVE  IsFiniteSet(T) /\ Cardinality(T) <= Cardinality(S)
<1> DEFINE U == {f[x] : x \in S}
           g == [x \in S |-> f[x]]
<1>1. g \in Surjection(S, U)
  BY DEF Surjection
<1>2. T \subseteq U
  OBVIOUS
<1> HIDE DEF U, g
<1>3. IsFiniteSet(U) /\ Cardinality(U) <= Cardinality(S)
  BY <1>1, FS_Surjection
<1>4. IsFiniteSet(T) /\ Cardinality(T) <= Cardinality(U)
  BY <1>2, <1>3, FS_Subset
<1>5. Cardinality(S) \in Nat /\ Cardinality(T) \in Nat /\ Cardinality(U) \in Nat
  BY <1>3, <1>4, FS_CardinalityType
<1> QED BY <1>3, <1>4, <1>5

---------------------------------------------------------------------------
(* The queue: its invariant                                                *)

ShapeOK ==
    /\ pc \in {"frame", "schedule", "serve"}
    /\ entries \subseteq Anchors /\ recognized \subseteq entries
    /\ pin \in [Anchors -> Pins \union {NoPin}] /\ stamp \in [Anchors -> Nat]
    /\ orphans \subseteq Pins /\ future \in [Pins -> {"none", "Pending", "Success"} \union Ended]
    /\ place \in Places /\ free \in Int

\* A pin is held by the one entry it was made for, or waits among the orphans
\* while its resolve runs or has ended.
HeldOK ==
    /\ \A e \in Anchors : pin[e] # NoPin => e \in entries /\ pin[e] \notin orphans
    /\ \A d, e \in Anchors : pin[d] = pin[e] /\ pin[d] # NoPin => d = e
    /\ \A p \in Pins : future[p] \in {"Pending", "Success"} => p \in orphans \/ \E e \in entries : pin[e] = p
    /\ \A p \in orphans : future[p] # "none"
    /\ \A e \in recognized : pin[e] # NoPin /\ future[pin[e]] # "Pending"
    /\ stale = {}

\* Who waits in a pass has no pin.
WaitingOK ==
    /\ \A e \in waiting : e \in entries \ recognized /\ pin[e] = NoPin
    /\ pc # "serve" => waiting = {}

\* The slots that are free in a pass are no more than the cap leaves.
SlotsOK == Live <= Cap /\ (pc = "serve" => free + Live <= Cap)

QueueInv == ShapeOK /\ HeldOK /\ WaitingOK /\ SlotsOK

PendingOrphans == {p \in orphans : future[p] = "Pending"}

LEMMA Numbers ==
    /\ IsFiniteSet(Anchors) /\ Anchors \subseteq Nat \ {0} /\ Cap \in Nat \ {0} /\ MaxPins \in Nat
    /\ Pos \in [Anchors -> Int] /\ Places \subseteq Int /\ Slack \in Nat /\ IsFiniteSet(Pins) /\ Pins \subseteq Nat \ {0}
<1>1. MaxPins \in Nat /\ Slack \in Nat
  BY ResolverAssumption
<1>2. IsFiniteSet(Pins) /\ Pins \subseteq Nat \ {0}
  BY <1>1, FS_Interval DEF Pins
<1> QED BY <1>1, <1>2, ResolverAssumption

LEMMA LiveIs ==
  ASSUME ShapeOK
  PROVE  /\ IsFiniteSet(InFlight) /\ IsFiniteSet(PendingOrphans)
         /\ Live = Cardinality(InFlight) + Cardinality(PendingOrphans)
         /\ Cardinality(InFlight) \in Nat /\ Cardinality(PendingOrphans) \in Nat /\ Live \in Nat
<1>1. InFlight \subseteq Anchors /\ PendingOrphans \subseteq Pins
  BY DEF ShapeOK, InFlight, PendingOrphans
<1>2. IsFiniteSet(InFlight) /\ IsFiniteSet(PendingOrphans)
  BY <1>1, Numbers, FS_Subset
<1>3. Live = Cardinality(InFlight) + Cardinality(PendingOrphans)
  BY DEF Live, PendingOrphans
<1>4. Cardinality(InFlight) \in Nat /\ Cardinality(PendingOrphans) \in Nat
  BY <1>2, FS_CardinalityType
<1> QED BY <1>2, <1>3, <1>4

\* What the properties say follows.
LEMMA QueueSound == QueueInv => QueueIsSound
<1> SUFFICES ASSUME QueueInv PROVE QueueIsSound
  OBVIOUS
<1>1. ShapeOK /\ HeldOK /\ SlotsOK
  BY Zenon DEF QueueInv
<1>2. LiveWithinCap
  <2> DEFINE held == {p \in Running(Pins) : p \notin orphans}
  <2>1. \A p \in held : \E e \in InFlight : p = pin[e]
    <3> SUFFICES ASSUME NEW p \in held PROVE \E e \in InFlight : p = pin[e]
      OBVIOUS
    <3>1. p \in Pins /\ future[p] = "Pending" /\ p \notin orphans
      BY DEF Running
    <3>2. PICK e \in entries : pin[e] = p
      BY <1>1, <3>1 DEF HeldOK
    <3>3. p # NoPin
      BY <3>1, Numbers DEF NoPin
    <3>4. e \notin recognized
      BY <1>1, <3>1, <3>2 DEF HeldOK
    <3> QED BY <3>2, <3>3, <3>4 DEF InFlight
  <2>2. held \subseteq {pin[e] : e \in InFlight}
    BY <2>1
  <2>3. Running(Pins) \subseteq held \union PendingOrphans
    BY DEF Running, PendingOrphans
  <2> HIDE DEF held
  <2>4. /\ IsFiniteSet(InFlight) /\ IsFiniteSet(PendingOrphans)
        /\ Live = Cardinality(InFlight) + Cardinality(PendingOrphans)
        /\ Cardinality(InFlight) \in Nat /\ Cardinality(PendingOrphans) \in Nat
    BY <1>1, LiveIs
  <2>5. IsFiniteSet(held) /\ Cardinality(held) <= Cardinality(InFlight)
    BY <2>2, <2>4, ImageBound
  <2>6. IsFiniteSet(held \union PendingOrphans)
        /\ Cardinality(held \union PendingOrphans) <= Cardinality(held) + Cardinality(PendingOrphans)
    <3>1. /\ IsFiniteSet(held \union PendingOrphans) /\ IsFiniteSet(held \cap PendingOrphans)
          /\ Cardinality(held \union PendingOrphans) =
                Cardinality(held) + Cardinality(PendingOrphans) - Cardinality(held \cap PendingOrphans)
      BY <2>4, <2>5, FS_Union, FS_Intersection
    <3>2. Cardinality(held \cap PendingOrphans) \in Nat /\ Cardinality(held) \in Nat
      BY <2>5, <3>1, FS_CardinalityType
    <3> QED BY <2>4, <3>1, <3>2
  <2>7. Cardinality(Running(Pins)) <= Cardinality(held \union PendingOrphans)
    BY <2>3, <2>6, FS_Subset
  <2>8. /\ Cardinality(held \union PendingOrphans) \in Nat /\ Cardinality(Running(Pins)) \in Nat
        /\ Cardinality(held) \in Nat
    <3>1. IsFiniteSet(Running(Pins))
      BY <2>3, <2>6, FS_Subset
    <3> QED BY <2>5, <2>6, <3>1, FS_CardinalityType
  <2>9. Live <= Cap /\ Cap \in Nat
    BY <1>1, Numbers DEF SlotsOK
  <2> QED BY <2>4, <2>5, <2>6, <2>7, <2>8, <2>9 DEF LiveWithinCap
<1>3. NothingLeaks
  BY <1>1, Zenon DEF HeldOK, NothingLeaks
<1>4. PinFitsEntry
  BY <1>1 DEF HeldOK, PinFitsEntry
<1> QED BY <1>2, <1>3, <1>4 DEF QueueIsSound

LEMMA QueueStart == QueueInit => QueueInv
<1> SUFFICES ASSUME QueueInit PROVE QueueInv
  OBVIOUS
<1>1. ShapeOK
  BY DEF QueueInit, ShapeOK, NoPin
<1>2. HeldOK
  BY DEF QueueInit, HeldOK
<1>3. WaitingOK
  BY DEF QueueInit, WaitingOK
<1>4. SlotsOK
  <2>1. InFlight = {} /\ PendingOrphans = {} /\ pc = "frame"
    BY DEF QueueInit, InFlight, PendingOrphans
  <2>2. Cardinality(InFlight) = 0 /\ Cardinality(PendingOrphans) = 0
    BY <2>1, FS_EmptySet
  <2>3. Live = 0
    BY <1>1, <2>2, LiveIs
  <2> QED BY <2>1, <2>3, Numbers DEF SlotsOK
<1> QED BY <1>1, <1>2, <1>3, <1>4 DEF QueueInv

---------------------------------------------------------------------------
(* Who is served first                                                     *)

LEMMA BoundsAre ==
  ASSUME ShapeOK, NEW e \in Anchors
  PROVE  Bound(e) \in Int /\ Bound(e) >= -1
<1> DEFINE far(r) == Larger(0, Distance(Distance(Pos[e], Pos[r]), Distance(place, Pos[r])) - Slack)
           known == {far(r) : r \in Seen(recognized) \ {e}}
<1>1. Bound(e) = IF known = {} THEN -1 ELSE CHOOSE b \in known : \A c \in known : b >= c
  BY Zenon DEF Bound, BoundBy
<1>2. \A r \in Anchors : far(r) \in Nat
  BY Numbers DEF ShapeOK, Distance, Larger
<1> HIDE DEF far
<1>3. Seen(recognized) \subseteq Anchors
  BY DEF Seen, ShapeOK
<1>4. known \in SUBSET Nat
  BY <1>2, <1>3
<1>5. IsFiniteSet(known)
  <2>1. IsFiniteSet(Seen(recognized) \ {e})
    BY <1>3, Numbers, FS_Subset
  <2> DEFINE f == [r \in Anchors |-> far(r)]
  <2>2. known \subseteq {f[r] : r \in Seen(recognized) \ {e}}
    BY <1>3
  <2> HIDE DEF f, known
  <2> QED BY <2>1, <2>2, ImageBound
<1> HIDE DEF known
<1>6. CASE known = {}
  BY <1>1, <1>6
<1>7. CASE known # {}
  <2>1. \E b \in known : \A c \in known : b >= c
    BY <1>4, <1>5, <1>7, GreatestOf
  <2>2. (CHOOSE b \in known : \A c \in known : b >= c) \in known
    BY <2>1, Zenon
  <2>3. Bound(e) \in known
    BY <1>1, <1>7, <2>2, Zenon
  <2>4. Bound(e) \in Nat
    BY <1>4, <2>3, Zenon
  <2> QED BY <2>4
<1> QED BY <1>6, <1>7

\* The oldest of some anchors, by number if need be.
LEMMA OldestOf ==
  ASSUME ShapeOK, NEW S \in SUBSET Anchors, S # {}
  PROVE  \E e \in S : \A a \in S \ {e} : stamp[e] < stamp[a] \/ (stamp[e] = stamp[a] /\ e < a)
<1>1. \A a \in S : stamp[a] \in Nat /\ a \in Nat
  BY Numbers DEF ShapeOK
<1>2. PICK m \in S : \A a \in S : stamp[m] <= stamp[a]
  BY <1>1, LeastBy
<1> DEFINE T == {a \in S : stamp[a] = stamp[m]}
<1>3. T \in SUBSET Nat /\ T # {} /\ m \in T
  BY <1>1
<1>4. PICK e \in T : \A a \in T : e <= a
  BY <1>3, LeastOf
<1>5. e \in S /\ stamp[e] = stamp[m]
  OBVIOUS
<1>6. ASSUME NEW a \in S \ {e} PROVE stamp[e] < stamp[a] \/ (stamp[e] = stamp[a] /\ e < a)
  <2>1. CASE a \in T
    <3>1. e <= a /\ stamp[a] = stamp[m] /\ a # e /\ a \in Nat /\ e \in Nat
      BY <1>1, <1>4, <2>1
    <3> QED BY <1>5, <3>1
  <2>2. CASE a \notin T
    <3>1. stamp[m] <= stamp[a] /\ stamp[a] # stamp[m] /\ stamp[a] \in Nat /\ stamp[m] \in Nat
      BY <1>1, <1>2, <2>2
    <3> QED BY <1>5, <3>1
  <2> QED BY <2>1, <2>2
<1> QED BY <1>5, <1>6

\* One of those that are the nearest by what is known.
LEMMA NearestBound ==
  ASSUME ShapeOK, NEW S \in SUBSET Anchors, S # {}
  PROVE  \E m \in S : \A a \in S : Bound(a) = Bound(m) \/ Closer(m, a)
<1>1. \A a \in S : Bound(a) \in Int /\ Bound(a) >= -1
  BY BoundsAre
<1> DEFINE T == {a \in S : Bound(a) >= 0}
<1>2. CASE T = {}
  <2>1. \A a \in S : Bound(a) = -1
    <3> SUFFICES ASSUME NEW a \in S PROVE Bound(a) = -1
      OBVIOUS
    <3>1. ~(Bound(a) >= 0)
      BY <1>2
    <3> QED BY <1>1, <3>1
  <2> QED BY <2>1
<1>3. CASE T # {}
  <2> DEFINE f == [a \in S |-> Bound(a)]
  <2>1. \A a \in T : f[a] \in Nat /\ f[a] = Bound(a) /\ a \in S /\ Bound(a) >= 0
    BY <1>1
  <2>2. \A a \in S : a \in T \/ Bound(a) < 0
    <3> SUFFICES ASSUME NEW a \in S, ~(Bound(a) >= 0) PROVE Bound(a) < 0
      OBVIOUS
    <3> QED BY <1>1
  <2> HIDE DEF T, f
  <2>3. PICK m \in T : \A a \in T : f[m] <= f[a]
    BY <1>3, <2>1, LeastBy
  <2>4. ASSUME NEW a \in S PROVE Bound(a) = Bound(m) \/ Closer(m, a)
    <3>1. m \in S /\ Bound(m) >= 0 /\ Bound(m) \in Int /\ Bound(a) \in Int
      BY <1>1, <2>1, <2>3
    <3>2. CASE a \in T
      <4>1. Bound(m) <= Bound(a)
        BY <2>1, <2>3, <3>2
      <4> QED BY <3>1, <4>1 DEF Closer
    <3>3. CASE Bound(a) < 0
      BY <3>1, <3>3 DEF Closer
    <3> QED BY <2>2, <3>2, <3>3
  <2> QED BY <2>1, <2>4
<1> QED BY <1>2, <1>3

\* One of those that are the farthest by what is known.
LEMMA FarthestBound ==
  ASSUME ShapeOK, NEW S \in SUBSET Anchors, S # {}
  PROVE  \E m \in S : \A a \in S : Bound(a) = Bound(m) \/ Closer(a, m)
<1>1. \A a \in S : Bound(a) \in Int /\ Bound(a) >= -1
  BY BoundsAre
<1>2. CASE \E m \in S : Bound(m) < 0
  <2>1. PICK m \in S : Bound(m) < 0
    BY <1>2
  <2>2. ASSUME NEW a \in S PROVE Bound(a) = Bound(m) \/ Closer(a, m)
    <3>1. Bound(m) = -1 /\ (Bound(a) >= 0 \/ Bound(a) = -1)
      BY <1>1, <2>1
    <3> QED BY <2>1, <3>1 DEF Closer
  <2> QED BY <2>2
<1>3. CASE ~\E m \in S : Bound(m) < 0
  <2> DEFINE f == [a \in S |-> Bound(a)]
             K == {f[a] : a \in S}
  <2>1. \A a \in S : f[a] = Bound(a) /\ Bound(a) \in Nat
    <3> SUFFICES ASSUME NEW a \in S PROVE Bound(a) \in Nat
      OBVIOUS
    <3>1. ~(Bound(a) < 0)
      BY <1>3
    <3> QED BY <1>1, <3>1
  <2>2. K \in SUBSET Nat /\ K # {}
    BY <2>1
  <2>3. IsFiniteSet(S)
    BY Numbers, FS_Subset
  <2>4. IsFiniteSet(K)
    <3> HIDE DEF f
    <3> QED BY <2>3, ImageBound
  <2>5. \A a \in S : Bound(a) \in K
    OBVIOUS
  <2>6. \A k \in K : \E a \in S : k = Bound(a)
    OBVIOUS
  <2> HIDE DEF K, f
  <2>7. PICK k \in K : \A j \in K : k >= j
    BY <2>2, <2>4, GreatestOf
  <2>8. PICK m \in S : k = Bound(m)
    BY <2>6
  <2>9. ASSUME NEW a \in S PROVE Bound(a) = Bound(m) \/ Closer(a, m)
    <3>1. Bound(m) >= Bound(a) /\ Bound(m) \in Nat /\ Bound(a) \in Nat
      BY <2>1, <2>5, <2>7, <2>8
    <3> QED BY <3>1 DEF Closer
  <2> QED BY <2>9
<1> QED BY <1>2, <1>3

LEMMA FirstIs ==
  ASSUME ShapeOK, WaitingOK, waiting # {}
  PROVE  First \in waiting /\ \A a \in waiting \ {First} : Before(First, a)
<1>1. waiting \in SUBSET Anchors
  BY DEF ShapeOK, WaitingOK
<1>2. PICK S \in SUBSET waiting :
          /\ S # {}
          /\ \A e \in S, a \in waiting : (Near(a) <=> Near(e)) => a \in S
          /\ \A e \in S, a \in waiting : ~(Near(a) <=> Near(e)) => Near(e)
  <2> DEFINE T == {a \in waiting : Near(a)}
  <2>1. CASE T = {}
    <3>1. \A a \in waiting : ~Near(a)
      BY <2>1
    <3>2. waiting \in SUBSET waiting
      OBVIOUS
    <3> QED BY <3>1, <3>2, Zenon
  <2>2. CASE T # {}
    <3>1. T \in SUBSET waiting /\ \A a : a \in T <=> a \in waiting /\ Near(a)
      BY Zenon
    <3> HIDE DEF T
    <3> QED BY <2>2, <3>1, Zenon
  <2> QED BY <2>1, <2>2
<1>3. S \in SUBSET Anchors
  BY <1>1
<1>4. PICK m \in S : \A a \in S : Bound(a) = Bound(m) \/ Closer(m, a)
  BY <1>2, <1>3, NearestBound
<1> DEFINE T == {a \in S : Bound(a) = Bound(m)}
<1>5. T \in SUBSET Anchors /\ T # {} /\ T \subseteq S
  BY <1>3
<1>6. PICK e \in T : \A a \in T \ {e} : stamp[e] < stamp[a] \/ (stamp[e] = stamp[a] /\ e < a)
  <2> HIDE DEF T
  <2> QED BY <1>5, OldestOf
<1>7. ASSUME NEW a \in waiting \ {e} PROVE Before(e, a)
  <2>1. e \in S /\ Bound(e) = Bound(m)
    OBVIOUS
  <2>2. CASE ~(Near(a) <=> Near(e))
    <3>1. Near(e)
      BY <1>2, <2>1, <2>2, Zenon
    <3> QED BY <2>2, <3>1, Zenon DEF Before
  <2>3. CASE (Near(a) <=> Near(e)) /\ Bound(a) # Bound(e)
    <3>1. a \in S
      BY <1>2, <2>1, <2>3, Zenon
    <3>2. Closer(m, a)
      BY <1>4, <2>1, <2>3, <3>1
    <3>3. Closer(e, a)
      BY <2>1, <3>2, Zenon DEF Closer
    <3> HIDE DEF T
    <3>4. Near(e) = Near(a)
      BY <2>3, Zenon DEF Near, IsNear
    <3> QED BY <2>3, <3>3, <3>4, Zenon DEF Before
  <2>4. CASE (Near(a) <=> Near(e)) /\ Bound(a) = Bound(e)
    <3>1. a \in T \ {e}
      BY <1>2, <2>1, <2>4, Zenon
    <3>2. stamp[e] < stamp[a] \/ (stamp[e] = stamp[a] /\ e < a)
      BY <1>6, <3>1
    <3>3. stamp[e] \in Nat /\ stamp[a] \in Nat
      BY <1>1, <1>3 DEF ShapeOK
    <3>4. (stamp[e] # stamp[a] /\ stamp[e] < stamp[a]) \/ (stamp[e] = stamp[a] /\ e < a)
      BY <3>2, <3>3
    <3> HIDE DEF T
    <3>5. Near(e) = Near(a)
      BY <2>4, Zenon DEF Near, IsNear
    <3> QED BY <2>4, <3>4, <3>5, Zenon DEF Before
  <2> QED BY <2>2, <2>3, <2>4, Zenon
<1>8. \E x \in waiting : \A a \in waiting \ {x} : Before(x, a)
  <2>1. e \in waiting
    BY <1>5
  <2> HIDE DEF T
  <2> QED BY <1>7, <2>1, Zenon
<1> QED BY <1>8, Zenon DEF First

LEMMA VictimIs ==
  ASSUME ShapeOK, Victims # {}
  PROVE  Victim \in Victims
<1>1. Victims \in SUBSET Anchors
  BY DEF ShapeOK, Victims, InFlight
<1>2. PICK m \in Victims : \A a \in Victims : Bound(a) = Bound(m) \/ Closer(a, m)
  BY <1>1, FarthestBound
<1> DEFINE T == {a \in Victims : Bound(a) = Bound(m)}
<1>3. T \in SUBSET Anchors /\ T # {} /\ T \subseteq Victims
  BY <1>1
<1>4. PICK v \in T : \A a \in T \ {v} : stamp[v] < stamp[a] \/ (stamp[v] = stamp[a] /\ v < a)
  <2> HIDE DEF T
  <2> QED BY <1>3, OldestOf
<1>5. v \in Victims /\ Bound(v) = Bound(m)
  OBVIOUS
<1>6. ASSUME NEW w \in Victims \ {v}
      PROVE  \/ Closer(w, v)
             \/ Bound(w) = Bound(v) /\ stamp[v] < stamp[w]
             \/ Bound(w) = Bound(v) /\ stamp[v] = stamp[w] /\ v < w
  <2>1. CASE Bound(w) = Bound(v)
    <3>1. w \in T \ {v}
      BY <1>5, <2>1
    <3> QED BY <1>4, <2>1, <3>1
  <2>2. CASE Bound(w) # Bound(v)
    <3>1. Closer(w, m)
      BY <1>2, <1>5, <2>2
    <3> QED BY <1>5, <3>1, Zenon DEF Closer
  <2> QED BY <2>1, <2>2
<1> HIDE DEF T
<1> QED BY <1>5, <1>6, Zenon DEF Victim

---------------------------------------------------------------------------
(* Pins that are given up                                                  *)

\* What leaves one set and comes to the other through f makes them no more.
LEMMA Moved ==
  ASSUME NEW A, NEW B, IsFiniteSet(A), IsFiniteSet(B), NEW F \in SUBSET A, NEW f,
         NEW C, C \subseteq A \ F, NEW D, D \subseteq B \union {f[x] : x \in F}
  PROVE  Cardinality(C) + Cardinality(D) <= Cardinality(A) + Cardinality(B)
<1> DEFINE U == {f[x] : x \in F}
<1>1. IsFiniteSet(F) /\ IsFiniteSet(A \ F) /\ Cardinality(A \ F) = Cardinality(A) - Cardinality(F)
  <2>1. IsFiniteSet(F) /\ IsFiniteSet(A \ F) /\ A \cap F = F
    BY FS_Subset
  <2>2. Cardinality(A \ F) = Cardinality(A) - Cardinality(A \cap F)
    BY FS_Difference
  <2> QED BY <2>1, <2>2
<1>2. IsFiniteSet(U) /\ Cardinality(U) <= Cardinality(F)
  BY <1>1, ImageBound
<1> HIDE DEF U
<1>3. D \subseteq B \union U
  BY DEF U
<1>4. /\ IsFiniteSet(B \union U) /\ IsFiniteSet(B \cap U)
      /\ Cardinality(B \union U) = Cardinality(B) + Cardinality(U) - Cardinality(B \cap U)
  BY <1>2, FS_Union, FS_Intersection
<1>5. IsFiniteSet(C) /\ Cardinality(C) <= Cardinality(A \ F)
  BY <1>1, FS_Subset
<1>6. IsFiniteSet(D) /\ Cardinality(D) <= Cardinality(B \union U)
  BY <1>3, <1>4, FS_Subset
<1>7. /\ Cardinality(A) \in Nat /\ Cardinality(B) \in Nat /\ Cardinality(C) \in Nat /\ Cardinality(D) \in Nat
      /\ Cardinality(F) \in Nat /\ Cardinality(U) \in Nat /\ Cardinality(B \cap U) \in Nat
      /\ Cardinality(A \ F) \in Nat /\ Cardinality(B \union U) \in Nat
  BY <1>1, <1>2, <1>4, <1>5, <1>6, FS_CardinalityType
<1> QED BY <1>1, <1>2, <1>4, <1>5, <1>6, <1>7

LiveCounts == Live = Cardinality(InFlight) + Cardinality(PendingOrphans) /\ Live \in Nat

LEMMA LiveNext == ShapeOK' => LiveCounts'
<1>1. ShapeOK => LiveCounts
  BY LiveIs DEF LiveCounts
<1> QED BY <1>1, PTL

LEMMA LiveShrinks ==
  ASSUME ShapeOK, ShapeOK', NEW F \in SUBSET InFlight, InFlight' \subseteq InFlight \ F,
         PendingOrphans' \subseteq PendingOrphans \union {pin[e] : e \in F}
  PROVE  Live' <= Live
<1>1. /\ IsFiniteSet(InFlight) /\ IsFiniteSet(PendingOrphans)
      /\ Live = Cardinality(InFlight) + Cardinality(PendingOrphans)
  BY LiveIs
<1>2. ShapeOK' => Live' = Cardinality(InFlight') + Cardinality(PendingOrphans')
  BY LiveNext DEF LiveCounts
<1>3. Cardinality(InFlight') + Cardinality(PendingOrphans')
        <= Cardinality(InFlight) + Cardinality(PendingOrphans)
  BY <1>1, Moved
<1> QED BY <1>1, <1>2, <1>3

PinsOf(G) == {pin[e] : e \in G} \ {NoPin}

\* The entries of G give up their pins; the orphans in Q are cancelled again.
GivesUp(G, Q, stuck) ==
    /\ G \subseteq Anchors /\ Q \subseteq orphans /\ stuck \subseteq Running(Q \union PinsOf(G))
    /\ pin' = [e \in Anchors |-> IF e \in G THEN NoPin ELSE pin[e]]
    /\ future' = [p \in Pins |-> IF p \in (Q \union PinsOf(G)) \ stuck THEN "none" ELSE future[p]]
    /\ orphans' = (orphans \ Q) \union stuck

GivenUp(G) ==
    /\ pin' \in [Anchors -> Pins \union {NoPin}] /\ orphans' \subseteq Pins
    /\ future' \in [Pins -> {"none", "Pending", "Success"} \union Ended]
    /\ \A e \in Anchors : IF e \in G THEN pin'[e] = NoPin ELSE pin'[e] = pin[e]
    /\ \A e \in Anchors \ G : pin[e] # NoPin => pin[e] \notin orphans' /\ future'[pin[e]] = future[pin[e]]
    /\ \A p \in Pins : future'[p] \in {"Pending", "Success"} => p \in orphans' \/ \E e \in entries \ G : pin[e] = p
    /\ \A p \in orphans' : future'[p] # "none"
    /\ PendingOrphans' \subseteq PendingOrphans \union {pin[e] : e \in G \cap InFlight}

LEMMA GivingUp ==
  ASSUME ShapeOK, HeldOK, NEW G, NEW Q, NEW stuck, GivesUp(G, Q, stuck)
  PROVE  GivenUp(G)
<1> DEFINE P == Q \union PinsOf(G)
<1>1. P \subseteq Pins /\ orphans \subseteq Pins /\ stuck \subseteq P /\ \A p \in stuck : future[p] = "Pending"
  BY DEF GivesUp, PinsOf, ShapeOK, Running
<1>2. pin' \in [Anchors -> Pins \union {NoPin}]
  BY DEF GivesUp, ShapeOK
<1>3. orphans' \subseteq Pins
  BY <1>1 DEF GivesUp
<1>4. future' \in [Pins -> {"none", "Pending", "Success"} \union Ended]
  BY DEF GivesUp, ShapeOK
<1>5. \A e \in Anchors : IF e \in G THEN pin'[e] = NoPin ELSE pin'[e] = pin[e]
  BY DEF GivesUp
<1>6. \A p \in Pins : future'[p] = IF p \in P \ stuck THEN "none" ELSE future[p]
  BY DEF GivesUp
<1>7. orphans' = (orphans \ Q) \union stuck /\ Q \subseteq orphans
  BY DEF GivesUp
<1>8. ASSUME NEW e \in Anchors \ G, pin[e] # NoPin
      PROVE pin[e] \notin P /\ pin[e] \notin orphans /\ pin[e] \in Pins
  <2>1. pin[e] \notin PinsOf(G)
    BY <1>8 DEF PinsOf, HeldOK, GivesUp
  <2> QED BY <1>8, <2>1 DEF HeldOK, ShapeOK, GivesUp
<1>9. \A p \in P : p \in orphans \/ \E e \in G : pin[e] = p /\ p # NoPin
  BY DEF GivesUp, PinsOf
<1> HIDE DEF P
<1>10. \A e \in Anchors \ G : pin[e] # NoPin => pin[e] \notin orphans' /\ future'[pin[e]] = future[pin[e]]
  BY <1>1, <1>6, <1>7, <1>8
<1>11. ASSUME NEW p \in Pins, future'[p] \in {"Pending", "Success"}, p \notin orphans'
       PROVE  \E e \in entries \ G : pin[e] = p
  <2>1. p \notin P \ stuck /\ future[p] \in {"Pending", "Success"} /\ p \notin stuck
    BY <1>6, <1>7, <1>11
  <2>2. p \notin PinsOf(G) /\ p \notin orphans
    BY <1>7, <1>11, <2>1 DEF P
  <2>3. PICK e \in entries : pin[e] = p
    BY <2>1, <2>2 DEF HeldOK
  <2>4. e \notin G
    BY <2>2, <2>3, Numbers DEF PinsOf, NoPin
  <2> QED BY <2>3, <2>4
<1>12. \A p \in orphans' : future'[p] # "none"
  <2> SUFFICES ASSUME NEW p \in orphans' PROVE future'[p] # "none"
    OBVIOUS
  <2>1. CASE p \in stuck
    BY <1>1, <1>6, <2>1
  <2>2. CASE p \notin stuck
    <3>1. p \in orphans /\ p \notin Q
      BY <1>7, <2>2
    <3>2. p \notin PinsOf(G)
      BY <3>1 DEF PinsOf, HeldOK, GivesUp
    <3> QED BY <1>1, <1>6, <3>1, <3>2 DEF P, HeldOK
  <2> QED BY <2>1, <2>2
<1>13. PendingOrphans' \subseteq PendingOrphans \union {pin[e] : e \in G \cap InFlight}
  <2> SUFFICES ASSUME NEW p \in PendingOrphans', p \notin PendingOrphans
               PROVE  \E e \in G \cap InFlight : p = pin[e]
    OBVIOUS
  <2>1. p \in orphans' /\ future'[p] = "Pending" /\ p \in Pins
    BY <1>3 DEF PendingOrphans
  <2>2. future[p] = "Pending" /\ p \notin orphans
    <3>1. future[p] = "Pending"
      BY <1>6, <2>1
    <3> QED BY <3>1 DEF PendingOrphans
  <2>3. p \in P
    BY <1>1, <1>7, <2>1, <2>2
  <2>4. PICK e \in G : pin[e] = p /\ p # NoPin
    BY <1>9, <2>2, <2>3
  <2>5. e \in entries \ recognized
    BY <2>2, <2>4 DEF HeldOK, GivesUp
  <2> QED BY <2>4, <2>5 DEF InFlight
<1> QED BY <1>2, <1>3, <1>4, <1>5, <1>10, <1>11, <1>12, <1>13 DEF GivenUp

\* What the step that gives them up does to the rest.
KeepsTheRest(G) ==
    /\ entries \ G \subseteq entries' /\ entries' \subseteq Anchors /\ recognized' \subseteq entries' \ G
    /\ \A e \in recognized' : pin[e] # NoPin /\ future[pin[e]] # "Pending"
    /\ recognized \ G \subseteq recognized'
    /\ stale' = {} /\ stamp' \in [Anchors -> Nat] /\ place' \in Places /\ free' \in Int
    /\ pc' \in {"frame", "schedule", "serve"}

LEMMA RestIsKept ==
  ASSUME ShapeOK, HeldOK, NEW G, NEW Q, NEW stuck, GivesUp(G, Q, stuck), KeepsTheRest(G)
  PROVE  ShapeOK' /\ HeldOK' /\ Live' <= Live /\ InFlight' \subseteq InFlight \ G
         /\ PendingOrphans' \subseteq PendingOrphans \union {pin[e] : e \in G \cap InFlight}
<1>1. GivenUp(G)
  BY GivingUp
<1>2. G \subseteq Anchors
  BY DEF GivesUp
<1>3. ShapeOK'
  BY <1>1 DEF GivenUp, KeepsTheRest, ShapeOK
<1>4. \A e \in Anchors : pin'[e] # NoPin => e \notin G /\ pin'[e] = pin[e]
  BY <1>1 DEF GivenUp
<1>5. HeldOK'
  <2>1. \A e \in Anchors : pin'[e] # NoPin => e \in entries' /\ pin'[e] \notin orphans'
    BY <1>1, <1>4 DEF GivenUp, HeldOK, KeepsTheRest
  <2>2. \A d, e \in Anchors : pin'[d] = pin'[e] /\ pin'[d] # NoPin => d = e
    <3> SUFFICES ASSUME NEW d \in Anchors, NEW e \in Anchors, pin'[d] = pin'[e], pin'[d] # NoPin PROVE d = e
      OBVIOUS
    <3>1. pin'[d] = pin[d] /\ pin'[e] = pin[e]
      BY <1>4
    <3> QED BY <3>1 DEF HeldOK
  <2>3. \A p \in Pins : future'[p] \in {"Pending", "Success"} => p \in orphans' \/ \E e \in entries' : pin'[e] = p
    <3> SUFFICES ASSUME NEW p \in Pins, future'[p] \in {"Pending", "Success"}, p \notin orphans'
                 PROVE  \E e \in entries' : pin'[e] = p
      OBVIOUS
    <3>1. PICK e \in entries \ G : pin[e] = p
      BY <1>1 DEF GivenUp
    <3>2. pin'[e] = p
      BY <1>1, <3>1 DEF GivenUp, ShapeOK
    <3> QED BY <3>1, <3>2 DEF KeepsTheRest
  <2>4. \A p \in orphans' : future'[p] # "none"
    BY <1>1 DEF GivenUp
  <2>5. \A e \in recognized' : pin'[e] # NoPin /\ future'[pin'[e]] # "Pending"
    <3> SUFFICES ASSUME NEW e \in recognized' PROVE pin'[e] # NoPin /\ future'[pin'[e]] # "Pending"
      OBVIOUS
    <3>1. e \in Anchors /\ e \notin G /\ pin[e] # NoPin /\ future[pin[e]] # "Pending"
      BY DEF KeepsTheRest
    <3> QED BY <1>1, <3>1 DEF GivenUp
  <2>6. stale' = {}
    BY DEF KeepsTheRest
  <2> QED BY <2>1, <2>2, <2>3, <2>4, <2>5, <2>6 DEF HeldOK
<1>6. InFlight' \subseteq InFlight \ G
  <2> SUFFICES ASSUME NEW e \in InFlight' PROVE e \in InFlight /\ e \notin G
    OBVIOUS
  <2>1. e \in entries' /\ e \notin recognized' /\ pin'[e] # NoPin /\ e \in Anchors
    BY DEF InFlight, KeepsTheRest
  <2>2. e \notin G /\ pin[e] # NoPin
    BY <1>4, <2>1
  <2>3. e \in entries /\ e \notin recognized
    BY <2>1, <2>2 DEF HeldOK, KeepsTheRest
  <2> QED BY <2>2, <2>3 DEF InFlight
<1>7. PendingOrphans' \subseteq PendingOrphans \union {pin[e] : e \in G \cap InFlight}
  BY <1>1 DEF GivenUp
<1>8. Live' <= Live
  <2>1. InFlight' \subseteq InFlight \ (G \cap InFlight)
    BY <1>6
  <2> QED BY <1>3, <1>7, <2>1, LiveShrinks
<1> QED BY <1>3, <1>5, <1>6, <1>7, <1>8

\* A step outside the passes.
LEMMA CapIsKept ==
  ASSUME ShapeOK, ShapeOK', SlotsOK, Live' <= Live, pc' # "serve", waiting' = {}
  PROVE  SlotsOK' /\ WaitingOK'
<1>1. Live \in Nat /\ Live' \in Nat /\ Cap \in Nat
  BY LiveIs, LiveNext, Numbers DEF LiveCounts
<1>2. Live' <= Cap
  BY <1>1 DEF SlotsOK
<1> QED BY <1>2 DEF SlotsOK, WaitingOK

LEMMA RankedType ==
  ASSUME NEW s
  PROVE  Ranked(s) \in [Anchors -> Nat]
<1> SUFFICES ASSUME NEW e \in Anchors
             PROVE  Cardinality({s[a] : a \in Anchors} \intersect 1..s[e]) \in Nat
  BY DEF Ranked
<1>1. IsFiniteSet({s[a] : a \in Anchors} \intersect 1..s[e])
  BY Numbers, ImageBound
<1> QED BY <1>1, FS_CardinalityType

---------------------------------------------------------------------------
(* The queue: its steps                                                    *)

LEMMA PollKeeps ==
  ASSUME QueueInv, PollResolves
  PROVE  QueueInv'
<1> DEFINE dead == {e \in recognized : future[pin[e]] \in Ended}
           found == {e \in InFlight : future[pin[e]] = "Success" /\ pin[e] \in tracking}
           failed == {e \in InFlight \ found : future[pin[e]] \in Ended \/ age[e] > Timeout}
           after == (recognized \ dead) \union found
           G == dead \union failed
           given == {pin[e] : e \in G}
<1>1. ShapeOK /\ HeldOK /\ WaitingOK /\ SlotsOK
  BY Zenon DEF QueueInv
<1>2. dead \subseteq recognized /\ failed \subseteq InFlight /\ found \subseteq InFlight /\ found \cap failed = {}
  OBVIOUS
<1>3. \A e \in found : future[pin[e]] = "Success"
  OBVIOUS
<1>4. /\ pc = "frame" /\ pc' \in {"frame", "schedule"} /\ recognized' = after
      /\ \E stuck \in SUBSET Running(orphans \union given) : PollOrphansAndRelease(given, stuck)
      /\ stale' = stale \ given
      /\ pin' = [e \in Anchors |-> IF e \in G THEN NoPin ELSE pin[e]]
      /\ ForgetAttempts(dead \union found)
      /\ entries' = entries /\ waiting' = waiting /\ free' = free /\ place' = place
  BY DEF PollResolves, loopVars, placeVars
<1>5. InFlight \subseteq entries \ recognized /\ \A e \in InFlight : pin[e] # NoPin
  BY DEF InFlight
<1> HIDE DEF dead, found, failed
<1>6. G \subseteq entries /\ entries \subseteq Anchors /\ \A e \in G : pin[e] # NoPin
  BY <1>1, <1>2, <1>5 DEF ShapeOK, HeldOK
<1>7. given = PinsOf(G)
  BY <1>6 DEF PinsOf
<1>8. PICK stuck \in SUBSET Running(orphans \union given) : PollOrphansAndRelease(given, stuck)
  BY <1>4
<1> HIDE DEF given
<1>9. GivesUp(G, orphans, stuck)
  <2>1. orphans' = stuck /\ LetGo(given \union orphans, stuck)
    BY <1>8 DEF PollOrphansAndRelease
  <2>2. future' = [p \in Pins |-> IF p \in (given \union orphans) \ stuck THEN "none" ELSE future[p]]
    BY <2>1 DEF LetGo
  <2>3. given \union orphans = orphans \union PinsOf(G)
    BY <1>7
  <2>4. orphans' = (orphans \ orphans) \union stuck /\ stuck \subseteq Running(orphans \union PinsOf(G))
    BY <1>7, <1>8, <2>1
  <2> QED BY <1>4, <1>6, <2>2, <2>3, <2>4 DEF GivesUp
<1>10. KeepsTheRest(G)
  <2>1. stamp' \in [Anchors -> Nat]
    BY <1>4, RankedType DEF ForgetAttempts
  <2>2. entries' = entries /\ recognized \subseteq entries
    BY <1>1, <1>4 DEF ShapeOK
  <2>3. recognized' \subseteq entries' \ G
    BY <1>2, <1>4, <1>5, <2>2
  <2>4. \A e \in recognized' : pin[e] # NoPin /\ future[pin[e]] # "Pending"
    BY <1>1, <1>2, <1>3, <1>4, <1>5 DEF HeldOK
  <2>5. recognized \ G \subseteq recognized'
    BY <1>4
  <2>6. stale' = {}
    BY <1>1, <1>4 DEF HeldOK
  <2> QED BY <1>1, <1>4, <2>1, <2>2, <2>3, <2>4, <2>5, <2>6 DEF KeepsTheRest, ShapeOK
<1>11. ShapeOK' /\ HeldOK' /\ Live' <= Live
  BY <1>1, <1>9, <1>10, RestIsKept
<1>12. waiting' = {} /\ pc' # "serve"
  BY <1>1, <1>4 DEF WaitingOK
<1>13. SlotsOK' /\ WaitingOK'
  BY <1>1, <1>11, <1>12, CapIsKept
<1> QED BY <1>11, <1>13 DEF QueueInv

LEMMA ApplyKeeps ==
  ASSUME QueueInv, NEW answer \in Answers, ApplyAnchorsJson(answer)
  PROVE  QueueInv'
<1> DEFINE dropped == Dropped(answer)
           G == dropped \union Rehosted(answer)
           given == {pin[e] : e \in G} \ {NoPin}
<1>1. ShapeOK /\ HeldOK /\ WaitingOK /\ SlotsOK
  BY Zenon DEF QueueInv
<1>2. /\ answer.anchors \subseteq Anchors /\ answer.assets \subseteq Anchors
      /\ answer.moved \subseteq answer.anchors
  BY ResolverAssumption
<1>3. G \subseteq entries /\ entries \subseteq Anchors
  BY <1>1 DEF ShapeOK, Dropped, Rehosted
<1>4. /\ pc = "frame" /\ entries' = (entries \ dropped) \union answer.anchors
      /\ pin' = [e \in Anchors |-> IF e \in G THEN NoPin ELSE pin[e]]
      /\ \E stuck \in SUBSET Running(given) : Release(given, stuck)
      /\ stale' = (stale \union {pin[e] : e \in answer.moved})
                    \intersect ({pin'[e] : e \in Anchors} \ {NoPin})
      /\ recognized' = recognized \ G
      /\ ForgetAttempts(G)
      /\ pc' = pc /\ waiting' = waiting /\ free' = free /\ place' = place
  BY DEF ApplyAnchorsJson, loopVars, placeVars
<1>5. PICK stuck \in SUBSET Running(given) : Release(given, stuck)
  BY <1>4
<1>6. given = PinsOf(G)
  BY DEF PinsOf
<1>7. entries \cap answer.moved \subseteq G
  BY <1>2 DEF Rehosted
<1>8. dropped \subseteq G
  OBVIOUS
<1> HIDE DEF given, dropped, G
<1>9. GivesUp(G, {}, stuck)
  <2>1. orphans' = orphans \union stuck /\ LetGo(given, stuck)
    BY <1>5 DEF Release
  <2>2. future' = [p \in Pins |-> IF p \in given \ stuck THEN "none" ELSE future[p]]
    BY <2>1 DEF LetGo
  <2>3. given = {} \union PinsOf(G)
    BY <1>6
  <2>4. orphans' = (orphans \ {}) \union stuck /\ stuck \subseteq Running({} \union PinsOf(G))
    BY <1>5, <2>1, <2>3
  <2> QED BY <1>3, <1>4, <2>2, <2>3, <2>4 DEF GivesUp
<1>10. stale' = {}
  <2> SUFFICES ASSUME NEW p \in stale' PROVE FALSE
    OBVIOUS
  <2>1. p \in {pin[e] : e \in answer.moved} /\ p # NoPin /\ p \in {pin'[e] : e \in Anchors}
    BY <1>1, <1>4 DEF HeldOK
  <2>2. PICK e \in answer.moved : p = pin[e]
    BY <2>1
  <2>3. PICK d \in Anchors : p = pin'[d]
    BY <2>1
  <2>4. d \notin G /\ pin[d] = p
    BY <1>4, <2>1, <2>3
  <2>5. e \in Anchors /\ e \in entries /\ d = e
    BY <1>1, <1>2, <2>1, <2>2, <2>4 DEF HeldOK
  <2> QED BY <1>7, <2>4, <2>5
<1>11. KeepsTheRest(G)
  <2>1. stamp' \in [Anchors -> Nat]
    BY <1>4, RankedType DEF ForgetAttempts
  <2>2. entries \ G \subseteq entries' /\ entries' \subseteq Anchors
    BY <1>2, <1>3, <1>4, <1>8
  <2>3. recognized' \subseteq entries' \ G /\ recognized \ G \subseteq recognized'
    BY <1>1, <1>4, <2>2 DEF ShapeOK
  <2>4. \A e \in recognized' : pin[e] # NoPin /\ future[pin[e]] # "Pending"
    BY <1>1, <1>4 DEF HeldOK
  <2> QED BY <1>1, <1>4, <1>10, <2>1, <2>2, <2>3, <2>4 DEF KeepsTheRest, ShapeOK
<1>12. ShapeOK' /\ HeldOK' /\ Live' <= Live
  BY <1>1, <1>9, <1>11, RestIsKept
<1>13. waiting' = {} /\ pc' # "serve"
  BY <1>1, <1>4 DEF WaitingOK
<1>14. SlotsOK' /\ WaitingOK'
  BY <1>1, <1>12, <1>13, CapIsKept
<1> QED BY <1>12, <1>14 DEF QueueInv

LEMMA PreemptKeeps ==
  ASSUME QueueInv, Preempt
  PROVE  QueueInv'
<1> DEFINE v == Victim
           G == {Victim}
<1>1. ShapeOK /\ HeldOK /\ WaitingOK /\ SlotsOK
  BY Zenon DEF QueueInv
<1>2. v \in InFlight /\ waiting # {} /\ pc = "serve" /\ free <= 0
  <2>1. Victims # {} /\ NeedsSlot
    BY DEF Preempt
  <2>2. Victim \in Victims
    BY <1>1, <2>1, VictimIs
  <2> QED BY <2>1, <2>2 DEF Victims, NeedsSlot
<1>3. v \in entries /\ v \notin recognized /\ pin[v] # NoPin /\ v \in Anchors
  BY <1>1, <1>2 DEF InFlight, ShapeOK
<1>4. PICK stuck \in SUBSET Running({pin[v]}) :
         /\ Release({pin[v]}, stuck)
         /\ IF stuck = {} THEN free' = free + 1 /\ UNCHANGED <<pc, waiting>> ELSE EndPass
  BY DEF Preempt
<1>5. /\ stale' = stale \ {pin[v]} /\ pin' = [pin EXCEPT ![v] = NoPin]
      /\ entries' = entries /\ recognized' = recognized /\ stamp' = stamp /\ place' = place
  BY DEF Preempt, placeVars
<1> HIDE DEF v
<1>6. G = {v} /\ PinsOf(G) = {pin[v]}
  BY <1>3 DEF v, PinsOf
<1> HIDE DEF G
<1>7. GivesUp(G, {}, stuck)
  <2>1. orphans' = orphans \union stuck /\ LetGo({pin[v]}, stuck)
    BY <1>4 DEF Release
  <2>2. future' = [p \in Pins |-> IF p \in {pin[v]} \ stuck THEN "none" ELSE future[p]]
    BY <2>1 DEF LetGo
  <2>3. {pin[v]} = {} \union PinsOf(G)
    BY <1>6
  <2>4. orphans' = (orphans \ {}) \union stuck /\ stuck \subseteq Running({} \union PinsOf(G))
    BY <1>4, <2>1, <2>3
  <2>5. pin' = [e \in Anchors |-> IF e \in G THEN NoPin ELSE pin[e]]
    BY <1>1, <1>5, <1>6 DEF ShapeOK
  <2> QED BY <1>3, <1>6, <2>2, <2>3, <2>4, <2>5 DEF GivesUp
<1>8. free \in Int /\ free' \in Int /\ pc' \in {"frame", "serve"} /\ waiting' \subseteq waiting
  <2>1. free \in Int
    BY <1>1 DEF ShapeOK
  <2>2. CASE stuck = {}
    BY <1>2, <1>4, <2>1, <2>2
  <2>3. CASE stuck # {}
    BY <1>4, <2>1, <2>3 DEF EndPass
  <2> QED BY <2>1, <2>2, <2>3
<1>9. KeepsTheRest(G)
  <2>1. \A e \in recognized' : pin[e] # NoPin /\ future[pin[e]] # "Pending"
    BY <1>1, <1>5 DEF HeldOK
  <2>2. recognized' \subseteq entries' \ G /\ stale' = {}
    BY <1>1, <1>3, <1>5, <1>6 DEF ShapeOK, HeldOK
  <2> QED BY <1>1, <1>5, <1>8, <2>1, <2>2 DEF KeepsTheRest, ShapeOK
<1>10. /\ ShapeOK' /\ HeldOK' /\ Live' <= Live /\ InFlight' \subseteq InFlight \ G
       /\ PendingOrphans' \subseteq PendingOrphans \union {pin[e] : e \in G \cap InFlight}
  BY <1>1, <1>7, <1>9, RestIsKept
<1>11. \A e \in waiting : e \in entries' \ recognized' /\ pin'[e] = NoPin
  BY <1>1, <1>5 DEF WaitingOK, ShapeOK
<1>12. CASE stuck # {}
  <2>1. waiting' = {} /\ pc' # "serve"
    BY <1>4, <1>12 DEF EndPass
  <2>2. SlotsOK' /\ WaitingOK'
    BY <1>1, <1>10, <2>1, CapIsKept
  <2> QED BY <1>10, <2>2 DEF QueueInv
<1>13. CASE stuck = {}
  <2>1. free' = free + 1 /\ pc' = pc /\ waiting' = waiting
    BY <1>4, <1>13
  <2>2. WaitingOK'
    BY <1>2, <1>11, <2>1 DEF WaitingOK
  <2>3. PendingOrphans' \subseteq PendingOrphans
    <3>1. orphans' = orphans /\ \A p \in Pins : future'[p] = "Pending" => future[p] = "Pending"
      BY <1>7, <1>13 DEF GivesUp
    <3>2. orphans' \subseteq Pins
      BY <1>10 DEF ShapeOK
    <3> QED BY <3>1, <3>2 DEF PendingOrphans
  <2>4. /\ IsFiniteSet(InFlight) /\ IsFiniteSet(PendingOrphans)
        /\ Live = Cardinality(InFlight) + Cardinality(PendingOrphans)
        /\ Cardinality(InFlight) \in Nat /\ Cardinality(PendingOrphans) \in Nat
    BY <1>1, LiveIs
  <2>5. Live' = Cardinality(InFlight') + Cardinality(PendingOrphans') /\ Live' \in Nat
    BY <1>10, LiveNext DEF LiveCounts
  <2>6. IsFiniteSet(InFlight \ G) /\ Cardinality(InFlight \ G) = Cardinality(InFlight) - 1
    BY <1>2, <1>6, <2>4, FS_RemoveElement
  <2>7. /\ IsFiniteSet(InFlight') /\ Cardinality(InFlight') <= Cardinality(InFlight \ G)
        /\ IsFiniteSet(PendingOrphans') /\ Cardinality(PendingOrphans') <= Cardinality(PendingOrphans)
    <3>1. IsFiniteSet(InFlight') /\ Cardinality(InFlight') <= Cardinality(InFlight \ G)
      BY <1>10, <2>6, FS_Subset
    <3>2. IsFiniteSet(PendingOrphans') /\ Cardinality(PendingOrphans') <= Cardinality(PendingOrphans)
      BY <2>3, <2>4, FS_Subset
    <3> QED BY <3>1, <3>2
  <2>8. Cardinality(InFlight') \in Nat /\ Cardinality(PendingOrphans') \in Nat
    BY <2>7, FS_CardinalityType
  <2>9. Live' <= Live - 1 /\ Live \in Nat
    BY <2>4, <2>5, <2>6, <2>7, <2>8
  <2>10. free + Live <= Cap /\ Live <= Cap /\ Cap \in Nat
    BY <1>1, <1>2, Numbers DEF SlotsOK
  <2>11. free' + Live' <= Cap /\ Live' <= Cap
    BY <1>8, <2>1, <2>5, <2>9, <2>10
  <2>12. SlotsOK'
    BY <2>11 DEF SlotsOK
  <2> QED BY <1>10, <2>2, <2>12 DEF QueueInv
<1> QED BY <1>12, <1>13

\* A step that leaves the pins and their resolves alone.
LEMMA QuietKeeps ==
  ASSUME QueueInv,
         entries' = entries, recognized' = recognized, pin' = pin, orphans' = orphans,
         future' = future, stale' = stale,
         stamp' \in [Anchors -> Nat], place' \in Places, free' \in Int,
         pc' \in {"frame", "schedule", "serve"},
         \A e \in waiting' : e \in entries \ recognized /\ pin[e] = NoPin,
         IF pc' = "serve" THEN free' + Live <= Cap ELSE waiting' = {}
  PROVE  QueueInv'
<1>1. ShapeOK /\ HeldOK /\ WaitingOK /\ SlotsOK
  BY Zenon DEF QueueInv
<1>2. ShapeOK'
  BY <1>1 DEF ShapeOK
<1>3. HeldOK'
  BY <1>1, Zenon DEF HeldOK
<1>4. WaitingOK'
  BY DEF WaitingOK
<1>5. Live' = Live
  BY Zenon DEF Live, InFlight
<1>6. SlotsOK'
  BY <1>1, <1>5 DEF SlotsOK
<1> QED BY <1>2, <1>3, <1>4, <1>6 DEF QueueInv

LEMMA ShapeIs ==
  ASSUME QueueInv
  PROVE  /\ stamp \in [Anchors -> Nat] /\ place \in Places /\ free \in Int
         /\ pc \in {"frame", "schedule", "serve"}
         /\ \A e \in waiting : e \in entries \ recognized /\ pin[e] = NoPin
         /\ pc # "serve" => waiting = {}
         /\ pc = "serve" => free + Live <= Cap
BY DEF QueueInv, ShapeOK, WaitingOK, SlotsOK

LEMMA PassKeeps ==
  ASSUME QueueInv,
         SkipPass \/ BeginPass \/ PassOver \/ NoSlot \/ StartFails \/ StartBlocked \/ StartExhausted \/ AllServed
  PROVE  QueueInv'
<1>1. CASE SkipPass
  <2>1. /\ entries' = entries /\ recognized' = recognized /\ pin' = pin /\ orphans' = orphans
        /\ future' = future /\ stale' = stale /\ stamp' = stamp /\ place' = place
        /\ pc' = "frame" /\ waiting' = {} /\ free' = 0
    BY <1>1 DEF SkipPass, EndPass, entryVars, queueVars, arcoreVars
  <2> QED BY <2>1, ShapeIs, QuietKeeps
<1>2. CASE BeginPass
  <2>1. /\ entries' = entries /\ recognized' = recognized /\ pin' = pin /\ orphans' = orphans
        /\ future' = future /\ stale' = stale /\ stamp' = stamp /\ place' = place
    BY <1>2 DEF BeginPass, queueVars, arcoreVars
  <2>2. \/ pc' = "frame" /\ waiting' = {} /\ free' = 0
        \/ /\ pc' = "serve" /\ free' = Cap - Live
           /\ \A e \in waiting' : e \in entries \ recognized /\ pin[e] = NoPin
    BY <1>2 DEF BeginPass, EndPass
  <2>3. Live \in Nat /\ Cap \in Nat
    BY LiveIs, Numbers DEF QueueInv
  <2>4. CASE pc' = "frame" /\ waiting' = {} /\ free' = 0
    BY <2>1, <2>4, ShapeIs, QuietKeeps
  <2>5. CASE /\ pc' = "serve" /\ free' = Cap - Live
             /\ \A e \in waiting' : e \in entries \ recognized /\ pin[e] = NoPin
    <3>1. free' \in Int /\ free' + Live <= Cap
      BY <2>3, <2>5
    <3> QED BY <2>1, <2>5, <3>1, ShapeIs, QuietKeeps
  <2> QED BY <2>2, <2>4, <2>5
<1>3. CASE PassOver
  <2>1. /\ entries' = entries /\ recognized' = recognized /\ pin' = pin /\ orphans' = orphans
        /\ future' = future /\ stale' = stale /\ stamp' = stamp /\ place' = place
    BY <1>3 DEF PassOver, entryVars, queueVars, arcoreVars, placeVars
  <2>2. \/ pc' = "frame" /\ waiting' = {} /\ free' = 0
        \/ pc' = pc /\ pc = "serve" /\ free' = free /\ waiting' \subseteq waiting
    BY <1>3 DEF PassOver, EndPass
  <2> QED BY <2>1, <2>2, ShapeIs, QuietKeeps
<1>4. CASE NoSlot \/ StartBlocked \/ AllServed
  <2>1. /\ EndPass
        /\ UNCHANGED <<entryVars, queueVars, arcoreVars, placeVars>>
    BY <1>4, Zenon DEF NoSlot, StartBlocked, AllServed
  <2>2. /\ entries' = entries /\ recognized' = recognized /\ pin' = pin /\ orphans' = orphans
        /\ future' = future /\ stale' = stale /\ stamp' = stamp /\ place' = place
        /\ pc' = "frame" /\ waiting' = {} /\ free' = 0
    BY <2>1 DEF EndPass, entryVars, queueVars, arcoreVars, placeVars
  <2> QED BY <2>2, ShapeIs, QuietKeeps
<1>5. CASE StartFails
  <2>1. /\ entries' = entries /\ recognized' = recognized /\ pin' = pin /\ orphans' = orphans
        /\ future' = future /\ stale' = stale /\ place' = place
        /\ pc' = pc /\ pc = "serve" /\ free' = free /\ waiting' \subseteq waiting
    BY <1>5 DEF StartFails, CanStart, queueVars, arcoreVars, placeVars
  <2>2. stamp' \in [Anchors -> Nat]
    BY <1>5, RankedType DEF StartFails, StartAttempt
  <2> QED BY <2>1, <2>2, ShapeIs, QuietKeeps
<1>6. CASE StartExhausted
  <2>1. /\ entries' = entries /\ recognized' = recognized /\ pin' = pin /\ orphans' = orphans
        /\ future' = future /\ stale' = stale /\ place' = place
        /\ pc' = "frame" /\ waiting' = {} /\ free' = 0
    BY <1>6 DEF StartExhausted, EndPass, arcoreVars, placeVars
  <2>2. stamp' \in [Anchors -> Nat]
    BY <1>6, RankedType DEF StartExhausted, StartAttempt
  <2> QED BY <2>1, <2>2, ShapeIs, QuietKeeps
<1> QED BY <1>1, <1>2, <1>3, <1>4, <1>5, <1>6

LEMMA StartKeeps ==
  ASSUME QueueInv, StartResolve
  PROVE  QueueInv'
<1> DEFINE e == First
           p == IF e \in Unused THEN e ELSE CHOOSE q \in Unused : \A r \in Unused : q >= r
<1>1. ShapeOK /\ HeldOK /\ WaitingOK /\ SlotsOK
  BY Zenon DEF QueueInv
<1>2. pc = "serve" /\ waiting # {} /\ free > 0
  BY DEF StartResolve, CanStart
<1>3. e \in waiting
  BY <1>1, <1>2, FirstIs
<1>4. p \in Unused
  <2>1. Unused # {}
    BY DEF StartResolve
  <2>2. Unused \in SUBSET Nat /\ IsFiniteSet(Unused)
    <3>1. Unused \subseteq Pins
      BY DEF Unused
    <3> QED BY <3>1, Numbers, FS_Subset
  <2>3. \E q \in Unused : \A r \in Unused : q >= r
    BY <2>1, <2>2, GreatestOf
  <2>4. (CHOOSE q \in Unused : \A r \in Unused : q >= r) \in Unused
    BY <2>3, Zenon
  <2> QED BY <2>4
<1>5. /\ pin' = [pin EXCEPT ![e] = p] /\ future' = [future EXCEPT ![p] = "Pending"]
      /\ waiting' = waiting \ {e} /\ free' = free - 1
      /\ pc' = pc /\ entries' = entries /\ recognized' = recognized /\ orphans' = orphans
      /\ stale' = stale /\ place' = place
  BY DEF StartResolve, placeVars
<1>6. stamp' \in [Anchors -> Nat]
  BY RankedType DEF StartResolve, StartAttempt
<1> HIDE DEF e, p
<1>7. e \in entries /\ e \in Anchors /\ e \notin recognized /\ pin[e] = NoPin
  BY <1>1, <1>3 DEF WaitingOK, ShapeOK
<1>8. p \in Pins /\ future[p] = "none" /\ p # NoPin /\ \A a \in Anchors : pin[a] # p
  BY <1>4, Numbers DEF Unused, NoPin
<1>9. p \notin orphans
  BY <1>1, <1>8 DEF HeldOK
<1>10. /\ \A a \in Anchors : pin'[a] = IF a = e THEN p ELSE pin[a]
       /\ \A q \in Pins : future'[q] = IF q = p THEN "Pending" ELSE future[q]
  BY <1>1, <1>5 DEF ShapeOK
<1>11. ShapeOK'
  <2>1. pin' \in [Anchors -> Pins \union {NoPin}]
    BY <1>1, <1>5, <1>8 DEF ShapeOK
  <2>2. future' \in [Pins -> {"none", "Pending", "Success"} \union Ended]
    BY <1>1, <1>5 DEF ShapeOK
  <2>3. free' \in Int
    BY <1>1, <1>5 DEF ShapeOK
  <2> QED BY <1>1, <1>5, <1>6, <2>1, <2>2, <2>3 DEF ShapeOK
<1>12. HeldOK'
  <2>1. \A a \in Anchors : pin'[a] # NoPin => a \in entries' /\ pin'[a] \notin orphans'
    BY <1>1, <1>5, <1>7, <1>9, <1>10 DEF HeldOK
  <2>2. \A c, d \in Anchors : pin'[c] = pin'[d] /\ pin'[c] # NoPin => c = d
    BY <1>1, <1>8, <1>10 DEF HeldOK
  <2>3. \A q \in Pins : future'[q] \in {"Pending", "Success"} => q \in orphans' \/ \E a \in entries' : pin'[a] = q
    <3> SUFFICES ASSUME NEW q \in Pins, future'[q] \in {"Pending", "Success"}, q \notin orphans'
                 PROVE  \E a \in entries' : pin'[a] = q
      OBVIOUS
    <3>1. CASE q = p
      BY <1>5, <1>7, <1>10, <3>1
    <3>2. CASE q # p
      <4>1. PICK a \in entries : pin[a] = q
        BY <1>1, <1>5, <1>10, <3>2 DEF HeldOK
      <4>2. a # e /\ a \in Anchors
        BY <1>1, <1>7, <4>1, Numbers DEF NoPin, ShapeOK
      <4> QED BY <1>5, <1>10, <4>1, <4>2
    <3> QED BY <3>1, <3>2
  <2>4. \A q \in orphans' : future'[q] # "none"
    BY <1>1, <1>5, <1>10 DEF HeldOK, ShapeOK
  <2>5. \A a \in recognized' : pin'[a] # NoPin /\ future'[pin'[a]] # "Pending"
    <3> SUFFICES ASSUME NEW a \in recognized PROVE pin'[a] # NoPin /\ future'[pin'[a]] # "Pending"
      BY <1>5
    <3>1. a \in Anchors /\ a # e /\ pin[a] # NoPin /\ future[pin[a]] # "Pending" /\ pin[a] \in Pins
      BY <1>1, <1>7 DEF ShapeOK, HeldOK
    <3> QED BY <1>8, <1>10, <3>1
  <2>6. stale' = {}
    BY <1>1, <1>5 DEF HeldOK
  <2> QED BY <2>1, <2>2, <2>3, <2>4, <2>5, <2>6 DEF HeldOK
<1>13. WaitingOK'
  BY <1>1, <1>2, <1>5, <1>10 DEF WaitingOK, ShapeOK
<1>14. SlotsOK'
  <2>1. InFlight' \subseteq InFlight \union {e}
    BY <1>1, <1>5, <1>10 DEF InFlight, ShapeOK
  <2>2. PendingOrphans' \subseteq PendingOrphans
    BY <1>1, <1>5, <1>9, <1>10 DEF PendingOrphans, ShapeOK
  <2>3. /\ IsFiniteSet(InFlight) /\ IsFiniteSet(PendingOrphans)
        /\ Live = Cardinality(InFlight) + Cardinality(PendingOrphans)
        /\ Cardinality(InFlight) \in Nat /\ Cardinality(PendingOrphans) \in Nat
    BY <1>1, LiveIs
  <2>4. Live' = Cardinality(InFlight') + Cardinality(PendingOrphans') /\ Live' \in Nat
    BY <1>11, LiveNext DEF LiveCounts
  <2>5. e \notin InFlight
    BY <1>7 DEF InFlight
  <2>6. IsFiniteSet(InFlight \union {e}) /\ Cardinality(InFlight \union {e}) = Cardinality(InFlight) + 1
    BY <2>3, <2>5, FS_AddElement
  <2>7. IsFiniteSet(InFlight') /\ Cardinality(InFlight') <= Cardinality(InFlight \union {e})
    BY <2>1, <2>6, FS_Subset
  <2>8. IsFiniteSet(PendingOrphans') /\ Cardinality(PendingOrphans') <= Cardinality(PendingOrphans)
    BY <2>2, <2>3, FS_Subset
  <2>9. Cardinality(InFlight') \in Nat /\ Cardinality(PendingOrphans') \in Nat
    BY <2>7, <2>8, FS_CardinalityType
  <2>10. Live' <= Live + 1 /\ Live \in Nat
    BY <2>3, <2>4, <2>6, <2>7, <2>8, <2>9
  <2>11. free + Live <= Cap /\ Cap \in Nat /\ free \in Int
    BY <1>1, <1>2, Numbers DEF SlotsOK, ShapeOK
  <2>12. Live' <= Cap /\ free' + Live' <= Cap
    BY <1>2, <1>5, <2>4, <2>10, <2>11
  <2> QED BY <2>12 DEF SlotsOK
<1> QED BY <1>11, <1>12, <1>13, <1>14 DEF QueueInv

LEMMA OutsideKeeps ==
  ASSUME QueueInv, Outside
  PROVE  QueueInv'
<1>1. CASE \E answer \in Answers : ApplyAnchorsJson(answer)
  BY <1>1, ApplyKeeps
<1>2. CASE Walk
  <2>1. /\ entries' = entries /\ recognized' = recognized /\ pin' = pin /\ orphans' = orphans
        /\ future' = future /\ stale' = stale /\ stamp' = stamp /\ place' \in Places
        /\ pc' = pc /\ pc = "frame" /\ waiting' = waiting /\ free' = free
    BY <1>2 DEF Walk, entryVars, queueVars, arcoreVars, loopVars
  <2> QED BY <2>1, ShapeIs, QuietKeeps
<1>3. ASSUME NEW p \in Pins, Blink(p) PROVE QueueInv'
  <2>1. /\ entries' = entries /\ recognized' = recognized /\ pin' = pin /\ orphans' = orphans
        /\ future' = future /\ stale' = stale /\ stamp' = stamp /\ place' = place
        /\ pc' = pc /\ pc = "frame" /\ waiting' = waiting /\ free' = free
    BY <1>3 DEF Blink, entryVars, queueVars, loopVars, placeVars
  <2> QED BY <2>1, ShapeIs, QuietKeeps
<1>4. ASSUME NEW p \in Pins, Resolve(p) \/ Die(p) PROVE QueueInv'
  <2>1. ShapeOK /\ HeldOK /\ WaitingOK /\ SlotsOK
    BY Zenon DEF QueueInv
  <2>2. /\ entries' = entries /\ recognized' = recognized /\ pin' = pin /\ orphans' = orphans
        /\ stale' = stale /\ stamp' = stamp /\ place' = place
        /\ pc' = pc /\ pc = "frame" /\ waiting' = waiting /\ free' = free
    BY <1>4 DEF Resolve, Die, entryVars, queueVars, loopVars, placeVars
  <2>3. PICK result \in {"Success"} \union Ended :
           future' = [future EXCEPT ![p] = result] /\ future[p] \in {"Pending", "Success"}
    BY <1>4 DEF Resolve, Die, Ended
  <2>4. \A q \in Pins : future'[q] = IF q = p THEN result ELSE future[q]
    BY <2>1, <2>3 DEF ShapeOK
  <2>5. result \notin {"none", "Pending"}
    BY DEF Ended
  <2>6. ShapeOK'
    <3>1. future' \in [Pins -> {"none", "Pending", "Success"} \union Ended]
      BY <2>1, <2>3 DEF ShapeOK
    <3> QED BY <2>1, <2>2, <3>1 DEF ShapeOK
  <2>7. HeldOK'
    <3>1. \A q \in Pins : future'[q] \in {"Pending", "Success"} => q \in orphans \/ \E e \in entries : pin[e] = q
      BY <2>1, <2>3, <2>4 DEF HeldOK
    <3>2. \A q \in orphans : future'[q] # "none"
      BY <2>1, <2>4, <2>5 DEF HeldOK, ShapeOK
    <3>3. \A e \in recognized : pin[e] # NoPin /\ future'[pin[e]] # "Pending"
      BY <2>1, <2>4, <2>5 DEF HeldOK, ShapeOK
    <3> QED BY <2>1, <2>2, <3>1, <3>2, <3>3 DEF HeldOK
  <2>8. Live' <= Live
    <3>1. InFlight' \subseteq InFlight \ {}
      BY <2>2 DEF InFlight
    <3>2. PendingOrphans' \subseteq PendingOrphans \union {pin[e] : e \in {}}
      BY <2>1, <2>2, <2>4, <2>5 DEF PendingOrphans, ShapeOK
    <3> QED BY <2>1, <2>6, <3>1, <3>2, LiveShrinks
  <2>9. waiting' = {} /\ pc' # "serve"
    BY <2>1, <2>2 DEF WaitingOK
  <2>10. SlotsOK' /\ WaitingOK'
    BY <2>1, <2>6, <2>8, <2>9, CapIsKept
  <2> QED BY <2>6, <2>7, <2>10 DEF QueueInv
<1> QED BY <1>1, <1>2, <1>3, <1>4 DEF Outside

LEMMA QueueKeeps == QueueInv /\ [QueueNext]_resolverVars => QueueInv'
<1> SUFFICES ASSUME QueueInv, [QueueNext]_resolverVars PROVE QueueInv'
  OBVIOUS
<1>1. CASE Frame
  <2>1. CASE PollResolves
    BY <2>1, PollKeeps
  <2>2. CASE Preempt
    BY <2>2, PreemptKeeps
  <2>3. CASE StartResolve
    BY <2>3, StartKeeps
  <2>4. CASE SkipPass \/ BeginPass \/ PassOver \/ NoSlot \/ StartFails \/ StartBlocked \/ StartExhausted \/ AllServed
    BY <2>4, PassKeeps
  <2> QED BY <1>1, <2>1, <2>2, <2>3, <2>4, Zenon DEF Frame, ServePass
<1>2. CASE Outside
  BY <1>2, OutsideKeeps
<1>3. CASE Elapse \/ UNCHANGED resolverVars
  <2>1. /\ entries' = entries /\ recognized' = recognized /\ pin' = pin /\ orphans' = orphans
        /\ future' = future /\ stale' = stale /\ stamp' = stamp /\ place' = place
        /\ pc' = pc /\ waiting' = waiting /\ free' = free
    BY <1>3 DEF Elapse, resolverVars, entryVars, queueVars, arcoreVars, loopVars, placeVars
  <2> QED BY <2>1, ShapeIs, QuietKeeps
<1> QED BY <1>1, <1>2, <1>3, Zenon DEF QueueNext

---------------------------------------------------------------------------
(* The clocks, the requests and what is tracked                            *)

Failings == 0..MaxFailures
Waits == 0..Larger(BackoffMax, Hold)
Ranks == 0..Cardinality(Anchors)
Ages == 0..AgeCap
Holds == 0..Hold
Stands == 0..Window

ClocksOK ==
    /\ failures \in [Anchors -> Failings] /\ wait \in [Anchors -> Waits]
    /\ stamp \in [Anchors -> Ranks] /\ age \in [Anchors -> Ages] /\ hold \in Holds

\* The oldest request stands first.
RequestsOK ==
    /\ requests \in Seq(Stands) /\ Len(requests) <= NearBudget
    /\ \A i, j \in DOMAIN requests : i < j => requests[i] >= requests[j]

RestOK ==
    /\ wasNear \subseteq entries /\ Cardinality(orphans) <= MaxOrphans /\ free >= 0 /\ (pc = "serve" \/ free = 0)
    /\ tracking \subseteq Pins /\ \A p \in tracking : future[p] = "Success"
    /\ passed \in BOOLEAN

TypesInv == QueueInv /\ ClocksOK /\ RequestsOK /\ RestOK

LEMMA QueueNumbers ==
    /\ Base \in Nat \ {0} /\ BackoffMax \in Nat /\ Base <= BackoffMax /\ Hold \in Nat /\ Timeout \in Nat
    /\ MaxFailures \in Nat \ {0} /\ Window \in Nat /\ MaxOrphans \in Nat
    /\ FarBudget \in Nat /\ NearBudget \in Nat /\ FarBudget <= NearBudget
  BY ResolverAssumption

LEMMA ClockValues ==
    /\ 0 \in Failings /\ 0 \in Waits /\ 0 \in Ranks /\ 0 \in Ages /\ AgeCap \in Ages /\ 0 \in Holds /\ Hold \in Holds
    /\ Base \in Waits /\ Hold \in Waits /\ 0 \in Stands
<1>1. Cardinality(Anchors) \in Nat
  BY Numbers, FS_CardinalityType
<1>2. /\ 0 \in Failings /\ 0 \in Ages /\ AgeCap \in Ages /\ 0 \in Holds /\ Hold \in Holds /\ 0 \in Stands
  BY QueueNumbers DEF Failings, Ages, Holds, Stands, AgeCap
<1>3. 0 \in Waits /\ Base \in Waits /\ Hold \in Waits
  BY QueueNumbers DEF Waits, Larger
<1> QED BY <1>1, <1>2, <1>3 DEF Ranks

LEMMA RankedBound ==
  ASSUME NEW s
  PROVE  Ranked(s) \in [Anchors -> Ranks]
<1> SUFFICES ASSUME NEW e \in Anchors
             PROVE  Cardinality({s[a] : a \in Anchors} \intersect 1..s[e]) \in Ranks
  BY DEF Ranked
<1> DEFINE T == {s[a] : a \in Anchors} \intersect 1..s[e]
<1>1. T \subseteq {s[a] : a \in Anchors}
  OBVIOUS
<1> HIDE DEF T
<1>2. IsFiniteSet(T) /\ Cardinality(T) <= Cardinality(Anchors)
  BY <1>1, Numbers, ImageBound
<1>3. Cardinality(T) \in 0..Cardinality(Anchors)
  BY <1>2, Numbers, FS_CardinalityType
<1> QED BY <1>3 DEF T, Ranks

LEMMA DelayIs ==
  ASSUME ClocksOK, NEW e \in Anchors, NEW n, NEW f, NEW bound
  PROVE  FailDelay(e, n, f, bound) \in Waits
<1> DEFINE doubled == Base * 2 ^ (n - 1)
           interval == IF doubled \in 0..BackoffMax THEN doubled ELSE BackoffMax
           eased == (IsNear(bound) \/ bound < 0) /\ f # "NotFound"
           least == IF eased THEN Base ELSE interval
           delay == Larger(0, least - age[e])
<1>1. FailDelay(e, n, f, bound) = IF f = "Exhausted" THEN Larger(delay, BackoffMax) ELSE delay
  BY Zenon DEF FailDelay
<1>2. interval \in 0..BackoffMax
  <2> HIDE DEF doubled
  <2> QED BY QueueNumbers
<1> HIDE DEF interval, eased
<1>3. least \in 0..BackoffMax
  BY <1>2, QueueNumbers
<1> HIDE DEF least
<1>4. age[e] \in Nat
  BY QueueNumbers DEF ClocksOK, Ages, AgeCap
<1>5. delay \in 0..BackoffMax
  BY <1>3, <1>4, QueueNumbers DEF Larger
<1> HIDE DEF delay
<1> QED BY <1>1, <1>5, QueueNumbers DEF Waits, Larger

LEMMA ClocksKeep ==
  ASSUME TypesInv, QueueNext \/ UNCHANGED resolverVars
  PROVE  ClocksOK'
<1>1. /\ failures \in [Anchors -> Failings] /\ wait \in [Anchors -> Waits]
      /\ stamp \in [Anchors -> Ranks] /\ age \in [Anchors -> Ages] /\ hold \in Holds
  BY DEF TypesInv, ClocksOK
<1>2. CASE PollResolves
  <2> DEFINE dead == {e \in recognized : future[pin[e]] \in Ended}
             found == {e \in InFlight : future[pin[e]] = "Success" /\ pin[e] \in tracking}
             failed == {e \in InFlight \ found : future[pin[e]] \in Ended \/ age[e] > Timeout}
             after == (recognized \ dead) \union found
             seenBy(e) == {r \in after : r < e} \union {r \in recognized : r > e}
             count(e) == Smaller(MaxFailures, failures[e] + 1)
             delay(e) == FailDelay(e, count(e), future[pin[e]], BoundBy(seenBy(e), e))
             counts == [e \in Anchors |-> IF e \in failed THEN count(e)
                                          ELSE IF e \in dead \union found THEN 0 ELSE failures[e]]
             waits == [e \in Anchors |-> IF e \in failed THEN delay(e)
                                         ELSE IF e \in dead \union found THEN 0 ELSE wait[e]]
  <2>1. /\ failures' = counts /\ wait' = waits /\ ForgetAttempts(dead \union found)
        /\ hold' = IF \E e \in failed : future[pin[e]] = "Exhausted" THEN Hold ELSE hold
    BY <1>2 DEF PollResolves
  <2>2. \A e \in Anchors : count(e) \in Failings
    BY <1>1, QueueNumbers DEF Failings, Smaller
  <2>3. \A e \in Anchors : delay(e) \in Waits
    BY DelayIs DEF TypesInv
  <2> HIDE DEF dead, found, failed, count, delay
  <2>4. counts \in [Anchors -> Failings] /\ waits \in [Anchors -> Waits]
    BY <1>1, <2>2, <2>3, ClockValues
  <2>5. stamp' \in [Anchors -> Ranks] /\ age' \in [Anchors -> Ages]
    BY <1>1, <2>1, RankedBound, ClockValues DEF ForgetAttempts
  <2>6. hold' \in Holds
    BY <1>1, <2>1, ClockValues
  <2> QED BY <2>1, <2>4, <2>5, <2>6 DEF ClocksOK
<1>3. CASE BeginPass
  <2> DEFINE relieved == {e \in {d \in entries \ recognized : Near(d)} \ wasNear : failures[e] > 0 \/ wait[e] > 0}
  <2>1. /\ failures' = [e \in Anchors |-> IF e \in relieved THEN 0 ELSE failures[e]]
        /\ wait' = [e \in Anchors |-> IF e \in relieved THEN 0 ELSE wait[e]]
        /\ stamp' = stamp /\ age' = age /\ hold' = hold
    BY <1>3 DEF BeginPass, queueVars
  <2> HIDE DEF relieved
  <2> QED BY <1>1, <2>1, ClockValues DEF ClocksOK
<1>4. CASE Preempt
  <2>1. /\ wait' = [wait EXCEPT ![Victim] = 0]
        /\ failures' = failures /\ stamp' = stamp /\ age' = age /\ hold' = hold
    BY <1>4 DEF Preempt
  <2> QED BY <1>1, <2>1, ClockValues DEF ClocksOK
<1>5. CASE StartResolve \/ StartFails \/ StartExhausted
  <2>1. stamp' \in [Anchors -> Ranks] /\ age' = [age EXCEPT ![First] = 0]
    BY <1>5, RankedBound DEF StartResolve, StartFails, StartExhausted, StartAttempt
  <2>2. /\ wait' \in {wait, [wait EXCEPT ![First] = Base], [wait EXCEPT ![First] = Hold]}
        /\ failures' = failures /\ hold' \in {hold, Hold}
    BY <1>5 DEF StartResolve, StartFails, StartExhausted, queueVars
  <2> QED BY <1>1, <2>1, <2>2, ClockValues DEF ClocksOK
<1>6. CASE \E answer \in Answers : ApplyAnchorsJson(answer)
  <2>1. PICK answer \in Answers : ApplyAnchorsJson(answer)
    BY <1>6
  <2> DEFINE reset == Dropped(answer) \union Rehosted(answer)
  <2>2. /\ failures' = [e \in Anchors |-> IF e \in reset THEN 0 ELSE failures[e]]
        /\ wait' = [e \in Anchors |-> IF e \in reset THEN 0 ELSE wait[e]]
        /\ ForgetAttempts(reset) /\ hold' = hold
    BY <2>1 DEF ApplyAnchorsJson
  <2> HIDE DEF reset
  <2>3. stamp' \in [Anchors -> Ranks] /\ age' \in [Anchors -> Ages]
    BY <1>1, <2>2, RankedBound, ClockValues DEF ForgetAttempts
  <2> QED BY <1>1, <2>2, <2>3, ClockValues DEF ClocksOK
<1>7. CASE Elapse
  <2>1. /\ age' = [e \in Anchors |-> IF stamp[e] = 0 THEN 0 ELSE IF e \in InFlight THEN age[e] + 1 ELSE AgeCap]
        /\ wait' = [e \in Anchors |-> Larger(0, wait[e] - 1)]
        /\ hold' = Larger(0, hold - 1) /\ failures' = failures /\ stamp' = stamp
        /\ \A e \in InFlight : age[e] <= Timeout
    BY <1>7 DEF Elapse
  <2>2. \A e \in Anchors : Larger(0, wait[e] - 1) \in Waits
    BY <1>1, QueueNumbers DEF Waits, Larger
  <2>3. Larger(0, hold - 1) \in Holds
    BY <1>1, QueueNumbers DEF Holds, Larger
  <2>4. \A e \in Anchors : e \in InFlight => age[e] + 1 \in Ages
    BY <1>1, <2>1, QueueNumbers DEF Ages, AgeCap
  <2>5. age' \in [Anchors -> Ages] /\ wait' \in [Anchors -> Waits]
    BY <2>1, <2>2, <2>4, ClockValues
  <2> QED BY <1>1, <2>1, <2>3, <2>5 DEF ClocksOK
<1>8. CASE \/ SkipPass \/ PassOver \/ NoSlot \/ StartBlocked \/ AllServed \/ UNCHANGED resolverVars \/ Walk
           \/ \E p \in Pins : Resolve(p) \/ Blink(p) \/ Die(p)
  <2>1. failures' = failures /\ wait' = wait /\ stamp' = stamp /\ age' = age /\ hold' = hold
    BY <1>8 DEF SkipPass, PassOver, NoSlot, StartBlocked, AllServed, resolverVars, Walk, Resolve, Blink, Die,
                entryVars, queueVars
  <2> QED BY <1>1, <2>1 DEF ClocksOK
<1> QED BY <1>2, <1>3, <1>4, <1>5, <1>6, <1>7, <1>8, Zenon DEF QueueNext, Frame, ServePass, Outside

LEMMA OldIs ==
  ASSUME RequestsOK
  PROVE  LET old == Cardinality({i \in DOMAIN requests : requests[i] >= Window}) IN
         /\ old \in 0..Len(requests)
         /\ \A i \in 1..(Len(requests) - old) : requests[old + i] \in 0..(Window - 1)
<1> DEFINE late == {i \in DOMAIN requests : requests[i] >= Window}
           old == Cardinality(late)
<1>1. /\ Len(requests) \in Nat /\ DOMAIN requests = 1..Len(requests)
      /\ \A i \in 1..Len(requests) : requests[i] \in 0..Window
      /\ \A i, j \in 1..Len(requests) : i < j => requests[i] >= requests[j]
  <2>1. Len(requests) \in Nat /\ DOMAIN requests = 1..Len(requests)
    BY DEF RequestsOK
  <2>2. \A i \in 1..Len(requests) : requests[i] \in Stands
    BY <2>1 DEF RequestsOK
  <2> QED BY <2>1, <2>2 DEF RequestsOK, Stands
<1>2. CASE late = {}
  <2>1. old = 0
    BY <1>2, FS_EmptySet
  <2>2. \A i \in 1..Len(requests) : requests[i] \in 0..(Window - 1)
    <3> SUFFICES ASSUME NEW i \in 1..Len(requests) PROVE requests[i] \in 0..(Window - 1)
      OBVIOUS
    <3>1. ~(requests[i] >= Window)
      BY <1>1, <1>2
    <3> QED BY <1>1, <3>1, QueueNumbers
  <2>3. \A i \in 1..(Len(requests) - 0) : requests[0 + i] \in 0..(Window - 1)
    BY <1>1, <2>2
  <2> HIDE DEF late
  <2>4. old \in 0..Len(requests) /\ \A i \in 1..(Len(requests) - old) : requests[old + i] \in 0..(Window - 1)
    BY <1>1, <2>1, <2>3
  <2> QED BY <2>4 DEF late
<1>3. CASE late # {}
  <2>1. IsFiniteSet(1..Len(requests)) /\ late \subseteq 1..Len(requests)
    BY <1>1, FS_Interval
  <2>2. IsFiniteSet(late) /\ late \in SUBSET Nat
    BY <2>1, FS_Subset
  <2>3. PICK k \in late : \A i \in late : k >= i
    BY <1>3, <2>2, GreatestOf
  <2>4. k \in 1..Len(requests) /\ requests[k] >= Window
    BY <2>1
  <2>5. \A i \in 1..k : i \in late
    <3> SUFFICES ASSUME NEW i \in 1..k PROVE requests[i] >= Window /\ i \in 1..Len(requests)
      BY <1>1
    <3>1. i \in 1..Len(requests)
      BY <1>1, <2>4
    <3>2. CASE i = k
      BY <2>4, <3>1, <3>2
    <3>3. CASE i < k
      <4>1. requests[i] >= requests[k]
        BY <1>1, <2>4, <3>1, <3>3
      <4>2. requests[i] \in 0..Window /\ requests[k] \in 0..Window
        BY <1>1, <2>4, <3>1
      <4> QED BY <2>4, <3>1, <4>1, <4>2, QueueNumbers
    <3> QED BY <2>4, <3>2, <3>3
  <2>6. late = 1..k
    BY <2>1, <2>3, <2>4, <2>5
  <2>7. old = k
    <3>1. Cardinality(1..k) = k
      BY <2>4, FS_Interval
    <3> QED BY <2>6, <3>1, Zenon
  <2>8. \A i \in 1..(Len(requests) - k) : requests[k + i] \in 0..(Window - 1)
    <3> SUFFICES ASSUME NEW i \in 1..(Len(requests) - k) PROVE requests[k + i] \in 0..(Window - 1)
      OBVIOUS
    <3>1. k + i \in 1..Len(requests) /\ k + i \notin 1..k
      BY <1>1, <2>4
    <3>2. requests[k + i] \in 0..Window /\ ~(requests[k + i] >= Window)
      BY <1>1, <2>6, <3>1
    <3> QED BY <3>2, QueueNumbers
  <2> HIDE DEF late
  <2>9. old \in 0..Len(requests) /\ \A i \in 1..(Len(requests) - old) : requests[old + i] \in 0..(Window - 1)
    BY <1>1, <2>4, <2>7, <2>8
  <2> QED BY <2>9 DEF late
<1> QED BY <1>2, <1>3

LEMMA RequestsKeep ==
  ASSUME TypesInv, QueueNext \/ UNCHANGED resolverVars
  PROVE  RequestsOK'
<1>1. /\ requests \in Seq(Stands) /\ Len(requests) <= NearBudget
      /\ \A i, j \in DOMAIN requests : i < j => requests[i] >= requests[j]
  BY DEF TypesInv, RequestsOK
<1>2. CASE StartResolve
  <2>1. requests' = Append(requests, 0) /\ HasBudget(First)
    BY <1>2 DEF StartResolve, CanStart
  <2>2. Len(requests) < NearBudget /\ Len(requests) \in Nat
    BY <1>1, <2>1, QueueNumbers DEF HasBudget
  <2>3. requests' \in Seq(Stands) /\ Len(requests') = Len(requests) + 1
    BY <1>1, <2>1, ClockValues
  <2>4. /\ \A i \in 1..Len(requests) : requests'[i] = requests[i] /\ requests[i] \in Nat
        /\ requests'[Len(requests) + 1] = 0
    <3>1. \A i \in 1..Len(requests) : requests[i] \in Stands
      BY <1>1
    <3>2. \A i \in 1..Len(requests) : requests[i] \in Nat
      BY <3>1, QueueNumbers DEF Stands
    <3> QED BY <1>1, <2>1, <3>2
  <2>5. \A i, j \in DOMAIN requests' : i < j => requests'[i] >= requests'[j]
    <3> SUFFICES ASSUME NEW i \in 1..Len(requests) + 1, NEW j \in 1..Len(requests) + 1, i < j
                 PROVE  requests'[i] >= requests'[j]
      BY <2>3
    <3>1. i \in 1..Len(requests)
      BY <2>2
    <3>2. CASE j = Len(requests) + 1
      BY <2>4, <3>1, <3>2
    <3>3. CASE j # Len(requests) + 1
      <4>1. j \in 1..Len(requests)
        BY <2>2, <3>3
      <4>2. requests[i] >= requests[j]
        BY <1>1, <3>1, <4>1
      <4> QED BY <2>4, <3>1, <4>1, <4>2
    <3> QED BY <3>2, <3>3
  <2>6. Len(requests') <= NearBudget
    BY <2>2, <2>3, QueueNumbers
  <2> QED BY <2>3, <2>5, <2>6 DEF RequestsOK
<1>3. CASE Elapse
  <2> DEFINE old == Cardinality({i \in DOMAIN requests : requests[i] >= Window})
             m == Len(requests) - old
  <2>1. requests' = [i \in 1..m |-> requests[old + i] + 1]
    BY <1>3 DEF Elapse
  <2>2. old \in 0..Len(requests) /\ \A i \in 1..m : requests[old + i] \in 0..(Window - 1)
    BY OldIs DEF TypesInv
  <2>3. Len(requests) \in Nat /\ DOMAIN requests = 1..Len(requests)
    BY <1>1
  <2> HIDE DEF old
  <2>4. m \in Nat /\ m <= Len(requests) /\ \A i \in 1..m : old + i \in 1..Len(requests)
    BY <2>2, <2>3
  <2> HIDE DEF m
  <2>5. \A i \in 1..m : requests[old + i] + 1 \in Stands
    BY <2>2, QueueNumbers DEF Stands
  <2>6. requests' \in Seq(Stands) /\ Len(requests') = m
    BY <2>1, <2>4, <2>5
  <2>7. \A i, j \in DOMAIN requests' : i < j => requests'[i] >= requests'[j]
    <3> SUFFICES ASSUME NEW i \in 1..m, NEW j \in 1..m, i < j
                 PROVE  requests'[i] >= requests'[j]
      BY <2>1
    <3>1. /\ requests'[i] = requests[old + i] + 1 /\ requests'[j] = requests[old + j] + 1
          /\ requests[old + i] \in 0..(Window - 1) /\ requests[old + j] \in 0..(Window - 1)
      BY <2>1, <2>2
    <3>2. old + i \in 1..Len(requests) /\ old + j \in 1..Len(requests) /\ old + i < old + j
      BY <2>2, <2>3, <2>4
    <3>3. requests[old + i] >= requests[old + j]
      BY <1>1, <2>3, <3>2
    <3> QED BY <3>1, <3>3, QueueNumbers
  <2> QED BY <1>1, <2>3, <2>4, <2>6, <2>7, QueueNumbers DEF RequestsOK
<1>4. CASE \/ PollResolves \/ SkipPass \/ BeginPass \/ PassOver \/ NoSlot \/ Preempt \/ StartFails
           \/ StartBlocked \/ StartExhausted \/ AllServed \/ UNCHANGED resolverVars \/ Outside
  <2>1. requests' = requests
    BY <1>4 DEF PollResolves, SkipPass, BeginPass, PassOver, NoSlot, Preempt, StartFails, StartBlocked,
                StartExhausted, AllServed, resolverVars, Outside, ApplyAnchorsJson, Resolve, Blink, Die, Walk,
                queueVars
  <2> QED BY <1>1, <2>1 DEF RequestsOK
<1> QED BY <1>2, <1>3, <1>4, Zenon DEF QueueNext, Frame, ServePass

\* A pin that leaves the entries is no longer tracked, and the others keep
\* their state.
LEMMA TrackedKeeps ==
  ASSUME RestOK, future \in [Pins -> {"none", "Pending", "Success"} \union Ended], NEW P, NEW stuck, LetGo(P, stuck)
  PROVE  tracking' \subseteq Pins /\ \A p \in tracking' : future'[p] = "Success"
  BY DEF LetGo, RestOK

LEMMA RestKeeps ==
  ASSUME TypesInv, QueueNext \/ UNCHANGED resolverVars
  PROVE  RestOK'
<1>1. /\ wasNear \subseteq entries /\ Cardinality(orphans) <= MaxOrphans /\ free >= 0 /\ free \in Int /\ (pc = "serve" \/ free = 0)
      /\ tracking \subseteq Pins /\ (\A p \in tracking : future[p] = "Success") /\ passed \in BOOLEAN
      /\ future \in [Pins -> {"none", "Pending", "Success"} \union Ended]
  <2>1. RestOK /\ ShapeOK
    BY Zenon DEF TypesInv, QueueInv
  <2> QED BY <2>1 DEF RestOK, ShapeOK
<1>2. RestOK
  BY DEF TypesInv
<1>3. CASE PollResolves
  <2>1. PICK P, stuck : PollOrphansAndRelease(P, stuck)
    BY <1>3, Zenon DEF PollResolves
  <2>2. LetGo(P \union orphans, stuck) /\ Cardinality(orphans') <= MaxOrphans
    BY <2>1 DEF PollOrphansAndRelease
  <2>3. tracking' \subseteq Pins /\ \A p \in tracking' : future'[p] = "Success"
    BY <1>1, <1>2, <2>2, TrackedKeeps
  <2>4. entries' = entries /\ wasNear' = wasNear /\ free' = free /\ passed' = passed /\ pc = "frame"
    BY <1>3 DEF PollResolves, loopVars, placeVars
  <2> QED BY <1>1, <2>2, <2>3, <2>4 DEF RestOK
<1>4. CASE Preempt
  <2>1. PICK P, stuck : /\ Release(P, stuck)
                        /\ IF stuck = {} THEN free' = free + 1 /\ UNCHANGED <<pc, waiting>> ELSE EndPass
    BY <1>4, Zenon DEF Preempt
  <2>2. LetGo(P, stuck) /\ Cardinality(orphans') <= MaxOrphans
    BY <2>1 DEF Release
  <2>3. tracking' \subseteq Pins /\ \A p \in tracking' : future'[p] = "Success"
    BY <1>1, <1>2, <2>2, TrackedKeeps
  <2>4. entries' = entries /\ wasNear' = wasNear /\ passed' = passed
    BY <1>4 DEF Preempt, placeVars
  <2>5. free' >= 0 /\ (pc' = "serve" \/ free' = 0)
    BY <1>1, <1>4, <2>1 DEF EndPass, Preempt, NeedsSlot
  <2> QED BY <1>1, <2>2, <2>3, <2>4, <2>5 DEF RestOK
<1>5. CASE \E answer \in Answers : ApplyAnchorsJson(answer)
  <2>1. PICK answer \in Answers : ApplyAnchorsJson(answer)
    BY <1>5
  <2>2. PICK P, stuck : Release(P, stuck)
    BY <2>1, Zenon DEF ApplyAnchorsJson
  <2>3. LetGo(P, stuck) /\ Cardinality(orphans') <= MaxOrphans
    BY <2>2 DEF Release
  <2>4. tracking' \subseteq Pins /\ \A p \in tracking' : future'[p] = "Success"
    BY <1>1, <1>2, <2>3, TrackedKeeps
  <2>5. /\ entries' = (entries \ Dropped(answer)) \union answer.anchors
        /\ wasNear' = wasNear \ Dropped(answer) /\ free' = free /\ passed' = passed /\ pc' = pc
    BY <2>1 DEF ApplyAnchorsJson, loopVars, placeVars
  <2> QED BY <1>1, <2>3, <2>4, <2>5 DEF RestOK
<1>6. CASE BeginPass
  <2>1. /\ wasNear' = {e \in entries \ recognized : Near(e)} /\ free' \in {0, Cap - Live} /\ passed' = TRUE
        /\ (pc' = "serve" \/ free' = 0)
        /\ entries' = entries /\ orphans' = orphans /\ tracking' = tracking /\ future' = future
    BY <1>6 DEF BeginPass, EndPass, queueVars, arcoreVars
  <2>2. Cap - Live >= 0
    <3>1. ShapeOK /\ SlotsOK
      BY Zenon DEF TypesInv, QueueInv
    <3>2. Live \in Nat /\ Cap \in Nat /\ Live <= Cap
      BY <3>1, LiveIs, Numbers DEF SlotsOK
    <3> QED BY <3>2
  <2>3. wasNear' \subseteq entries'
    BY <2>1
  <2> QED BY <1>1, <2>1, <2>2, <2>3 DEF RestOK
<1>7. CASE StartResolve
  <2> DEFINE e == First
             p == IF e \in Unused THEN e ELSE CHOOSE q \in Unused : \A r \in Unused : q >= r
  <2>1. /\ future' = [future EXCEPT ![p] = "Pending"] /\ tracking' = tracking /\ free' = free - 1
        /\ entries' = entries /\ wasNear' = wasNear /\ orphans' = orphans /\ passed' = passed
        /\ free > 0 /\ Unused # {} /\ pc = "serve" /\ pc' = pc
    BY <1>7, Zenon DEF StartResolve, CanStart, placeVars
  <2>2. p \in Unused
    <3>1. Unused \in SUBSET Nat /\ IsFiniteSet(Unused)
      BY Numbers, FS_Subset DEF Unused
    <3>2. \E q \in Unused : \A r \in Unused : q >= r
      BY <2>1, <3>1, GreatestOf
    <3> QED BY <3>2, Zenon
  <2> HIDE DEF p
  <2>3. future[p] = "none"
    BY <2>2 DEF Unused
  <2>4. \A q \in tracking : q # p /\ future'[q] = "Success"
    BY <1>1, <2>1, <2>3
  <2> QED BY <1>1, <2>1, <2>4 DEF RestOK
<1>8. ASSUME NEW p \in Pins, Resolve(p) \/ Blink(p) \/ Die(p) PROVE RestOK'
  <2>1. /\ entries' = entries /\ wasNear' = wasNear /\ orphans' = orphans /\ passed' = passed /\ free' = free /\ pc' = pc
    BY <1>8 DEF Resolve, Blink, Die, entryVars, queueVars, loopVars, placeVars
  <2>2. CASE Resolve(p)
    <3>1. PICK result \in {"Success"} \union Ended :
             /\ future' = [future EXCEPT ![p] = result] /\ future[p] = "Pending"
             /\ tracking' = IF result = "Success" /\ p \notin orphans THEN tracking \union {p} ELSE tracking
      BY <2>2 DEF Resolve, Ended
    <3>2. p \notin tracking /\ \A q \in tracking : future'[q] = "Success"
      BY <1>1, <3>1
    <3>3. future'[p] = result
      BY <1>1, <3>1
    <3>4. tracking' \subseteq Pins /\ \A q \in tracking' : future'[q] = "Success"
      BY <1>1, <3>1, <3>2, <3>3
    <3> QED BY <1>1, <2>1, <3>4 DEF RestOK
  <2>3. CASE Blink(p)
    <3>1. /\ future' = future /\ future[p] = "Success"
          /\ tracking' = IF p \in tracking THEN tracking \ {p} ELSE tracking \union {p}
      BY <2>3 DEF Blink
    <3> QED BY <1>1, <2>1, <3>1 DEF RestOK
  <2>4. CASE Die(p)
    <3>1. future' = [future EXCEPT ![p] = "Error"] /\ tracking' = tracking \ {p}
      BY <2>4 DEF Die
    <3> QED BY <1>1, <2>1, <3>1 DEF RestOK
  <2> QED BY <1>8, <2>2, <2>3, <2>4
<1>9. CASE \/ SkipPass \/ PassOver \/ NoSlot \/ StartFails \/ StartBlocked \/ StartExhausted \/ AllServed
           \/ UNCHANGED resolverVars \/ Walk \/ Elapse
  <2>1. /\ entries' = entries /\ wasNear' = wasNear /\ orphans' = orphans
        /\ tracking' = tracking /\ future' = future /\ passed' \in BOOLEAN
        /\ (free' = 0 \/ (free' = free /\ pc' = pc))
    BY <1>1, <1>9 DEF SkipPass, PassOver, NoSlot, StartFails, StartBlocked, StartExhausted, AllServed,
                resolverVars, Walk, Elapse, EndPass, entryVars, queueVars, loopVars, arcoreVars, placeVars
  <2> QED BY <1>1, <2>1 DEF RestOK
<1> QED BY <1>3, <1>4, <1>5, <1>6, <1>7, <1>8, <1>9, Zenon DEF QueueNext, Frame, ServePass, Outside

LEMMA TypesStart == QueueInit => TypesInv
<1> SUFFICES ASSUME QueueInit PROVE TypesInv
  OBVIOUS
<1>1. QueueInv
  BY QueueStart
<1>2. ClocksOK
  BY ClockValues DEF QueueInit, ClocksOK
<1>3. RequestsOK
  <2>1. requests = <<>>
    BY DEF QueueInit
  <2>2. requests \in Seq(Stands) /\ Len(requests) = 0 /\ DOMAIN requests = 1..0
    BY <2>1
  <2> QED BY <2>2, QueueNumbers DEF RequestsOK
<1>4. RestOK
  <2>1. orphans = {} /\ Cardinality({}) = 0
    BY FS_EmptySet DEF QueueInit
  <2>2. wasNear = {} /\ entries = {} /\ free = 0 /\ tracking = {} /\ free >= 0
    BY DEF QueueInit
  <2>5. passed \in BOOLEAN
    BY Zenon DEF QueueInit
  <2>3. Cardinality(orphans) = 0
    BY <2>1, Zenon
  <2>4. Cardinality(orphans) <= MaxOrphans
    BY <2>3, QueueNumbers
  <2> QED BY <2>2, <2>4, <2>5 DEF RestOK
<1> QED BY <1>1, <1>2, <1>3, <1>4 DEF TypesInv

LEMMA TypesKeep ==
  ASSUME TypesInv, QueueNext \/ UNCHANGED resolverVars
  PROVE  TypesInv'
<1>1. QueueInv'
  BY QueueKeeps DEF TypesInv
<1>2. ClocksOK' /\ RequestsOK' /\ RestOK'
  BY ClocksKeep, RequestsKeep, RestKeeps
<1> QED BY <1>1, <1>2 DEF TypesInv

LEMMA QueueTypes == TypesInv => QueueTypeOK
<1> SUFFICES ASSUME TypesInv PROVE QueueTypeOK
  OBVIOUS
<1>1. ShapeOK /\ HeldOK /\ WaitingOK /\ SlotsOK /\ ClocksOK /\ RequestsOK /\ RestOK
  BY Zenon DEF TypesInv, QueueInv
<1>2. free \in -MaxOrphans..Cap
  <2>1. free \in Int /\ free >= 0 /\ Live \in Nat /\ Cap \in Nat /\ MaxOrphans \in Nat
    BY <1>1, LiveIs, Numbers, QueueNumbers DEF ShapeOK, RestOK
  <2>2. free + Live <= Cap \/ free = 0
    BY <1>1, Zenon DEF SlotsOK, RestOK
  <2> QED BY <2>1, <2>2
<1>3. waiting \subseteq entries \ recognized /\ stale \subseteq Pins
  BY <1>1 DEF WaitingOK, HeldOK
<1>4. /\ failures \in [Anchors -> 0..MaxFailures] /\ wait \in [Anchors -> 0..Larger(BackoffMax, Hold)]
      /\ stamp \in [Anchors -> 0..Cardinality(Anchors)] /\ age \in [Anchors -> 0..AgeCap]
      /\ hold \in 0..Hold
  BY <1>1, Zenon DEF ClocksOK, Failings, Waits, Ranks, Ages, Holds
<1>5. requests \in Seq(0..Window) /\ Len(requests) <= NearBudget
  BY <1>1, Zenon DEF RequestsOK, Stands
<1>6. /\ wasNear \subseteq entries /\ Cardinality(orphans) <= MaxOrphans
      /\ tracking \subseteq {p \in Pins : future[p] = "Success"} /\ passed \in BOOLEAN
  BY <1>1 DEF RestOK
<1> QED BY <1>1, <1>2, <1>3, <1>4, <1>5, <1>6, Zenon DEF QueueTypeOK, ShapeOK

---------------------------------------------------------------------------
(* Near anchors go first                                                   *)

\* In a pass an anchor the user is near, and that is ready, still waits, or the
\* budget of near anchors is spent.
ServedOK ==
    pc = "serve" =>
       \A n \in entries \ recognized :
          Near(n) /\ pin[n] = NoPin /\ wait[n] = 0 => n \in waiting \/ Len(requests) >= NearBudget

\* What is near depends on the recognised anchors in sight and on the user.
LEMMA SameNear ==
  ASSUME recognized' = recognized, place' = place,
         \A r \in recognized : pin'[r] \in tracking' <=> pin[r] \in tracking,
         NEW e
  PROVE  Near(e)' = Near(e)
<1>1. Seen(recognized)' = Seen(recognized)
  BY DEF Seen
<1>2. Bound(e)' = Bound(e)
  <2>1. Bound(e) = BoundBy(recognized, e) /\ Bound(e)' = BoundBy(recognized, e)'
    BY Zenon DEF Bound
  <2> QED BY <1>1, <2>1 DEF BoundBy
<1> QED BY <1>2, Zenon DEF Near, IsNear

LEMMA ServedKeeps ==
  ASSUME TypesInv, ServedOK, QueueNext \/ UNCHANGED resolverVars
  PROVE  ServedOK'
<1>1. ShapeOK /\ HeldOK /\ WaitingOK /\ ClocksOK /\ RequestsOK
  BY Zenon DEF TypesInv, QueueInv
<1>2. Len(requests) \in Nat
  BY <1>1 DEF RequestsOK
<1>3. SUFFICES ASSUME pc' = "serve", NEW n \in entries' \ recognized',
                      Near(n)', pin'[n] = NoPin, wait'[n] = 0
               PROVE  n \in waiting' \/ Len(requests') >= NearBudget
  BY DEF ServedOK
<1>4. CASE \/ PollResolves \/ SkipPass \/ NoSlot \/ StartBlocked \/ StartExhausted \/ AllServed \/ Outside \/ Elapse
  BY <1>3, <1>4 DEF PollResolves, SkipPass, NoSlot, StartBlocked, StartExhausted, AllServed, EndPass, Elapse,
               Outside, ApplyAnchorsJson, Resolve, Blink, Die, Walk
<1>5. CASE BeginPass
  <2> DEFINE relieved == {e \in {d \in entries \ recognized : Near(d)} \ wasNear : failures[e] > 0 \/ wait[e] > 0}
             ready == {e \in entries \ recognized : pin[e] = NoPin /\ (e \in relieved \/ wait[e] = 0)}
  <2>1. /\ wait' = [e \in Anchors |-> IF e \in relieved THEN 0 ELSE wait[e]]
        /\ waiting' = ready /\ entries' = entries /\ recognized' = recognized /\ pin' = pin
    BY <1>3, <1>5 DEF BeginPass, EndPass
  <2> HIDE DEF relieved
  <2>2. n \in entries \ recognized /\ pin[n] = NoPin /\ n \in Anchors
    BY <1>1, <1>3, <2>1 DEF ShapeOK
  <2>3. n \in relieved \/ wait[n] = 0
    BY <1>3, <2>1, <2>2
  <2> QED BY <2>1, <2>2, <2>3
<1>6. ASSUME pc = "serve", entries' = entries, recognized' = recognized, place' = place,
             \A r \in recognized : pin'[r] \in tracking' <=> pin[r] \in tracking,
             pin[n] = NoPin, wait[n] = 0
      PROVE  n \in entries \ recognized /\ (n \in waiting \/ Len(requests) >= NearBudget)
  <2>1. Near(n)
    BY <1>3, <1>6, SameNear
  <2> QED BY <1>3, <1>6, <2>1 DEF ServedOK
<1>7. CASE UNCHANGED resolverVars
  <2>1. /\ pc = "serve" /\ entries' = entries /\ recognized' = recognized /\ place' = place /\ pin' = pin
        /\ tracking' = tracking /\ wait' = wait /\ waiting' = waiting /\ requests' = requests
    BY <1>3, <1>7 DEF resolverVars, entryVars, queueVars, loopVars, arcoreVars, placeVars
  <2> QED BY <1>3, <1>6, <2>1
<1>8. CASE PassOver
  <2>1. /\ pc = "serve" /\ entries' = entries /\ recognized' = recognized /\ place' = place /\ pin' = pin
        /\ tracking' = tracking /\ wait' = wait /\ requests' = requests
    BY <1>3, <1>8 DEF PassOver, entryVars, queueVars, arcoreVars, placeVars
  <2>2. waiting' = waiting \ {First} /\ Near(First) /\ ~HasBudget(First)
    BY <1>3, <1>8 DEF PassOver, EndPass
  <2>3. Len(requests) >= NearBudget
    BY <1>2, <2>2, QueueNumbers DEF HasBudget
  <2> QED BY <2>1, <2>3
<1>9. CASE Preempt
  <2>1. /\ pc = "serve" /\ entries' = entries /\ recognized' = recognized /\ place' = place
        /\ pin' = [pin EXCEPT ![Victim] = NoPin] /\ wait' = [wait EXCEPT ![Victim] = 0]
        /\ requests' = requests /\ waiting' = waiting /\ Victims # {}
    BY <1>3, <1>9 DEF Preempt, NeedsSlot, EndPass, placeVars
  <2>2. PICK stuck : Release({pin[Victim]}, stuck)
    BY <1>9, Zenon DEF Preempt
  <2>3. tracking' = tracking \ {pin[Victim]}
    BY <2>2 DEF Release, LetGo
  <2>4. Victim \in InFlight /\ ~Near(Victim)
    BY <1>1, <2>1, VictimIs DEF Victims
  <2>5. Victim \in Anchors /\ Victim \notin recognized /\ pin[Victim] # NoPin
    BY <1>1, <2>4 DEF InFlight, ShapeOK
  <2> HIDE DEF Victim
  <2>6. \A r \in recognized : r \in Anchors /\ pin'[r] = pin[r] /\ pin[r] # pin[Victim]
    BY <1>1, <2>1, <2>5 DEF ShapeOK, HeldOK
  <2>7. \A r \in recognized : pin'[r] \in tracking' <=> pin[r] \in tracking
    BY <2>3, <2>6
  <2>8. Near(n)
    BY <1>3, <2>1, <2>7, SameNear
  <2>9. n \in Anchors /\ n # Victim
    BY <1>1, <1>3, <2>1, <2>4, <2>8 DEF ShapeOK
  <2>10. pin[n] = NoPin /\ wait[n] = 0
    BY <1>1, <1>3, <2>1, <2>9 DEF ShapeOK, ClocksOK
  <2> QED BY <1>6, <2>1, <2>7, <2>10
<1>10. CASE StartResolve
  <2> DEFINE p == IF First \in Unused THEN First ELSE CHOOSE q \in Unused : \A r \in Unused : q >= r
  <2>1. /\ pc = "serve" /\ entries' = entries /\ recognized' = recognized /\ place' = place
        /\ pin' = [pin EXCEPT ![First] = p] /\ wait' = wait /\ tracking' = tracking
        /\ requests' = Append(requests, 0) /\ waiting' = waiting \ {First} /\ waiting # {} /\ Unused # {}
    BY <1>10, Zenon DEF StartResolve, CanStart, placeVars
  <2>2. p \in Unused
    <3>1. Unused \in SUBSET Nat /\ IsFiniteSet(Unused)
      BY Numbers, FS_Subset DEF Unused
    <3>2. \E q \in Unused : \A r \in Unused : q >= r
      BY <2>1, <3>1, GreatestOf
    <3> QED BY <3>2, Zenon
  <2> HIDE DEF p
  <2>3. First \in waiting
    BY <1>1, <2>1, FirstIs
  <2>4. First \in Anchors /\ First \notin recognized /\ p # NoPin
    BY <1>1, <2>2, <2>3, Numbers DEF WaitingOK, ShapeOK, Unused, NoPin
  <2> HIDE DEF First
  <2>5. \A r \in recognized : pin'[r] = pin[r]
    BY <1>1, <2>1, <2>4 DEF ShapeOK
  <2>6. n \in Anchors
    BY <1>1, <1>3, <2>1 DEF ShapeOK
  <2>7. n # First
    BY <1>1, <1>3, <2>1, <2>4 DEF ShapeOK
  <2>8. pin[n] = NoPin /\ wait[n] = 0
    BY <1>1, <1>3, <2>1, <2>6, <2>7 DEF ShapeOK
  <2>9. n \in waiting \/ Len(requests) >= NearBudget
    BY <1>6, <2>1, <2>5, <2>8
  <2>10. Len(requests') = Len(requests) + 1
    BY <1>1, <2>1 DEF RequestsOK
  <2> QED BY <1>2, <2>1, <2>7, <2>9, <2>10, QueueNumbers
<1>11. CASE StartFails
  <2>1. /\ pc = "serve" /\ entries' = entries /\ recognized' = recognized /\ place' = place
        /\ pin' = pin /\ wait' = [wait EXCEPT ![First] = Base] /\ tracking' = tracking
        /\ requests' = requests /\ waiting' = waiting \ {First}
    BY <1>11, Zenon DEF StartFails, CanStart, placeVars, queueVars, arcoreVars
  <2>2. n \in Anchors
    BY <1>1, <1>3, <2>1 DEF ShapeOK
  <2>3. n # First
    BY <1>1, <1>3, <2>1, <2>2, QueueNumbers DEF ClocksOK
  <2>4. pin[n] = NoPin /\ wait[n] = 0
    BY <1>1, <1>3, <2>1, <2>2, <2>3 DEF ClocksOK
  <2> QED BY <1>6, <2>1, <2>3, <2>4
<1> QED BY <1>4, <1>5, <1>7, <1>8, <1>9, <1>10, <1>11, Zenon DEF QueueNext, Frame, ServePass

\* A slot goes to the first, and only near anchors go before near ones.
LEMMA NearFirst ==
  ASSUME TypesInv, ServedOK, QueueNext, NEW e \in entries, pin[e] = NoPin, pin'[e] # NoPin, ~Near(e),
         NEW n \in entries \ recognized
  PROVE  ~(Near(n) /\ pin[n] = NoPin /\ wait[n] = 0)
<1>1. ShapeOK /\ WaitingOK /\ RequestsOK
  BY Zenon DEF TypesInv, QueueInv
<1>2. e \in Anchors
  BY <1>1 DEF ShapeOK
<1>3. StartResolve
  <2>1. ~PollResolves
    BY <1>2 DEF PollResolves
  <2>2. ~Preempt
    BY <1>1, <1>2 DEF Preempt, ShapeOK
  <2>3. ~\E answer \in Answers : ApplyAnchorsJson(answer)
    BY <1>2 DEF ApplyAnchorsJson
  <2>4. ~(\/ SkipPass \/ BeginPass \/ PassOver \/ NoSlot \/ StartFails \/ StartBlocked \/ StartExhausted
          \/ AllServed \/ Elapse \/ Walk \/ \E p \in Pins : Resolve(p) \/ Blink(p) \/ Die(p))
    BY DEF SkipPass, BeginPass, PassOver, NoSlot, StartFails, StartBlocked, StartExhausted, AllServed, Elapse,
           Walk, Resolve, Blink, Die, entryVars
  <2> QED BY <2>1, <2>2, <2>3, <2>4, Zenon DEF QueueNext, Frame, ServePass, Outside
<1>4. pc = "serve" /\ waiting # {} /\ HasBudget(First)
  BY <1>3 DEF StartResolve, CanStart
<1>5. e = First
  <2>1. \E p : pin' = [pin EXCEPT ![First] = p]
    BY <1>3, Zenon DEF StartResolve
  <2> HIDE DEF First
  <2> QED BY <1>1, <1>2, <2>1 DEF ShapeOK
<1>6. First \in waiting /\ \A a \in waiting \ {First} : Before(First, a)
  BY <1>1, <1>4, FirstIs
<1>7. Len(requests) < NearBudget
  <2>1. Len(requests) < FarBudget /\ Len(requests) \in Nat
    BY <1>1, <1>4, <1>5 DEF HasBudget, RequestsOK
  <2> QED BY <2>1, QueueNumbers
<1>8. ~(Len(requests) >= NearBudget)
  <2>1. Len(requests) \in Nat
    BY <1>1 DEF RequestsOK
  <2> QED BY <1>7, <2>1, QueueNumbers
<1>9. ASSUME Near(n), n \in waiting PROVE FALSE
  <2>1. n \in waiting \ {First}
    BY <1>5, <1>9
  <2>2. Before(First, n)
    BY <1>6, <2>1
  <2> QED BY <1>5, <1>9, <2>2, Zenon DEF Before
<1> QED BY <1>4, <1>8, <1>9 DEF ServedOK

---------------------------------------------------------------------------
(* The reference anchor                                                    *)

Bases == {"none", "marker", "cloud"}
Sinces == 0..Steady + 1
Helds == 0..JumpHold
Records == [jump : Int, age : Nat, held : Helds, stable : Int, cand : Nat]
PosStates ==
    [recognized : SUBSET Points, away : [Points -> Nat], ref : Points \union {NoPoint}, dwell : Nat,
     base : Bases, xf : Int, recovering : BOOLEAN, fixed : BOOLEAN, good : Nat,
     since : [Points -> Sinces], records : [Points -> Records], blend : Int, blending : BOOLEAN]
EventCounts == 0..MaxEvents
HallStates ==
    [blends : BOOLEAN, wrong : [Points -> Int], spot : Spots, shift : Shift, tracked : SUBSET Points,
     fresh : SUBSET Points, dead : SUBSET Points, good : BOOLEAN, events : EventCounts]

LEMMA RefNumbers ==
    /\ IsFiniteSet(Points) /\ Points \subseteq Nat \ {0} /\ WrongBy \subseteq [Points -> Int]
    /\ Radius \in Nat \ {0} /\ Dwell \in Nat \ {0} /\ JumpHold \in Nat \ {0}
    /\ CandidateGap \in Nat \ {0} /\ RecordWindow \in Nat \ {0} /\ AwayGap \in Nat \ {0}
    /\ Steady \in Nat \ {0} /\ MaxEvents \in Nat
    /\ \A p \in Spots, a \in Points : Far(p, a) \in Nat
  BY ReferenceAssumption

LEMMA RefValues ==
    /\ 0 \in Nat /\ 0 \in Int /\ 0 \in Sinces /\ 0 \in Helds
    /\ NoPoint \in Points \union {NoPoint}
    /\ "none" \in Bases /\ "marker" \in Bases /\ "cloud" \in Bases
    /\ TRUE \in BOOLEAN /\ FALSE \in BOOLEAN
    /\ NoRecord \in Records /\ NoRecord.age > 0 /\ NoRecords \in [Points -> Records]
    /\ \A a \in Points : NoRecords[a] = NoRecord
<1>1. NoRecord \in Records /\ NoRecord.age > 0 /\ 0 \in Sinces /\ 0 \in Helds
  BY RefNumbers DEF NoRecord, Records, Helds, Sinces
<1>2. NoRecords \in [Points -> Records] /\ \A a \in Points : NoRecords[a] = NoRecord
  BY <1>1, Zenon DEF NoRecords
<1> QED BY <1>1, <1>2 DEF Bases

LEMMA CutIs ==
  ASSUME NEW n \in Nat, NEW top \in Nat
  PROVE  Cut(n, top) \in Nat /\ Cut(n, top) <= top /\ (n > 0 /\ top > 0 => Cut(n, top) > 0)
  BY DEF Cut

\* The reference has been recognised, and who recovers a position has one.
RefRests(s) ==
    /\ s.ref # NoPoint => s.ref \in s.recognized
    /\ s.recovering => s.base # "none"

\* The observations are older than the tick.
Old(s) == \A a \in Points : s.records[a].age > 0

LEMMA ImpliedIs ==
  ASSUME hall \in HallStates, NEW a \in Points
  PROVE  Implied(a) \in Int
<1>1. hall.shift \in 0..1 /\ hall.wrong[a] \in Int
  BY DEF HallStates, Shift
<1> QED BY <1>1 DEF Implied

LEMMA NearestIs ==
  ASSUME hall \in HallStates, NEW S \in SUBSET Points, S # {}
  PROVE  NearestOf(S) \in S
<1> DEFINE f == [a \in S |-> Far(hall.spot, a)]
<1>1. hall.spot \in Spots
  BY DEF HallStates
<1>2. \A a \in S : f[a] = Far(hall.spot, a) /\ f[a] \in Nat
  BY <1>1, RefNumbers
<1> HIDE DEF f
<1>3. PICK m \in S : \A a \in S : f[m] <= f[a]
  BY <1>2, LeastBy
<1> DEFINE T == {a \in S : f[a] = f[m]}
<1>4. T \in SUBSET Nat /\ T # {}
  BY RefNumbers
<1>5. PICK n \in T : \A a \in T : n <= a
  BY <1>4, LeastOf
<1>6. \A b \in S : Far(hall.spot, n) < Far(hall.spot, b) \/ (Far(hall.spot, n) = Far(hall.spot, b) /\ n <= b)
  <2> SUFFICES ASSUME NEW b \in S
               PROVE  f[n] < f[b] \/ (f[n] = f[b] /\ n <= b)
    BY <1>2, <1>5
  <2>1. f[n] = f[m] /\ f[n] \in Nat /\ f[b] \in Nat /\ f[m] <= f[b]
    BY <1>2, <1>3, <1>5
  <2>2. CASE f[b] = f[m]
    BY <2>1, <2>2, <1>5
  <2>3. CASE f[b] # f[m]
    BY <2>1, <2>3
  <2> QED BY <2>2, <2>3
<1>7. n \in S
  BY <1>5
<1> HIDE DEF T
<1> QED BY <1>6, <1>7, Zenon DEF NearestOf

---------------------------------------------------------------------------
(* The reference anchor: the tick                                          *)

\* What the position rests on is as it was.
SameBase(s, t) ==
    /\ t.recognized = s.recognized /\ t.ref = s.ref /\ t.base = s.base /\ t.xf = s.xf
    /\ t.recovering = s.recovering

LEMMA AgedKeeps ==
  ASSUME hall \in HallStates, NEW s \in PosStates
  PROVE  Aged(s) \in PosStates /\ SameBase(s, Aged(s)) /\ Old(Aged(s))
<1> DEFINE dwell == Cut(s.dwell + 1, Dwell)
           good == IF hall.good THEN Cut(s.good + 1, Steady) ELSE 0
           one(r) == [r EXCEPT !.age = Cut(@ + 1, RecordWindow + 1), !.held = Cut(@ + 1, JumpHold),
                               !.cand = Cut(@ + 1, CandidateGap + 1)]
           records == [a \in Points |-> one(s.records[a])]
           t == [s EXCEPT !.dwell = dwell, !.good = good, !.records = records]
<1>1. Aged(s) = t
  BY DEF Aged
<1>2. dwell \in Nat /\ good \in Nat
  <2>1. s.dwell \in Nat /\ s.good \in Nat
    BY DEF PosStates
  <2> QED BY <2>1, RefNumbers DEF Cut
<1>3. \A r \in Records : one(r) \in Records /\ one(r).age > 0
  <2> SUFFICES ASSUME NEW r \in Records PROVE one(r) \in Records /\ one(r).age > 0
    OBVIOUS
  <2>1. r.age \in Nat /\ r.held \in 0..JumpHold /\ r.cand \in Nat
    BY DEF Records, Helds
  <2>2. /\ Cut(r.age + 1, RecordWindow + 1) \in Nat /\ Cut(r.age + 1, RecordWindow + 1) > 0
        /\ Cut(r.held + 1, JumpHold) \in Helds /\ Cut(r.cand + 1, CandidateGap + 1) \in Nat
    BY <2>1, RefNumbers DEF Cut, Helds
  <2> QED BY <2>2 DEF Records
<1>4. records \in [Points -> Records] /\ \A a \in Points : records[a].age > 0
  <2>1. \A a \in Points : s.records[a] \in Records
    BY DEF PosStates
  <2> HIDE DEF one
  <2> QED BY <1>3, <2>1
<1> HIDE DEF records, dwell, good
<1>5. t \in PosStates
  BY <1>2, <1>4 DEF PosStates
<1>6. t.records = records
  BY DEF PosStates
<1>7. SameBase(s, t)
  BY DEF SameBase, PosStates
<1> QED BY <1>1, <1>4, <1>5, <1>6, <1>7 DEF Old

LEMMA PlacedKeeps ==
  ASSUME hall \in HallStates, NEW s \in PosStates, NEW a \in Points, NEW t, t = PlacedBy(s, a)
  PROVE  /\ t \in PosStates /\ t.recognized = s.recognized /\ t.ref = s.ref /\ t.base = "cloud"
         /\ t.xf = Implied(a) /\ t.recovering = s.recovering /\ Old(t)
<1> DEFINE fixed == s.fixed \/ s.recovering
           u == [s EXCEPT !.base = "cloud", !.xf = Implied(a), !.records = NoRecords, !.fixed = fixed]
<1>1. t = u
  BY DEF PlacedBy
<1>2. fixed \in BOOLEAN /\ Implied(a) \in Int
  BY ImpliedIs
<1> HIDE DEF fixed
<1>3. u \in PosStates
  BY <1>2, RefValues DEF PosStates
<1>4. u.records = NoRecords
  BY DEF PosStates
<1>5. Old(u)
  BY <1>4, RefValues DEF Old
<1>6. /\ u.recognized = s.recognized /\ u.ref = s.ref /\ u.base = "cloud"
      /\ u.xf = Implied(a) /\ u.recovering = s.recovering
  BY DEF PosStates
<1> QED BY <1>1, <1>3, <1>5, <1>6

LEMMA TakenKeeps ==
  ASSUME hall \in HallStates, NEW s \in PosStates, NEW a \in Points, NEW t, t = TakenAs(s, a)
  PROVE  /\ t \in PosStates /\ t.recognized = s.recognized /\ t.ref = a /\ t.base = "cloud"
         /\ t.xf = Implied(a) /\ t.recovering = s.recovering
<1> DEFINE u == PlacedBy(s, a)
<1>1. /\ u \in PosStates /\ u.recognized = s.recognized /\ u.base = "cloud"
      /\ u.xf = Implied(a) /\ u.recovering = s.recovering
  BY PlacedKeeps
<1>2. t = [u EXCEPT !.ref = a, !.dwell = 0]
  BY DEF TakenAs
<1> HIDE DEF u
<1> DEFINE v == [u EXCEPT !.ref = a, !.dwell = 0]
<1>3. v \in PosStates
  BY <1>1, RefValues DEF PosStates
<1>4. /\ v.recognized = u.recognized /\ v.ref = a /\ v.base = u.base /\ v.xf = u.xf
      /\ v.recovering = u.recovering
  BY <1>1 DEF PosStates
<1> QED BY <1>1, <1>2, <1>3, <1>4

\* The state of the world and of the resolver in which a tick is taken.
Ticking(s) ==
    /\ hall \in HallStates /\ s \in PosStates /\ RefRests(s) /\ Old(s)
    /\ hall.dead \intersect hall.tracked = {}

\* After the watch: the reference is the old one or none, and the position was
\* placed anew by the old one, if at all.
AfterWatch(s, t) ==
    /\ t \in PosStates /\ RefRests(t) /\ Old(t)
    /\ t.recognized = s.recognized \ hall.dead /\ t.base = s.base /\ t.recovering = s.recovering
    /\ t.ref \in {s.ref, NoPoint}
    /\ \/ t.xf = s.xf
       \/ s.ref \in s.recognized \intersect hall.tracked /\ t.xf = Implied(s.ref)

LEMMA WatchedKeeps ==
  ASSUME NEW s, Ticking(s)
  PROVE  AfterWatch(s, Watched(s)) /\ Watched(s).xf = s.xf
<1> DEFINE gone == s.recognized \intersect hall.dead
           away(a) == IF a \in gone \union hall.tracked THEN 0 ELSE Cut(s.away[a] + 1, AwayGap)
           rec == s.recognized \ gone
           ref == IF s.ref \in gone THEN NoPoint ELSE s.ref
           aw == [a \in Points |-> IF a \in s.recognized THEN away(a) ELSE s.away[a]]
           t == [s EXCEPT !.recognized = rec, !.ref = ref, !.away = aw]
<1>1. Watched(s) = t
  BY DEF Watched
<1>2. s \in PosStates /\ RefRests(s) /\ Old(s)
  BY DEF Ticking
<1>3. rec \in SUBSET Points /\ rec = s.recognized \ hall.dead
  BY <1>2 DEF PosStates
<1>4. ref \in Points \union {NoPoint} /\ ref \in {s.ref, NoPoint} /\ (ref # NoPoint => ref \in rec)
  BY <1>2 DEF PosStates, RefRests
<1>5. aw \in [Points -> Nat]
  <2>1. \A a \in Points : s.away[a] \in Nat
    BY <1>2 DEF PosStates
  <2>2. \A a \in Points : Cut(s.away[a] + 1, AwayGap) \in Nat
    BY <2>1, RefNumbers DEF Cut
  <2> QED BY <2>1, <2>2
<1> HIDE DEF rec, ref, aw
<1>6. t \in PosStates
  BY <1>2, <1>3, <1>4, <1>5 DEF PosStates
<1>7. /\ t.recognized = rec /\ t.ref = ref /\ t.base = s.base /\ t.xf = s.xf
      /\ t.recovering = s.recovering /\ t.records = s.records
  BY <1>2 DEF PosStates
<1> HIDE DEF t
<1>8. RefRests(t) /\ Old(t)
  BY <1>2, <1>4, <1>7 DEF RefRests, Old
<1> QED BY <1>1, <1>3, <1>4, <1>6, <1>7, <1>8 DEF AfterWatch

LEMMA AllWatchedKeeps ==
  ASSUME NEW s, Ticking(s)
  PROVE  AfterWatch(s, AllWatched(s))
<1> DEFINE again == /\ s.ref \in (s.recognized \ hall.dead) \intersect hall.tracked
                    /\ s.away[s.ref] >= AwayGap /\ s.base = "cloud" /\ ~s.recovering
           w == Watched(s)
<1>1. AllWatched(s) = IF again THEN PlacedBy(w, s.ref) ELSE w
  BY DEF AllWatched
<1>2. AfterWatch(s, w)
  BY WatchedKeeps
<1> HIDE DEF w
<1>3. CASE again
  <2>1. /\ s.ref \in s.recognized \intersect hall.tracked /\ s.ref \in Points
        /\ s.base = "cloud" /\ ~s.recovering
    BY <1>3 DEF Ticking, PosStates
  <2> DEFINE t == PlacedBy(w, s.ref)
  <2>2. /\ t \in PosStates /\ t.recognized = w.recognized /\ t.ref = w.ref /\ t.base = "cloud"
        /\ t.xf = Implied(s.ref) /\ t.recovering = w.recovering /\ Old(t)
    BY <1>2, <2>1, PlacedKeeps DEF AfterWatch, Ticking
  <2> HIDE DEF t
  <2>3. AllWatched(s) = t
    BY <1>1, <1>3 DEF t
  <2>4. RefRests(t)
    BY <1>2, <2>2 DEF AfterWatch, RefRests
  <2> QED BY <1>2, <2>1, <2>2, <2>3, <2>4 DEF AfterWatch
<1>4. CASE ~again
  BY <1>1, <1>2, <1>4
<1> QED BY <1>3, <1>4

\* The anchors in sight at the tick are recognised after the watch.
Sees(t) ==
    /\ hall \in HallStates /\ t \in PosStates /\ RefRests(t) /\ Old(t)
    /\ SeenAnchors \subseteq t.recognized /\ SeenAnchors \subseteq Points

\* How the reference changes, if it does: to an anchor in sight that another one
\* in sight agrees with, or that agrees with the position, or when no anchor in
\* sight agrees with the position.
Moves(s, t) ==
    /\ t \in PosStates /\ RefRests(t)
    /\ \/ t.ref = s.ref /\ t.base = s.base
       \/ t.ref = NoPoint
       \/ /\ t.ref \in SeenAnchors /\ t.base = "cloud" /\ t.xf = Implied(t.ref)
          /\ \/ s.base = "none" \/ s.recovering
             \/ Implied(t.ref) = s.xf
             \/ \E b \in SeenAnchors \ {t.ref} : Implied(b) = Implied(t.ref)
             \/ \A b \in SeenAnchors : Implied(b) # s.xf

LEMMA NotedIs ==
  ASSUME NEW s, Sees(s), NEW n, n = Noted(s, SeenAnchors)
  PROVE  /\ n \in [Points -> Records]
         /\ \A a \in Points : n[a].age = 0 => a \in SeenAnchors /\ n[a].jump = Implied(a) - s.xf
         /\ \A a \in SeenAnchors : Implied(a) # s.xf => n[a].jump = Implied(a) - s.xf
<1> DEFINE r(a) == IF HasRecord(s.records[a]) THEN s.records[a] ELSE NoRecord
           new(a) == [r(a) EXCEPT !.jump = Implied(a) - s.xf, !.age = 0]
           one(a) == IF a \in SeenAnchors /\ Implied(a) # s.xf THEN new(a) ELSE r(a)
<1>1. n = [a \in Points |-> one(a)]
  BY DEF Noted
<1>2. \A a \in Points : r(a) \in Records /\ r(a).age > 0
  BY RefValues DEF Sees, PosStates, Old
<1>3. \A a \in Points : Implied(a) - s.xf \in Int
  BY ImpliedIs DEF Sees, PosStates
<1> HIDE DEF r
<1>4. \A a \in Points : new(a) \in Records /\ new(a).jump = Implied(a) - s.xf
  BY <1>2, <1>3, RefValues DEF Records
<1> HIDE DEF new
<1>5. \A a \in Points : n[a] = one(a)
  BY <1>1
<1>6. \A a \in Points : one(a) \in Records
  BY <1>2, <1>4
<1>7. n \in [Points -> Records]
  <2> HIDE DEF one
  <2> QED BY <1>1, <1>6
<1>8. ASSUME NEW a \in Points, n[a].age = 0 PROVE a \in SeenAnchors /\ n[a].jump = Implied(a) - s.xf
  BY <1>2, <1>4, <1>5, <1>8
<1>9. ASSUME NEW a \in SeenAnchors, Implied(a) # s.xf PROVE n[a].jump = Implied(a) - s.xf
  BY <1>4, <1>5, <1>9 DEF Sees
<1> QED BY <1>7, <1>8, <1>9

LEMMA GatedMoves ==
  ASSUME NEW s, Sees(s), NEW a \in SeenAnchors
  PROVE  Moves(s, Gated(s, a))
<1>1. a \in Points /\ s \in PosStates /\ hall \in HallStates /\ a \in s.recognized
  BY DEF Sees
<1> DEFINE t == TakenAs(s, a)
<1>2. /\ t \in PosStates /\ t.recognized = s.recognized /\ t.ref = a /\ t.base = "cloud"
      /\ t.xf = Implied(a) /\ t.recovering = s.recovering
  BY <1>1, TakenKeeps
<1> HIDE DEF t
<1>3. RefRests(t)
  BY <1>1, <1>2 DEF RefRests
<1>4. CASE Implied(a) = s.xf
  <2>1. Gated(s, a) = t
    BY <1>4 DEF Gated, t
  <2> QED BY <1>2, <1>3, <1>4, <2>1 DEF Moves
<1>5. CASE Implied(a) # s.xf
  <2> DEFINE noted == Noted(s, SeenAnchors)
             jump == Implied(a) - s.xf
             clocked == Clocked(noted[a], jump)
             records == [noted EXCEPT ![a] = clocked]
             passes == \/ Consensus(records, a)
                       \/ records[a].held >= JumpHold /\ ~Supported(s, a)
             u == [t EXCEPT !.blending = FALSE]
             v == [s EXCEPT !.records = records]
  <2>1. Gated(s, a) = IF passes THEN u ELSE v
    BY <1>5 DEF Gated, t
  <2>2. /\ noted \in [Points -> Records]
        /\ \A b \in Points : noted[b].age = 0 => b \in SeenAnchors /\ noted[b].jump = Implied(b) - s.xf
        /\ noted[a].jump = jump
    BY <1>5, NotedIs
  <2> HIDE DEF noted
  <2>3. jump \in Int
    BY <1>1, ImpliedIs DEF PosStates
  <2>4. clocked \in Records /\ clocked.jump = jump
    <3>1. noted[a] \in Records
      BY <1>1, <2>2
    <3> DEFINE r == noted[a]
    <3> HIDE DEF r, jump
    <3>2. r \in Records /\ r.jump = jump
      BY <2>2, <3>1 DEF r
    <3>3. Clocked(r, jump) \in Records /\ Clocked(r, jump).jump = jump
      BY <2>3, <3>2, RefValues DEF Clocked, Records
    <3> QED BY <3>3 DEF r
  <2> HIDE DEF clocked
  <2>5. records \in [Points -> Records] /\ records[a].jump = jump
        /\ \A b \in Points \ {a} : records[b] = noted[b]
    BY <1>1, <2>2, <2>4
  <2> HIDE DEF records
  <2>6. CASE passes
    <3>1. u \in PosStates /\ u.ref = a /\ u.base = "cloud" /\ u.xf = Implied(a)
          /\ u.recognized = t.recognized /\ u.recovering = t.recovering
      BY <1>2, RefValues DEF PosStates
    <3>2. Gated(s, a) = u
      BY <2>1, <2>6
    <3> HIDE DEF u
    <3>3. RefRests(u)
      BY <1>3, <1>2, <3>1 DEF RefRests
    <3>4. \/ \E b \in SeenAnchors \ {a} : Implied(b) = Implied(a)
          \/ \A b \in SeenAnchors : Implied(b) # s.xf
      <4>1. CASE Consensus(records, a)
        <5>1. PICK b \in Points \ {a} : records[b].age = 0 /\ records[b].jump = records[a].jump
          BY <4>1, Zenon DEF Consensus
        <5>2. b \in SeenAnchors /\ Implied(b) - s.xf = Implied(a) - s.xf
          BY <2>2, <2>5, <5>1
        <5>3. Implied(b) \in Int /\ Implied(a) \in Int /\ s.xf \in Int
          BY <1>1, <5>1, ImpliedIs DEF PosStates
        <5>4. Implied(b) = Implied(a)
          BY <5>2, <5>3
        <5> QED BY <5>1, <5>2, <5>4
      <4>2. CASE ~Supported(s, a)
        BY <1>5, <4>2 DEF Supported
      <4> QED BY <2>6, <4>1, <4>2
    <3> QED BY <3>1, <3>2, <3>3, <3>4 DEF Moves
  <2>7. CASE ~passes
    <3>1. v \in PosStates /\ v.ref = s.ref /\ v.base = s.base
          /\ v.recognized = s.recognized /\ v.recovering = s.recovering
      BY <1>1, <2>5 DEF PosStates
    <3>2. Gated(s, a) = v
      BY <2>1, <2>7
    <3> HIDE DEF v
    <3> QED BY <3>1, <3>2 DEF Moves, RefRests, Sees
  <2> QED BY <2>6, <2>7
<1> QED BY <1>4, <1>5

LEMMA RelatchMoves ==
  ASSUME NEW s, Sees(s), s.recovering
  PROVE  Moves(s, RelatchForRelocalization(s))
<1> DEFINE since == [a \in Points |-> IF a \in SeenAnchors THEN Cut(s.since[a] + 1, Steady + 1) ELSE 0]
           stable == {a \in SeenAnchors : Cut(since[a] - 1, s.good) >= Steady}
           t == [s EXCEPT !.since = since]
<1>1. RelatchForRelocalization(s) = IF stable = {} THEN t ELSE TakenAs(t, NearestOf(stable))
  BY DEF RelatchForRelocalization
<1>2. s \in PosStates /\ hall \in HallStates /\ stable \subseteq SeenAnchors
      /\ SeenAnchors \subseteq Points /\ SeenAnchors \subseteq s.recognized
  BY DEF Sees
<1>3. since \in [Points -> Sinces]
  <2>1. \A a \in Points : s.since[a] \in 0..Steady + 1
    BY <1>2 DEF PosStates, Sinces
  <2>2. \A a \in Points : Cut(s.since[a] + 1, Steady + 1) \in Sinces
    BY <2>1, RefNumbers DEF Cut, Sinces
  <2> QED BY <2>2, RefValues
<1> HIDE DEF since, stable
<1>4. t \in PosStates /\ t.ref = s.ref /\ t.base = s.base /\ t.recognized = s.recognized
      /\ t.recovering = s.recovering
  BY <1>2, <1>3 DEF PosStates
<1> HIDE DEF t
<1>5. CASE stable = {}
  <2>1. RelatchForRelocalization(s) = t
    BY <1>1, <1>5
  <2> QED BY <1>4, <2>1 DEF Moves, RefRests, Sees
<1>6. CASE stable # {}
  <2> DEFINE a == NearestOf(stable)
             u == TakenAs(t, a)
  <2>1. a \in stable
    BY <1>2, <1>6, NearestIs
  <2> HIDE DEF a
  <2>2. a \in SeenAnchors /\ a \in Points /\ a \in t.recognized
    BY <1>2, <1>4, <2>1
  <2>3. /\ u \in PosStates /\ u.recognized = t.recognized /\ u.ref = a /\ u.base = "cloud"
        /\ u.xf = Implied(a) /\ u.recovering = t.recovering
    BY <1>2, <1>4, <2>2, TakenKeeps
  <2>4. RelatchForRelocalization(s) = u
    BY <1>1, <1>6 DEF a
  <2> HIDE DEF u
  <2> QED BY <2>2, <2>3, <2>4 DEF Moves, RefRests
<1> QED BY <1>5, <1>6

LEMMA UpdateMoves ==
  ASSUME NEW s0, Sees(s0)
  PROVE  Moves(s0, UpdateReferenceAnchor(s0))
<1> DEFINE none == [a \in Points |-> 0]
           z == [s0 EXCEPT !.since = none]
           s == IF s0.recovering THEN s0 ELSE z
           a == NearestOf(SeenAnchors)
           t == UpdateReferenceAnchor(s0)
<1>1. s0 \in PosStates /\ hall \in HallStates /\ SeenAnchors \subseteq Points
  BY DEF Sees
<1>2. Sees(s) /\ SameBase(s0, s)
  <2>1. none \in [Points -> Sinces]
    BY RefValues
  <2> HIDE DEF none
  <2>2. z \in PosStates /\ SameBase(s0, z) /\ z.records = s0.records
    BY <1>1, <2>1 DEF PosStates, SameBase
  <2> HIDE DEF z
  <2>3. Sees(z)
    BY <2>2, Zenon DEF Sees, RefRests, Old, SameBase
  <2> QED BY <2>2, <2>3 DEF SameBase
<1>3. \A u : Moves(s, u) => Moves(s0, u)
  BY <1>2, Zenon DEF Moves, SameBase
<1>4. t = CASE s.base = "marker" -> [s EXCEPT !.ref = NoPoint]
         [] s.base # "marker" /\ s.recovering -> RelatchForRelocalization(s)
         [] s.base # "marker" /\ ~s.recovering /\ SeenAnchors = {} -> s
         [] OTHER -> IF s.base = "none" THEN TryLocalizeWithAnchor(s, a)
                     ELSE IF Leaves(s, a) THEN Gated(s, a) ELSE s
  BY DEF UpdateReferenceAnchor
<1> SUFFICES Moves(s0, t)
  OBVIOUS
<1> HIDE DEF s, t, a
<1>5. Moves(s, s)
  BY <1>2 DEF Moves, Sees
<1>6. CASE s.base = "marker"
  <2> DEFINE u == [s EXCEPT !.ref = NoPoint]
  <2>1. s \in PosStates
    BY <1>2 DEF Sees
  <2>2. u \in PosStates /\ u.ref = NoPoint /\ u.recovering = s.recovering /\ u.base = s.base
    BY <2>1, RefValues DEF PosStates
  <2>3. t = u
    BY <1>4, <1>6
  <2> HIDE DEF u
  <2> QED BY <1>2, <1>3, <2>2, <2>3 DEF Moves, RefRests, Sees
<1>7. CASE s.base # "marker" /\ s.recovering
  <2>1. t = RelatchForRelocalization(s)
    BY <1>4, <1>7
  <2> QED BY <1>2, <1>3, <1>7, <2>1, RelatchMoves
<1>8. CASE s.base # "marker" /\ ~s.recovering /\ SeenAnchors = {}
  <2>1. t = s
    BY <1>4, <1>8
  <2> QED BY <1>3, <1>5, <2>1
<1>9. CASE s.base # "marker" /\ ~s.recovering /\ SeenAnchors # {}
  <2>1. a \in SeenAnchors
    BY <1>1, <1>9, NearestIs DEF a
  <2>2. t = IF s.base = "none" THEN TryLocalizeWithAnchor(s, a)
            ELSE IF Leaves(s, a) THEN Gated(s, a) ELSE s
    BY <1>4, <1>9
  <2>3. CASE s.base = "none"
    <3>1. t = TakenAs(s, a)
      BY <2>2, <2>3 DEF TryLocalizeWithAnchor
    <3>2. s \in PosStates /\ a \in Points /\ a \in s.recognized
      BY <1>2, <2>1 DEF Sees
    <3>3. /\ t \in PosStates /\ t.recognized = s.recognized /\ t.ref = a /\ t.base = "cloud"
          /\ t.xf = Implied(a) /\ t.recovering = s.recovering
      BY <1>1, <3>1, <3>2, TakenKeeps
    <3>4. Moves(s, t)
      BY <2>1, <2>3, <3>2, <3>3 DEF Moves, RefRests
    <3> QED BY <1>3, <3>4
  <2>4. CASE s.base # "none"
    <3>1. t \in {Gated(s, a), s}
      BY <2>2, <2>4
    <3> QED BY <1>2, <1>3, <1>5, <2>1, <3>1, GatedMoves
  <2> QED BY <2>3, <2>4
<1> QED BY <1>6, <1>7, <1>8, <1>9

LEMMA BlendedKeeps ==
  ASSUME hall \in HallStates, NEW s \in PosStates, SeenAnchors \subseteq Points, NEW t, t = Blended(s)
  PROVE  /\ t \in PosStates /\ t.recognized = s.recognized /\ t.ref = s.ref /\ t.base = s.base
         /\ t.recovering = s.recovering
         /\ t.xf = s.xf \/ s.ref \notin SeenAnchors \/ t.xf = Implied(s.ref)
<1> DEFINE origin == IF s.blending THEN s.blend ELSE s.xf
           centre == IF s.ref \in SeenAnchors THEN Implied(s.ref) ELSE origin
           u == [s EXCEPT !.blending = FALSE]
           v == [s EXCEPT !.xf = centre, !.blend = centre, !.blending = TRUE]
<1>1. t = s \/ t = u \/ t = v
  BY DEF Blended
<1>2. centre \in Int /\ (s.ref \in SeenAnchors => centre = Implied(s.ref))
  <2>1. origin \in Int
    BY DEF PosStates
  <2>2. s.ref \in SeenAnchors => Implied(s.ref) \in Int
    BY ImpliedIs
  <2> QED BY <2>1, <2>2
<1> HIDE DEF centre
<1>3. u \in PosStates /\ SameBase(s, u)
  BY RefValues DEF PosStates, SameBase
<1>4. /\ v \in PosStates /\ v.recognized = s.recognized /\ v.ref = s.ref /\ v.base = s.base
      /\ v.recovering = s.recovering /\ v.xf = centre
  <2>1. v \in PosStates
    BY <1>2, RefValues DEF PosStates
  <2> QED BY <2>1 DEF PosStates
<1> QED BY <1>1, <1>2, <1>3, <1>4 DEF SameBase

---------------------------------------------------------------------------
(* The reference anchor: its invariant, and what a tick does               *)

RefInv ==
    /\ due \in BOOLEAN /\ hall \in HallStates /\ pos \in PosStates /\ RefRests(pos)
    /\ hall.dead \intersect hall.tracked = {} /\ (~due => hall.dead = {})

LEMMA RefTypes == RefInv => RefTypeOK
<1> SUFFICES ASSUME RefInv PROVE RefTypeOK
  OBVIOUS
<1>1. hall.tracked \subseteq Points /\ hall.events \in 0..MaxEvents
  BY DEF RefInv, HallStates, EventCounts
<1>2. /\ pos.recognized \subseteq Points /\ pos.ref \in Points \union {NoPoint}
      /\ pos.base \in {"none", "marker", "cloud"}
  BY DEF RefInv, PosStates, Bases
<1>3. \A a \in Points : pos.records[a].held \in 0..JumpHold /\ pos.since[a] \in 0..Steady + 1
  <2>1. \A a \in Points : pos.records[a] \in Records /\ pos.since[a] \in Sinces
    BY DEF RefInv, PosStates
  <2> QED BY <2>1 DEF Records, Helds, Sinces
<1> QED BY <1>1, <1>2, <1>3 DEF RefInv, RefTypeOK, RefRests

\* Two anchors in sight imply the position x.
LEMMA TwoImply ==
  ASSUME RefInv, NEW x, NEW a \in SeenAnchors, NEW b \in SeenAnchors, a # b, Implied(a) = x, Implied(b) = x
  PROVE  Cardinality({c \in SeenAnchors : Implied(c) = x}) > 1
<1> DEFINE S == {c \in SeenAnchors : Implied(c) = x}
<1>1. {a} \subseteq S /\ b \in S /\ b \notin {a} /\ S \subseteq Points
  BY DEF RefInv, PosStates, SeenAnchors
<1> HIDE DEF S
<1>2. IsFiniteSet(S) /\ Cardinality(S) \in Nat
  BY <1>1, RefNumbers, FS_Subset, FS_CardinalityType
<1>3. Cardinality({a}) <= Cardinality(S) /\ Cardinality({a}) # Cardinality(S)
  BY <1>1, <1>2, FS_Subset
<1>4. Cardinality({a}) = 1
  BY FS_Singleton
<1>5. Cardinality(S) > 1
  BY <1>2, <1>3, <1>4
<1> QED BY <1>5 DEF S

LEMMA TickMoves ==
  ASSUME RefInv, ResolverTicks
  PROVE  /\ pos' \in PosStates /\ RefRests(pos')
         /\ pos.base = "cloud" /\ ~pos.recovering /\ pos'.ref \notin {pos.ref, NoPoint} /\ pos'.xf # pos.xf
            => \/ Cardinality({a \in SeenAnchors : Implied(a) = pos'.xf}) > 1
               \/ {a \in SeenAnchors : Implied(a) = pos.xf} = {}
<1> DEFINE s == Aged(pos)
           t == AllWatched(s)
           u == UpdateReferenceAnchor(t)
<1>0. pos' = Blended(u)
  BY DEF ResolverTicks
<1>1. hall \in HallStates /\ pos \in PosStates /\ RefRests(pos) /\ SeenAnchors \subseteq Points
  BY DEF RefInv, SeenAnchors, PosStates
<1>2. s \in PosStates /\ SameBase(pos, s) /\ Old(s)
  BY <1>1, AgedKeeps
<1> HIDE DEF u, t, s
<1>3. Ticking(s)
  BY <1>1, <1>2 DEF Ticking, RefInv, RefRests, SameBase
<1>4. AfterWatch(s, t)
  BY <1>3, AllWatchedKeeps DEF t
<1>5. Sees(t)
  <2>1. SeenAnchors \subseteq t.recognized
    BY <1>2, <1>4 DEF SeenAnchors, AfterWatch, SameBase, RefInv
  <2> QED BY <1>1, <1>4, <2>1 DEF Sees, AfterWatch
<1>6. Moves(t, u)
  BY <1>5, UpdateMoves DEF u
<1>7. /\ pos' \in PosStates /\ pos'.recognized = u.recognized /\ pos'.ref = u.ref /\ pos'.base = u.base
      /\ pos'.recovering = u.recovering
      /\ pos'.xf = u.xf \/ u.ref \notin SeenAnchors \/ pos'.xf = Implied(u.ref)
  BY <1>0, <1>1, <1>6, BlendedKeeps DEF Moves
<1>8. RefRests(pos')
  BY <1>6, <1>7 DEF Moves, RefRests
<1>9. ASSUME pos.base = "cloud", ~pos.recovering, pos'.ref \notin {pos.ref, NoPoint}, pos'.xf # pos.xf
      PROVE  \/ Cardinality({a \in SeenAnchors : Implied(a) = pos'.xf}) > 1
             \/ {a \in SeenAnchors : Implied(a) = pos.xf} = {}
  <2> DEFINE a == u.ref
             old == pos.ref
  <2>1. t.base = "cloud" /\ ~t.recovering /\ a \notin {old, NoPoint} /\ t.ref \in {old, NoPoint}
    BY <1>2, <1>4, <1>7, <1>9 DEF SameBase, AfterWatch
  <2>2. /\ a \in SeenAnchors /\ u.xf = Implied(a)
        /\ \/ Implied(a) = t.xf
           \/ \E b \in SeenAnchors \ {a} : Implied(b) = Implied(a)
           \/ \A b \in SeenAnchors : Implied(b) # t.xf
    BY <1>6, <2>1 DEF Moves
  <2>3. pos'.xf = Implied(a)
    BY <1>7, <2>2
  <2>4. t.xf = pos.xf \/ (old \in SeenAnchors /\ t.xf = Implied(old))
    BY <1>2, <1>4 DEF AfterWatch, SameBase, SeenAnchors
  <2> HIDE DEF a, old
  <2>5. CASE Implied(a) = t.xf
    <3>1. old \in SeenAnchors /\ Implied(old) = Implied(a) /\ old # a
      BY <1>9, <2>1, <2>3, <2>4, <2>5
    <3> QED BY <2>2, <2>3, <3>1, TwoImply
  <2>6. CASE \E b \in SeenAnchors \ {a} : Implied(b) = Implied(a)
    BY <2>2, <2>3, <2>6, TwoImply
  <2>7. CASE \A b \in SeenAnchors : Implied(b) # t.xf
    <3>1. t.xf = pos.xf
      BY <2>4, <2>7
    <3> QED BY <2>7, <3>1
  <2> QED BY <2>2, <2>5, <2>6, <2>7
<1> QED BY <1>7, <1>8, <1>9

---------------------------------------------------------------------------
(* The reference anchor: its steps                                         *)

LEMMA RefStarts ==
  ASSUME RefInit
  PROVE  RefInv
<1>1. PICK wrong \in WrongBy, p \in Spots, blends \in BOOLEAN :
        hall = [blends |-> blends, wrong |-> wrong, spot |-> p, shift |-> 0, tracked |-> {}, fresh |-> {}, dead |-> {},
                good |-> TRUE, events |-> 0]
  BY DEF RefInit
<1>2. wrong \in [Points -> Int] /\ 0 \in EventCounts /\ 0 \in Shift
  BY RefNumbers DEF EventCounts, Shift
<1>3. hall \in HallStates /\ hall.dead = {}
  BY <1>1, <1>2 DEF HallStates
<1>4. pos \in PosStates
  <2>1. [a \in Points |-> 0] \in [Points -> Nat] /\ [a \in Points |-> 0] \in [Points -> Sinces]
    BY RefValues
  <2> QED BY <2>1, RefValues DEF RefInit, PosStates
<1>5. pos.ref = NoPoint /\ pos.recovering = FALSE /\ due = FALSE
  BY DEF RefInit
<1> QED BY <1>3, <1>4, <1>5 DEF RefInv, RefRests

LEMMA CountedIs ==
  ASSUME NEW h \in HallStates, h.events < MaxEvents
  PROVE  /\ Counted(h) \in HallStates /\ Counted(h).tracked = h.tracked /\ Counted(h).dead = h.dead
         /\ Counted(h).shift = h.shift
<1> DEFINE n == h.events + 1
           t == [h EXCEPT !.events = n]
<1>1. Counted(h) = t
  BY DEF Counted
<1>2. n \in EventCounts
  BY RefNumbers DEF HallStates, EventCounts
<1> HIDE DEF n
<1>3. t \in HallStates
  BY <1>2 DEF HallStates
<1> QED BY <1>1, <1>3 DEF HallStates

\* What the world does leaves what the resolver holds alone.
LEMMA WorldTurns ==
  ASSUME RefInv, NEW h \in HallStates, h.events = hall.events, hall' = Counted(h), hall.events < MaxEvents,
         h.dead \intersect h.tracked = {}, due' = TRUE, pos' \in PosStates, RefRests(pos')
  PROVE  RefInv'
<1>1. hall' \in HallStates /\ hall'.tracked = h.tracked /\ hall'.dead = h.dead
  BY CountedIs
<1> QED BY <1>1 DEF RefInv, RefRests

LEMMA RefWorldSteps ==
  ASSUME RefInv,
         \/ \E a \in Points : Event(PinDies(a))
         \/ \E S \in SUBSET Points : Event(SightChanges(S))
         \/ \E p \in Spots : Event(UserWalks(p))
         \/ Event(FrameShifts) \/ Event(QualityTurns)
  PROVE  RefInv'
<1>1. /\ hall \in HallStates /\ pos \in PosStates /\ RefRests(pos) /\ due = FALSE /\ due' = TRUE
      /\ hall.events < MaxEvents /\ hall.dead = {} /\ pos' = pos
  BY DEF RefInv, Event, PinDies, SightChanges, UserWalks, FrameShifts, QualityTurns
<1>2. PICK h \in HallStates : hall' = Counted(h) /\ h.events = hall.events /\ h.dead \intersect h.tracked = {}
  <2>1. ASSUME NEW a \in Points, PinDies(a)
        PROVE  \E h \in HallStates : hall' = Counted(h) /\ h.events = hall.events /\ h.dead \intersect h.tracked = {}
    <3> DEFINE h == [hall EXCEPT !.dead = {a}, !.tracked = @ \ {a}]
    <3>1. hall' = Counted(h)
      BY <2>1 DEF PinDies
    <3>2. h \in HallStates /\ h.events = hall.events /\ h.dead = {a} /\ h.tracked = hall.tracked \ {a}
      BY <1>1 DEF HallStates
    <3> HIDE DEF h
    <3> QED BY <3>1, <3>2
  <2>2. ASSUME NEW S \in SUBSET Points, SightChanges(S)
        PROVE  \E h \in HallStates : hall' = Counted(h) /\ h.events = hall.events /\ h.dead \intersect h.tracked = {}
    <3> DEFINE h == [hall EXCEPT !.tracked = S]
    <3>1. hall' = Counted(h)
      BY <2>2 DEF SightChanges
    <3>2. h \in HallStates /\ h.events = hall.events /\ h.dead = {}
      BY <1>1 DEF HallStates
    <3> HIDE DEF h
    <3> QED BY <3>1, <3>2
  <2>3. ASSUME NEW p \in Spots, UserWalks(p)
        PROVE  \E h \in HallStates : hall' = Counted(h) /\ h.events = hall.events /\ h.dead \intersect h.tracked = {}
    <3> DEFINE h == [hall EXCEPT !.spot = p]
    <3>1. hall' = Counted(h)
      BY <2>3 DEF UserWalks
    <3>2. h \in HallStates /\ h.events = hall.events /\ h.dead = {}
      BY <1>1 DEF HallStates
    <3> HIDE DEF h
    <3> QED BY <3>1, <3>2
  <2>4. ASSUME FrameShifts
        PROVE  \E h \in HallStates : hall' = Counted(h) /\ h.events = hall.events /\ h.dead \intersect h.tracked = {}
    <3>1. PICK f \in Shift : hall' = Counted([hall EXCEPT !.shift = f])
      BY <2>4 DEF FrameShifts
    <3> DEFINE h == [hall EXCEPT !.shift = f]
    <3>2. hall' = Counted(h)
      BY <3>1
    <3>3. h \in HallStates /\ h.events = hall.events /\ h.dead = {}
      BY <1>1 DEF HallStates
    <3> HIDE DEF h
    <3> QED BY <3>2, <3>3
  <2>5. ASSUME QualityTurns
        PROVE  \E h \in HallStates : hall' = Counted(h) /\ h.events = hall.events /\ h.dead \intersect h.tracked = {}
    <3> DEFINE g == ~hall.good
               h == [hall EXCEPT !.good = g]
    <3>1. hall' = Counted(h)
      BY <2>5 DEF QualityTurns
    <3>2. g \in BOOLEAN
      OBVIOUS
    <3> HIDE DEF g
    <3>3. h \in HallStates /\ h.events = hall.events /\ h.dead = {}
      BY <1>1, <3>2 DEF HallStates
    <3> HIDE DEF h
    <3> QED BY <3>1, <3>3
  <2> QED BY <2>1, <2>2, <2>3, <2>4, <2>5 DEF Event
<1> QED BY <1>1, <1>2, WorldTurns

LEMMA RecognisedKeeps ==
  ASSUME RefInv, NEW a \in Points, Event(Recognised(a))
  PROVE  RefInv'
<1>1. /\ hall \in HallStates /\ pos \in PosStates /\ RefRests(pos) /\ due = FALSE /\ due' = TRUE
      /\ hall.events < MaxEvents /\ hall.dead = {}
  BY DEF RefInv, Event
<1> DEFINE h == [hall EXCEPT !.tracked = @ \union {a}, !.fresh = {a}]
           away == [pos.away EXCEPT ![a] = 0]
           rec == pos.recognized \union {a}
           s == [pos EXCEPT !.recognized = rec, !.away = away]
<1>2. hall' = Counted(h)
  BY DEF Event, Recognised
<1>3. h \in HallStates /\ h.events = hall.events /\ h.dead = {}
  BY <1>1 DEF HallStates
<1>4. pos' = TryLocalizeWithAnchor(s, a)
  <2>1. s = [pos EXCEPT !.recognized = @ \union {a}, !.away[a] = 0]
    BY <1>1 DEF PosStates
  <2> QED BY <2>1 DEF Event, Recognised
<1>5. away \in [Points -> Nat] /\ rec \in SUBSET Points /\ a \in rec /\ pos.recognized \subseteq rec
  BY <1>1 DEF PosStates
<1> HIDE DEF h, away, rec
<1>6. s \in PosStates /\ s.recognized = rec /\ s.ref = pos.ref /\ s.base = pos.base
      /\ s.recovering = pos.recovering
  BY <1>1, <1>5 DEF PosStates
<1> HIDE DEF s
<1>7. pos' \in PosStates /\ RefRests(pos')
  <2> DEFINE t == TakenAs(s, a)
  <2>1. /\ t \in PosStates /\ t.recognized = s.recognized /\ t.ref = a /\ t.base = "cloud"
        /\ t.recovering = s.recovering
    BY <1>1, <1>6, TakenKeeps
  <2>2. pos' \in {s, t}
    BY <1>4 DEF TryLocalizeWithAnchor
  <2> HIDE DEF t
  <2> QED BY <1>1, <1>5, <1>6, <2>1, <2>2 DEF RefRests
<1>8. h.dead \intersect h.tracked = {}
  BY <1>3
<1> QED BY <1>1, <1>2, <1>3, <1>7, <1>8, WorldTurns

LEMMA LocalizerSteps ==
  ASSUME RefInv, \/ Event(MarkerFound) \/ Event(PositionReset) \/ Event(RecoveryBegins) \/ Event(RecoveryEnds)
  PROVE  RefInv'
<1>1. /\ hall \in HallStates /\ pos \in PosStates /\ RefRests(pos) /\ due = FALSE /\ due' = TRUE
      /\ hall.events < MaxEvents /\ hall.dead = {} /\ hall' = Counted(hall)
  BY DEF RefInv, Event, MarkerFound, PositionReset, RecoveryBegins, RecoveryEnds
<1>2. pos' \in PosStates /\ RefRests(pos')
  <2>1. CASE MarkerFound
    <3> DEFINE fixed == pos.fixed \/ pos.recovering
               t == [pos EXCEPT !.base = "marker", !.xf = hall.shift, !.fixed = fixed]
    <3>1. pos' = t
      BY <2>1 DEF MarkerFound
    <3>2. fixed \in BOOLEAN /\ hall.shift \in Int
      BY <1>1 DEF HallStates, Shift
    <3> HIDE DEF fixed
    <3>3. t \in PosStates /\ t.ref = pos.ref /\ t.recognized = pos.recognized /\ t.base = "marker"
      BY <1>1, <3>2, RefValues DEF PosStates
    <3> QED BY <1>1, <3>1, <3>3 DEF RefRests
  <2>2. CASE PositionReset
    <3> DEFINE t == [pos EXCEPT !.base = "none", !.xf = 0, !.recovering = FALSE, !.fixed = FALSE]
    <3>1. pos' = t
      BY <2>2 DEF PositionReset
    <3>2. t \in PosStates /\ t.ref = pos.ref /\ t.recognized = pos.recognized /\ t.recovering = FALSE
      BY <1>1, RefValues DEF PosStates
    <3> QED BY <1>1, <3>1, <3>2 DEF RefRests
  <2>3. CASE RecoveryBegins
    <3> DEFINE t == [pos EXCEPT !.recovering = TRUE, !.fixed = FALSE]
    <3>1. pos' = t /\ pos.base # "none"
      BY <2>3 DEF RecoveryBegins
    <3>2. t \in PosStates /\ t.ref = pos.ref /\ t.recognized = pos.recognized /\ t.base = pos.base
      BY <1>1, RefValues DEF PosStates
    <3> QED BY <1>1, <3>1, <3>2 DEF RefRests
  <2>4. CASE RecoveryEnds
    <3> DEFINE t == [pos EXCEPT !.recovering = FALSE, !.fixed = FALSE]
    <3>1. pos' = t
      BY <2>4 DEF RecoveryEnds
    <3>2. t \in PosStates /\ t.ref = pos.ref /\ t.recognized = pos.recognized /\ t.recovering = FALSE
      BY <1>1, RefValues DEF PosStates
    <3> QED BY <1>1, <3>1, <3>2 DEF RefRests
  <2> QED BY <2>1, <2>2, <2>3, <2>4 DEF Event
<1> QED BY <1>1, <1>2, WorldTurns

LEMMA TickKeepsRef ==
  ASSUME RefInv, ResolverTicks
  PROVE  RefInv'
<1>1. pos' \in PosStates /\ RefRests(pos')
  BY TickMoves
<1>2. hall \in HallStates /\ hall' = [hall EXCEPT !.fresh = {}, !.dead = {}] /\ due' = FALSE
  BY DEF RefInv, ResolverTicks
<1>3. hall' \in HallStates /\ hall'.dead = {}
  BY <1>2 DEF HallStates
<1> QED BY <1>1, <1>2, <1>3 DEF RefInv, RefRests

LEMMA RefSteps ==
  ASSUME RefInv, RefNext
  PROVE  RefInv'
<1>1. CASE ResolverTicks
  BY <1>1, TickKeepsRef
<1>2. CASE Quiet
  BY <1>2 DEF Quiet, RefInv, RefRests
<1>3. CASE \E a \in Points : Event(Recognised(a))
  BY <1>3, RecognisedKeeps
<1>4. CASE \/ \E a \in Points : Event(PinDies(a))
           \/ \E S \in SUBSET Points : Event(SightChanges(S))
           \/ \E p \in Spots : Event(UserWalks(p))
           \/ Event(FrameShifts) \/ Event(QualityTurns)
  BY <1>4, RefWorldSteps
<1>5. CASE \/ Event(MarkerFound) \/ Event(PositionReset) \/ Event(RecoveryBegins) \/ Event(RecoveryEnds)
  BY <1>5, LocalizerSteps
<1> QED BY <1>1, <1>2, <1>3, <1>4, <1>5, Zenon DEF RefNext

LEMMA RefStutters == RefInv /\ UNCHANGED refVars => RefInv'
  BY DEF RefInv, RefRests, refVars

\* Only a tick of the resolver moves what is due.
LEMMA RefMoves ==
  ASSUME RefInv, [RefNext]_refVars,
         pos.base = "cloud", pos'.base = "cloud", due, ~pos.recovering,
         pos'.ref \notin {pos.ref, NoPoint}, pos'.xf # pos.xf
  PROVE  \/ Cardinality({a \in SeenAnchors : Implied(a) = pos'.xf}) > 1
         \/ {a \in SeenAnchors : Implied(a) = pos.xf} = {}
<1>1. CASE ResolverTicks
  BY <1>1, TickMoves
<1>2. CASE ~ResolverTicks
  <2>1. ~RefNext
    BY <1>2 DEF RefNext, Quiet, Event
  <2>2. pos' = pos
    BY <2>1 DEF refVars
  <2> QED BY <2>2
<1> QED BY <1>1, <1>2

---------------------------------------------------------------------------
(* The localizer                                                           *)

Modes == {"Localized", "Relocalizing", "Recovered"}
Sources == Markers \union {Cloud, NoSource}
Accums == [bad : Nat, lost : Nat, good : Nat, cooldown : Nat, prev : Frames \union {NoFrame}]
Stays == 0..StayCap
Goods == 0..GoodCap
Hints == 0..HintAfter
Clocks == 0..FadeAfter
Overlays == {"none", "scanning", "recovered"}
App == [scanning : BOOLEAN, ready : BOOLEAN, bound : BOOLEAN, asked : BOOLEAN, localized : BOOLEAN,
        source : Sources, image : BOOLEAN, xf : Int, unseen : Nat, last : SUBSET Markers, pose : Int,
        mode : Modes, fix : BOOLEAN, slid : BOOLEAN, stay : Stays, good : Goods, accum : Accums,
        solved : BOOLEAN, jump : BOOLEAN, resume : BOOLEAN, hint : Hints, hintShown : BOOLEAN,
        poor : Nat, calm : Nat, degraded : BOOLEAN, overlay : Overlays,
        clock : Clocks, banner : BOOLEAN]
Worlds == [quality : Qualities, frame : Frames, inView : SUBSET Markers, pinInView : BOOLEAN,
           changes : 0..MaxChanges]

\* What a position rests on.
Rests(s) ==
    /\ s.localized <=> s.source # NoSource
    /\ s.image => s.source \in Markers
    /\ s.mode # "Localized" => s.localized

\* Nothing of the position is touched.
SamePosition(s, t) ==
    /\ t.localized = s.localized /\ t.source = s.source /\ t.image = s.image /\ t.xf = s.xf
    /\ t.mode = s.mode /\ t.fix = s.fix /\ t.slid = s.slid /\ t.good = s.good

\* The transform is of the frame ARCore uses, or ARCore has corrected itself since.
Right(s) == s.xf = world.frame \/ s.slid

LEMMA LocNumbers ==
    /\ Recover \in Nat \ {0} /\ PinStable \in Nat \ {0} /\ MinStay \in Nat \ {0} /\ ShowFor \in Nat \ {0}
    /\ FadeAfter \in Nat \ {0} /\ CooldownFor \in Nat \ {0} /\ LostHold \in Nat \ {0}
    /\ BadHold \in Nat \ {0} /\ PoorHold \in Nat \ {0} /\ HintAfter \in Nat \ {0}
    /\ ReacquireGap \in Nat \ {0} /\ MaxChanges \in Nat /\ NoFrame \notin Nat
    /\ StayCap \in Nat \ {0} /\ MinStay <= StayCap /\ ShowFor <= StayCap
    /\ GoodCap \in Nat \ {0} /\ Recover <= GoodCap /\ PinStable <= GoodCap
    /\ Cloud # NoSource /\ Cloud \notin Markers /\ NoSource \notin Markers
  BY LocalizerAssumption DEF StayCap, GoodCap

LEMMA Values ==
    /\ 0 \in Stays /\ 0 \in Goods /\ 0 \in Hints /\ 0 \in Clocks /\ 0 \in Int /\ 0 \in Nat
    /\ "none" \in Overlays /\ "scanning" \in Overlays /\ "recovered" \in Overlays
    /\ "Localized" \in Modes /\ "Relocalizing" \in Modes /\ "Recovered" \in Modes
    /\ (\A m \in Markers : m \in Sources) /\ Cloud \in Sources /\ NoSource \in Sources
    /\ TRUE \in BOOLEAN /\ FALSE \in BOOLEAN /\ NoAccum \in Accums
  BY LocNumbers DEF Stays, Goods, Hints, Clocks, Overlays, Modes, Sources, NoAccum, Accums

LEMMA LineKeeps ==
  ASSUME NEW s \in App
  PROVE  /\ LineShows(s) \in App /\ SamePosition(s, LineShows(s)) /\ LineShows(s).pose = s.pose
         /\ LineGoes(s) \in App /\ SamePosition(s, LineGoes(s)) /\ LineGoes(s).pose = s.pose
  BY DEF App, LineShows, LineGoes, SamePosition

LEMMA OverlayKeeps ==
  ASSUME NEW s \in App
  PROVE  /\ OverlayScans(s) \in App /\ SamePosition(s, OverlayScans(s))
         /\ OverlayTicks(s) \in App /\ SamePosition(s, OverlayTicks(s)) /\ OverlayTicks(s).pose = s.pose
<1>1. OverlayScans(s) \in App
  BY Values DEF App, OverlayScans
<1>2. OverlayTicks(s) \in App
  <2>1. CASE s.overlay = "none"
    BY <2>1 DEF OverlayTicks
  <2>2. CASE s.overlay # "none"
    <3>1. OverlayTicks(s) = [s EXCEPT !.overlay = "recovered", !.clock = 0]
      BY <2>2 DEF OverlayTicks
    <3> QED BY <3>1, Values DEF App
  <2> QED BY <2>1, <2>2
<1> QED BY <1>1, <1>2 DEF App, OverlayScans, OverlayTicks, SamePosition

LEMMA ObservedKeeps ==
  ASSUME NEW s \in App
  PROVE  Observed(s) \in App /\ SamePosition(s, Observed(s))
<1> DEFINE t == [s EXCEPT !.hint = 0, !.hintShown = FALSE]
<1>1. t \in App /\ SamePosition(s, t)
  BY Values DEF App, SamePosition
<1> HIDE DEF t
<1>2. LineGoes(t) \in App /\ SamePosition(t, LineGoes(t))
  BY <1>1, LineKeeps
<1>3. Observed(s) = t \/ Observed(s) = LineGoes(t)
  BY DEF Observed, t
<1> QED BY <1>1, <1>2, <1>3 DEF SamePosition

LEMMA WorldIs ==
  ASSUME world \in Worlds
  PROVE  world.frame \in 0..1 /\ world.quality \in Qualities /\ world.inView \subseteq Markers
  BY DEF Worlds, Frames

LEMMA FixStored ==
  ASSUME NEW o \in App, NEW b \in BOOLEAN
  PROVE  [o EXCEPT !.fix = b] \in App
  BY DEF App

LEMMA FixedKeeps ==
  ASSUME NEW s \in App
  PROVE  /\ Fixed(s) \in App /\ Fixed(s).localized = s.localized /\ Fixed(s).source = s.source
         /\ Fixed(s).image = s.image /\ Fixed(s).xf = s.xf /\ Fixed(s).mode = s.mode
         /\ Fixed(s).slid = s.slid /\ Fixed(s).good = s.good /\ Fixed(s).fix = (s.fix \/ s.mode = "Relocalizing")
<1>1. Observed(s) \in App /\ SamePosition(s, Observed(s))
  BY ObservedKeeps
<1> DEFINE o == Observed(s)
<1> HIDE DEF o
<1>2. o \in App /\ SamePosition(s, o) /\ Fixed(s) = [o EXCEPT !.fix = @ \/ s.mode = "Relocalizing"]
  BY <1>1 DEF o, Fixed
<1>3. Fixed(s) \in App
  <2>1. PICK b \in BOOLEAN : Fixed(s) = [o EXCEPT !.fix = b]
    BY <1>2, Zenon
  <2> QED BY <1>2, <2>1, FixStored
<1> QED BY <1>2, <1>3 DEF App, SamePosition

LEMMA SolvedKeeps ==
  ASSUME NEW s \in App, world \in Worlds
  PROVE  /\ Solved(s) \in App /\ Solved(s).localized = s.localized /\ Solved(s).source = s.source
         /\ Solved(s).image = s.image /\ Solved(s).xf = world.frame /\ Solved(s).mode = s.mode
         /\ Solved(s).fix = s.fix /\ Solved(s).good = s.good
<1>1. world.frame \in Int
  BY WorldIs
<1>2. Solved(s) \in App
  BY <1>1 DEF App, Solved
<1> QED BY <1>2 DEF App, Solved

LEMMA ResetKeeps ==
  ASSUME NEW s \in App
  PROVE  DetectionReset(s) \in App /\ SamePosition(s, DetectionReset(s))
<1>1. DetectionReset(s) \in App
  BY Values DEF App, DetectionReset
<1> QED BY <1>1 DEF App, DetectionReset, SamePosition

LEMMA PosedKeeps ==
  ASSUME NEW s \in App, world \in Worlds
  PROVE  /\ Posed(s) \in App /\ SamePosition(s, Posed(s))
         /\ s.mode # "Relocalizing" => Posed(s).pose = s.xf - world.frame
  BY WorldIs DEF App, Posed, SamePosition


\* What a scan and a new sight of the anchor do to the position: nothing, or it is
\* solved anew, which counts as a fix in a recovery.
Advances(s, t) ==
    /\ t \in App /\ t.mode = s.mode /\ t.localized = s.localized /\ Rests(t) /\ t.good = s.good
    /\ \/ t.xf = s.xf /\ t.fix = s.fix /\ t.slid = s.slid
       \/ t.xf = world.frame /\ t.fix = (s.fix \/ s.mode = "Relocalizing")

LEMMA FixAdvances ==
  ASSUME NEW s \in App, Rests(s), world \in Worlds
  PROVE  Advances(s, Fixed(Solved(s)))
<1> DEFINE u == Solved(s)
<1>1. /\ u \in App /\ u.localized = s.localized /\ u.source = s.source /\ u.image = s.image
      /\ u.xf = world.frame /\ u.mode = s.mode /\ u.fix = s.fix /\ u.good = s.good
  BY SolvedKeeps
<1> HIDE DEF u
<1>2. /\ Fixed(u) \in App /\ Fixed(u).localized = u.localized /\ Fixed(u).source = u.source
      /\ Fixed(u).image = u.image /\ Fixed(u).xf = u.xf /\ Fixed(u).mode = u.mode
      /\ Fixed(u).good = u.good /\ Fixed(u).fix = (u.fix \/ u.mode = "Relocalizing")
  BY <1>1, FixedKeeps
<1>3. Advances(s, Fixed(u))
  BY <1>1, <1>2, Zenon DEF Advances, Rests
<1> QED BY <1>3 DEF u

LEMMA ScannedAdvances ==
  ASSUME NEW s \in App, world \in Worlds, Rests(s), s.localized, NEW m \in Chosen(TransitionTargets(s))
  PROVE  Advances(s, Scanned(s, m))
<1>1. m \in Markers \union {NoSource}
  BY WorldIs DEF Chosen, TransitionTargets
<1>2. world.inView \in SUBSET Markers
  BY WorldIs
<1>3. CASE m = NoSource
  <2>1. Scanned(s, m) = [s EXCEPT !.last = world.inView]
    BY <1>3 DEF Scanned
  <2>2. Scanned(s, m) \in App
    BY <2>1, <1>2 DEF App
  <2> QED BY <2>1, <2>2 DEF App, Advances, Rests
<1>4. CASE m # NoSource
  <2> DEFINE t == [s EXCEPT !.source = m, !.image = TRUE, !.unseen = 0]
  <2>1. m \in Markers /\ m \in Sources
    BY <1>1, <1>4, Values
  <2>2. t \in App
    BY <2>1, Values DEF App
  <2>3. t.mode = s.mode /\ t.localized = s.localized /\ t.xf = s.xf /\ t.fix = s.fix /\ t.slid = s.slid
        /\ t.good = s.good /\ t.source = m
    BY DEF App
  <2>4. Rests(t)
    BY <2>1, <2>3, LocNumbers DEF Rests
  <2> DEFINE u == Fixed(Solved(t))
  <2>5. Advances(t, u)
    BY <2>2, <2>4, FixAdvances
  <2>6. Scanned(s, m) = [u EXCEPT !.last = world.inView]
    BY <1>4 DEF Scanned, MovedTo
  <2> HIDE DEF t, u
  <2>7. u \in App
    BY <2>5 DEF Advances
  <2>8. Scanned(s, m) \in App
    BY <2>6, <2>7, <1>2 DEF App
  <2> DEFINE v == Scanned(s, m)
  <2>9. /\ v.mode = u.mode /\ v.localized = u.localized /\ v.xf = u.xf /\ v.fix = u.fix /\ v.slid = u.slid
        /\ v.good = u.good /\ v.source = u.source /\ v.image = u.image
    BY <2>6, <2>7 DEF App
  <2> HIDE DEF v
  <2>10. Advances(s, v)
    BY <2>3, <2>5, <2>8, <2>9, Zenon DEF Advances, Rests, v
  <2> QED BY <2>10 DEF v
<1> QED BY <1>3, <1>4

LEMMA AtMostIs ==
  ASSUME NEW n \in Nat, NEW top \in Nat
  PROVE  AtMost(n, top) \in 0..top /\ AtMost(n, top) \in Nat /\ (n > 0 /\ top > 0 => AtMost(n, top) > 0)
  BY DEF AtMost

LEMMA RelatchedAdvances ==
  ASSUME NEW s \in App, world \in Worlds, Rests(s), s.localized
  PROVE  Advances(s, Relatched(s))
<1>1. CASE s.image /\ s.source \in world.inView
  <2>1. PICK u \in {s, Fixed(Solved(s))} : Relatched(s) = Observed([u EXCEPT !.unseen = 0])
    BY <1>1 DEF Relatched
  <2>2. Advances(s, u)
    BY <2>1, FixAdvances DEF Advances
  <2> DEFINE t == [u EXCEPT !.unseen = 0]
  <2>3. u \in App
    BY <2>2 DEF Advances
  <2>4. t \in App
    BY <2>3, Values DEF App
  <2>5. /\ t.mode = u.mode /\ t.localized = u.localized /\ t.xf = u.xf /\ t.fix = u.fix /\ t.slid = u.slid
        /\ t.good = u.good /\ t.source = u.source /\ t.image = u.image
    BY <2>3 DEF App
  <2> HIDE DEF t
  <2>6. Observed(t) \in App /\ SamePosition(t, Observed(t))
    BY <2>4, ObservedKeeps
  <2>7. Relatched(s) = Observed(t)
    BY <2>1 DEF t
  <2> QED BY <2>2, <2>5, <2>6, <2>7, Zenon DEF Advances, Rests, SamePosition
<1>2. CASE ~(s.image /\ s.source \in world.inView)
  <2>1. Relatched(s) = [s EXCEPT !.unseen = AtMost(@ + 1, ReacquireGap)]
    BY <1>2 DEF Relatched
  <2>2. AtMost(s.unseen + 1, ReacquireGap) \in Nat
    <3>1. s.unseen \in Nat
      BY DEF App
    <3> QED BY <3>1, AtMostIs, LocNumbers
  <2>3. Relatched(s) \in App
    BY <2>1, <2>2 DEF App
  <2> QED BY <2>1, <2>3 DEF App, Advances, Rests
<1> QED BY <1>1, <1>2


LEMMA RequestedIs ==
  ASSUME NEW s \in App, s.mode # "Relocalizing", NEW t, t = Requested(s)
  PROVE  /\ t \in App /\ t.mode = "Relocalizing" /\ ~t.fix /\ t.localized = s.localized
         /\ t.source = s.source /\ t.image = s.image /\ t.xf = s.xf /\ t.good = s.good
<1> DEFINE warned == s.degraded \/ s.hintShown
           poor == IF warned THEN 0 ELSE s.poor
           calm == IF warned THEN 0 ELSE s.calm
           u == [s EXCEPT !.mode = "Relocalizing", !.stay = 0, !.fix = FALSE, !.jump = FALSE,
                       !.resume = FALSE, !.hint = 0, !.degraded = FALSE, !.hintShown = FALSE,
                       !.poor = poor, !.calm = calm]
<1>1. t = OverlayScans(LineGoes(u)) \/ t = OverlayScans(u)
  BY DEF Requested
<1>2. u \in App
  <2>1. s.poor \in Nat /\ s.calm \in Nat
    BY DEF App
  <2>2. poor \in Nat /\ calm \in Nat
    BY <2>1
  <2> HIDE DEF poor, calm
  <2> QED BY <2>2, Values DEF App
<1>3. /\ u.mode = "Relocalizing" /\ ~u.fix /\ u.localized = s.localized
      /\ u.source = s.source /\ u.image = s.image /\ u.xf = s.xf /\ u.good = s.good
  BY DEF App
<1> HIDE DEF u
<1>4. LineGoes(u) \in App /\ SamePosition(u, LineGoes(u))
  BY <1>2, LineKeeps
<1>5. PICK v \in App : t = OverlayScans(v) /\ (v = u \/ SamePosition(u, v))
  BY <1>1, <1>2, <1>4
<1>6. t \in App /\ SamePosition(v, t)
  BY <1>5, OverlayKeeps
<1> QED BY <1>3, <1>5, <1>6, Zenon DEF SamePosition

LEMMA RecoveredIs ==
  ASSUME NEW s \in App, world \in Worlds, NEW t, t = Recovered(s)
  PROVE  /\ t \in App /\ t.mode = "Recovered" /\ ~t.fix /\ t.localized = s.localized
         /\ t.source = s.source /\ t.image = s.image /\ t.xf = s.xf /\ t.slid = s.slid /\ t.good = s.good
<1> DEFINE u == [s EXCEPT !.mode = "Recovered", !.stay = 0, !.fix = FALSE]
<1>1. u \in App
  BY Values DEF App
<1>2. /\ u.mode = "Recovered" /\ ~u.fix /\ u.localized = s.localized
      /\ u.source = s.source /\ u.image = s.image /\ u.xf = s.xf /\ u.slid = s.slid /\ u.good = s.good
  BY DEF App
<1>3. t = OverlayTicks(Posed(u))
  BY DEF Recovered
<1> HIDE DEF u
<1>4. Posed(u) \in App /\ SamePosition(u, Posed(u))
  BY <1>1, PosedKeeps
<1> DEFINE v == Posed(u)
<1> HIDE DEF v
<1>5. v \in App /\ SamePosition(u, v) /\ t = OverlayTicks(v)
  BY <1>3, <1>4 DEF v
<1>6. t \in App /\ SamePosition(v, t)
  BY <1>5, OverlayKeeps
<1> QED BY <1>2, <1>5, <1>6, Zenon DEF SamePosition

\* A judgement leaves the position as it is, or a recovery begins without a fix.
Watches(s, t) ==
    /\ t \in App /\ t.localized = s.localized /\ t.source = s.source /\ t.image = s.image
    /\ t.xf = s.xf /\ t.good = s.good
    /\ \/ t.mode = s.mode /\ t.fix = s.fix
       \/ t.mode = "Relocalizing" /\ t.fix = FALSE

LEMMA JudgedWatches ==
  ASSUME NEW s \in App, world \in Worlds, s.mode # "Relocalizing", NEW solved
  PROVE  Watches(s, Judged(s, solved))
<1> DEFINE a == s.accum
           cooling == a.cooldown > 0
           good == IF IsGood THEN AtMost(a.good + 1, Recover) ELSE 0
           over == IsGood /\ good >= Recover
           bad == IF IsGood THEN (IF over THEN 0 ELSE a.bad) ELSE AtMost(a.bad + 1, BadHold)
           lost == IF world.quality = "lost" THEN AtMost(a.lost + 1, LostHold)
                   ELSE IF over THEN 0 ELSE a.lost
           enters == lost >= LostHold \/ (~cooling /\ bad >= BadHold)
           jumped == ~solved /\ a.prev \notin {NoFrame, world.frame}
           acc == [bad |-> IF enters THEN 0 ELSE bad, lost |-> IF enters THEN 0 ELSE lost,
                   good |-> IF enters THEN 0 ELSE good,
                   cooldown |-> IF cooling THEN a.cooldown - 1 ELSE 0, prev |-> world.frame]
           t == [s EXCEPT !.accum = acc]
           jump == jumped /\ ~cooling
<1>1. Judged(s, solved) = IF enters THEN Requested(t) ELSE [t EXCEPT !.jump = jump]
  BY DEF Judged
<1>2. acc \in Accums
  <2>1. a.bad \in Nat /\ a.lost \in Nat /\ a.good \in Nat /\ a.cooldown \in Nat
    BY DEF App, Accums
  <2>2. world.frame \in Frames
    BY DEF Worlds
  <2>3. /\ AtMost(a.good + 1, Recover) \in Nat /\ AtMost(a.bad + 1, BadHold) \in Nat
        /\ AtMost(a.lost + 1, LostHold) \in Nat
    BY <2>1, LocNumbers DEF AtMost
  <2>4. good \in Nat /\ (IF cooling THEN a.cooldown - 1 ELSE 0) \in Nat
    BY <2>1, <2>3
  <2>5. bad \in Nat /\ lost \in Nat
    BY <2>1, <2>3
  <2> HIDE DEF enters, good, bad, lost, cooling
  <2> QED BY <2>2, <2>4, <2>5 DEF Accums
<1>3. jump \in BOOLEAN
  OBVIOUS
<1> HIDE DEF acc, jump, enters
<1>4. t \in App /\ SamePosition(s, t)
  BY <1>2 DEF App, SamePosition
<1> HIDE DEF t
<1>5. CASE enters
  <2>1. t.mode # "Relocalizing" /\ Judged(s, solved) = Requested(t)
    BY <1>1, <1>4, <1>5 DEF SamePosition
  <2> DEFINE u == Requested(t)
  <2>2. /\ u \in App /\ u.mode = "Relocalizing" /\ ~u.fix /\ u.localized = t.localized
        /\ u.source = t.source /\ u.image = t.image /\ u.xf = t.xf /\ u.good = t.good
    BY <1>4, <2>1, RequestedIs
  <2> HIDE DEF u
  <2>3. u.fix = FALSE
    BY <2>2 DEF App
  <2>4. Watches(s, u)
    BY <1>4, <2>2, <2>3, Zenon DEF Watches, SamePosition
  <2> QED BY <2>1, <2>4 DEF u
<1>6. CASE ~enters
  <2>1. Judged(s, solved) = [t EXCEPT !.jump = jump]
    BY <1>1, <1>6
  <2>2. Judged(s, solved) \in App
    BY <1>3, <1>4, <2>1 DEF App
  <2>3. SamePosition(t, Judged(s, solved))
    BY <1>4, <2>1 DEF App, SamePosition
  <2> QED BY <1>4, <2>2, <2>3, Zenon DEF Watches, SamePosition
<1> QED BY <1>5, <1>6

LEMMA WatchingWatches ==
  ASSUME NEW s \in App, world \in Worlds, s.mode # "Relocalizing", NEW solved
  PROVE  Watches(s, Watching(s, solved))
<1> DEFINE t == [s EXCEPT !.jump = FALSE]
<1>1. t \in App /\ SamePosition(s, t)
  BY Values DEF App, SamePosition
<1>2. PICK u \in {s, t} : Watching(s, solved) \in {Requested(u), Judged(t, solved)}
  BY DEF Watching
<1> HIDE DEF t
<1>3. u \in App /\ SamePosition(s, u) /\ u.mode # "Relocalizing" /\ t.mode # "Relocalizing"
  BY <1>1, <1>2 DEF SamePosition
<1>4. Watches(t, Judged(t, solved))
  BY <1>1, <1>3, JudgedWatches
<1> DEFINE r == Requested(u)
<1>5. /\ r \in App /\ r.mode = "Relocalizing" /\ ~r.fix /\ r.localized = u.localized
      /\ r.source = u.source /\ r.image = u.image /\ r.xf = u.xf /\ r.good = u.good
  BY <1>3, RequestedIs
<1>6. r.fix = FALSE
  BY <1>5 DEF App
<1> HIDE DEF r
<1>7. Watches(s, r)
  BY <1>3, <1>5, <1>6, Zenon DEF Watches, SamePosition
<1>8. Watches(s, Judged(t, solved))
  BY <1>1, <1>4, Zenon DEF Watches, SamePosition
<1> QED BY <1>2, <1>7, <1>8 DEF r

\* The position is right where a recovery would end with it.
FixIsRight(s) == s.mode = "Relocalizing" /\ s.fix /\ IsGood => Right(s)

\* What a recovery knows once the localizer has ticked.
RecoveryKnows(s) ==
    s.mode = "Relocalizing" => (s.fix => IsGood /\ Right(s)) /\ (s.good > 0 => IsGood)

\* A step of the tick: the position stays, and a recovery ends rightly.
Goes(s, t) ==
    /\ t \in App /\ t.localized = s.localized /\ Rests(t) /\ RecoveryKnows(t)
    /\ s.mode = "Relocalizing" /\ t.mode = "Recovered" => Right(t)

LEMMA MonitoredGoes ==
  ASSUME NEW s \in App, world \in Worlds, Rests(s), s.localized, FixIsRight(s)
  PROVE  Goes(s, Monitored(s))
<1> DEFINE good == IF IsGood THEN AtMost(s.good + 1, GoodCap) ELSE 0
           stay == IF s.mode = "Localized" THEN 0 ELSE AtMost(s.stay + 1, StayCap)
           t == [s EXCEPT !.good = good, !.solved = FALSE, !.stay = stay]
<1>1. good \in Goods /\ stay \in Stays /\ (good > 0 => IsGood)
  <2>1. s.good \in Nat /\ s.stay \in Nat
    BY DEF App, Goods, Stays
  <2>2. AtMost(s.good + 1, GoodCap) \in Goods /\ AtMost(s.stay + 1, StayCap) \in Stays
    BY <2>1, LocNumbers DEF Goods, Stays, AtMost
  <2> QED BY <2>2, Values
<1>2. Monitored(s) = CASE s.mode = "Relocalizing" -> Recovering(t)
                       [] s.mode = "Recovered" -> Celebrating(t)
                       [] OTHER -> Watching(t, s.solved)
  BY DEF Monitored
<1> HIDE DEF good, stay
<1>3. t \in App
  BY <1>1, Values DEF App
<1>4. /\ t.mode = s.mode /\ t.fix = s.fix /\ t.localized = s.localized /\ t.source = s.source
      /\ t.image = s.image /\ t.xf = s.xf /\ t.slid = s.slid /\ t.good = good
  BY DEF App
<1> HIDE DEF t
<1>5. CASE s.mode = "Relocalizing"
  <2> DEFINE u == [t EXCEPT !.resume = FALSE]
             v == [u EXCEPT !.fix = FALSE]
  <2>1. u \in App /\ SamePosition(t, u)
    BY <1>3, Values DEF App, SamePosition
  <2>2. Monitored(s) = Recovering(t)
    BY <1>2, <1>5
  <2>3. CASE ~IsGood
    <3>1. Monitored(s) = v
      BY <2>2, <2>3 DEF Recovering
    <3> HIDE DEF u
    <3>2. v \in App /\ v.fix = FALSE /\ v.mode = u.mode /\ v.localized = u.localized /\ v.source = u.source
          /\ v.image = u.image /\ v.good = u.good
      BY <2>1, Values DEF App
    <3>3. ~(v.good > 0)
      BY <1>1, <1>4, <2>1, <2>3, <3>2 DEF SamePosition
    <3> HIDE DEF v
    <3>4. Goes(s, v)
      BY <1>4, <1>5, <2>1, <3>2, <3>3 DEF Goes, RecoveryKnows, Rests, SamePosition
    <3> QED BY <3>1, <3>4
  <2>4. CASE IsGood /\ t.fix /\ t.stay >= MinStay /\ t.good >= Recover
    <3>1. u.fix = t.fix /\ u.stay = t.stay /\ u.good = t.good
      BY <1>3 DEF App
    <3>2. Monitored(s) = Recovered(u)
      BY <2>2, <2>4, <3>1 DEF Recovering
    <3> HIDE DEF u
    <3> DEFINE r == Recovered(u)
    <3>3. /\ r \in App /\ r.mode = "Recovered" /\ ~r.fix /\ r.localized = u.localized
          /\ r.source = u.source /\ r.image = u.image /\ r.xf = u.xf /\ r.slid = u.slid /\ r.good = u.good
      BY <2>1, RecoveredIs
    <3> HIDE DEF r
    <3>4. Right(r)
      BY <1>4, <1>5, <2>1, <2>4, <3>3 DEF FixIsRight, SamePosition, Right
    <3>5. Goes(s, r)
      BY <1>4, <1>5, <2>1, <3>3, <3>4 DEF Goes, RecoveryKnows, Rests, SamePosition
    <3> QED BY <3>2, <3>5 DEF r
  <2>5. CASE IsGood /\ ~(t.fix /\ t.stay >= MinStay /\ t.good >= Recover)
    <3>1. u.fix = t.fix /\ u.stay = t.stay /\ u.good = t.good
      BY <1>3 DEF App
    <3>2. Monitored(s) = u
      BY <2>2, <2>5, <3>1 DEF Recovering
    <3> HIDE DEF u
    <3>3. Goes(s, u)
      BY <1>4, <1>5, <2>1, <2>5 DEF Goes, RecoveryKnows, Rests, SamePosition, FixIsRight, Right
    <3> QED BY <3>2, <3>3
  <2> QED BY <2>3, <2>4, <2>5
<1>6. CASE s.mode = "Recovered"
  <2>1. Monitored(s) = Celebrating(t)
    BY <1>2, <1>6
  <2> DEFINE u == [t EXCEPT !.mode = "Localized"]
             v == DetectionReset(u)
             w == [v EXCEPT !.accum.cooldown = CooldownFor]
  <2>2. u \in App /\ u.mode = "Localized" /\ u.localized = t.localized /\ u.source = t.source
        /\ u.image = t.image
    BY <1>3, Values DEF App
  <2>3. Monitored(s) = t \/ Monitored(s) = w
    BY <2>1 DEF Celebrating
  <2> HIDE DEF u
  <2>4. v \in App /\ SamePosition(u, v)
    BY <2>2, ResetKeeps
  <2> HIDE DEF v
  <2>5. w \in App /\ SamePosition(v, w)
    <3>1. v.accum \in Accums
      BY <2>4 DEF App
    <3>2. [v.accum EXCEPT !.cooldown = CooldownFor] \in Accums
      BY <3>1, LocNumbers DEF Accums
    <3> DEFINE c == [v.accum EXCEPT !.cooldown = CooldownFor]
    <3>3. w = [v EXCEPT !.accum = c]
      BY <2>4 DEF App
    <3> HIDE DEF c, w
    <3> QED BY <2>4, <3>2, <3>3 DEF App, SamePosition, c
  <2> HIDE DEF w
  <2>6. Goes(s, w)
    BY <1>4, <1>6, <2>2, <2>4, <2>5, Zenon DEF Goes, RecoveryKnows, Rests, SamePosition
  <2>7. Goes(s, t)
    BY <1>3, <1>4, <1>6, Zenon DEF Goes, RecoveryKnows, Rests
  <2> QED BY <2>3, <2>6, <2>7
<1>7. CASE s.mode # "Relocalizing" /\ s.mode # "Recovered"
  <2> DEFINE u == Watching(t, s.solved)
  <2>1. Monitored(s) = u /\ Watches(t, u)
    BY <1>2, <1>3, <1>4, <1>7, WatchingWatches
  <2> HIDE DEF u
  <2>2. Goes(s, u)
    BY <1>1, <1>4, <1>7, <2>1 DEF Watches, Goes, RecoveryKnows, Rests
  <2> QED BY <2>1, <2>2
<1> QED BY <1>5, <1>6, <1>7

LEMMA HintedKeeps ==
  ASSUME NEW s \in App
  PROVE  Hinted(s) \in App /\ SamePosition(s, Hinted(s)) /\ (s.mode # "Localized" => Hinted(s) = s)
<1> DEFINE h == AtMost(s.hint + 1, HintAfter)
           t == [s EXCEPT !.hint = h]
           u == [t EXCEPT !.hintShown = TRUE]
<1>1. h \in Hints
  BY LocNumbers DEF App, Hints, AtMost
<1>2. Hinted(s) \in {s, t, LineShows(u)} /\ (s.mode # "Localized" => Hinted(s) = s)
  BY DEF Hinted
<1> HIDE DEF h
<1>3. t \in App /\ SamePosition(s, t) /\ u \in App /\ SamePosition(s, u)
  <2>1. t \in App /\ SamePosition(s, t)
    BY <1>1 DEF App, SamePosition
  <2> HIDE DEF t
  <2>2. u \in App /\ SamePosition(t, u)
    BY <2>1, Values DEF App, SamePosition
  <2> QED BY <2>1, <2>2 DEF SamePosition
<1> HIDE DEF u, t
<1>4. LineShows(u) \in App /\ SamePosition(u, LineShows(u))
  BY <1>3, LineKeeps
<1>5. SamePosition(s, s)
  BY DEF SamePosition
<1> QED BY <1>2, <1>3, <1>4, <1>5, Zenon DEF SamePosition

LEMMA WarnedKeeps ==
  ASSUME NEW s \in App
  PROVE  Warned(s) \in App /\ SamePosition(s, Warned(s)) /\ Warned(s).pose = s.pose
<1> DEFINE p == AtMost(s.poor + 1, PoorHold)
           c == AtMost(s.calm + 1, Recover)
           bad == [s EXCEPT !.poor = p, !.calm = 0]
           fine == [s EXCEPT !.calm = c]
           over == [fine EXCEPT !.poor = 0, !.degraded = FALSE]
           worse == [bad EXCEPT !.degraded = TRUE]
<1>1. p \in Nat /\ c \in Nat
  BY LocNumbers DEF App, AtMost
<1>2. Warned(s) \in {bad, LineShows(worse), fine, LineGoes(over), over}
  BY DEF Warned
<1> HIDE DEF p, c
<1>3. bad \in App /\ SamePosition(s, bad) /\ bad.pose = s.pose
  BY <1>1, Values DEF App, SamePosition
<1>4. fine \in App /\ SamePosition(s, fine) /\ fine.pose = s.pose
  BY <1>1 DEF App, SamePosition
<1> HIDE DEF bad, fine
<1>5. over \in App /\ SamePosition(fine, over) /\ over.pose = fine.pose
  BY <1>4, Values DEF App, SamePosition
<1>6. worse \in App /\ SamePosition(bad, worse) /\ worse.pose = bad.pose
  BY <1>3, Values DEF App, SamePosition
<1> HIDE DEF over, worse
<1>7. LineGoes(over) \in App /\ SamePosition(over, LineGoes(over)) /\ LineGoes(over).pose = over.pose
  BY <1>5, LineKeeps
<1>8. LineShows(worse) \in App /\ SamePosition(worse, LineShows(worse)) /\ LineShows(worse).pose = worse.pose
  BY <1>6, LineKeeps
<1> QED BY <1>2, <1>3, <1>4, <1>5, <1>6, <1>7, <1>8, Zenon DEF SamePosition

\* The tick of a localizer that has a position.
LEMMA HeldGoes ==
  ASSUME NEW s \in App, world \in Worlds, Rests(s), s.localized, FixIsRight(s),
         NEW m \in Chosen(TransitionTargets(s))
  PROVE  /\ Held(s, m) \in App /\ Rests(Held(s, m)) /\ RecoveryKnows(Held(s, m))
         /\ s.mode = "Relocalizing" /\ Held(s, m).mode = "Recovered"
            => Held(s, m).pose = 0 \/ Held(s, m).slid
<1> DEFINE t == Scanned(s, m)
           u == Relatched(t)
           v == Monitored(u)
           w == Posed(v)
           x == Hinted(w)
           y == Warned(x)
<1>0. Held(s, m) = y
  BY DEF Held
<1>1. Advances(s, t)
  BY ScannedAdvances
<1> HIDE DEF y, x, w, v, u, t
<1>2. t \in App /\ t.mode = s.mode /\ t.localized /\ Rests(t)
  BY <1>1 DEF Advances
<1>3. Advances(t, u)
  BY <1>2, RelatchedAdvances DEF u
<1>4. u \in App /\ u.mode = s.mode /\ u.localized /\ Rests(u)
  BY <1>2, <1>3 DEF Advances
<1>5. FixIsRight(u)
  BY <1>1, <1>3, Zenon DEF Advances, FixIsRight, Right
<1>6. Goes(u, v)
  BY <1>4, <1>5, MonitoredGoes DEF v
<1>7. v \in App
  BY <1>6 DEF Goes
<1>8. w \in App /\ SamePosition(v, w) /\ (v.mode # "Relocalizing" => w.pose = v.xf - world.frame)
  BY <1>7, PosedKeeps DEF w
<1>9. x \in App /\ SamePosition(w, x) /\ (w.mode # "Localized" => x = w)
  BY <1>8, HintedKeeps DEF x
<1>10. y \in App /\ SamePosition(x, y) /\ y.pose = x.pose
  BY <1>9, WarnedKeeps DEF y
<1>11. SamePosition(v, y)
  BY <1>8, <1>9, <1>10, Zenon DEF SamePosition
<1>12. Rests(y) /\ RecoveryKnows(y)
  <2>1. y.good = v.good /\ y.fix = v.fix /\ y.mode = v.mode /\ y.xf = v.xf /\ y.slid = v.slid /\ y.localized = v.localized
        /\ y.source = v.source /\ y.image = v.image
    BY <1>11 DEF SamePosition
  <2> QED BY <1>6, <2>1, Zenon DEF Goes, RecoveryKnows, Rests, Right
<1>13. ASSUME s.mode = "Relocalizing", y.mode = "Recovered" PROVE y.pose = 0 \/ y.slid
  <2>1. v.mode = "Recovered" /\ Right(v) /\ y.slid = v.slid
    BY <1>4, <1>6, <1>11, <1>13 DEF Goes, SamePosition
  <2>2. y.pose = v.xf - world.frame
    BY <1>8, <1>9, <1>10, <2>1 DEF SamePosition
  <2> QED BY <2>1, <2>2, WorldIs DEF Right
<1> QED BY <1>0, <1>10, <1>12, <1>13

---------------------------------------------------------------------------
(* The localizer: its invariant                                            *)

\* The fix of a recovery is right while quality is good; after the localizer's
\* tick it is not held in bad quality.
RecoveryOK ==
    app.mode = "Relocalizing" =>
        /\ app.fix /\ IsGood => Right(app)
        /\ "localizer" \notin todo => (app.fix => IsGood) /\ (app.good > 0 => IsGood)

LocInv == todo \subseteq Tickers /\ world \in Worlds /\ app \in App /\ Rests(app) /\ RecoveryOK

LEMMA LocTypes == LocInv => LocTypeOK
<1> SUFFICES ASSUME LocInv PROVE LocTypeOK
  OBVIOUS
<1>1. /\ app.source \in Markers \union {Cloud, NoSource} /\ app.last \subseteq Markers
      /\ app.mode \in {"Localized", "Relocalizing", "Recovered"}
      /\ app.overlay \in {"none", "scanning", "recovered"} /\ app.clock \in 0..FadeAfter
      /\ app.stay \in 0..StayCap /\ app.good \in 0..GoodCap /\ app.hint \in 0..HintAfter
  BY DEF LocInv, App, Sources, Modes, Overlays, Clocks, Stays, Goods, Hints
<1> QED BY <1>1 DEF LocInv, LocTypeOK, Worlds, Rests

LEMMA LocStarts == LocInit => LocInv
<1> SUFFICES ASSUME LocInit PROVE LocInv
  OBVIOUS
<1>1. todo \subseteq Tickers /\ RecoveryOK /\ Rests(app)
  BY LocNumbers DEF LocInit, RecoveryOK, Rests
<1>2. world \in Worlds
  BY LocNumbers DEF LocInit, Worlds, Qualities, Frames
<1>3. app \in App
  BY Values DEF LocInit, App
<1> QED BY <1>1, <1>2, <1>3 DEF LocInv

\* Where nothing of the position changes, and quality and frame are as they were.
LEMMA RecoveryStays ==
  ASSUME LocInv, app' \in App, SamePosition(app, app'), world' \in Worlds, todo' \subseteq Tickers,
         world'.quality = world.quality, world'.frame = world.frame,
         "localizer" \in todo => "localizer" \in todo'
  PROVE  LocInv'
<1>1. Rests(app)'
  BY Zenon DEF LocInv, Rests, SamePosition
<1>2. RecoveryOK'
  BY Zenon DEF LocInv, RecoveryOK, SamePosition, IsGood, Right
<1> QED BY <1>1, <1>2 DEF LocInv

LEMMA TickKeeps ==
  ASSUME LocInv, Tick
  PROVE  LocInv' /\ (app.mode = "Relocalizing" /\ app'.mode = "Recovered" => app'.pose = 0 \/ app'.slid)
<1>1. todo' \subseteq Tickers /\ world' = world
  BY DEF LocInv, Tick
<1>2. PICK m \in Chosen(LocalizeTargets(app)) :
        LET s == IF m = NoSource THEN app ELSE LocalizedBy(app, m)
        IN IF ~s.localized THEN app' = s
           ELSE \E n \in Chosen(TransitionTargets(s)) : app' = Held(s, n)
  BY Zenon DEF Tick
<1> DEFINE s == IF m = NoSource THEN app ELSE LocalizedBy(app, m)
<1>3. /\ s \in App /\ Rests(s) /\ s.mode = app.mode /\ FixIsRight(s)
      /\ (s.mode = "Relocalizing" => s.localized)
  <2>1. CASE m = NoSource
    BY <2>1 DEF LocInv, RecoveryOK, FixIsRight, Rests
  <2>2. CASE m # NoSource
    <3>1. ~app.localized /\ m \in Markers
      BY <2>2, WorldIs DEF Chosen, LocalizeTargets, LocInv
    <3>2. app.mode = "Localized"
      BY <3>1 DEF LocInv, Rests, App, Modes
    <3> DEFINE t == [app EXCEPT !.source = m, !.image = TRUE, !.scanning = FALSE,
                                          !.localized = TRUE, !.unseen = 0]
    <3>3. m \in Sources
      BY <3>1, Values
    <3>4. t \in App
      BY <3>3, Values DEF App, LocInv
    <3>5. t.mode = app.mode /\ t.localized /\ t.source = m
      BY DEF App, LocInv
    <3>6. LocalizedBy(app, m) = Fixed(DetectionReset(Solved(t)))
      BY DEF LocalizedBy
    <3> HIDE DEF t
    <3> DEFINE u == Solved(t)
               v == DetectionReset(u)
               w == Fixed(v)
    <3>7. u \in App /\ u.mode = t.mode /\ u.localized = t.localized /\ u.source = t.source
      BY <3>4, SolvedKeeps DEF LocInv
    <3> HIDE DEF u
    <3>8. v \in App /\ SamePosition(u, v)
      BY <3>7, ResetKeeps
    <3> HIDE DEF v
    <3>9. w \in App /\ w.mode = v.mode /\ w.localized = v.localized /\ w.source = v.source
      BY <3>8, FixedKeeps
    <3> HIDE DEF w
    <3>10. w \in App /\ Rests(w) /\ w.mode = app.mode /\ FixIsRight(w)
      BY <3>1, <3>2, <3>5, <3>7, <3>8, <3>9, LocNumbers DEF Rests, FixIsRight, SamePosition
    <3>11. s = w
      BY <2>2, <3>6 DEF u, v, w
    <3> QED BY <3>2, <3>10, <3>11
  <2> QED BY <2>1, <2>2
<1>4. IF ~s.localized THEN app' = s ELSE \E n \in Chosen(TransitionTargets(s)) : app' = Held(s, n)
  BY <1>2
<1> HIDE DEF s
<1>5. CASE ~s.localized
  <2>1. app' = s /\ app'.mode # "Relocalizing"
    BY <1>3, <1>4, <1>5
  <2> QED BY <1>1, <1>3, <2>1 DEF LocInv, RecoveryOK, Rests
<1>6. CASE s.localized
  <2>1. PICK n \in Chosen(TransitionTargets(s)) : app' = Held(s, n)
    BY <1>4, <1>6
  <2>2. /\ app' \in App /\ Rests(app') /\ RecoveryKnows(app')
        /\ (app.mode = "Relocalizing" /\ app'.mode = "Recovered" => app'.pose = 0 \/ app'.slid)
    BY <1>3, <1>6, <2>1, HeldGoes DEF LocInv
  <2>3. RecoveryOK'
    BY <1>1, <2>2, Zenon DEF RecoveryKnows, RecoveryOK, IsGood, Right
  <2> QED BY <1>1, <2>2, <2>3 DEF LocInv, Rests
<1> QED BY <1>5, <1>6

LEMMA OverlayTickKeeps ==
  ASSUME LocInv, OverlayTick
  PROVE  LocInv' /\ app'.mode = app.mode
<1>1. app \in App /\ todo = {"overlay"} /\ todo' = {} /\ world' = world
  BY DEF LocInv, OverlayTick
<1> DEFINE gone == [app EXCEPT !.overlay = "none", !.clock = 0]
           more == [app EXCEPT !.clock = @ + 1]
           drop == [app EXCEPT !.overlay = "none"]
<1>2. app' = app \/ app' = gone \/ app' = drop \/ (app' = more /\ app.clock < FadeAfter)
  <2>1. app.clock >= FadeAfter \/ app.clock < FadeAfter
    BY <1>1, LocNumbers DEF App, Clocks
  <2> QED BY <1>1, <2>1 DEF OverlayTick, TickRecovered
<1>3. gone \in App /\ SamePosition(app, gone) /\ drop \in App /\ SamePosition(app, drop)
  BY <1>1, Values DEF App, SamePosition
<1>4. app.clock < FadeAfter => more \in App /\ SamePosition(app, more)
  <2> SUFFICES ASSUME app.clock < FadeAfter PROVE more \in App /\ SamePosition(app, more)
    OBVIOUS
  <2> DEFINE c == app.clock + 1
             t == [app EXCEPT !.clock = c]
  <2>1. c \in Clocks
    BY <1>1, LocNumbers DEF App, Clocks
  <2>2. more = t
    OBVIOUS
  <2> HIDE DEF c, more
  <2>3. t \in App
    BY <1>1, <2>1 DEF App
  <2>4. SamePosition(app, t)
    BY <1>1 DEF App, SamePosition
  <2> QED BY <2>2, <2>3, <2>4
<1> HIDE DEF gone, more, drop
<1>5. app' \in App /\ SamePosition(app, app')
  <2>1. SamePosition(app, app)
    BY DEF SamePosition
  <2> QED BY <1>1, <1>2, <1>3, <1>4, <2>1
<1>6. todo' \subseteq Tickers /\ "localizer" \notin todo /\ world' \in Worlds
  BY <1>1 DEF Tickers, LocInv
<1> QED BY <1>1, <1>5, <1>6, RecoveryStays DEF SamePosition

LEMMA ResolverKeeps ==
  ASSUME LocInv, \/ ResolverTick(LocalizeFromCloudAnchor) \/ ResolverTick(ApplyCloudBlendTransform)
                 \/ ResolverTick(ResolverRests)
  PROVE  LocInv' /\ app'.mode = app.mode
<1>1. /\ app \in App /\ world \in Worlds /\ world' = world /\ todo' = todo \ {"resolver"}
      /\ todo' \subseteq Tickers /\ ("localizer" \in todo <=> "localizer" \in todo')
  BY DEF LocInv, ResolverTick
<1>2. CASE LocalizeFromCloudAnchor
  <2> DEFINE t == [app EXCEPT !.image = FALSE, !.source = Cloud, !.localized = TRUE, !.unseen = 0]
             s == Solved(t)
  <2>1. t \in App
    BY <1>1, Values DEF App
  <2>2. t.image = FALSE /\ t.source = Cloud /\ t.localized /\ t.mode = app.mode /\ t.fix = app.fix
        /\ t.good = app.good
    BY <1>1 DEF App
  <2>3. PICK u \in {s, DetectionReset(s)} : app' = Posed(Fixed(u))
    BY <1>2 DEF LocalizeFromCloudAnchor
  <2> HIDE DEF t
  <2>4. s \in App /\ s.localized = t.localized /\ s.source = t.source /\ s.image = t.image
        /\ s.xf = world.frame /\ s.mode = t.mode /\ s.fix = t.fix /\ s.good = t.good
    BY <1>1, <2>1, SolvedKeeps
  <2> HIDE DEF s
  <2>5. u \in App /\ SamePosition(s, u)
    <3>1. SamePosition(s, s)
      BY DEF SamePosition
    <3> QED BY <2>3, <2>4, <3>1, ResetKeeps
  <2> DEFINE v == Fixed(u)
  <2>6. v \in App /\ v.localized = u.localized /\ v.source = u.source /\ v.image = u.image
        /\ v.xf = u.xf /\ v.mode = u.mode /\ v.good = u.good
    BY <2>5, FixedKeeps
  <2> HIDE DEF v
  <2>7. app' \in App /\ SamePosition(v, app')
    BY <1>1, <2>3, <2>6, PosedKeeps DEF v
  <2>8. /\ app'.localized /\ app'.source = Cloud /\ app'.image = FALSE /\ app'.xf = world.frame
        /\ app'.mode = app.mode /\ app'.good = app.good
    BY <2>2, <2>4, <2>5, <2>6, <2>7, Zenon DEF SamePosition
  <2>9. Rests(app)'
    BY <2>8, LocNumbers, Zenon DEF Rests
  <2>10. app.mode = "Relocalizing" => app.good > 0
    BY <1>1, <1>2, LocNumbers DEF LocalizeFromCloudAnchor, PinUsable, App, Goods
  <2>11. RecoveryOK'
    BY <1>1, <2>8, <2>10 DEF RecoveryOK, LocInv, IsGood, Right
  <2> QED BY <1>1, <2>7, <2>8, <2>9, <2>11 DEF LocInv
<1>3. CASE ApplyCloudBlendTransform
  <2>1. app' = [app EXCEPT !.xf = world.frame] /\ app.mode = "Localized"
    BY <1>3 DEF ApplyCloudBlendTransform
  <2>2. world.frame \in Int
    BY <1>1, WorldIs
  <2>3. app' \in App
    BY <1>1, <2>1, <2>2 DEF App
  <2>4. app'.localized = app.localized /\ app'.source = app.source /\ app'.image = app.image
        /\ app'.mode = "Localized"
    BY <1>1, <2>1 DEF App
  <2> QED BY <1>1, <2>1, <2>3, <2>4 DEF LocInv, Rests, RecoveryOK
<1>4. CASE ResolverRests
  <2>1. app' = app /\ SamePosition(app, app')
    BY <1>4 DEF ResolverRests, SamePosition
  <2> QED BY <1>1, <2>1, RecoveryStays
<1> QED BY <1>2, <1>3, <1>4 DEF ResolverTick

LEMMA ResetIs ==
  ASSUME NEW s \in App
  PROVE  Reset(s) \in App /\ Rests(Reset(s)) /\ Reset(s).mode = "Localized"
<1> DEFINE u == [s EXCEPT !.scanning = FALSE, !.localized = FALSE, !.source = NoSource, !.image = FALSE,
              !.xf = 0, !.unseen = 0, !.pose = 0, !.poor = 0]
           t == [s EXCEPT !.scanning = FALSE, !.localized = FALSE, !.source = NoSource, !.image = FALSE,
              !.xf = 0, !.unseen = 0, !.pose = 0, !.poor = 0, !.calm = 0, !.degraded = FALSE,
              !.mode = "Localized", !.fix = FALSE, !.resume = FALSE, !.hint = 0, !.hintShown = FALSE]
<1>1. t \in App
  <2>1. u \in App
    BY Values DEF App
  <2> DEFINE v == [u EXCEPT !.calm = 0, !.degraded = FALSE, !.mode = "Localized", !.fix = FALSE,
                            !.resume = FALSE, !.hint = 0, !.hintShown = FALSE]
  <2>2. t = v
    OBVIOUS
  <2> HIDE DEF t, u
  <2>3. v \in App
    BY <2>1, Values DEF App
  <2> QED BY <2>2, <2>3
<1>2. t.localized = FALSE /\ t.source = NoSource /\ t.image = FALSE /\ t.mode = "Localized"
  BY DEF App
<1>3. Reset(s) = DetectionReset(t)
  BY DEF Reset
<1> HIDE DEF t
<1>4. DetectionReset(t) \in App /\ SamePosition(t, DetectionReset(t))
  BY <1>1, ResetKeeps
<1> QED BY <1>2, <1>3, <1>4, Zenon DEF Rests, SamePosition

LEMMA ChangesKeep ==
  ASSUME LocInv,
         \/ NothingChanges \/ Change(QualityChanges) \/ Change(FrameJumps) \/ Change(ViewChanges)
         \/ Change(StartLocalizing) \/ Change(ResetLocalization) \/ Change(HandleMarkersReceived)
         \/ Change(HandleMarkersFailed) \/ Change(HandleAppForeground)
  PROVE  LocInv' /\ app'.mode \in {app.mode, "Localized"}
<1>1. app \in App /\ world \in Worlds /\ todo = {} /\ todo' = Tickers /\ todo' \subseteq Tickers
  BY DEF LocInv, NothingChanges, Change
<1>2. Spent(world) \in Worlds \/ ~(world.changes < MaxChanges)
  <2>1. world.changes \in 0..MaxChanges
    BY <1>1 DEF Worlds
  <2>2. world.changes < MaxChanges => world.changes + 1 \in 0..MaxChanges
    BY <2>1, LocNumbers
  <2> QED BY <1>1, <2>2 DEF Spent, Worlds
<1>3. Spent(world).quality = world.quality /\ Spent(world).frame = world.frame
  BY <1>1 DEF Spent, Worlds
<1>4. SamePosition(app, app)
  BY DEF SamePosition
<1>5. CASE NothingChanges
  BY <1>1, <1>4, <1>5, RecoveryStays DEF NothingChanges
<1>6. CASE Change(QualityChanges)
  <2>1. PICK q \in Qualities \ {world.quality}, f \in Frames :
          /\ q # "good" \/ f = world.frame
          /\ world' = Spent([world EXCEPT !.quality = q, !.frame = f]) /\ app' = app
    BY <1>6 DEF Change, QualityChanges
  <2> DEFINE w == [world EXCEPT !.quality = q, !.frame = f]
  <2>2. w \in Worlds /\ w.quality = q /\ w.frame = f /\ w.changes = world.changes
    BY <1>1 DEF Worlds
  <2>3. world.changes < MaxChanges
    BY <1>6 DEF Change
  <2>4. world' = Spent(w)
    BY <2>1
  <2> HIDE DEF w
  <2>5. world' \in Worlds /\ world'.quality = q /\ world'.frame = f
    <3>1. world.changes \in 0..MaxChanges
      BY <1>1 DEF Worlds
    <3>2. w.changes + 1 \in 0..MaxChanges
      BY <2>2, <2>3, <3>1, LocNumbers
    <3> QED BY <2>2, <2>4, <3>2 DEF Spent, Worlds
  <2>6. RecoveryOK'
    <3>1. app.mode = "Relocalizing" => (app.fix => IsGood) /\ (app.fix /\ IsGood => Right(app))
      BY <1>1 DEF RecoveryOK, LocInv
    <3>2. IsGood' => f = world.frame
      BY <2>1, <2>5 DEF IsGood
    <3>3. app' = app /\ "localizer" \in todo'
      BY <1>1, <2>1 DEF Tickers
    <3> QED BY <2>5, <3>1, <3>2, <3>3 DEF RecoveryOK, Right
  <2> QED BY <1>1, <2>1, <2>5, <2>6 DEF LocInv, Rests
<1>7. CASE Change(FrameJumps)
  <2> DEFINE slips == app.slid \/ (app.mode = "Relocalizing" /\ app.fix)
  <2>1. PICK f \in Frames : /\ world' = Spent([world EXCEPT !.frame = f])
                            /\ app' = [app EXCEPT !.slid = slips] /\ world.changes < MaxChanges
    BY <1>7 DEF Change, FrameJumps
  <2> DEFINE w == [world EXCEPT !.frame = f]
  <2>2. w \in Worlds /\ w.changes = world.changes /\ w.quality = world.quality /\ world' = Spent(w)
    BY <1>1, <2>1 DEF Worlds
  <2> HIDE DEF w
  <2>3. world' \in Worlds /\ world'.quality = world.quality
    <3>1. world.changes \in 0..MaxChanges
      BY <1>1 DEF Worlds
    <3>2. w.changes + 1 \in 0..MaxChanges
      BY <2>1, <2>2, <3>1, LocNumbers
    <3> QED BY <2>2, <3>2 DEF Spent, Worlds
  <2>4. slips \in BOOLEAN /\ (app.mode = "Relocalizing" /\ app.fix => slips)
    OBVIOUS
  <2> HIDE DEF slips
  <2>5. /\ app' \in App /\ app'.mode = app.mode /\ app'.fix = app.fix /\ app'.slid = slips
        /\ app'.localized = app.localized /\ app'.source = app.source /\ app'.image = app.image
        /\ app'.good = app.good
    BY <1>1, <2>1, <2>4 DEF App
  <2>6. RecoveryOK'
    <3>1. "localizer" \in todo'
      BY <1>1 DEF Tickers
    <3> QED BY <2>4, <2>5, <3>1, Zenon DEF RecoveryOK, Right
  <2>7. Rests(app)'
    BY <2>5, Zenon DEF LocInv, Rests
  <2> QED BY <1>1, <2>3, <2>5, <2>6, <2>7 DEF LocInv
<1>8. CASE Change(ViewChanges)
  <2>1. PICK markers \in SUBSET Markers, pin_ \in BOOLEAN :
          /\ world' = Spent([world EXCEPT !.inView = markers, !.pinInView = pin_]) /\ app' = app
          /\ world.changes < MaxChanges
    BY <1>8 DEF Change, ViewChanges
  <2> DEFINE w == [world EXCEPT !.inView = markers, !.pinInView = pin_]
  <2>2. w \in Worlds /\ w.changes = world.changes /\ world' = Spent(w)
        /\ w.quality = world.quality /\ w.frame = world.frame
    BY <1>1, <2>1 DEF Worlds
  <2> HIDE DEF w
  <2>3. world' \in Worlds /\ world'.quality = world.quality /\ world'.frame = world.frame
    <3>1. world.changes \in 0..MaxChanges
      BY <1>1 DEF Worlds
    <3>2. w.changes + 1 \in 0..MaxChanges
      BY <2>1, <2>2, <3>1, LocNumbers
    <3> QED BY <2>2, <3>2 DEF Spent, Worlds
  <2>4. app' \in App /\ SamePosition(app, app')
    BY <1>1, <1>4, <2>1
  <2> QED BY <1>1, <2>1, <2>3, <2>4, RecoveryStays
<1>9. CASE Change(StartLocalizing) \/ Change(ResetLocalization)
  <2> DEFINE r == Reset(app)
             b == r.bound \/ ~r.ready
  <2>1. r \in App /\ Rests(r) /\ r.mode = "Localized"
    BY <1>1, ResetIs
  <2>2. world' = Spent(world) /\ world' \in Worlds
    BY <1>2, <1>9 DEF Change, StartLocalizing, ResetLocalization
  <2>3. CASE Change(ResetLocalization)
    <3>1. app' = r
      BY <2>3 DEF Change, ResetLocalization
    <3> QED BY <1>1, <2>1, <2>2, <3>1 DEF LocInv, Rests, RecoveryOK
  <2>4. CASE Change(StartLocalizing)
    <3>1. app' = [r EXCEPT !.scanning = TRUE, !.bound = @ \/ ~app.ready, !.asked = @ \/ ~app.ready]
      BY <2>4 DEF Change, StartLocalizing
    <3> HIDE DEF r
    <3> DEFINE c == r.bound \/ ~app.ready
               d == r.asked \/ ~app.ready
    <3>2. app' = [r EXCEPT !.scanning = TRUE, !.bound = c, !.asked = d]
      BY <2>1, <3>1 DEF App
    <3>3. c \in BOOLEAN /\ d \in BOOLEAN
      OBVIOUS
    <3> HIDE DEF c, d
    <3>4. app' \in App
      BY <2>1, <3>2, <3>3 DEF App
    <3>5. app'.mode = r.mode /\ app'.localized = r.localized /\ app'.source = r.source /\ app'.image = r.image
      BY <2>1, <3>2 DEF App
    <3> QED BY <1>1, <2>1, <2>2, <3>4, <3>5 DEF LocInv, Rests, RecoveryOK
  <2> QED BY <1>9, <2>3, <2>4
<1>10. CASE Change(HandleMarkersReceived) \/ Change(HandleMarkersFailed) \/ Change(HandleAppForeground)
  <2>1. world' \in Worlds /\ world'.quality = world.quality /\ world'.frame = world.frame
    BY <1>2, <1>3, <1>10 DEF Change, HandleMarkersReceived, HandleMarkersFailed, HandleAppForeground
  <2>2. app' \in App /\ SamePosition(app, app')
    <3>1. CASE HandleMarkersReceived
      <4>1. PICK known \in BOOLEAN : app' = [app EXCEPT !.ready = known, !.bound = FALSE, !.asked = FALSE]
        BY <3>1 DEF HandleMarkersReceived
      <4> QED BY <1>1, <4>1, Values DEF App, SamePosition
    <3>2. CASE HandleMarkersFailed
      <4>1. PICK x \in {FALSE, app.asked} : app' = [app EXCEPT !.scanning = FALSE, !.asked = x]
        BY <3>2 DEF HandleMarkersFailed
      <4>2. x \in BOOLEAN
        BY <1>1, <4>1 DEF App
      <4> QED BY <1>1, <4>1, <4>2, Values DEF App, SamePosition
    <3>3. CASE HandleAppForeground
      BY <1>1, <3>3, Values DEF HandleAppForeground, App, SamePosition
    <3> QED BY <1>10, <3>1, <3>2, <3>3 DEF Change
  <2> QED BY <1>1, <2>1, <2>2, RecoveryStays DEF SamePosition
<1> QED BY <1>5, <1>6, <1>7, <1>8, <1>9, <1>10

LEMMA LocStutters == LocInv /\ UNCHANGED locVars => LocInv'
  BY DEF LocInv, locVars, RecoveryOK, Rests, IsGood, Right

LEMMA LocSteps ==
  ASSUME LocInv, LocNext
  PROVE  LocInv' /\ (app.mode = "Relocalizing" /\ app'.mode = "Recovered" => app'.pose = 0 \/ app'.slid)
<1>1. CASE Tick
  BY <1>1, TickKeeps
<1>2. CASE OverlayTick
  BY <1>2, OverlayTickKeeps
<1>3. CASE \/ ResolverTick(LocalizeFromCloudAnchor) \/ ResolverTick(ApplyCloudBlendTransform)
           \/ ResolverTick(ResolverRests)
  BY <1>3, ResolverKeeps
<1>4. CASE \/ NothingChanges \/ Change(QualityChanges) \/ Change(FrameJumps) \/ Change(ViewChanges)
           \/ Change(StartLocalizing) \/ Change(ResetLocalization) \/ Change(HandleMarkersReceived)
           \/ Change(HandleMarkersFailed) \/ Change(HandleAppForeground)
  <2>1. LocInv' /\ app'.mode \in {app.mode, "Localized"}
    BY <1>4, ChangesKeep
  <2> QED BY <2>1
<1> QED BY <1>1, <1>2, <1>3, <1>4, Zenon DEF LocNext

---------------------------------------------------------------------------
(* The theorems                                                            *)

\* The invariants of the three parts.
PartsInv == side \in Sides /\ TypesInv /\ ServedOK /\ RefInv /\ LocInv

LEMMA PartsStart == Init => PartsInv
<1> SUFFICES ASSUME Init PROVE PartsInv
  OBVIOUS
<1>1. side \in Sides /\ QueueInit /\ RefInit /\ LocInit
  BY DEF Init
<1>2. ServedOK
  BY <1>1 DEF QueueInit, ServedOK
<1> QED BY <1>1, <1>2, TypesStart, RefStarts, LocStarts DEF PartsInv

LEMMA PartsKeep == PartsInv /\ [Next]_vars => PartsInv'
<1> SUFFICES ASSUME PartsInv, [Next]_vars PROVE PartsInv'
  OBVIOUS
<1>1. /\ side' = side
      /\ QueueNext \/ UNCHANGED resolverVars
      /\ RefNext \/ UNCHANGED refVars
      /\ LocNext \/ UNCHANGED locVars
  BY DEF Next, vars
<1>2. TypesInv' /\ ServedOK'
  BY <1>1, TypesKeep, ServedKeeps DEF PartsInv
<1>3. RefInv'
  BY <1>1, RefSteps, RefStutters DEF PartsInv
<1>4. LocInv'
  BY <1>1, LocSteps, LocStutters DEF PartsInv
<1> QED BY <1>1, <1>2, <1>3, <1>4 DEF PartsInv

\* The queue, the reference anchor and the localizer stay as their invariants
\* say.
THEOREM PartsInvAlways == Spec => []PartsInv
BY PartsStart, PartsKeep, PTL DEF Spec

\* Every variable of the three parts keeps its type: waits, ages and ranks their
\* bounds, the requests of the last minute their budget, the orphans theirs.
THEOREM PositioningTypes == Spec => []TypeOK
<1>1. PartsInv => TypeOK
  BY QueueTypes, RefTypes, LocTypes DEF PartsInv, TypeOK
<1> QED BY <1>1, PartsInvAlways, PTL

\* ARCore never runs more resolves than MaxConcurrentResolves, each runs for
\* one entry or waits among the orphans, and the pin an entry holds was made for
\* the cloud id the entry has: whatever was preempted, timed out, hosted anew or
\* taken off the list while its resolve could not be cancelled.
THEOREM QueueStaysSound == Spec => []QueueIsSound
<1>1. PartsInv => QueueIsSound
  BY QueueSound DEF PartsInv, TypesInv
<1> QED BY <1>1, PartsInvAlways, PTL

\* D44: ScheduleResolves gives a far anchor no slot while an anchor the user is
\* near is ready and has none.
THEOREM NearAnchorsGoFirst == Spec => NearGoesFirst
<1>1. PartsInv /\ [Next]_vars =>
        [\A e \in entries :
           pin[e] = NoPin /\ pin'[e] # NoPin /\ ~Near(e) =>
              \A n \in entries \ recognized :
                 ~(Near(n) /\ pin[n] = NoPin /\ wait[n] = 0)]_resolverVars
  <2> SUFFICES ASSUME PartsInv, [Next]_vars, ~UNCHANGED resolverVars,
                      NEW e \in entries, pin[e] = NoPin, pin'[e] # NoPin, ~Near(e),
                      NEW n \in entries \ recognized
               PROVE  ~(Near(n) /\ pin[n] = NoPin /\ wait[n] = 0)
    OBVIOUS
  <2>1. QueueNext
    BY DEF Next, vars
  <2> QED BY <2>1, NearFirst DEF PartsInv
<1> QED BY <1>1, PartsInvAlways, PTL DEF Spec, NearGoesFirst

\* D46: PassJumpGate lets no single anchor move the user, unless none in sight
\* agrees with the position as it was.
THEOREM NoLoneAnchorMoves == Spec => OneAnchorMovesNobody
<1>1. PartsInv /\ [Next]_vars =>
        [LET implying(x) == {a \in SeenAnchors : Implied(a) = x}
         IN pos.base = "cloud" /\ pos'.base = "cloud" /\ due /\ ~pos.recovering
              /\ pos'.ref \notin {pos.ref, NoPoint} /\ pos'.xf # pos.xf
            => Cardinality(implying(pos'.xf)) > 1 \/ implying(pos.xf) = {}]_refVars
  <2> SUFFICES ASSUME PartsInv, [Next]_vars, ~UNCHANGED refVars,
                      pos.base = "cloud", pos'.base = "cloud", due, ~pos.recovering,
                      pos'.ref \notin {pos.ref, NoPoint}, pos'.xf # pos.xf
               PROVE  \/ Cardinality({a \in SeenAnchors : Implied(a) = pos'.xf}) > 1
                      \/ {a \in SeenAnchors : Implied(a) = pos.xf} = {}
    OBVIOUS
  <2>1. [RefNext]_refVars
    BY DEF Next, vars
  <2> QED BY <2>1, RefMoves DEF PartsInv
<1> QED BY <1>1, PartsInvAlways, PTL DEF Spec, OneAnchorMovesNobody

\* When MonitorRelocalization tells the user that the position is found again,
\* the position published with it was solved in the frame ARCore still uses,
\* unless ARCore has corrected itself between the fix and that moment.
THEOREM RecoveryIsRight == Spec => RecoveredMeansRight
<1>1. PartsInv /\ [Next]_vars =>
        [app.mode = "Relocalizing" /\ app'.mode = "Recovered" => app'.pose = 0 \/ app'.slid]_locVars
  <2> SUFFICES ASSUME PartsInv, [Next]_vars, ~UNCHANGED locVars,
                      app.mode = "Relocalizing", app'.mode = "Recovered"
               PROVE  app'.pose = 0 \/ app'.slid
    OBVIOUS
  <2>1. LocNext
    BY DEF Next, vars
  <2> QED BY <2>1, LocSteps DEF PartsInv
<1> QED BY <1>1, PartsInvAlways, PTL DEF Spec, RecoveredMeansRight

================================================================================
