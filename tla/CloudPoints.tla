----------------------------- MODULE CloudPoints -----------------------------
(* The points of a map and the cloud ids of the anchors bound to them. *)
EXTENDS Integers, FiniteSets

CONSTANTS
    Points,        \* point numbers of the map
    Ids            \* cloud ids Google may give, the smallest first

NoPoint == 0
NoId == 0

ASSUME PointsAssumption ==
    /\ Points \subseteq Nat \ {NoPoint} /\ IsFiniteSet(Points)
    /\ Ids \subseteq Nat \ {NoId} /\ IsFiniteSet(Ids)

FirstPoint(S) == IF S = {} THEN NoPoint ELSE CHOOSE p \in S : \A q \in S : p <= q
LastPoint(S) == IF S = {} THEN NoPoint ELSE CHOOSE p \in S : \A q \in S : p >= q
===============================================================================
