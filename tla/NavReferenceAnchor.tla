-------------------------- MODULE NavReferenceAnchor --------------------------
(***************************************************************************)
(* Which of the recognised cloud anchors carries the user's position       *)
(* (UNavCloudResolverSubsystem, decisions D45, D46, D51 and D74): the      *)
(* reference anchor and its hysteresis, the gate that a jump of the        *)
(* position has to pass, the anchors used to take a position back, and the *)
(* blend of the anchors near by.                                           *)
(*                                                                         *)
(* The position error is a number.  An anchor implies the frame ARCore is  *)
(* in, plus its own error when the server has it in the wrong place; the   *)
(* transform is the frame it was solved in.  Two implied positions either  *)
(* agree or are more than JumpGateCm apart.  Of the localizer the module   *)
(* keeps what the resolver reads: what the position rests on, whether it   *)
(* is being recovered, and for how long quality has been good.  The        *)
(* seconds for which the end of a recovery is shown, in which the blend    *)
(* still rests, are left out.  The shipped app does not blend at all       *)
(* (bBlendNearbyAnchors is off); both configurations are followed.         *)
(***************************************************************************)
EXTENDS Integers, FiniteSets

CONSTANTS
    Points,        \* point numbers of the anchors
    WrongBy,       \* the errors the server may have: functions from Points
    Spots,         \* where the user may stand
    Far(_, _),     \* how far a spot is from an anchor
    Radius,        \* BlendRadiusCm
    Dwell,         \* RefMinDwellSeconds
    JumpHold,      \* kJumpStableSeconds
    CandidateGap,  \* the pause after which the clock of a jump starts anew
    RecordWindow,  \* kJumpRecordWindowSeconds
    AwayGap,       \* kReacquireGapSeconds
    Steady,        \* RelocPinStableSeconds
    MaxEvents      \* bound on what the world does

ASSUME ReferenceAssumption ==
    /\ Points \subseteq Nat \ {0} /\ IsFiniteSet(Points) /\ Points # {}
    /\ WrongBy \subseteq [Points -> Int]
    /\ \A p \in Spots, a \in Points : Far(p, a) \in Nat
    /\ {Radius, Dwell, JumpHold, CandidateGap, RecordWindow, AwayGap, Steady} \subseteq Nat \ {0}
    /\ MaxEvents \in Nat

VARIABLES
    due,   \* a tick of the resolver comes next
    hall,  \* the anchors and the world
    pos    \* the resolver's and the localizer's state

refVars == <<due, hall, pos>>

NoPoint == 0
Cut(n, top) == IF n < top THEN n ELSE top
Shift == 0..1
Implied(a) == hall.shift + hall.wrong[a]
SeenAnchors == pos.recognized \intersect hall.tracked

\* JumpRejects: what an anchor was seen to demand, and since when.
NoRecord == [jump |-> 0, age |-> RecordWindow + 1, held |-> 0, stable |-> 0, cand |-> CandidateGap + 1]
NoRecords == [a \in Points |-> NoRecord]
HasRecord(r) == r.age <= RecordWindow

NearestOf(S) == CHOOSE a \in S : \A b \in S :
    Far(hall.spot, a) < Far(hall.spot, b) \/ (Far(hall.spot, a) = Far(hall.spot, b) /\ a <= b)

---------------------------------------------------------------------------
(* The steps of a tick, each from a state of the resolver to the next       *)

\* LocalizeFromCloudAnchor for anchor a, and what every caller forgets then.
PlacedBy(s, a) == [s EXCEPT !.base = "cloud", !.xf = Implied(a), !.records = NoRecords,
                            !.fixed = @ \/ s.recovering]
TakenAs(s, a) == [PlacedBy(s, a) EXCEPT !.ref = a, !.dwell = 0]

TryLocalizeWithAnchor(s, a) == IF s.base = "none" THEN TakenAs(s, a) ELSE s

\* RelatchForRelocalization: the nearest anchor that has been tracked, in good
\* quality, for long enough; no hysteresis and no gate.
RelatchForRelocalization(s) ==
    LET since == [a \in Points |-> IF a \in SeenAnchors THEN Cut(s.since[a] + 1, Steady + 1) ELSE 0]
        stable == {a \in SeenAnchors : Cut(since[a] - 1, s.good) >= Steady}
        t == [s EXCEPT !.since = since]
    IN IF stable = {} THEN t ELSE TakenAs(t, NearestOf(stable))

\* WatchRecognizedAnchor, for each anchor: a dead one is recognised no more and
\* is no reference; of the others it is kept how long they have been away.
Watched(s) ==
    LET gone == s.recognized \intersect hall.dead
        away(a) == IF a \in gone \union hall.tracked THEN 0 ELSE Cut(s.away[a] + 1, AwayGap)
    IN [s EXCEPT !.recognized = @ \ gone, !.ref = IF @ \in gone THEN NoPoint ELSE @,
                 !.away = [a \in Points |-> IF a \in s.recognized THEN away(a) ELSE @[a]]]

\* Only the reference anchor, seen again after it was away, places the position
\* anew.
AllWatched(s) ==
    LET again == /\ s.ref \in (s.recognized \ hall.dead) \intersect hall.tracked
                 /\ s.away[s.ref] >= AwayGap /\ s.base = "cloud" /\ ~s.recovering
    IN IF again THEN PlacedBy(Watched(s), s.ref) ELSE Watched(s)

\* The demands of all anchors in sight are noted when the nearest one jumps; a
\* demand not heard of for long is forgotten.
Noted(s, seen) == [a \in Points |->
    LET r == IF HasRecord(s.records[a]) THEN s.records[a] ELSE NoRecord
    IN IF a \in seen /\ Implied(a) # s.xf THEN [r EXCEPT !.jump = Implied(a) - s.xf, !.age = 0] ELSE r]

\* A clock that compares with the demand before (for a mutant).
ClockedFromNow(r, jump) == [r EXCEPT !.held = 0, !.stable = jump, !.cand = 0]

\* The clock of the candidate runs while it demands the same jump.
Clocked(r, jump) ==
    IF r.cand > CandidateGap \/ r.stable # jump
    THEN [r EXCEPT !.held = 0, !.stable = jump, !.cand = 0]
    ELSE [r EXCEPT !.cand = 0]

Consensus(records, a) == \E b \in Points \ {a} : records[b].age = 0 /\ records[b].jump = records[a].jump
\* Nobody is asked (for a mutant).
UnsupportedAlways(s, a) == FALSE
Supported(s, a) == \E b \in SeenAnchors \ {a} : Implied(b) = s.xf

\* The gate: a jump passes when another anchor demands it in this very tick, or
\* when it has been demanded for long and no anchor in sight agrees with the
\* position as it is.
Gated(s, a) ==
    IF Implied(a) = s.xf THEN TakenAs(s, a) ELSE
    LET noted == Noted(s, SeenAnchors)
        records == [noted EXCEPT ![a] = Clocked(@, Implied(a) - s.xf)]
        passes == \/ Consensus(records, a)
                  \/ records[a].held >= JumpHold /\ ~Supported(s, a)
    IN IF passes THEN [TakenAs(s, a) EXCEPT !.blending = FALSE]
       ELSE [s EXCEPT !.records = records]

\* The reference is left for an anchor that is nearer by half, after a while,
\* or as soon as it is out of sight.
Leaves(s, a) ==
    \/ s.ref \notin SeenAnchors
    \/ /\ a # s.ref /\ s.dwell >= Dwell
       /\ 3 * Far(hall.spot, a) <= 2 * Far(hall.spot, s.ref)

UpdateReferenceAnchor(s0) ==
    LET s == IF s0.recovering THEN s0 ELSE [s0 EXCEPT !.since = [a \in Points |-> 0]]
        a == NearestOf(SeenAnchors)
    IN CASE s.base = "marker" -> [s EXCEPT !.ref = NoPoint]
         [] s.base # "marker" /\ s.recovering -> RelatchForRelocalization(s)
         [] s.base # "marker" /\ ~s.recovering /\ SeenAnchors = {} -> s
         [] OTHER -> IF s.base = "none" THEN TryLocalizeWithAnchor(s, a)
                     ELSE IF Leaves(s, a) THEN Gated(s, a) ELSE s

\* TickBlend, if it is switched on: the anchors near by that agree with the reference anchor, or with
\* the position blended so far when the reference is out of sight.
Blended(s) ==
    LET origin == IF s.blending THEN s.blend ELSE s.xf
        centre == IF s.ref \in SeenAnchors THEN Implied(s.ref) ELSE origin
        agree == {a \in SeenAnchors \ hall.fresh : Far(hall.spot, a) <= Radius /\ Implied(a) = centre}
    IN IF ~hall.blends THEN s
       ELSE IF s.base # "cloud" \/ s.recovering \/ agree = {} THEN [s EXCEPT !.blending = FALSE]
       ELSE [s EXCEPT !.xf = centre, !.blend = centre, !.blending = TRUE]

Aged(s) == [s EXCEPT !.dwell = Cut(@ + 1, Dwell), !.good = IF hall.good THEN Cut(@ + 1, Steady) ELSE 0,
    !.records = [a \in Points |-> LET r == s.records[a] IN
        [r EXCEPT !.age = Cut(@ + 1, RecordWindow + 1), !.held = Cut(@ + 1, JumpHold),
                  !.cand = Cut(@ + 1, CandidateGap + 1)]]]

ResolverTicks ==
    /\ due /\ due' = FALSE
    /\ pos' = Blended(UpdateReferenceAnchor(AllWatched(Aged(pos))))
    /\ hall' = [hall EXCEPT !.fresh = {}, !.dead = {}]

---------------------------------------------------------------------------
(* The world between two ticks                                             *)

Event(A) ==
    /\ ~due /\ due' = TRUE /\ hall.events < MaxEvents /\ A
Counted(h) == [h EXCEPT !.events = @ + 1]

Quiet == ~due /\ due' = TRUE /\ UNCHANGED <<hall, pos>>

\* PollResolves: an anchor is recognised, and the first one gives the position.
Recognised(a) ==
    /\ a \notin pos.recognized
    /\ hall' = Counted([hall EXCEPT !.tracked = @ \union {a}, !.fresh = {a}])
    /\ pos' = TryLocalizeWithAnchor([pos EXCEPT !.recognized = @ \union {a}, !.away[a] = 0], a)

SightChanges(S) ==
    /\ S # hall.tracked /\ S \subseteq pos.recognized
    /\ hall' = Counted([hall EXCEPT !.tracked = S]) /\ UNCHANGED pos

PinDies(a) ==
    /\ a \in pos.recognized
    /\ hall' = Counted([hall EXCEPT !.dead = {a}, !.tracked = @ \ {a}]) /\ UNCHANGED pos

UserWalks(p) == p # hall.spot /\ hall' = Counted([hall EXCEPT !.spot = p]) /\ UNCHANGED pos

FrameShifts == \E f \in Shift \ {hall.shift} :
    hall' = Counted([hall EXCEPT !.shift = f]) /\ UNCHANGED pos

QualityTurns == hall' = Counted([hall EXCEPT !.good = ~@]) /\ UNCHANGED pos

\* What the localizer does meanwhile: a marker gives the position, the position
\* is given up, its recovery begins, and ends with a transform solved since.
MarkerFound ==
    /\ pos' = [pos EXCEPT !.base = "marker", !.xf = hall.shift, !.fixed = @ \/ pos.recovering]
    /\ hall' = Counted(hall)
PositionReset ==
    /\ pos' = [pos EXCEPT !.base = "none", !.xf = 0, !.recovering = FALSE, !.fixed = FALSE]
    /\ hall' = Counted(hall)
RecoveryBegins ==
    /\ pos.base # "none" /\ ~pos.recovering
    /\ pos' = [pos EXCEPT !.recovering = TRUE, !.fixed = FALSE] /\ hall' = Counted(hall)
RecoveryEnds ==
    /\ pos.recovering /\ pos.fixed
    /\ pos' = [pos EXCEPT !.recovering = FALSE, !.fixed = FALSE] /\ hall' = Counted(hall)

---------------------------------------------------------------------------

RefInit ==
    /\ due = FALSE
    /\ \E wrong \in WrongBy, p \in Spots, blends \in BOOLEAN :
        hall = [blends |-> blends, wrong |-> wrong, spot |-> p, shift |-> 0, tracked |-> {}, fresh |-> {}, dead |-> {},
                good |-> TRUE, events |-> 0]
    /\ pos = [recognized |-> {}, away |-> [a \in Points |-> 0], ref |-> NoPoint, dwell |-> 0,
              base |-> "none", xf |-> 0, recovering |-> FALSE, fixed |-> FALSE, good |-> 0,
              since |-> [a \in Points |-> 0], records |-> NoRecords, blend |-> 0, blending |-> FALSE]

RefNext ==
    \/ ResolverTicks \/ Quiet
    \/ \E a \in Points : Event(Recognised(a)) \/ Event(PinDies(a))
    \/ \E S \in SUBSET Points : Event(SightChanges(S))
    \/ \E p \in Spots : Event(UserWalks(p))
    \/ Event(FrameShifts) \/ Event(QualityTurns)
    \/ Event(MarkerFound) \/ Event(PositionReset) \/ Event(RecoveryBegins) \/ Event(RecoveryEnds)

RefTypeOK ==
    /\ due \in BOOLEAN /\ hall.tracked \subseteq Points /\ hall.events \in 0..MaxEvents
    /\ pos.recognized \subseteq Points /\ pos.ref \in Points \union {NoPoint}
    /\ pos.ref # NoPoint => pos.ref \in pos.recognized
    /\ pos.base \in {"none", "marker", "cloud"} /\ (pos.recovering => pos.base # "none")
    /\ \A a \in Points : pos.records[a].held \in 0..JumpHold /\ pos.since[a] \in 0..Steady + 1

---------------------------------------------------------------------------
(* Properties                                                              *)

\* One anchor that the server has in the wrong place does not move the user
\* (D46): while the position is not being recovered, a change of the reference
\* that moves the position needs two anchors in sight that agree on where, or
\* none that agrees with the position as it was (PassJumpGate).
OneAnchorMovesNobody ==
    [][LET implying(x) == {a \in SeenAnchors : Implied(a) = x}
       IN pos.base = "cloud" /\ pos'.base = "cloud" /\ due /\ ~pos.recovering
            /\ pos'.ref \notin {pos.ref, NoPoint} /\ pos'.xf # pos.xf
          => Cardinality(implying(pos'.xf)) > 1 \/ implying(pos.xf) = {}]_refVars

\* A position that rests on cloud anchors comes right: when all that is in
\* sight is right, and some of it is near, it cannot stay wrong, whatever the
\* reference was and however the frame has moved - unless the anchors near by
\* are not blended, the reference itself is in sight, and it is less than half as
\* far again as any other: the resolver then looks at no demand at all, not even
\* the reference's own (UpdateReferenceAnchor, PassJumpGate, TickBlend).
PositionComesRight ==
    LET keepsReference == /\ ~hall.blends /\ pos.ref \in SeenAnchors
                          /\ \A a \in SeenAnchors :
                                3 * Far(hall.spot, a) > 2 * Far(hall.spot, pos.ref) \/ a = pos.ref
    IN <>[](/\ pos.base = "cloud" /\ ~pos.recovering
            /\ \A a \in SeenAnchors : hall.wrong[a] = 0
            /\ \E a \in SeenAnchors : Far(hall.spot, a) <= Radius)
        => <>[](pos.xf = hall.shift \/ keepsReference)

\* Both together: the position resists what is wrong and follows what is right.
CloudPositionIsSound == OneAnchorMovesNobody /\ PositionComesRight
===============================================================================
