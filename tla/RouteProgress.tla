---------------------------- MODULE RouteProgress ----------------------------
(***************************************************************************)
(* The visitor on the route (NavRouteProgress): the line of the answer,    *)
(* the stretch of it each step covers, where on the line a pose is, and    *)
(* the one instruction shown.  The route is the one module Routing         *)
(* computed; the visitor walks along it, forward and back, may leave it    *)
(* for another node and come back anywhere.                                *)
(***************************************************************************)
EXTENDS Routing

CONSTANTS OffRouteThreshold, SearchWindow, SegmentHysteresis,
          ArriveThreshold, ArriveExit,
          Unit   \* bound: poses lie this far apart on the line

ASSUME ProgressAssumption ==
    {OffRouteThreshold, SearchWindow, SegmentHysteresis, ArriveThreshold,
     ArriveExit} \subseteq Nat /\ Unit \in Nat \ {0}

VARIABLES
    line,         \* RoutePts
    cum,          \* CumCm
    steps,        \* Steps, each with StepEndCm
    lastSegment,  \* LastSegment, None before the first pose
    progress,     \* LastProgress
    walked,       \* where on the line the visitor is, OffLine if he is not
    lost          \* history: he left the line, and no pose has found him again

progressVars == <<line, cum, steps, lastSegment, progress, walked, lost>>
visitorVars == <<routingVars, progressVars>>

None == 0
OffLine == -1
NoProgress == [valid |-> FALSE, remaining |-> 0, lateral |-> 0, arrived |-> FALSE]

-----------------------------------------------------------------------------
(* The line *)

Total == Last(cum)

Lesser(m, n) == IF m < n THEN m ELSE n

\* How far the straights lead (Acc): a turn leads nowhere.
Lead(total, given) ==
    LET acc[n \in 0..Len(given)] ==
          IF n = 0 THEN 0
          ELSE IF given[n].arrive \/ given[n].distance < 0 THEN acc[n - 1]
          ELSE Lesser(acc[n - 1] + given[n].distance, total)
    IN  acc

\* Where each step ends; the arrival at the end of the line.
SetSteps(total, given) ==
    LET lead == Lead(total, given)
    IN  [i \in DOMAIN given |->
           [turn |-> given[i].turn, end |-> IF given[i].arrive THEN total ELSE lead[i]]]

-----------------------------------------------------------------------------
(* Progress *)

Clamp(n, low, high) == IF n < low THEN low ELSE IF n > high THEN high ELSE n

\* How far along a segment a point projects, and how far from it it is.
SegmentLength(s) == cum[s + 1] - cum[s]
AlongSegment(p, s) ==
    IF SegmentLength(s) = 0 THEN 0
    ELSE Clamp(Dot(Minus(p, line[s]), Minus(line[s + 1], line[s])) \div SegmentLength(s),
               0, SegmentLength(s))
Lateral(p, s) == Euclid(p, Along(line[s], line[s + 1], AlongSegment(p, s)))

\* The segments looked at: those near the last one.
Window ==
    IF lastSegment = None THEN 1..(Len(line) - 1)
    ELSE {s \in 1..(Len(line) - 1) : /\ s >= lastSegment - SearchWindow
                                     /\ s <= lastSegment + SearchWindow}

Score(p, s) == Lateral(p, s) - IF s = lastSegment THEN SegmentHysteresis ELSE 0

\* The first of the nearest.
BestSegment(p) ==
    CHOOSE s \in Window : \A r \in Window : \/ Score(p, s) < Score(p, r)
                                            \/ Score(p, s) = Score(p, r) /\ s <= r

\* Arrival stands until the visitor is some way back.
Arrived(remaining) ==
    \/ remaining <= ArriveThreshold
    \/ /\ progress.valid /\ progress.arrived
       /\ remaining <= ArriveThreshold + ArriveExit

UpdatePose(p) ==
    IF Len(line) < 2 THEN progress' = NoProgress /\ UNCHANGED lastSegment
    ELSE LET s == BestSegment(p)
             remaining == Total - cum[s] - AlongSegment(p, s)
         IN  /\ lastSegment' = s
             /\ progress' = [valid |-> TRUE, remaining |-> remaining,
                             lateral |-> Lateral(p, s),
                             arrived |-> Arrived(remaining)]

OffRoute == progress.lateral > OffRouteThreshold

\* GetDrawPolyline, without the visitor's own place: the nodes ahead.
Drawn == (lastSegment + 1)..Len(line)

-----------------------------------------------------------------------------
(* Guidance *)

Travelled == Total - progress.remaining

\* Fault: a step that ends right here is still the current one.
EndsHereOrAhead(i) == steps[i].end >= Travelled

EndsAhead(i) == steps[i].end > Travelled

\* The first step whose end is ahead; if there is none, the last.
CurrentStep ==
    LET ahead == {i \in DOMAIN steps : EndsAhead(i)}
    IN  IF ahead = {} THEN Len(steps) ELSE Smallest(ahead)

StepRemaining ==
    IF steps[CurrentStep].end > Travelled THEN steps[CurrentStep].end - Travelled
    ELSE 0

\* The step announced next: a turn, or the arrival.
NextTurn ==
    IF CurrentStep = Len(steps) THEN "" ELSE steps[CurrentStep + 1].turn

-----------------------------------------------------------------------------

ProgressInit == /\ line = <<>> /\ cum = <<>> /\ steps = <<>> /\ lastSegment = None
                /\ progress = NoProgress /\ walked = OffLine
                /\ lost = FALSE

\* The answer is set as the route.  What the service does meanwhile is no
\* longer looked at.
SetLine ==
    /\ line = <<>> /\ answer # NoReply /\ answer.status = 200
    /\ answer.asked.to.du < 0   \* the app names a node
    /\ line' = answer.points /\ cum' = CumOf(answer.points)
    /\ steps' = SetSteps(PolyLength(answer.points), answer.steps)
    /\ lastSegment' = None /\ progress' = NoProgress
    /\ walked' = 0 /\ lost' = FALSE
    /\ seeds' = <<>> /\ table' = 0
    /\ cache' = [a \in BOOLEAN |-> NotBuilt] /\ answer' = NoReply

\* A place on the line.
At(w) == LET s == CHOOSE i \in 1..(Len(line) - 1) : w <= cum[i + 1]
                                  /\ (i = 1 \/ w > cum[i])
         IN  Along(line[s], line[s + 1], w - cum[s])

\* A pose, on the line: as far as before or a little further on or back.
PoseOnLine(w) ==
    /\ line # <<>>
    /\ walked' = w
    /\ UpdatePose(IF Len(line) = 1 THEN line[1] ELSE At(w))
    /\ lost' = (lost /\ progress'.remaining # Total - w)
    /\ UNCHANGED <<routingVars, line, cum, steps>>

Walk == \E w \in {walked - Unit, walked, walked + Unit} :
          line # <<>> /\ walked # OffLine /\ w \in 0..Total /\ PoseOnLine(w)

\* A pose at a node that is not on the line.
Stray(s) ==
    /\ Len(line) >= 2
    /\ \A w \in 0..Total : w % Unit = 0 => At(w) # Pos[s]
    /\ walked' = OffLine
    /\ UpdatePose(Pos[s])
    /\ lost' = TRUE
    /\ UNCHANGED <<routingVars, line, cum, steps>>

Return == /\ line # <<>> /\ walked = OffLine
          /\ \E w \in 0..Total : w % Unit = 0 /\ PoseOnLine(w)

VisitorInit == RoutingInit /\ ProgressInit
VisitorNext ==
    \/ /\ line = <<>>
       /\ \/ \E a \in BOOLEAN, h \in {NoHeading, <<1, 0>>} : Route(a, h)
          \/ SeedAgain \/ Invalidate \/ ReportFailure
       /\ UNCHANGED progressVars
    \/ SetLine
    \/ Walk \/ (\E s \in Spot : Stray(s)) \/ Return

-----------------------------------------------------------------------------
(* Properties *)

\* Type correctness: a step ends on the line, after the one before it, and
\* the segment and the way left are the line's (NavRouteProgress.cpp:16-75).
VisitorTypeOK ==
    /\ table \in 0..Len(seeds)
    /\ \A a \in BOOLEAN : cache[a].built \in BOOLEAN
    /\ answer.status \in {0, 200, 404, 422}
    /\ DOMAIN cum = DOMAIN line
    /\ \A i \in DOMAIN steps :
         /\ steps[i].turn \in {"straight", "left", "right", ""}
         /\ steps[i].end \in 0..Total
         /\ i > 1 => steps[i].end >= steps[i - 1].end
    /\ lastSegment \in 0..Len(line) /\ lost \in BOOLEAN
    /\ progress.valid => progress.remaining \in 0..Total
    /\ walked = OffLine \/ walked \in 0..Total

\* The corners of the line, by how far along they are.
Corner(i) ==
    IF i = Len(line) THEN ""
    ELSE Turn(Headings(line)[i - 1], Headings(line)[i])
CornersAhead == {i \in 2..Len(line) : Corner(i) # "none" /\ cum[i] > walked}

\* As long as the visitor is on the line and has been found there after any
\* straying, what the app says fits where he is:
\* the way left, that he has arrived when he has and not before, the nodes
\* still ahead on the map, and the way to the next corner with the turn to
\* make there, although the server merges legs and the app counts them
\* (NavRouteProgress.cpp:39-75, 104-249).
GuidanceFitsTheWalk ==
    walked # OffLine /\ progress.valid /\ ~lost =>
      /\ progress.remaining = Total - walked /\ ~OffRoute
      /\ progress.remaining <= ArriveThreshold => progress.arrived
      /\ progress.arrived => progress.remaining <= ArriveThreshold + ArriveExit
      /\ \A i \in DOMAIN line : /\ cum[i] > walked => i \in Drawn
                                /\ i \in Drawn => cum[i] >= walked
      /\ CornersAhead # {} =>
           /\ StepRemaining = cum[Smallest(CornersAhead)] - walked
           /\ NextTurn = Corner(Smallest(CornersAhead))

=============================================================================
