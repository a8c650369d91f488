----------------------------- MODULE NavGuidance ------------------------------
(***************************************************************************)
(* Guidance to a destination in the app (TimeMachineAR): the minimap       *)
(* (NavMinimapWidget), the countdown that ends guidance after arrival      *)
(* (NavArrivalAutoEnd), the guide log (NavGuideLogWidget) and the route    *)
(* requests of NavClient.  All of it runs on the game thread, but a route  *)
(* is an HTTP answer that may come late, out of order or not at all, while *)
(* the user walks, picks other destinations and loses localisation.        *)
(*                                                                         *)
(* A route is known by the destination it was requested for and by whether *)
(* it has the two points RouteProgress needs.  Where the user is on it is  *)
(* an input: any pose may count as arrived, off the route, both or         *)
(* neither.  Time is an input as well: how long after the last pose the    *)
(* next one comes.  The Blueprint that carries a chosen destination to     *)
(* NavClient.RequestRoute, an answer to SetRoute and a pose to             *)
(* SetCurrentPose is not C++ code; the comments of NavMinimapWidget.h name *)
(* those connections.                                                      *)
(***************************************************************************)
EXTENDS Integers, Maps

CONSTANTS Node,           \* destinations
          NoNode,         \* the empty DestinationNodeId
          DwellSec, EndMessageSec,  \* FNavArrivalAutoEnd
          MaxDelta,       \* the clamp on the time between two poses
          Hold,           \* RerouteOffRouteHoldSeconds
          Cooldown,       \* RerouteCooldownSeconds
          ReportsLoss,    \* LostAfterSeconds > 0
          MaxGap,         \* bound on the time between two poses
          MaxRequests     \* bound on the number of route requests

ASSUME GuidanceAssumption ==
    /\ NoNode \notin Node
    /\ {DwellSec, EndMessageSec, MaxDelta, Hold, Cooldown, MaxGap,
        MaxRequests} \subseteq Nat
    /\ ReportsLoss \in BOOLEAN

VARIABLES
    destination,  \* DestinationNodeId
    route,        \* RouteXY: whose route it is and whether it has length
    stage,        \* FNavArrivalAutoEnd::Stage
    elapsed,      \* FNavArrivalAutoEnd::ElapsedSec
    offFor,       \* time since OffRouteSinceSeconds, NotOff if unset
    cooling,      \* what is left of the cooldown since LastRerouteSeconds
    localized,    \* the localizer publishes poses
    mapOpen,      \* the full map is in the viewport
    phase,        \* UNavGuideLogWidget::Phase
    logHasDest,   \* UNavGuideLogWidget::bHasDestination
    requests,     \* the destination of each route request in flight
    issued,       \* number of route requests sent
    \* history
    dwelt,        \* time of the unbroken run of arrived poses on this route
    stay,         \* the same, whichever routes came meanwhile
    offRun,       \* time of the unbroken run of off-route poses
    disorder,     \* the route shown is not the answer to the latest request
    settled       \* the latest request that was answered or failed

minimap == <<destination, route>>
autoEnd == <<stage, elapsed>>
gates == <<offFor, cooling>>
log == <<phase, logHasDest>>
network == <<requests, issued>>
history == <<dwelt, stay, offRun, disorder, settled>>
guideVars == <<minimap, autoEnd, gates, localized, mapOpen, log, network, history>>

NoRoute == [to |-> NoNode, long |-> FALSE]
NotOff == -1
HasRoute == route.long   \* UNavRouteProgress::HasRoute

Least(m, n) == IF m < n THEN m ELSE n
Latest(id) == IF id < settled THEN settled ELSE id

GuideInit == /\ destination = NoNode /\ route = NoRoute
        /\ stage = "Idle" /\ elapsed = 0
        /\ offFor = NotOff /\ cooling = 0
        /\ localized = FALSE /\ mapOpen = FALSE
        /\ phase = "NavOn" /\ logHasDest = FALSE
        /\ requests = <<>> /\ issued = 0
        /\ dwelt = 0 /\ stay = 0 /\ offRun = NotOff
        /\ disorder = FALSE /\ settled = 0

-----------------------------------------------------------------------------
(* NavClient: route requests *)

SendRoute(node) ==
    /\ issued' = issued + 1
    /\ requests' = Put(requests, issued + 1, node)

\* The minimap's SetRoute: a new line, and the off-route timer taken back; the
\* countdown goes on.
SetRoute(r) ==
    /\ route' = r
    /\ offFor' = NotOff
    /\ UNCHANGED <<destination, autoEnd, cooling>>

\* OnRouteComplete with a route: it is broadcast whichever request it answers.
Answer(id, long) ==
    /\ id \in DOMAIN requests
    /\ requests' = Erase(requests, {id})
    /\ SetRoute([to |-> requests[id], long |-> long])
    /\ offRun' = NotOff
    /\ dwelt' = 0
    /\ disorder' = (id < settled \/ destination = NoNode)
    /\ settled' = Latest(id)
    /\ UNCHANGED <<localized, mapOpen, log, issued, stay>>

\* OnRouteComplete without one: ReportFailure, and nothing else changes.
Fail(id) ==
    /\ id \in DOMAIN requests
    /\ requests' = Erase(requests, {id})
    /\ disorder' = (disorder \/ id > settled)
    /\ settled' = Latest(id)
    /\ UNCHANGED <<minimap, autoEnd, gates, localized, mapOpen, log, issued,
                   dwelt, stay, offRun>>

-----------------------------------------------------------------------------
(* The full map: the user picks a destination *)

OpenFullMap ==
    /\ ~mapOpen
    /\ mapOpen' = TRUE
    /\ phase' = "FullMapOpen"
    /\ UNCHANGED <<minimap, autoEnd, gates, localized, logHasDest, network,
                   history>>

\* What the log goes back to (HandleFullMapOpenChanged).
AfterFullMap == IF logHasDest THEN "Guiding" ELSE "Localized"

\* Close.
CancelFullMap ==
    /\ mapOpen
    /\ mapOpen' = FALSE
    /\ phase' = AfterFullMap
    /\ UNCHANGED <<minimap, autoEnd, gates, localized, logHasDest, network,
                   history>>

\* StartSelectedGuidance: the choice is broadcast, the route requested, and
\* the full map closes.
StartSelectedGuidance(node) ==
    /\ mapOpen
    /\ issued < MaxRequests
    /\ destination' = node
    /\ SendRoute(node)
    /\ mapOpen' = FALSE
    /\ logHasDest' = TRUE
    /\ phase' = "Guiding"
    /\ UNCHANGED <<route, autoEnd, gates, localized, history>>

-----------------------------------------------------------------------------
(* The localizer *)

\* The anchor is found for the first time or after ResetLocalization:
\* OnLocalized.
Localized ==
    /\ ~localized
    /\ localized' = TRUE
    /\ phase' = IF logHasDest THEN phase ELSE "Localized"
    /\ UNCHANGED <<minimap, autoEnd, gates, mapOpen, logHasDest, network,
                   history>>

\* Relocalisation ends; only OnRelocalized is broadcast.
Relocalized ==
    /\ ~localized
    /\ localized' = TRUE
    /\ UNCHANGED <<minimap, autoEnd, gates, mapOpen, log, network, history>>

\* Relocalisation begins, or the user asks for a new scan: no more poses,
\* and nobody else is told.
PosesStop ==
    /\ localized
    /\ localized' = FALSE
    /\ UNCHANGED <<minimap, autoEnd, gates, mapOpen, log, network, history>>

\* OnLocalizationLost, if LostAfterSeconds asks for it: the log says so; the
\* poses go on.
LocalizationLost ==
    /\ ReportsLoss
    /\ localized
    /\ phase' = "NavOn"
    /\ UNCHANGED <<minimap, autoEnd, gates, localized, mapOpen, logHasDest,
                   network, history>>

\* The user's position is hidden, and the off-route timer taken back.  It is
\* for the Blueprint to call this.
ClearCurrentPose ==
    /\ offFor' = NotOff
    /\ offRun' = NotOff
    /\ UNCHANGED <<minimap, autoEnd, cooling, localized, mapOpen, log, network,
                   dwelt, stay, disorder, settled>>

\* The anchor is now the marker of an exhibit.
AnchorChanged ==
    /\ localized
    /\ phase \in {"Guiding", "OffRoute", "Arrived"}
    /\ phase' = "Recognized"
    /\ UNCHANGED <<minimap, autoEnd, gates, localized, mapOpen, logHasDest,
                   network, history>>

-----------------------------------------------------------------------------
(* SetCurrentPose *)

\* Fault: a pose on the route does not start the time again.
OffRouteTimerKept(off, dt) ==
    IF offFor = NotOff THEN IF off THEN 0 ELSE NotOff
    ELSE Least(offFor + dt, Hold)

\* The time off the route as EvaluateAutoReroute counts it, from the first
\* pose off the route; more than Hold makes no difference.  Without a
\* destination it is not looked at.
OffRouteTimer(off, dt) ==
    CASE destination # NoNode /\ ~off -> NotOff
      [] destination # NoNode /\ off /\ offFor = NotOff -> 0
      [] OTHER -> IF offFor = NotOff THEN NotOff ELSE Least(offFor + dt, Hold)

\* Three gates: off the route for long enough, not again too soon, and
\* tracking good enough to believe it.
RerouteDue(off, dt, degraded) ==
    /\ destination # NoNode
    /\ off
    /\ OffRouteTimer(off, dt) >= Hold
    /\ cooling <= dt
    /\ ~degraded

EvaluateAutoReroute(off, dt, degraded) ==
    IF RerouteDue(off, dt, degraded) /\ issued < MaxRequests
    THEN SendRoute(destination) /\ cooling' = Cooldown
    ELSE /\ cooling' = cooling - Least(cooling, dt)
         /\ UNCHANGED network

\* HandleGuidanceUpdated of the log.
GuidanceUpdated(arrived, off) ==
    CASE arrived /\ phase \notin {"Recognized", "Ended"} -> "Arrived"
      [] ~arrived /\ phase \notin {"FullMapOpen", "Ended"} ->
           IF off THEN "OffRoute" ELSE "Guiding"
      [] OTHER -> phase

\* Fault: leaving the destination does not start the dwell again.
DwellKept(arrived, delta) ==
    IF stage = "Idle" /\ ~arrived THEN <<"Idle", 0>>
    ELSE IF elapsed + delta >= DwellSec THEN <<"AfterEnded", 0>>
    ELSE <<"Dwelling", elapsed + delta>>

\* Fault: the time of the dwell counts for the finishing message too.
DwellCarriedOver(arrived, delta) ==
    IF ~arrived THEN <<"Idle", 0>>
    ELSE <<IF elapsed + delta >= DwellSec THEN "AfterEnded" ELSE "Dwelling",
           elapsed + delta>>

\* Update before Ended: the stage and the time in it.  A dwell begins with
\* the time of the very pose that arrives, and begins again after a pose
\* that does not.
Dwell(arrived, delta) ==
    IF ~arrived THEN <<"Idle", 0>>
    ELSE IF elapsed + delta >= DwellSec THEN <<"AfterEnded", 0>>
    ELSE <<"Dwelling", elapsed + delta>>

\* With Ended only the log takes note; otherwise what guidance says stands.
BeforeEnded(arrived, off, delta) ==
    /\ stage \in {"Idle", "Dwelling"}
    /\ stage' = Dwell(arrived, delta)[1]
    /\ elapsed' = Dwell(arrived, delta)[2]
    /\ phase' = IF stage' = "AfterEnded" THEN "Ended"
                                         ELSE GuidanceUpdated(arrived, off)
    /\ logHasDest' = TRUE
    /\ UNCHANGED minimap

\* Fault: after Ended, too, a pose that has not arrived starts it again.
FinishingWhileArrived(arrived, off, delta) ==
    /\ stage = "AfterEnded"
    /\ elapsed + delta < EndMessageSec
    /\ elapsed' = IF arrived THEN elapsed + delta ELSE 0
    /\ phase' = GuidanceUpdated(arrived, off)
    /\ logHasDest' = TRUE
    /\ UNCHANGED <<minimap, stage>>

\* After Ended arrival no longer counts.
FinishingMessage(arrived, off, delta) ==
    /\ stage = "AfterEnded"
    /\ elapsed + delta < EndMessageSec
    /\ elapsed' = elapsed + delta
    /\ phase' = GuidanceUpdated(arrived, off)
    /\ logHasDest' = TRUE
    /\ UNCHANGED <<minimap, stage>>

\* Closed: ClearRoute, which also resets the countdown, the empty
\* destination, and HandleNavigationClosed in the log.
Closed(delta) ==
    /\ stage = "AfterEnded"
    /\ elapsed + delta >= EndMessageSec
    /\ route' = NoRoute
    /\ destination' = NoNode
    /\ stage' = "Idle"
    /\ elapsed' = 0
    /\ logHasDest' = FALSE
    /\ phase' = "Localized"

\* A pose, dt after the one before, while there is a route.
Pose(dt, arrived, off, degraded) ==
    /\ localized
    /\ HasRoute
    /\ EvaluateAutoReroute(off, dt, degraded)
    /\ LET delta == Least(dt, MaxDelta)
       IN  /\ \/ BeforeEnded(arrived, off, delta)
              \/ FinishingMessage(arrived, off, delta)
              \/ Closed(delta)
           /\ dwelt' = IF arrived /\ HasRoute' THEN Least(dwelt + delta, DwellSec) ELSE 0
           /\ stay' = IF arrived /\ HasRoute' THEN Least(stay + delta, DwellSec) ELSE 0
    /\ offFor' = IF HasRoute' THEN OffRouteTimer(off, dt) ELSE NotOff
    /\ offRun' = IF ~off THEN NotOff
                 ELSE IF offRun = NotOff THEN 0 ELSE Least(offRun + dt, Hold)
    /\ UNCHANGED <<localized, mapOpen, disorder, settled>>

-----------------------------------------------------------------------------
(* What the log makes of its phase *)

\* The phases that speak of a destination.
Journey == {"Guiding", "OffRoute", "Arrived"}

\* ApplyPhase: without a destination on the minimap the log asks for one.
Effective == IF destination = NoNode /\ phase \in Journey THEN "Localized" ELSE phase

\* SyncWithMinimap, with the docent's tab in front or not: the full map has a
\* bubble of its own.
LogShown(docentOpen) == destination # NoNode /\ ~docentOpen /\ phase # "FullMapOpen"

-----------------------------------------------------------------------------

GuideNext ==
        \/ \E id \in DOMAIN requests : \/ \E long \in BOOLEAN : Answer(id, long)
                                       \/ Fail(id)
        \/ OpenFullMap \/ CancelFullMap \/ \E node \in Node : StartSelectedGuidance(node)
        \/ Localized \/ Relocalized \/ PosesStop
        \/ LocalizationLost \/ ClearCurrentPose \/ AnchorChanged
        \/ \E dt \in 0..MaxGap, arrived, off, degraded \in BOOLEAN :
             Pose(dt, arrived, off, degraded)

-----------------------------------------------------------------------------
(* Properties *)

\* Type correctness; the countdown never stands at or past its end
\* (NavArrivalAutoEnd.cpp:3-51).
GuideTypeOK ==
    /\ destination \in Node \cup {NoNode}
    /\ route \in {NoRoute} \cup [to : Node, long : BOOLEAN]
    /\ \/ stage = "Idle" /\ elapsed = 0
       \/ stage = "Dwelling" /\ elapsed \in 0..(DwellSec - 1)
       \/ stage = "AfterEnded" /\ elapsed \in {0} \cup 0..(EndMessageSec - 1)
    /\ offFor \in NotOff..Hold /\ cooling \in 0..Cooldown
    /\ localized \in BOOLEAN /\ mapOpen \in BOOLEAN /\ logHasDest \in BOOLEAN
    /\ phase \in {"NavOn", "Localized", "FullMapOpen", "Guiding", "OffRoute",
                  "Arrived", "Recognized", "Ended"}
    /\ issued \in 0..MaxRequests
    /\ DOMAIN requests \subseteq 1..issued
    /\ \A id \in DOMAIN requests : requests[id] \in Node
    /\ disorder \in BOOLEAN
    /\ dwelt \in 0..DwellSec /\ stay \in 0..DwellSec /\ offRun \in NotOff..Hold
    /\ settled \in 0..MaxRequests

\* When no request is in flight and the latest one was answered last, the
\* line on the map leads to the destination that is shown
\* (NavMinimapWidget.cpp:194-200, 400-407).
RouteLeadsToDestination ==
    requests = <<>> /\ ~disorder /\ route # NoRoute => route.to = destination

\* Guidance ends only after an unbroken stay as long as the dwell, however the
\* user hovers about the destination (NavArrivalAutoEnd.cpp:22-40).  The stay
\* may have begun at the end of an earlier route.
EndsOnlyAfterStay ==
    [][stage # "AfterEnded" /\ stage' = "AfterEnded" => stay' = DwellSec]_guideVars

\* What the comment on Reset says (NavArrivalAutoEnd.h:44): a new route starts
\* the dwell again, so that guidance ends only after a stay as long as the dwell
\* at the end of the route that is shown.
EndsOnlyAfterDwell ==
    [][stage # "AfterEnded" /\ stage' = "AfterEnded" => dwelt' = DwellSec]_guideVars

\* The server is asked for another route only after an unbroken spell off
\* the present one as long as the hold time: one pose on it, a new route or
\* a call of ClearCurrentPose starts the time again (NavMinimapWidget.cpp:452-472).
ReroutesAreDue ==
    [][issued' > issued /\ destination' = destination /\ ~mapOpen
         => offRun' = Hold]_guideVars

\* Once guidance has ended the clean-up comes, as long as the minimap has a
\* route with length (NavMinimapWidget.cpp:361-414).
CleanUpComes == []<>(stage # "AfterEnded" \/ ~HasRoute)

\* While the log is shown it says that guidance has ended only as long as the
\* countdown after it runs, and speaks of a journey only when one has begun,
\* whichever of minimap, full map and localizer spoke last
\* (NavGuideLogWidget.cpp:242-341, 424-450).
LogFits == LogShown(FALSE) =>
    /\ Effective = "Ended" => stage = "AfterEnded"
    /\ Effective \in Journey => logHasDest

\* Routes are asked for when they are due, and lead where they should.
RoutesAreRight == []RouteLeadsToDestination /\ ReroutesAreDue

\* Guidance ends after a stay, not at once and not never, and the log says so.
GuidanceEndsRight == EndsOnlyAfterStay /\ CleanUpComes /\ []LogFits

=============================================================================
