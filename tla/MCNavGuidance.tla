---------------------------- MODULE MCNavGuidance ----------------------------
\* The instances TLC checks: guidance to destinations that are model values,
\* where a unit of time is the clamp on the time between two poses; and the
\* route itself, in a hall of 4 by 3 metres with a hub in the middle, where a
\* unit of length is 10 cm.  A behaviour is one or the other: guidance knows
\* the route only as an answer.
EXTENDS NavGuidance, RouteProgress

VARIABLE part   \* which of the two this behaviour is about

navVars == <<guideVars, visitorVars, part>>

HallPos == [nw |-> <<0, 0>>, ne |-> <<40, 0>>, se |-> <<40, 30>>,
            sw |-> <<0, 30>>, hub |-> <<20, 15>>]
HallSpot == DOMAIN HallPos
HallKind == [s \in HallSpot |-> CASE s = "hub" -> "exhibit"
                                  [] s = "ne" -> "facility"
                                  [] OTHER -> "waypoint"]

Edge(from, to, distance, both, accessible) ==
    [from |-> from, to |-> to, distance |-> distance, both |-> both,
     accessible |-> accessible]

\* Ways both ways, stairs to the south-west, ways longer than they look, and a
\* row that leads to another map.
Hall == <<Edge("nw", "ne", 60, TRUE, TRUE), Edge("ne", "se", 0, TRUE, TRUE),
          Edge("hub", "ne", 0, TRUE, TRUE), Edge("se", "sw", 0, TRUE, FALSE),
          Edge("nw", "hub", 0, TRUE, TRUE), Edge("hub", "se", 35, TRUE, TRUE),
          Edge("se", "other", 0, TRUE, TRUE)>>

\* A round with one-way streets.
OneWay == <<Edge("nw", "ne", 0, FALSE, TRUE), Edge("ne", "hub", 0, TRUE, TRUE),
            Edge("hub", "sw", 0, FALSE, FALSE), Edge("sw", "nw", 0, FALSE, TRUE),
            Edge("ne", "se", 0, FALSE, TRUE), Edge("se", "sw", 0, TRUE, TRUE)>>

HallSeeds == {<<OneWay, Hall>>, << <<>> >>}

NavInit == /\ part \in {"guidance", "route"}
           /\ GuideInit /\ VisitorInit
           /\ part = "guidance" => seeds = << <<>> >>   \* no map is asked for

NavNext == /\ UNCHANGED part
           /\ \/ part = "guidance" /\ GuideNext /\ UNCHANGED visitorVars
              \/ part = "route" /\ VisitorNext /\ UNCHANGED guideVars

Guided(A) == part = "guidance" /\ A /\ UNCHANGED <<visitorVars, part>>

\* Poses keep coming, with time between them, whenever there is something
\* to localise by; that there is, again and again, is an assumption on the
\* museum.
LiveSpec ==
    /\ NavInit /\ [][NavNext]_navVars
    /\ WF_navVars(Guided(Localized \/ Relocalized))
    /\ SF_navVars(Guided(\E dt \in 1..MaxGap, arrived, off, degraded \in BOOLEAN :
                        Pose(dt, arrived, off, degraded)))

-----------------------------------------------------------------------------

\* Type correctness of both sides (NavMinimapWidget.h:494-513,
\* NavRouteProgress.h:134-158).
NavTypeOK == GuideTypeOK /\ VisitorTypeOK

==============================================================================
