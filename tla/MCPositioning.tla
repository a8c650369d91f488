----------------------------- MODULE MCPositioning -----------------------------
(***************************************************************************)
(* How the app finds out where the user is, in three parts that touch only *)
(* through what each leaves to its environment: the queue of resolves, the *)
(* choice of the reference anchor, and the localizer with its overlay.  A  *)
(* behaviour is one of them, the rest at rest.                             *)
(***************************************************************************)
EXTENDS NavCloudResolver, NavReferenceAnchor, NavLocalizer

VARIABLE side

Sides == {"queue", "reference", "localizer"}
vars == <<side, resolverVars, refVars, locVars>>

\* Three anchors on a line, two of them close to each other; a unit of time is
\* the time of an attempt.
MCPos == 1 :> 0 @@ 2 :> 1 @@ 3 :> 5

Listing(anchors, assets, moved) ==
    [anchors |-> anchors, assets |-> assets, moved |-> moved]

\* Everything; an anchor hosted anew; all taken down but one, which now carries
\* an exhibit.
MCAnswers == {Listing(Anchors, {}, {}), Listing(Anchors, {}, {2}), Listing({}, {1}, {})}

\* The server has every anchor right, one wrong, or two wrong in the same way.
MCWrong == {[a \in Points |-> IF a \in S THEN 1 ELSE 0] : S \in {{}, {2}, {2, 3}}}

MCFar(p, a) == IF p < 4 * a THEN 4 * a - p ELSE p - 4 * a

\* The choices of a part at rest do not matter.
Init ==
    /\ side \in Sides /\ QueueInit /\ RefInit /\ LocInit
    /\ side # "queue" => place = 0
    /\ side # "reference" => hall.spot = 4 /\ ~hall.blends /\ \A a \in Points : hall.wrong[a] = 0

Next ==
    \/ side = "queue" /\ QueueNext /\ UNCHANGED <<side, refVars, locVars>>
    \/ side = "reference" /\ RefNext /\ UNCHANGED <<side, resolverVars, locVars>>
    \/ side = "localizer" /\ LocNext /\ UNCHANGED <<side, resolverVars, refVars>>

\* Time goes on and with it, as Elapse says, frames and passes; the subsystems
\* tick.  Nothing is assumed of ARCore, the user or the server.
TimeGoesOn ==
    CASE side = "queue" -> Elapse
      [] side = "reference" -> ResolverTicks
      [] side = "localizer" -> OverlayTick

Spec == Init /\ [][Next]_vars /\ []<><<TimeGoesOn>>_vars

TypeOK == side \in Sides /\ QueueTypeOK /\ RefTypeOK /\ LocTypeOK
===============================================================================
