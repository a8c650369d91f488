------------------------------ MODULE TimeReveal ------------------------------
(***************************************************************************)
(* The opening of an exhibit (UTimeRevealComponent).  A pocket watch hangs *)
(* before the visitor and the dinosaur is hidden and locked; a swipe up    *)
(* throws the watch, a portal opens and the dinosaur appears.  The reveal  *)
(* is cancelled, and the dinosaur shown, when the app goes to the          *)
(* background, the chat or the navigation opens or the anchor is lost for  *)
(* longer than a grace.                                                    *)
(*                                                                         *)
(* Each exhibit has a component of its own; they share the hint of the     *)
(* HUD and the touch screen.  Time goes in ticks of one or two units.      *)
(* Places, curves, the glow and the hands of the watch are left out.       *)
(***************************************************************************)
EXTENDS Naturals

CONSTANTS
    Exhibits,
    ThrowTime,                                 \* Profile: ThrowSec
    PortalStart, RevealStart, FadeOutEnd,      \* and the times of the sequence
    Grace                                      \* TrackingLostGraceSec

ASSUME RevealAssumption ==
    /\ ThrowTime \in Nat \ {0} /\ Grace \in Nat
    /\ PortalStart \in Nat /\ RevealStart \in Nat /\ FadeOutEnd \in Nat
    /\ PortalStart <= RevealStart /\ RevealStart < FadeOutEnd

VARIABLES
    reveal,     \* the components
    model,      \* what the actor they belong to looks like
    hint,       \* the state whose hint the HUD shows
    inSight,    \* the exhibits whose pin is tracked and that are on the screen (TargetIsAvailable)
    busy        \* the chat or the navigation panel is open

revealVars == <<reveal, model, hint, inSight, busy>>

Ended == {"Complete", "Cancelled"}
States == {"none", "Ready", "Throwing", "Impact", "Portal", "Revealing"} \union Ended
Reveal == [state : States, elapsed : 0..ThrowTime + 1, sequence : 0..FadeOutEnd + ThrowTime,
           lost : 0..Grace + 2, ownsTouch : BOOLEAN,
           props : SUBSET {"watch", "input", "background", "orbit", "portal", "blur", "material"}]
Model == [shown : BOOLEAN, locked : BOOLEAN, clickable : BOOLEAN, rising : BOOLEAN]
NoReveal == [state |-> "none", elapsed |-> 0, sequence |-> 0, lost |-> 0, ownsTouch |-> FALSE, props |-> {}]
Plain == [shown |-> TRUE, locked |-> FALSE, clickable |-> TRUE, rising |-> FALSE]

RevealTypeOK ==
    /\ reveal \in [Exhibits -> Reveal] /\ model \in [Exhibits -> Model]
    /\ hint \in States /\ inSight \subseteq Exhibits /\ busy \in BOOLEAN

RevealInit ==
    /\ reveal = [e \in Exhibits |-> NoReveal] /\ model = [e \in Exhibits |-> Plain]
    /\ hint = "none" /\ inSight = {} /\ busy = FALSE

Active(e) == reveal[e].state \notin Ended \union {"none"}

-----------------------------------------------------------------------------
(* What a call does to a component r and to its actor's model m *)

\* ADinoOverlayActor::StartReveal: the flesh fades in, unless a reveal holds it.
StartReveal(m) == IF m.locked THEN m ELSE [m EXCEPT !.rising = TRUE]

\* Initialize: the model is hidden, locked and cannot be tapped.
Hidden(m) == [m EXCEPT !.shown = FALSE, !.locked = TRUE, !.clickable = FALSE]
Ready == [NoReveal EXCEPT !.state = "Ready", !.props = {"watch", "input", "background"}]

\* Cleanup(TRUE): all that was made is removed, the model is as it was.
CleanedModel(m) == [m EXCEPT !.shown = TRUE, !.locked = FALSE, !.clickable = TRUE]
Over(r, state) == [r EXCEPT !.state = state, !.props = {}, !.ownsTouch = FALSE,
                            !.elapsed = 0, !.sequence = 0, !.lost = 0]

\* UpdateSequence; what is past in one long frame is passed through.
Sequence(r, dt) ==
    LET t == r.sequence + dt
    IN  IF t >= FadeOutEnd THEN Over(r, "Complete")
        ELSE [r EXCEPT
                !.sequence = t, !.elapsed = 0, !.lost = 0,
                !.state = IF t >= RevealStart THEN "Revealing"
                          ELSE IF t >= PortalStart /\ @ = "Impact" THEN "Portal" ELSE @,
                !.props = @ \union {"orbit"}
                            \union (IF t >= PortalStart THEN {"portal", "blur"} ELSE {})
                            \union (IF t >= RevealStart THEN {"material"} ELSE {})]

\* Fault: a watch that was out of sight starts its flight again.
FlightAgain(r, dt) == IF r.lost > 0 THEN dt ELSE r.elapsed + dt

Flight(r, dt) == r.elapsed + dt

\* TickComponent, where the tracking holds or not: pause while the anchor is lost,
\* up to the grace.
Ticked(r, holds, dt) ==
    CASE busy -> Over(r, "Cancelled")
      [] ~busy /\ ~holds ->
            IF r.lost + dt > Grace THEN Over(r, "Cancelled")
            ELSE [r EXCEPT !.ownsTouch = FALSE, !.lost = @ + dt]
      [] ~busy /\ holds /\ r.state = "Ready" -> [r EXCEPT !.lost = 0]
      [] ~busy /\ holds /\ r.state = "Throwing" ->
            IF Flight(r, dt) < ThrowTime THEN [r EXCEPT !.elapsed = Flight(r, dt), !.lost = 0]
            ELSE LET impact == [r EXCEPT !.state = "Impact", !.elapsed = 0, !.sequence = 0, !.lost = 0]
                     over == Flight(r, dt) - ThrowTime
                 IN IF over > 0 THEN Sequence(impact, over) ELSE impact
      [] OTHER -> Sequence(r, dt)

\* The model after its component has moved from r to s.
Following(m, s) ==
    IF s.state \in Ended THEN CleanedModel(m)
    ELSE IF s.state = "Revealing" THEN [m EXCEPT !.shown = TRUE] ELSE m

\* The hint after a move: every new state sets it, and cancelling clears it.
Hint(r, s) == IF r.state = s.state THEN hint ELSE IF s.state = "Cancelled" THEN "none" ELSE s.state

Moves(e, s) ==
    /\ reveal' = [reveal EXCEPT ![e] = s]
    /\ model' = [model EXCEPT ![e] = Following(@, s)]
    /\ hint' = Hint(reveal[e], s)

-----------------------------------------------------------------------------
(* Actions *)

\* Fault: the reveal is attached before the fade is started.
AttachedFirst(m) == StartReveal(Hidden(m))

\* SpawnOrFollow, the end of it: StartReveal, then AttachTo.
Attached(m) == Hidden(StartReveal(m))

\* An exhibit is spawned; without the meshes of the watch there is no reveal.
Spawn(e) ==
    /\ reveal[e].state = "none"
    /\ \E r \in {Ready, Over(Ready, "Cancelled")} :
        /\ reveal' = [reveal EXCEPT ![e] = r]
        /\ model' = [model EXCEPT ![e] = Following(Attached(Plain), r)]
        /\ hint' = IF r = Ready THEN "Ready" ELSE hint
    /\ inSight' = inSight \union {e}
    /\ UNCHANGED busy

\* EndPlay: the actor is destroyed with all the reveal has made, and the HUD's
\* hint is cleared.
Destroy(e) ==
    /\ reveal[e].state # "none"
    /\ reveal' = [reveal EXCEPT ![e] = NoReveal] /\ model' = [model EXCEPT ![e] = Plain]
    /\ hint' = "none"
    /\ UNCHANGED <<inSight, busy>>

\* TouchPressed by the first finger: every watch hangs at the same place, so
\* all that can be thrown are hit or none.  A second finger ends it.
Press(hit) ==
    /\ reveal' = [e \in Exhibits |->
            IF reveal[e].state = "Ready" /\ e \in inSight THEN [reveal[e] EXCEPT !.ownsTouch = hit] ELSE reveal[e]]
    /\ UNCHANGED <<model, hint, inSight, busy>>

SecondFinger ==
    /\ reveal' = [e \in Exhibits |-> [reveal[e] EXCEPT !.ownsTouch = FALSE]]
    /\ UNCHANGED <<model, hint, inSight, busy>>

\* TouchReleased: a swipe up throws (TryThrow) what the finger held.
Thrown(e, up) == up /\ reveal[e].ownsTouch /\ reveal[e].state = "Ready" /\ e \in inSight

Release(up) ==
    /\ reveal' = [e \in Exhibits |->
            IF Thrown(e, up) THEN [reveal[e] EXCEPT !.ownsTouch = FALSE, !.state = "Throwing"]
            ELSE [reveal[e] EXCEPT !.ownsTouch = FALSE]]
    /\ hint' = IF \E e \in Exhibits : Thrown(e, up) THEN "Throwing" ELSE hint
    /\ UNCHANGED <<model, inSight, busy>>

\* The place of an exhibit that is not in sight is lost, or only off the screen.
TickComponent(e) ==
    /\ Active(e)
    /\ \E holds \in BOOLEAN, dt \in 1..2 :
        (e \in inSight => holds) /\ Moves(e, Ticked(reveal[e], holds, dt))
    /\ UNCHANGED <<inSight, busy>>

\* Backgrounded: every reveal under way is cancelled.
Backgrounded ==
    /\ \E e \in Exhibits : Active(e)
    /\ reveal' = [e \in Exhibits |-> IF Active(e) THEN Over(reveal[e], "Cancelled") ELSE reveal[e]]
    /\ model' = [e \in Exhibits |-> IF Active(e) THEN CleanedModel(model[e]) ELSE model[e]]
    /\ hint' = "none"
    /\ UNCHANGED <<inSight, busy>>

\* The visitor looks away and back, and opens and closes the other panels.
LookAround ==
    /\ inSight' \in SUBSET {e \in Exhibits : reveal[e].state # "none"}
    /\ UNCHANGED <<reveal, model, hint, busy>>

OpenOrClosePanel == busy' = ~busy /\ UNCHANGED <<reveal, model, hint, inSight>>

RevealNext ==
    \/ \E e \in Exhibits : Spawn(e) \/ Destroy(e) \/ TickComponent(e)
    \/ \E b \in BOOLEAN : Press(b) \/ Release(b)
    \/ SecondFinger \/ Backgrounded \/ LookAround \/ OpenOrClosePanel

-----------------------------------------------------------------------------
(* Properties *)

\* However a reveal ends, in the middle of the show or before it, the dinosaur
\* stands there to be seen and tapped, its flesh fading in, and nothing of the
\* show is left (Cleanup; SpawnOrFollow starts the fade before it attaches).
EndedRevealShowsTheDinosaur ==
    \A e \in Exhibits : reveal[e].state \in Ended =>
        /\ model[e] = [shown |-> TRUE, locked |-> FALSE, clickable |-> TRUE, rising |-> TRUE]
        /\ reveal[e].props = {}

\* A watch thrown is followed by the end of the reveal though the anchor comes
\* and goes (TickComponent).
ThrownWatchArrives ==
    \A e \in Exhibits : []<>(reveal[e].state \in Ended \union {"none", "Ready"})

\* Both together: a reveal ends, and leaves the dinosaur behind.
RevealsEndWell == []EndedRevealShowsTheDinosaur /\ ThrownWatchArrives
===============================================================================
