----------------------------- MODULE NavLocalizer -----------------------------
(***************************************************************************)
(* The localizer (UNavLocalizer): how the app learns where the user is     *)
(* from printed markers and cloud anchors, how it notices that the         *)
(* position has gone wrong and takes it back (stage 13-4), and the two     *)
(* widgets that tell the user, UNavRelocalizeOverlay over the whole screen *)
(* and the warning line of UNavStatusWidget.                               *)
(*                                                                         *)
(* ARCore gives poses in a frame that moves when tracking is lost and      *)
(* found; markers and pins move with it.  A frame is one of Frames, and    *)
(* the transform the localizer keeps (MapToWorldXf) is the frame it was    *)
(* solved in: the position shown is right when the two are the same.       *)
(*                                                                         *)
(* A tick is a unit of time, and a unit is the time that passes in it.     *)
(* Between ticks the world changes in one respect.  The handlers of one    *)
(* tick run one after the other on the same object, so each is an operator *)
(* from a state of the app to the next, and a tick is their composition.   *)
(***************************************************************************)
EXTENDS Integers, FiniteSets, TLC

CONSTANTS
    Markers,       \* the markers the server knows
    Recover,       \* QualityRecoverSeconds
    PinStable,     \* RelocPinStableSeconds
    MinStay,       \* RelocMinStaySeconds
    ShowFor,       \* kRelocRecoveredShowSeconds
    FadeAfter,     \* kRelocOkHoldSeconds + kRelocOkFadeSeconds
    CooldownFor,   \* RelocCooldownSeconds
    LostHold,      \* RelocNotTrackingSeconds
    BadHold,       \* RelocReasonHoldSeconds
    PoorHold,      \* PoorQualityHoldSeconds
    HintAfter,     \* RelocSoftHintSeconds
    ReacquireGap,  \* ReacquireGapSeconds
    NoFrame,       \* no camera pose to compare with
    Cloud,         \* the code of a cloud anchor
    NoSource,      \* no anchor
    MaxChanges     \* bound on what the world and the user do

ASSUME LocalizerAssumption ==
    /\ {Recover, PinStable, MinStay, ShowFor, FadeAfter, CooldownFor, LostHold,
        BadHold, PoorHold, HintAfter, ReacquireGap} \subseteq Nat \ {0}
    /\ MaxChanges \in Nat /\ NoFrame \notin Nat
    /\ Cloud # NoSource /\ {Cloud, NoSource} \intersect Markers = {}

VARIABLES
    todo,   \* what is left to do in this frame
    world,  \* what ARCore sees
    app     \* the localizer, the overlay and the warning line

locVars == <<todo, world, app>>

Tickers == {"resolver", "localizer", "overlay"}

Frames == 0..1
Qualities == {"good", "shaky", "lost"}   \* none bad; a bad reason; NotTracking
AtMost(n, top) == IF n < top THEN n ELSE top
StayCap == IF MinStay > ShowFor THEN MinStay ELSE ShowFor
GoodCap == IF Recover > PinStable THEN Recover ELSE PinStable
IsGood == world.quality = "good"

\* The error of the position that UpdateCurrentPose would publish.
Posed(s) == IF s.mode = "Relocalizing" THEN s ELSE [s EXCEPT !.pose = s.xf - world.frame]

---------------------------------------------------------------------------
(* What a handler does to the app                                          *)

\* A marker and a right pin imply the frame they are seen in.
Solved(s) == [s EXCEPT !.xf = world.frame, !.solved = TRUE, !.slid = FALSE]

\* The widgets' answers to the localizer's events: the warning line comes and
\* goes, except that the overlay has the word while the position is recovered;
\* the overlay begins to scan, whatever it showed, or turns to its tick.
LineShows(s) == [s EXCEPT !.banner = @ \/ s.mode # "Relocalizing"]
LineGoes(s) == [s EXCEPT !.banner = FALSE]
OverlayScans(s) == [s EXCEPT !.overlay = "scanning", !.clock = 0]
OverlayTicks(s) == IF s.overlay = "none" THEN s ELSE [s EXCEPT !.overlay = "recovered", !.clock = 0]

\* An anchor has been met: the hint goes, and the line with it unless the
\* quality is what it warns of.
Observed(s) ==
    LET t == [s EXCEPT !.hint = 0, !.hintShown = FALSE]
    IN IF s.hintShown /\ ~s.degraded THEN LineGoes(t) ELSE t

Fixed(s) == [Observed(s) EXCEPT !.fix = @ \/ s.mode = "Relocalizing"]

NoAccum == [bad |-> 0, lost |-> 0, good |-> 0, cooldown |-> 0, prev |-> NoFrame]
DetectionReset(s) == [s EXCEPT !.accum = NoAccum, !.jump = FALSE, !.solved = FALSE]

\* RequestRelocalization: a warning that is shown gives way to the overlay.
Requested(s) ==
    IF s.mode = "Relocalizing" THEN s ELSE
    LET warned == s.degraded \/ s.hintShown
        t == [s EXCEPT !.mode = "Relocalizing", !.stay = 0, !.fix = FALSE, !.jump = FALSE,
                       !.resume = FALSE, !.hint = 0, !.degraded = FALSE, !.hintShown = FALSE,
                       !.poor = IF warned THEN 0 ELSE @, !.calm = IF warned THEN 0 ELSE @]
    IN OverlayScans(IF warned THEN LineGoes(t) ELSE t)

\* EnterRecovered: the first position published again.
Recovered(s) == OverlayTicks(Posed([s EXCEPT !.mode = "Recovered", !.stay = 0, !.fix = FALSE]))

Reset(s) ==
    DetectionReset(
    [s EXCEPT !.scanning = FALSE, !.localized = FALSE, !.source = NoSource, !.image = FALSE,
              !.xf = 0, !.unseen = 0, !.pose = 0, !.poor = 0, !.calm = 0, !.degraded = FALSE,
              !.mode = "Localized", !.fix = FALSE, !.resume = FALSE, !.hint = 0, !.hintShown = FALSE])

---------------------------------------------------------------------------
(* The tick                                                                *)

\* TryLocalizeFromTrackedImages: the first known marker in sight.
LocalizedBy(s, m) ==
    Fixed(DetectionReset(Solved([s EXCEPT !.source = m, !.image = TRUE, !.scanning = FALSE,
                                          !.localized = TRUE, !.unseen = 0])))

LocalizeTargets(s) == IF s.scanning /\ s.ready /\ ~s.localized THEN world.inView ELSE {}

\* DecideAnchorTransition: an anchor in sight is left only for a marker that
\* was not there at the last scan.
TransitionTargets(s) ==
    world.inView \ (IF s.image /\ s.source \in world.inView THEN {s.source} \union s.last ELSE {s.source})

MovedTo(s, m) == Fixed(Solved([s EXCEPT !.source = m, !.image = TRUE, !.unseen = 0]))
Scanned(s, m) == [IF m = NoSource THEN s ELSE MovedTo(s, m) EXCEPT !.last = world.inView]

\* Without the case of a recovery (for a mutant).
RelatchedWhenAway(s) ==
    IF s.image /\ s.source \in world.inView
    THEN Observed([(IF s.unseen >= ReacquireGap THEN Fixed(Solved(s)) ELSE s) EXCEPT !.unseen = 0])
    ELSE [s EXCEPT !.unseen = AtMost(@ + 1, ReacquireGap)]

\* The transform is solved again when the marker was away for a while, and all
\* the time while the position is being recovered and the quality is steady.
Relatched(s) ==
    LET again == \/ s.unseen >= ReacquireGap
                 \/ s.mode = "Relocalizing" /\ s.good >= PinStable
    IN IF s.image /\ s.source \in world.inView
       THEN Observed([(IF again THEN Fixed(Solved(s)) ELSE s) EXCEPT !.unseen = 0])
       ELSE [s EXCEPT !.unseen = AtMost(@ + 1, ReacquireGap)]

\* JudgeRelocEntry, and what MonitorRelocalization does with its verdict.
\* "solved": a transform was solved since the last judgement.
Judged(s, solved) ==
    LET a == s.accum
        cooling == a.cooldown > 0
        good == IF IsGood THEN AtMost(a.good + 1, Recover) ELSE 0
        over == IsGood /\ good >= Recover
        bad == IF IsGood THEN (IF over THEN 0 ELSE a.bad) ELSE AtMost(a.bad + 1, BadHold)
        lost == IF world.quality = "lost" THEN AtMost(a.lost + 1, LostHold)
                ELSE IF over THEN 0 ELSE a.lost
        enters == lost >= LostHold \/ (~cooling /\ bad >= BadHold)
        jumped == ~solved /\ a.prev \notin {NoFrame, world.frame}
        t == [s EXCEPT !.accum =
                [bad |-> IF enters THEN 0 ELSE bad, lost |-> IF enters THEN 0 ELSE lost,
                 good |-> IF enters THEN 0 ELSE good,
                 cooldown |-> IF cooling THEN a.cooldown - 1 ELSE 0, prev |-> world.frame]]
    IN IF enters THEN Requested(t)
       ELSE [t EXCEPT !.jump = jumped /\ ~cooling]

\* Any transform is believed (for a mutant).
RecoveringByAny(s) ==
    LET t == [s EXCEPT !.resume = FALSE]
    IN IF t.fix /\ t.stay >= MinStay /\ t.good >= Recover THEN Recovered(t) ELSE t

\* While the position is being recovered: a transform solved in bad quality is
\* not believed.
Recovering(s) ==
    LET t == [s EXCEPT !.resume = FALSE]
    IN IF ~IsGood THEN [t EXCEPT !.fix = FALSE]
       ELSE IF t.fix /\ t.stay >= MinStay /\ t.good >= Recover THEN Recovered(t) ELSE t

Celebrating(s) ==
    IF s.stay < ShowFor THEN s
    ELSE [DetectionReset([s EXCEPT !.mode = "Localized"]) EXCEPT !.accum.cooldown = CooldownFor]

\* The position is held: a return to the app, a jump seen at the last tick that
\* no new transform explains, and what this tick shows.
Watching(s, solved) ==
    IF s.resume THEN Requested(s)
    ELSE IF s.jump /\ ~solved THEN Requested([s EXCEPT !.jump = FALSE])
    ELSE Judged([s EXCEPT !.jump = FALSE], solved)

Monitored(s) ==
    LET t == [s EXCEPT !.good = IF IsGood THEN AtMost(@ + 1, GoodCap) ELSE 0, !.solved = FALSE,
                       !.stay = IF s.mode = "Localized" THEN 0 ELSE AtMost(@ + 1, StayCap)]
    IN CASE s.mode = "Relocalizing" -> Recovering(t)
         [] s.mode = "Recovered" -> Celebrating(t)
         [] OTHER -> Watching(t, s.solved)

\* No anchor met for long: a hint in the warning line.
Hinted(s) ==
    IF s.mode # "Localized" THEN s ELSE
    LET t == [s EXCEPT !.hint = AtMost(@ + 1, HintAfter)]
    IN IF t.hintShown \/ t.hint < HintAfter THEN t ELSE LineShows([t EXCEPT !.hintShown = TRUE])

\* MonitorTrackingQuality: a warning that bad quality brings and steady good
\* quality takes away.
Warned(s) ==
    LET bad == [s EXCEPT !.poor = AtMost(@ + 1, PoorHold), !.calm = 0]
        fine == [s EXCEPT !.calm = AtMost(@ + 1, Recover)]
        over == [fine EXCEPT !.poor = 0, !.degraded = FALSE]
    IN IF ~IsGood
       THEN IF s.degraded \/ bad.poor < PoorHold THEN bad ELSE LineShows([bad EXCEPT !.degraded = TRUE])
       ELSE IF fine.calm < Recover THEN fine
       ELSE IF s.degraded THEN LineGoes(over) ELSE over

\* Tick, once the marker to localize by and the marker to move to are chosen.
Held(s, m) == Warned(Hinted(Posed(Monitored(Relatched(Scanned(s, m))))))

Chosen(S) == IF S = {} THEN {NoSource} ELSE S

Tick ==
    /\ "localizer" \in todo /\ todo' = todo \ {"localizer"} /\ UNCHANGED world
    /\ \E m \in Chosen(LocalizeTargets(app)) :
        LET s == IF m = NoSource THEN app ELSE LocalizedBy(app, m)
        IN IF ~s.localized THEN app' = s
           ELSE \E n \in Chosen(TransitionTargets(s)) : app' = Held(s, n)

---------------------------------------------------------------------------
(* The overlay, and what the resolver does to the localizer                *)

\* The tick mark has its time and is gone.
TickRecovered(s) ==
    IF s.clock >= FadeAfter THEN [s EXCEPT !.overlay = "none", !.clock = 0] ELSE [s EXCEPT !.clock = @ + 1]

\* The subsystem drops an overlay that has faded, or that a reset has left
\* behind; the widget counts the time of its tick mark.
OverlayTick ==
    /\ todo = {"overlay"} /\ todo' = {} /\ UNCHANGED world
    /\ app' = CASE app.overlay = "recovered" -> TickRecovered(app)
                [] app.overlay = "scanning" /\ app.mode = "Localized" -> [app EXCEPT !.overlay = "none"]
                [] OTHER -> app

\* The conditions of the callers of LocalizeFromCloudAnchor: the resolver
\* leaves a position that a marker gave alone, and while the position is being
\* recovered it waits for steady quality.
PinUsable(s) ==
    /\ world.pinInView
    /\ ~s.localized \/ s.source = Cloud
    /\ s.mode # "Relocalizing" \/ s.good >= PinStable

ResolverTick(A) == "resolver" \in todo /\ todo' = todo \ {"resolver"} /\ UNCHANGED world /\ A

LocalizeFromCloudAnchor ==
    /\ PinUsable(app)
    /\ LET s == Solved([app EXCEPT !.image = FALSE, !.source = Cloud, !.localized = TRUE, !.unseen = 0])
       IN app' = Posed(Fixed(IF app.localized THEN s ELSE DetectionReset(s)))

ApplyCloudBlendTransform ==
    /\ world.pinInView /\ app.localized /\ app.source = Cloud /\ app.mode = "Localized"
    /\ app' = [app EXCEPT !.xf = world.frame]

\* Only a position that is being recovered, or that is not there, is solved as
\* soon as it can be; for a while after that RelatchForRelocalization rests.
ResolverRests ==
    /\ PinUsable(app) => app.localized /\ (app.mode # "Relocalizing" \/ app.fix)
    /\ UNCHANGED app

---------------------------------------------------------------------------
(* The world, the server and the user, one change a frame                  *)

Change(A) ==
    /\ todo = {} /\ todo' = Tickers /\ world.changes < MaxChanges /\ A

Spent(w) == [w EXCEPT !.changes = @ + 1]

NothingChanges == todo = {} /\ todo' = Tickers /\ UNCHANGED <<world, app>>

\* Tracking is found again in the old frame or in another.
QualityChanges == \E q \in Qualities \ {world.quality}, f \in Frames :
    /\ q # "good" \/ f = world.frame
    /\ world' = Spent([world EXCEPT !.quality = q, !.frame = f]) /\ UNCHANGED app

\* ARCore corrects itself without a word.  A transform solved for a recovery is
\* then older than the frame, which nothing in the code notices; that it is so is
\* noted for the property alone.
FrameJumps ==
    /\ \E f \in Frames \ {world.frame} : world' = Spent([world EXCEPT !.frame = f])
    /\ app' = [app EXCEPT !.slid = @ \/ (app.mode = "Relocalizing" /\ app.fix)]

ViewChanges == \E markers \in SUBSET Markers, pin \in BOOLEAN :
    /\ <<markers, pin>> # <<world.inView, world.pinInView>>
    /\ world' = Spent([world EXCEPT !.inView = markers, !.pinInView = pin]) /\ UNCHANGED app

StartLocalizing ==
    /\ app' = [Reset(app) EXCEPT !.scanning = TRUE, !.bound = @ \/ ~app.ready, !.asked = @ \/ ~app.ready]
    /\ world' = Spent(world)

ResetLocalization == app' = Reset(app) /\ world' = Spent(world)

HandleMarkersReceived == \E known \in BOOLEAN :
    /\ app.asked
    /\ app' = [app EXCEPT !.ready = known, !.bound = FALSE, !.asked = FALSE]
    /\ world' = Spent(world)

\* A request fails: that of the markers or, as the localizer stays bound to the
\* failures of the client they share, any other.
HandleMarkersFailed ==
    /\ app.bound
    /\ \E asked \in {FALSE, app.asked} : app' = [app EXCEPT !.scanning = FALSE, !.asked = asked]
    /\ world' = Spent(world)

HandleAppForeground ==
    /\ app.localized \/ app.mode # "Localized"
    /\ app' = [app EXCEPT !.resume = TRUE] /\ world' = Spent(world)

---------------------------------------------------------------------------

LocInit ==
    /\ todo = {}
    /\ world = [quality |-> "good", frame |-> 0, inView |-> {}, pinInView |-> FALSE, changes |-> 0]
    /\ app = [scanning |-> FALSE, ready |-> FALSE, bound |-> FALSE, asked |-> FALSE,
              localized |-> FALSE, source |-> NoSource, image |-> FALSE, xf |-> 0, unseen |-> 0,
              last |-> {}, pose |-> 0, mode |-> "Localized", fix |-> FALSE, slid |-> FALSE, stay |-> 0, good |-> 0,
              accum |-> NoAccum, solved |-> FALSE, jump |-> FALSE, resume |-> FALSE,
              hint |-> 0, hintShown |-> FALSE, poor |-> 0, calm |-> 0, degraded |-> FALSE,
              overlay |-> "none", clock |-> 0, banner |-> FALSE]

LocNext ==
    \/ Tick \/ OverlayTick
    \/ ResolverTick(LocalizeFromCloudAnchor) \/ ResolverTick(ApplyCloudBlendTransform)
    \/ ResolverTick(ResolverRests)
    \/ NothingChanges
    \/ Change(QualityChanges) \/ Change(FrameJumps) \/ Change(ViewChanges)
    \/ Change(StartLocalizing) \/ Change(ResetLocalization)
    \/ Change(HandleMarkersReceived) \/ Change(HandleMarkersFailed) \/ Change(HandleAppForeground)

LocTypeOK ==
    /\ todo \subseteq Tickers
    /\ world \in [quality : Qualities, frame : Frames, inView : SUBSET Markers,
                  pinInView : BOOLEAN, changes : 0..MaxChanges]
    /\ app.source \in Markers \union {Cloud, NoSource} /\ app.last \subseteq Markers
    /\ app.localized <=> app.source # NoSource
    /\ app.image => app.source \in Markers
    /\ app.mode \in {"Localized", "Relocalizing", "Recovered"}
    /\ app.mode # "Localized" => app.localized
    /\ app.overlay \in {"none", "scanning", "recovered"} /\ app.clock \in 0..FadeAfter
    /\ app.stay \in 0..StayCap /\ app.good \in 0..GoodCap /\ app.hint \in 0..HintAfter

---------------------------------------------------------------------------
(* Properties                                                              *)

\* When the overlay tells the user that the position is found again, the
\* position published with it is right, whatever was solved while tracking was
\* bad: the transform was solved in the frame that ARCore still uses, or ARCore
\* has corrected itself since, in good quality and with no anchor solved after
\* that, and a recovery looks for no jump (MonitorRelocalization, the callers of
\* NoteRelocalizationFix).
RecoveredMeansRight ==
    [][app.mode = "Relocalizing" /\ app'.mode = "Recovered" => app'.pose = 0 \/ app'.slid]_locVars

\* The user is not locked out: with good quality and an anchor of the kind the
\* position rests on in sight for good, the recovery ends and its overlay, which
\* takes every touch, goes.
RelocalizingEnds ==
    <>[](/\ IsGood
         /\ app.source \in world.inView \/ (app.source = Cloud /\ world.pinInView))
        => []<>(app.mode = "Localized" /\ app.overlay = "none")

\* Both together: a recovery ends, and with the position it has solved.
RecoveryIsSound == RecoveredMeansRight /\ RelocalizingEnds
===============================================================================
