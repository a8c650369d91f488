---------------------------- MODULE ExhibitsProofs ----------------------------
(***************************************************************************)
(* Theorems about the exhibits (MCExhibits): that a marker shows one       *)
(* dinosaur, that the marker images come back, that a reveal leaves its    *)
(* dinosaur standing, that the screen over the camera is right, and that   *)
(* everything keeps its type.  None of them needs the fairness of Spec.    *)
(***************************************************************************)
EXTENDS MCExhibits, FiniteSetTheorems, TLAPS

-----------------------------------------------------------------------------
(* One exhibit for the marker *)

\* The spawner is armed only while the scan that armed it goes on, an overlay
\* ends the scan, and an unbound spawner has made nothing.
ScanInv ==
    /\ armed => scanning /\ bound
    /\ overlay # NoImage => ~scanning
    /\ ~bound => marker = NoMarker
    /\ OneExhibitForTheMarker

scanState == <<armed, scanning, bound, overlay, marker>>

\* What ScanInv says depends on five variables.
LEMMA ScanInvDepends == ScanInv /\ UNCHANGED scanState => ScanInv'
  BY DEF ScanInv, scanState, OneExhibitForTheMarker

\* Nothing is scanned and nothing stands when the app starts.
LEMMA ScanInvInit == SpawnerInit => ScanInv
  BY DEF SpawnerInit, ManagerInit, ScanInv, OneExhibitForTheMarker

\* The scan button: the overlay goes, and an idle spawner starts anew.
LEMMA ScanInvButtons ==
    ScanInv /\ (StartScan \/ StopScan \/ ToggleCameraFacing) => ScanInv'
<1>1. ASSUME ScanInv, StartScan PROVE ScanInv'
  BY <1>1 DEF StartScan, ScanStarts, ClearOverlay, HandleScanStarted, ClearAll,
              fetchVars, exhibitVars, ScanInv, OneExhibitForTheMarker
<1>2. ASSUME ScanInv, StopScan PROVE ScanInv'
  BY <1>2 DEF StopScan, ScanStops, HandleScanStopped, ScanInv, OneExhibitForTheMarker
<1>3. ASSUME ScanInv, ToggleCameraFacing PROVE ScanInv'
  BY <1>3 DEF ToggleCameraFacing, CameraTurns, ClearOverlay, HandleScanStopped, fetchVars,
              ScanInv, OneExhibitForTheMarker
<1> QED BY <1>1, <1>2, <1>3

\* The manager's overlay stands only if the spawner answers with no exhibit.
LEMMA ScanInvManager == ScanInv /\ ManagerTick => ScanInv'
<1> SUFFICES ASSUME ScanInv, ManagerTick PROVE ScanInv'
  OBVIOUS
<1>1. CASE QuietTick /\ UNCHANGED spawnerVars
  BY <1>1, ScanInvDepends DEF QuietTick, spawnerVars, fetchVars, exhibitVars, scanState
<1>2. ASSUME NEW i \in Images, ManagerFinds(i) PROVE ScanInv'
  <2>1. PICK m : /\ ~bound => m = marker
                 /\ RecognisingTick(i, ~(bound /\ Replaces(m)))
                 /\ marker' = m
    BY <1>2 DEF ManagerFinds
  <2>2. ~armed' /\ ~scanning' /\ bound' = bound
    BY <1>2, <2>1 DEF ManagerFinds, HandleScanStopped, RecognisingTick, ScanInv
  <2>3. overlay' # NoImage => ~bound \/ m = NoMarker
    BY <2>1 DEF RecognisingTick, Replaces
  <2> QED
    BY <2>1, <2>2, <2>3 DEF ScanInv, OneExhibitForTheMarker, NoMarker
<1> QED BY <1>1, <1>2 DEF ManagerTick

\* The spawner's tick makes an exhibit of its own only while it is armed.
LEMMA ScanInvTick == ScanInv /\ (Tick \/ TryBindTrackingManager) => ScanInv'
<1>1. ASSUME ScanInv, Tick PROVE ScanInv'
  <2>1. marker = NoMarker /\ ~armed => marker' = NoMarker
    BY <1>1 DEF Tick, TickMarker
  <2>2. UNCHANGED <<armed, scanning, bound, overlay>>
    BY <1>1 DEF Tick, managerVars
  <2> QED
    BY <1>1, <2>1, <2>2 DEF Tick, ScanInv, OneExhibitForTheMarker, NoMarker
<1>2. ASSUME ScanInv, TryBindTrackingManager PROVE ScanInv'
  BY <1>2 DEF TryBindTrackingManager, managerVars, exhibitVars, ScanInv, OneExhibitForTheMarker, NoMarker
<1> QED BY <1>1, <1>2

\* ARCore, the answers of the servers and the clock leave all of it alone.
LEMMA ScanInvSpawner == ScanInv /\ SpawnerNext => ScanInv'
<1> SUFFICES ASSUME ScanInv, SpawnerNext PROVE ScanInv'
  OBVIOUS
<1>1. CASE World(SessionRuns) \/ World(TrackingChanges)
  BY <1>1, ScanInvDepends DEF World, SessionRuns, TrackingChanges, spawnerVars, fetchVars, exhibitVars, scanState
<1>2. ASSUME NEW a \in Addresses, FetchFails(a) PROVE ScanInv'
  BY <1>2, ScanInvDepends DEF FetchFails, managerVars, exhibitVars, scanState
<1>3. ASSUME NEW a \in Addresses, NEW listed \in SUBSET Assets, AnswerComes(a, listed) PROVE ScanInv'
  BY <1>3, ScanInvDepends DEF AnswerComes, managerVars, scanState
<1>4. CASE WaitEnds
  BY <1>4, ScanInvDepends DEF WaitEnds, managerVars, exhibitVars, scanState
<1>5. ASSUME NEW p \in Assets, ArCoreMoves(p) PROVE ScanInv'
  BY <1>5, ScanInvDepends DEF ArCoreMoves, managerVars, fetchVars, scanState
<1> QED
  BY <1>1, <1>2, <1>3, <1>4, <1>5, ScanInvButtons, ScanInvManager, ScanInvTick DEF SpawnerNext

-----------------------------------------------------------------------------
(* The marker images *)

\* While the plugin has still to drop the images of a session that a tick has
\* seen start, the second look is owed and its second has not passed; images that
\* are missing have a look to come.
ImagesInv ==
    /\ checksLeft \in 0..2
    /\ dropping => cloudOn
    /\ dropping /\ wasRunning => missed \/ (checksLeft = 1 /\ ~due)
    /\ MarkerImagesComeBack

\* No look is owed when the app starts.
LEMMA ImagesInvInit == ImagesInit => ImagesInv
  BY DEF ImagesInit, ImagesInv, MarkerImagesComeBack

\* A start that drops the images arms the looks, and a look brings them back.
LEMMA ImagesInvNext == ImagesInv /\ ImagesNext => ImagesInv'
<1> SUFFICES ASSUME ImagesInv, ImagesNext PROVE ImagesInv'
  OBVIOUS
<1>1. ASSUME NEW camera \in {"rear", "front"}, SessionStarts(camera) PROVE ImagesInv'
  BY <1>1 DEF SessionStarts, configVars, ImagesInv, MarkerImagesComeBack
<1>2. CASE SessionStops
  BY <1>2 DEF SessionStops, configVars, ImagesInv, MarkerImagesComeBack
<1>3. CASE PluginDrops
  BY <1>3 DEF PluginDrops, configVars, ImagesInv, MarkerImagesComeBack
<1>4. CASE SecondPasses
  BY <1>4 DEF SecondPasses, ImagesInv, MarkerImagesComeBack
<1>5. CASE EnableCloudAnchorMode
  BY <1>5 DEF EnableCloudAnchorMode, Restores, ImagesInv, MarkerImagesComeBack
<1>6. CASE TickKeepMarkerImages
  <2>1. CASE session # "stopped" /\ Checks > 0 /\ (due \/ Restarted)
    <3>1. /\ checksLeft' = Checks - 1 /\ ~due' /\ UNCHANGED <<session, dropping, cloudOn, missed>>
          /\ session = "rear" => loaded' \/ failed'
      BY <1>6, <2>1 DEF TickKeepMarkerImages, Restores
    <3>2. Checks \in 1..2 /\ (dropping => missed \/ Checks = 2)
      BY <2>1 DEF Checks, Restarted, ImagesInv
    <3> QED
      BY <3>1, <3>2 DEF ImagesInv, MarkerImagesComeBack
  <2>2. CASE ~(session # "stopped" /\ Checks > 0 /\ (due \/ Restarted))
    <3>1. ~Restarted
      BY <2>2 DEF Checks, Restarted
    <3>2. wasRunning' => wasRunning
      BY <1>6, <3>1 DEF TickKeepMarkerImages, Restarted
    <3>3. UNCHANGED <<session, dropping, cloudOn, checksLeft, due, loaded, missed, failed>>
      BY <1>6, <2>2 DEF TickKeepMarkerImages
    <3> QED
      BY <3>2, <3>3 DEF ImagesInv, MarkerImagesComeBack
  <2> QED BY <2>1, <2>2
<1> QED BY <1>1, <1>2, <1>3, <1>4, <1>5, <1>6 DEF ImagesNext

-----------------------------------------------------------------------------
(* The reveals *)

\* The times of a component, whose bounds matter in few places.
Elapses == 0..ThrowTime + 1
Sequences == 0..FadeOutEnd + ThrowTime
Losses == 0..Grace + 2

\* The components (Reveal), with their times.
Component == [state : States, elapsed : Elapses, sequence : Sequences, lost : Losses, ownsTouch : BOOLEAN,
              props : SUBSET {"watch", "input", "background", "orbit", "portal", "blur", "material"}]

\* A component that has not begun, or is over, has taken no time.
LEMMA NoTime == 0 \in Elapses /\ 0 \in Sequences /\ 0 \in Losses
  BY RevealAssumption DEF Elapses, Sequences, Losses

RevealShape == reveal \in [Exhibits -> Component] /\ model \in [Exhibits -> Model]

\* From its spawn on the flesh of an exhibit fades in, and it is as it should be
\* when its reveal has ended.
Fits(r, m) ==
    /\ r.state # "none" => m.rising
    /\ r.state \in Ended => m.shown /\ ~m.locked /\ m.clickable /\ r.props = {}

RevealInv == RevealShape /\ \A e \in Exhibits : Fits(reveal[e], model[e])

\* No model has a reveal at first.
LEMMA RevealInvInit == RevealInit => RevealInv
  BY NoTime DEF RevealInit, RevealInv, RevealShape, Component, Model, NoReveal, Plain, States, Ended, Fits

\* A component that is over leaves its model as it was before.
LEMMA OverFits ==
    ASSUME NEW r \in Component, NEW m \in Model, m.rising, NEW s \in Ended
    PROVE  /\ Over(r, s) \in Component /\ Over(r, s).state = s /\ Over(r, s).props = {}
           /\ CleanedModel(m) \in Model /\ Fits(Over(r, s), CleanedModel(m))
  BY NoTime DEF Component, Model, Over, CleanedModel, Fits, Ended, States

\* The sequence goes on or completes.
LEMMA SequenceShape ==
    ASSUME NEW r \in Component, NEW dt \in Nat, r.state \notin Ended \union {"none"}
    PROVE  /\ Sequence(r, dt) \in Component /\ Sequence(r, dt).state # "none"
           /\ Sequence(r, dt).state \in Ended => Sequence(r, dt).props = {}
<1> DEFINE t == r.sequence + dt
<1>1. t \in Nat /\ FadeOutEnd \in Nat /\ PortalStart \in Nat /\ RevealStart \in Nat
  <2>1. r.sequence \in Nat
    BY DEF Component, Sequences
  <2> QED BY <2>1, RevealAssumption
<1>2. CASE t >= FadeOutEnd
  BY <1>2, NoTime DEF Sequence, Over, Component, States, Ended
<1>3. CASE ~(t >= FadeOutEnd)
  <2> DEFINE stage == IF t >= RevealStart THEN "Revealing"
                      ELSE IF t >= PortalStart /\ r.state = "Impact" THEN "Portal" ELSE r.state
             props == r.props \union {"orbit"}
                            \union (IF t >= PortalStart THEN {"portal", "blur"} ELSE {})
                            \union (IF t >= RevealStart THEN {"material"} ELSE {})
  <2>1. Sequence(r, dt) = [r EXCEPT !.sequence = t, !.elapsed = 0, !.lost = 0, !.state = stage, !.props = props]
    BY <1>3 DEF Sequence
  <2>2. stage \in States /\ stage \notin Ended \union {"none"}
    BY DEF Component, States, Ended
  <2>3. props \in SUBSET {"watch", "input", "background", "orbit", "portal", "blur", "material"}
    BY DEF Component
  <2>4. Sequence(r, dt) = [state |-> stage, elapsed |-> 0, sequence |-> t, lost |-> 0,
                           ownsTouch |-> r.ownsTouch, props |-> props]
    <3> HIDE DEF t, stage, props
    <3> QED BY <2>1 DEF Component
  <2>5. t \in Sequences
    BY <1>1, <1>3, RevealAssumption DEF Sequences
  <2> HIDE DEF t, stage, props
  <2> QED
    BY <2>2, <2>3, <2>4, <2>5, NoTime DEF Component
<1> QED BY <1>2, <1>3

\* A tick takes a component under way to one under way, or to the end of it.
LEMMA TickedShape ==
    ASSUME NEW r \in Component, NEW holds \in BOOLEAN, NEW dt \in 1..2,
           r.state \notin Ended \union {"none"}
    PROVE  /\ Ticked(r, holds, dt) \in Component /\ Ticked(r, holds, dt).state # "none"
           /\ Ticked(r, holds, dt).state \in Ended => Ticked(r, holds, dt).props = {}
<1> DEFINE Good(c) == c \in Component /\ c.state # "none" /\ (c.state \in Ended => c.props = {})
<1>1. dt \in Nat /\ Grace \in Nat /\ ThrowTime \in Nat /\ r.elapsed + dt \in Nat /\ r.lost \in Nat
  BY RevealAssumption DEF Component, Elapses, Losses
<1>2. Good(Over(r, "Cancelled"))
  BY NoTime DEF Over, Component, States, Ended
<1>3. Good([r EXCEPT !.lost = 0]) /\ (~(r.lost + dt > Grace) => Good([r EXCEPT !.ownsTouch = FALSE, !.lost = @ + dt]))
  <2>1. ASSUME ~(r.lost + dt > Grace) PROVE r.lost + dt \in Losses
    BY <1>1, <2>1 DEF Losses
  <2>2. ASSUME NEW l \in Losses PROVE Good([r EXCEPT !.ownsTouch = FALSE, !.lost = l])
    BY DEF Component, Ended
  <2>3. Good([r EXCEPT !.lost = 0])
    BY NoTime DEF Component, Ended
  <2> QED BY <2>1, <2>2, <2>3
<1>4. Flight(r, dt) < ThrowTime => Good([r EXCEPT !.elapsed = Flight(r, dt), !.lost = 0])
  <2>1. ASSUME Flight(r, dt) < ThrowTime PROVE Flight(r, dt) \in Elapses
    BY <1>1, <2>1 DEF Flight, Elapses
  <2>2. ASSUME NEW f \in Elapses PROVE Good([r EXCEPT !.elapsed = f, !.lost = 0])
    BY NoTime DEF Component, States, Ended
  <2> QED BY <2>1, <2>2
<1> DEFINE impact == [r EXCEPT !.state = "Impact", !.elapsed = 0, !.sequence = 0, !.lost = 0]
           over == Flight(r, dt) - ThrowTime
<1>5. impact \in Component /\ impact.state = "Impact"
  BY NoTime DEF Component, States
<1>6. ~(Flight(r, dt) < ThrowTime) => over \in Nat
  BY <1>1 DEF Flight
<1>7. ~(Flight(r, dt) < ThrowTime) => Good(Sequence(impact, over))
  <2> HIDE DEF impact, over
  <2> QED BY <1>5, <1>6, SequenceShape DEF Ended
<1>8. Good(impact) /\ Good(Sequence(r, dt))
  <2>1. Good(impact)
    BY <1>5 DEF Ended
  <2> QED BY <2>1, <1>1, SequenceShape
<1> HIDE DEF Good, impact, over
<1>9. Good(Ticked(r, holds, dt))
  BY <1>2, <1>3, <1>4, <1>7, <1>8 DEF Ticked, impact, over
<1> QED BY <1>9 DEF Good

\* A model follows its component.
LEMMA FollowingFits ==
    ASSUME NEW r \in Component, NEW m \in Model, m.rising,
           r.state \in Ended => r.props = {}
    PROVE  Following(m, r) \in Model /\ Fits(r, Following(m, r))
  BY DEF Following, CleanedModel, Component, Model, Fits, Ended

\* Every model with a component under way fades in.
LEMMA RevealInvTick ==
    ASSUME RevealInv, NEW e \in Exhibits, TickComponent(e) PROVE RevealInv'
<1>1. reveal[e] \in Component /\ model[e] \in Model /\ model[e].rising
  BY DEF RevealInv, RevealShape, TickComponent, Active, Fits
<1>2. PICK holds \in BOOLEAN, dt \in 1..2 : Moves(e, Ticked(reveal[e], holds, dt))
  BY DEF TickComponent
<1> DEFINE s == Ticked(reveal[e], holds, dt)
<1>3. s \in Component /\ (s.state \in Ended => s.props = {})
  BY <1>1, TickedShape DEF TickComponent, Active
<1> HIDE DEF s
<1>4. Following(model[e], s) \in Model /\ Fits(s, Following(model[e], s))
  BY <1>1, <1>3, FollowingFits
<1>5. /\ reveal' = [reveal EXCEPT ![e] = s]
      /\ model' = [model EXCEPT ![e] = Following(model[e], s)]
  BY <1>2 DEF Moves, s
<1> QED
  BY <1>3, <1>4, <1>5 DEF RevealInv, RevealShape

\* The fade is started before the reveal takes hold of the model.
LEMMA RevealInvSpawn ==
    ASSUME RevealInv, NEW e \in Exhibits, Spawn(e) PROVE RevealInv'
<1>1. PICK r \in {Ready, Over(Ready, "Cancelled")} :
          /\ reveal' = [reveal EXCEPT ![e] = r]
          /\ model' = [model EXCEPT ![e] = Following(Attached(Plain), r)]
  BY DEF Spawn
<1>2. r \in Component /\ (r.state \in Ended => r.props = {})
  <2>1. Ready \in Component /\ Ready.state = "Ready"
    BY NoTime DEF Ready, NoReveal, Component, States
  <2>2. CASE r = Ready
    BY <2>1, <2>2 DEF Ended
  <2>3. CASE r = Over(Ready, "Cancelled")
    BY <2>1, <2>3, NoTime DEF Over, Component, States, Ended
  <2> QED BY <2>2, <2>3
<1>3. Attached(Plain) \in Model /\ Attached(Plain).rising
  BY DEF Attached, Hidden, StartReveal, Plain, Model
<1>4. Following(Attached(Plain), r) \in Model /\ Fits(r, Following(Attached(Plain), r))
  BY <1>2, <1>3, FollowingFits
<1> QED
  BY <1>1, <1>2, <1>4 DEF RevealInv, RevealShape

\* What a touch makes of a component: it takes it nowhere but from Ready to
\* Throwing.
Touched(r) ==
    {r} \union {[r EXCEPT !.ownsTouch = hit] : hit \in BOOLEAN}
        \union (IF r.state = "Ready" THEN {[r EXCEPT !.ownsTouch = FALSE, !.state = "Throwing"]} ELSE {})

\* A touch changes who owns it, and throws the watch of a reveal that is ready.
LEMMA RevealInvTouch ==
    ASSUME RevealInv, UNCHANGED model, NEW touched,
           reveal' = [e \in Exhibits |-> touched[e]],
           \A e \in Exhibits : touched[e] \in Touched(reveal[e])
    PROVE  RevealInv'
<1>1. ASSUME NEW r \in Component, NEW m \in Model, Fits(r, m), NEW s \in Touched(r)
      PROVE  s \in Component /\ Fits(s, m)
  <2>1. CASE s = r
    BY <1>1, <2>1
  <2>2. ASSUME NEW hit \in BOOLEAN, s = [r EXCEPT !.ownsTouch = hit]
        PROVE  s \in Component /\ Fits(s, m)
    BY <1>1, <2>2 DEF Component, Fits
  <2>3. CASE r.state = "Ready" /\ s = [r EXCEPT !.ownsTouch = FALSE, !.state = "Throwing"]
    BY <1>1, <2>3 DEF Component, Fits, Ended, States
  <2> QED BY <1>1, <2>1, <2>2, <2>3 DEF Touched
<1> QED
  BY <1>1 DEF RevealInv, RevealShape

\* Every step of a reveal keeps its model fitting.
LEMMA RevealInvNext == RevealInv /\ RevealNext => RevealInv'
<1> SUFFICES ASSUME RevealInv, RevealNext PROVE RevealInv'
  OBVIOUS
<1>1. ASSUME NEW e \in Exhibits, Destroy(e) PROVE RevealInv'
  BY <1>1, NoTime DEF Destroy, NoReveal, Plain, RevealInv, RevealShape, Component, Model, States, Ended, Fits
<1>2. ASSUME NEW b \in BOOLEAN, Press(b) PROVE RevealInv'
  <2> DEFINE touched == [e \in Exhibits |->
            IF reveal[e].state = "Ready" /\ e \in inSight THEN [reveal[e] EXCEPT !.ownsTouch = b] ELSE reveal[e]]
  <2>1. \A e \in Exhibits : touched[e] \in Touched(reveal[e])
    BY DEF Touched
  <2>2. reveal' = [e \in Exhibits |-> touched[e]] /\ UNCHANGED model
    BY <1>2 DEF Press
  <2> HIDE DEF touched
  <2> QED BY <2>1, <2>2, RevealInvTouch
<1>3. ASSUME NEW b \in BOOLEAN, Release(b) PROVE RevealInv'
  <2> DEFINE touched == [e \in Exhibits |->
            IF Thrown(e, b) THEN [reveal[e] EXCEPT !.ownsTouch = FALSE, !.state = "Throwing"]
            ELSE [reveal[e] EXCEPT !.ownsTouch = FALSE]]
  <2>1. \A e \in Exhibits : touched[e] \in Touched(reveal[e])
    BY DEF Touched, Thrown
  <2>2. reveal' = [e \in Exhibits |-> touched[e]] /\ UNCHANGED model
    BY <1>3 DEF Release
  <2> HIDE DEF touched
  <2> QED BY <2>1, <2>2, RevealInvTouch
<1>4. CASE SecondFinger
  <2> DEFINE touched == [e \in Exhibits |-> [reveal[e] EXCEPT !.ownsTouch = FALSE]]
  <2>1. \A e \in Exhibits : touched[e] \in Touched(reveal[e])
    BY DEF Touched
  <2>2. reveal' = [e \in Exhibits |-> touched[e]] /\ UNCHANGED model
    BY <1>4 DEF SecondFinger
  <2> HIDE DEF touched
  <2> QED BY <2>1, <2>2, RevealInvTouch
<1>5. CASE Backgrounded
  <2>1. ASSUME NEW e \in Exhibits
        PROVE  /\ reveal'[e] \in Component /\ model'[e] \in Model
               /\ Fits(reveal'[e], model'[e])
    <3>1. CASE Active(e)
      <4>1. reveal[e] \in Component /\ model[e] \in Model /\ model[e].rising
        BY <3>1 DEF RevealInv, RevealShape, Active, Fits
      <4>2. reveal'[e] = Over(reveal[e], "Cancelled") /\ model'[e] = CleanedModel(model[e])
        BY <1>5, <3>1 DEF Backgrounded
      <4> QED BY <4>1, <4>2, OverFits DEF Ended
    <3>2. CASE ~Active(e)
      BY <1>5, <3>2 DEF Backgrounded, RevealInv, RevealShape
    <3> QED BY <3>1, <3>2
  <2> QED BY <1>5, <2>1 DEF Backgrounded, RevealInv, RevealShape
<1>6. CASE LookAround \/ OpenOrClosePanel
  BY <1>6 DEF LookAround, OpenOrClosePanel, RevealInv, RevealShape
<1> QED
  BY <1>1, <1>2, <1>3, <1>4, <1>5, <1>6, RevealInvSpawn, RevealInvTick DEF RevealNext

-----------------------------------------------------------------------------
(* The screen *)

Panel == [scan : BOOLEAN, nav : {"visible", "hidden", "gone"}, bar : BOOLEAN, close : BOOLEAN]

\* What is recognised stands and has ended the scan; the chat never shows the bar
\* of the camera; and while nothing has touched it the screen is the tab's.
HudInv ==
    /\ panel \in Panel /\ tab \in Tabs /\ recognized \in BOOLEAN /\ guiding \in BOOLEAN
    /\ recognized => overlay # NoImage /\ ~scanning
    /\ open => ~panel.bar
    /\ settled =>
        /\ panel.scan <=> tab = "Scan"
        /\ open <=> tab = "Docent"
        /\ panel.bar <=> panel.scan
        /\ panel.nav = "visible" => ~open /\ (panel.scan => guiding)
        /\ panel.close => panel.scan /\ recognized

\* HudInv depends on the screen, the overlay and the scan.
LEMMA HudInvDepends == HudInv /\ UNCHANGED <<hudVars, overlay, scanning>> => HudInv'
  BY DEF HudInv, hudVars, shownVars

\* The app starts on the tab of the scan.
LEMMA HudInvInit == HudInit => HudInv
<1>1. HudInit => panel \in Panel /\ tab \in Tabs
  BY DEF HudInit, Panel, Tabs
<1>2. HudInit => ~recognized /\ ~guiding /\ recognized \in BOOLEAN /\ guiding \in BOOLEAN
  BY DEF HudInit
<1>3. HudInit => tab = "Scan" /\ ~open /\ panel.scan /\ panel.nav = "gone" /\ panel.bar /\ ~panel.close
  BY DEF HudInit
<1> QED BY <1>1, <1>2, <1>3 DEF HudInv

\* Showing a tab makes the screen the tab's, whatever it was; a tab that takes
\* something for recognised must have done so before.
LEMMA HudInvTab ==
    ASSUME HudInv, NEW t \in Tabs, NEW sees \in BOOLEAN, NEW guides \in BOOLEAN,
           ApplyHudTab(t, sees, guides),
           sees => overlay' # NoImage /\ ~scanning'
    PROVE  HudInv'
<1>1. NavPanel(t, guides) \in {"visible", "hidden", "gone"}
  BY DEF NavPanel, Tabs
<1>2. BottomBar(t) \in BOOLEAN /\ (t = "Docent" => ~BottomBar(t)) /\ (t # "Docent" => (BottomBar(t) <=> t = "Scan"))
  BY DEF BottomBar, HudInv, Panel
<1>3. panel' = [scan |-> t = "Scan", nav |-> NavPanel(t, guides), bar |-> BottomBar(t), close |-> t = "Scan" /\ sees]
  BY DEF ApplyHudTab
<1>4. panel' \in Panel
  BY <1>1, <1>2, <1>3 DEF Panel
<1>5. t = "Scan" => NavPanel(t, guides) = IF guides THEN "visible" ELSE "gone"
  BY DEF NavPanel
<1>6. t = "Docent" => NavPanel(t, guides) = "gone"
  BY DEF NavPanel
<1>7. tab' = t /\ open' = (t = "Docent") /\ recognized' = sees /\ guiding' = guides
  BY DEF ApplyHudTab
<1> QED
  BY <1>2, <1>3, <1>4, <1>5, <1>6, <1>7 DEF HudInv, Tabs

\* The buttons of the tabs, the map and the minimap show one tab and leave the
\* session alone.
LEMMA HudInvTabs ==
    ASSUME HudInv,
           \/ \E t \in {"Scan", "Docent"} : GoTo(t)
           \/ LeaveScan \/ HandleNavTabClicked \/ HudTick
           \/ \E chosen \in BOOLEAN : FullMapCloses(chosen)
           \/ HandleNavClosedByAutoEnd
    PROVE  HudInv'
<1>1. ASSUME Elsewhere, NEW t \in Tabs, NEW sees \in BOOLEAN, NEW guides \in BOOLEAN,
             ApplyHudTab(t, sees, guides), sees => recognized
      PROVE  HudInv'
  BY <1>1, HudInvTab DEF Elsewhere, managerVars, HudInv
<1>2. recognized \in BOOLEAN /\ guiding \in BOOLEAN /\ tab \in Tabs /\ Tabs = {"Scan", "Nav", "Docent"}
  BY DEF HudInv, Tabs
<1>3. ASSUME NEW t \in Tabs, GoTo(t) PROVE HudInv'
  BY <1>1, <1>2, <1>3 DEF GoTo, SetHudTab
<1>4. CASE LeaveScan
  BY <1>1, <1>2, <1>4 DEF LeaveScan, SetHudTab
<1>5. CASE HandleNavTabClicked
  BY <1>1, <1>2, <1>5 DEF HandleNavTabClicked
<1>6. ASSUME NEW chosen \in BOOLEAN, FullMapCloses(chosen) PROVE HudInv'
  <2>1. (guiding \/ chosen) \in BOOLEAN
    OBVIOUS
  <2> QED BY <1>1, <1>2, <1>6, <2>1 DEF FullMapCloses, SetHudTab
<1>7. CASE HandleNavClosedByAutoEnd
  BY <1>1, <1>2, <1>7 DEF HandleNavClosedByAutoEnd, SetHudTab
<1> QED
  BY <1>2, <1>3, <1>4, <1>5, <1>6, <1>7 DEF HudTick

\* The scan and the camera: whoever takes the overlay away has the widget forget it.
LEMMA HudInvScan ==
    ASSUME HudInv,
           \/ GraphScans \/ HandleCloseARClicked \/ HandleReferenceRescan \/ HandleMarkerFound
           \/ HandleCameraFlipClicked \/ FlipFails
    PROVE  HudInv'
<1>1. CASE GraphScans
  <2>1. CASE scanning /\ ScanStarts /\ UNCHANGED <<recognized, panel>> /\ settled' = FALSE /\ Rest
    BY <2>1 DEF Rest, HudInv
  <2>2. CASE ScanTold /\ settled' = FALSE /\ Rest
    BY <2>2 DEF ScanTold, Rest, HudInv, Panel
  <2>3. CASE ScanStops /\ UNCHANGED hudVars
    BY <2>3 DEF ScanStops, hudVars, shownVars, HudInv
  <2> QED BY <1>1, <2>1, <2>2, <2>3 DEF GraphScans
<1>2. CASE HandleCloseARClicked
  BY <1>2 DEF HandleCloseARClicked, ScanStarts, Rest, HudInv, Panel
<1>3. CASE HandleReferenceRescan
  <2>1. "Scan" \in Tabs /\ guiding \in BOOLEAN /\ ApplyHudTab("Scan", FALSE, guiding)
    BY <1>3 DEF HandleReferenceRescan, SetHudTab, HudInv, Tabs
  <2> QED BY <2>1, HudInvTab
<1>4. CASE HandleMarkerFound
  <2>1. overlay' # NoImage /\ ~scanning'
    BY <1>4, ImagesAssumption DEF HandleMarkerFound, RecognisingTick
  <2>2. /\ recognized' = TRUE /\ panel' = [panel EXCEPT !.close = TRUE] /\ settled' = FALSE
        /\ UNCHANGED <<tab, open, guiding>>
    BY <1>4 DEF HandleMarkerFound, Rest
  <2> QED BY <2>1, <2>2 DEF HudInv, Panel
<1>5. CASE HandleCameraFlipClicked
  BY <1>5 DEF HandleCameraFlipClicked, HudInv
<1>6. CASE FlipFails
  BY <1>6 DEF FlipFails, HudInv
<1> QED BY <1>1, <1>2, <1>3, <1>4, <1>5, <1>6

\* Every step of the screen keeps it right.
LEMMA HudInvNext == HudInv /\ HudNext => HudInv'
<1> SUFFICES ASSUME HudInv, HudNext PROVE HudInv'
  OBVIOUS
<1>1. CASE GraphShows
  BY <1>1 DEF GraphShows, Elsewhere, managerVars, HudInv, Panel
<1>2. ASSUME NEW o \in BOOLEAN, ApplyOpenState(o) PROVE HudInv'
  BY <1>2 DEF ApplyOpenState, Elsewhere, managerVars, HudInv, Panel
<1>3. CASE (SessionRuns \/ TrackingChanges \/ QuietTick) /\ UNCHANGED hudVars
  BY <1>3, HudInvDepends DEF SessionRuns, TrackingChanges, QuietTick
<1> QED
  BY <1>1, <1>2, <1>3, HudInvTabs, HudInvScan DEF HudNext

-----------------------------------------------------------------------------
(* The card *)

Card == [info : Dinos \union {NoDino}, tab : Nat, of : [Skins -> Place], top : BOOLEAN,
         skin : Skins, shown : Skins \union {"none"}, dirty : BOOLEAN, elevated : BOOLEAN,
         wired : SUBSET Skins, panels : SUBSET Skins, open : BOOLEAN, popup : BOOLEAN,
         tracking : BOOLEAN, active : BOOLEAN, offset : 0..MaxPull,
         hidden : BOOLEAN, saved : BOOLEAN, hud : BOOLEAN, focus : BOOLEAN, due : BOOLEAN,
         heard : BOOLEAN, reopen : BOOLEAN, reopenAt : Place]

\* A tab that the dinosaur has, or the first where there is none.
TabFits(d, i) == d \in Dinos /\ i \in Nat /\ (i < TabsOf[d] \/ i = 0)

\* The tree in use, once the screen has it.
OnTree(c) == c.shown # "none" => c.shown = c.skin /\ c.skin \in c.wired

\* The texts are the dinosaur's.
Filled(c) ==
    /\ TabFits(c.info, c.tab)
    /\ TabsOf[c.info] > 0 => c.of[c.skin] = <<c.info, c.tab>>

\* An open card, and a closed one.
Open(c) ==
    /\ Filled(c) /\ c.skin = SkinOf(c.info) /\ c.skin \in c.panels
    /\ c.skin = "ocean" => c.focus \/ c.due
Shut(c) ==
    /\ IF c.shown = "none" THEN c.info = NoDino
                           ELSE c.skin \notin c.panels
    /\ ~c.popup /\ ~c.hidden /\ ~c.tracking

\* What a finger has done, and the scan screen under the card.
Pulled(c) ==
    /\ c.tracking => c.skin = "default"
    /\ c.active => c.tracking
    /\ ~c.active => c.offset = 0
Under(c) == c.saved /\ (c.hud <=> ~c.hidden)

Sound(c) ==
    /\ c \in Card /\ ~c.dirty /\ OnTree(c) /\ Pulled(c) /\ Under(c)
    /\ c.info # NoDino => TabFits(c.info, c.tab)
    /\ c.tracking => c.shown # "none"
    /\ IF c.open THEN Open(c) ELSE Shut(c)

CardInv ==
    /\ Sound(card)
    /\ chat \in BOOLEAN /\ asked \in Place /\ returned \in Place
    /\ card.reopen => /\ card.heard /\ card.reopenAt = asked /\ TabFits(asked[1], asked[2])
    /\ CardReturns

\* Of the tab, the texts and the scroll position nothing else depends.
SameButTexts(c, s) ==
    /\ s.info = c.info /\ s.skin = c.skin /\ s.shown = c.shown /\ s.dirty = c.dirty
    /\ s.elevated = c.elevated /\ s.wired = c.wired /\ s.panels = c.panels /\ s.open = c.open
    /\ s.popup = c.popup /\ s.tracking = c.tracking /\ s.active = c.active /\ s.offset = c.offset
    /\ s.hidden = c.hidden /\ s.saved = c.saved /\ s.hud = c.hud /\ s.focus = c.focus
    /\ s.due = c.due /\ s.heard = c.heard /\ s.reopen = c.reopen /\ s.reopenAt = c.reopenAt

\* A choice of a tab fills the card, or leaves it as it was.
LEMMA SelectTabFills ==
    ASSUME NEW c \in Card, TabFits(c.info, c.tab), NEW i \in Nat
    PROVE  /\ SelectTab(c, i) \in Card /\ SameButTexts(c, SelectTab(c, i))
           /\ i < TabsOf[c.info] => /\ Filled(SelectTab(c, i)) /\ SelectTab(c, i).tab = i
           /\ ~(i < TabsOf[c.info]) => SelectTab(c, i) = c
<1>1. CASE i < TabsOf[c.info]
  <2>1. c.info \in Dinos /\ c.info # NoDino /\ c.skin \in Skins
    BY CardAssumption DEF TabFits, Card
  <2>2. SelectTab(c, i) = [c EXCEPT !.tab = i, !.of[c.skin] = <<c.info, i>>, !.top = TRUE]
    BY <1>1, <2>1 DEF SelectTab
  <2>3. <<c.info, i>> \in Place
    BY <2>1 DEF Place
  <2>4. [c.of EXCEPT ![c.skin] = <<c.info, i>>] \in [Skins -> Place]
    BY <2>1, <2>3 DEF Card
  <2> DEFINE s == SelectTab(c, i)
  <2>5. s \in Card
    BY <2>2, <2>3, <2>4 DEF Card
  <2>6. SameButTexts(c, s)
    BY <2>2 DEF Card, SameButTexts
  <2>7. s.tab = i /\ s.of = [c.of EXCEPT ![c.skin] = <<c.info, i>>]
    BY <2>2 DEF Card
  <2>8. s.of[c.skin] = <<c.info, i>>
    BY <2>1, <2>7 DEF Card
  <2>9. i < TabsOf[c.info] => Filled(s)
    BY <2>1, <2>6, <2>7, <2>8, CardAssumption DEF SameButTexts, Filled, TabFits
  <2> QED BY <1>1, <2>1, <2>9, <2>5, <2>6, <2>7, <2>8 DEF SameButTexts, Filled, TabFits
<1>2. CASE ~(i < TabsOf[c.info])
  BY <1>2 DEF SelectTab, SameButTexts
<1> QED BY <1>1, <1>2

\* Whoever's texts were on the card, now they are its dinosaur's.
LEMMA ApplyInfoFills ==
    ASSUME NEW c \in Card, c.info \in Dinos
    PROVE  ApplyInfo(c) \in Card /\ SameButTexts(c, ApplyInfo(c)) /\ Filled(ApplyInfo(c))
<1> DEFINE b == [c EXCEPT !.tab = 0]
<1>1. b \in Card /\ TabFits(b.info, b.tab) /\ SameButTexts(c, b) /\ b.tab = 0 /\ b.info = c.info
  BY DEF Card, TabFits, SameButTexts
<1>2. ApplyInfo(c) = SelectTab(b, 0)
  BY CardAssumption DEF ApplyInfo
<1> HIDE DEF b
<1>3. TabsOf[b.info] \in Nat
  BY <1>1, CardAssumption
<1>4. CASE 0 < TabsOf[b.info]
  BY <1>1, <1>2, <1>4, SelectTabFills DEF SameButTexts
<1>5. CASE ~(0 < TabsOf[b.info])
  BY <1>1, <1>2, <1>3, <1>5, SelectTabFills DEF Filled
<1> QED BY <1>4, <1>5

\* A finger leaves the card where it stood.
LEMMA AtRestRests ==
    ASSUME NEW c \in Card
    PROVE  /\ AtRest(c) \in Card
           /\ AtRest(c) = [c EXCEPT !.tracking = FALSE, !.active = FALSE, !.offset = 0]
<1>1. 0 \in 0..MaxPull
  BY CardAssumption
<1> QED BY <1>1 DEF Card, AtRest

\* A card that is put away leaves nothing behind.
LEMMA HideCardShuts ==
    ASSUME NEW c \in Card, Under(c)
    PROVE  LET h == HideCard(c)
           IN  /\ h \in Card /\ Under(h) /\ Pulled(h)
               /\ ~h.open /\ h.skin \notin h.panels /\ ~h.popup /\ ~h.hidden /\ ~h.tracking
               /\ h.info = c.info /\ h.tab = c.tab /\ h.skin = c.skin /\ h.shown = c.shown
               /\ h.dirty = c.dirty /\ h.wired = c.wired /\ h.heard = c.heard
               /\ h.reopen = c.reopen /\ h.reopenAt = c.reopenAt
<1>1. 0 \in 0..MaxPull
  BY CardAssumption
<1> DEFINE hud == IF c.hidden THEN c.saved ELSE c.hud
           h == [c EXCEPT !.tracking = FALSE, !.active = FALSE, !.offset = 0, !.open = FALSE,
                          !.popup = FALSE, !.panels = c.panels \ {c.skin}, !.hud = hud, !.hidden = FALSE]
<1>2. hud \in BOOLEAN /\ hud
  BY DEF Card, Under
<1> HIDE DEF hud
<1>3. HideCard(c) = h
  BY DEF HideCard, AtRest, Card, hud
<1>4. h \in Card
  BY <1>1, <1>2 DEF Card
<1>5. /\ ~h.open /\ ~h.popup /\ ~h.hidden /\ ~h.tracking /\ ~h.active /\ h.offset = 0 /\ h.hud = hud
      /\ h.panels = c.panels \ {c.skin} /\ h.skin = c.skin
  BY DEF Card
<1>6. /\ h.info = c.info /\ h.tab = c.tab /\ h.skin = c.skin /\ h.shown = c.shown /\ h.saved = c.saved
      /\ h.dirty = c.dirty /\ h.wired = c.wired /\ h.heard = c.heard
      /\ h.reopen = c.reopen /\ h.reopenAt = c.reopenAt
  BY DEF Card
<1> HIDE DEF h
<1> QED BY <1>2, <1>3, <1>4, <1>5, <1>6 DEF Under, Pulled

\* What the card shows and where it stands, but for its texts and its tree.
SameButTree(c, s) ==
    /\ s.info = c.info /\ s.skin = c.skin /\ s.panels = c.panels /\ s.open = c.open
    /\ s.tracking = c.tracking /\ s.active = c.active /\ s.offset = c.offset
    /\ s.hidden = c.hidden /\ s.saved = c.saved /\ s.hud = c.hud
    /\ s.heard = c.heard /\ s.reopen = c.reopen /\ s.reopenAt = c.reopenAt
Kept(c, s) == s.heard = c.heard /\ s.reopen = c.reopen /\ s.reopenAt = c.reopenAt

\* Between the choice of a skin and the new tree: the tree in use is the one on
\* the screen, or to be put there.
Halfway(c) == c.shown # "none" => (c.dirty \/ c.shown = c.skin) /\ c.skin \in c.wired

Opened(c) ==
    /\ c \in Card /\ Halfway(c) /\ Pulled(c) /\ Under(c) /\ Filled(c)
    /\ c.open /\ c.skin \in c.panels /\ c.skin = SkinOf(c.info) /\ ~c.tracking

\* A widget that is constructed has its tree on the screen, connected and filled.
LEMMA NativeConstructFills ==
    ASSUME NEW c \in Card, c.info \in Dinos
    PROVE  LET n == NativeConstruct(c)
           IN  /\ n \in Card /\ SameButTree(c, n) /\ Filled(n) /\ n.dirty = c.dirty
               /\ n.shown = n.skin /\ n.skin \in n.wired /\ n.focus = c.focus /\ n.due = c.due
<1> DEFINE d == [c EXCEPT !.shown = c.skin, !.wired = @ \union {c.skin}]
<1>1. d \in Card
  BY DEF Card
<1>2. SameButTree(c, d) /\ d.dirty = c.dirty /\ d.shown = d.skin /\ d.skin \in d.wired
      /\ d.focus = c.focus /\ d.due = c.due
  BY DEF Card, SameButTree
<1>3. NativeConstruct(c) = ApplyInfo(d)
  BY CardAssumption DEF NativeConstruct
<1> HIDE DEF d
<1> QED
  BY <1>1, <1>2, <1>3, ApplyInfoFills DEF SameButTree, SameButTexts

\* The tree in use goes on the screen, and the card is otherwise as it was.
LEMMA RebuildShowsTree ==
    ASSUME NEW c, Opened(c)
    PROVE  LET r == RebuildSlateIfNeeded(c)
           IN  Opened(r) /\ ~r.dirty /\ OnTree(r) /\ Kept(c, r) /\ r.info = c.info
<1>1. c \in Card /\ c.info \in Dinos
  BY DEF Opened, Filled, TabFits
<1>2. CASE c.shown = "none"
  <2>1. RebuildSlateIfNeeded(c) = [c EXCEPT !.dirty = FALSE]
    BY <1>2 DEF RebuildSlateIfNeeded
  <2>2. [c EXCEPT !.dirty = FALSE] \in Card
    BY <1>1 DEF Card
  <2> QED
    BY <1>1, <1>2, <2>1, <2>2 DEF Card, Opened, Halfway, OnTree, Pulled, Under, Filled, Kept
<1>3. CASE c.shown # "none"
  <2> DEFINE d == IF c.dirty THEN [c EXCEPT !.shown = c.skin, !.dirty = FALSE] ELSE c
             e == [d EXCEPT !.elevated = TRUE]
             f == NativeDestruct(e)
  <2>1. d \in Card
    <3>1. [c EXCEPT !.shown = c.skin, !.dirty = FALSE] \in Card
      BY <1>1 DEF Card
    <3> QED BY <1>1, <3>1
  <2>2. SameButTree(c, d) /\ d.tab = c.tab /\ d.of = c.of /\ d.wired = c.wired /\ ~d.dirty /\ d.shown = d.skin
    BY <1>1, <1>3 DEF Card, SameButTree, Opened, Halfway
  <2>3. d.skin \in d.wired
    BY <1>3, <2>2 DEF SameButTree, Opened, Halfway
  <2> HIDE DEF d
  <2>4. CASE d.elevated
    <3>1. RebuildSlateIfNeeded(c) = d
      BY <1>3, <2>4 DEF RebuildSlateIfNeeded, d
    <3> QED
      BY <2>1, <2>2, <2>3, <3>1
         DEF Opened, Halfway, OnTree, Pulled, Under, Filled, Kept, SameButTree
  <2>5. CASE ~d.elevated
    <3>1. RebuildSlateIfNeeded(c) = NativeConstruct(f)
      BY <1>3, <2>5 DEF RebuildSlateIfNeeded, d
    <3>2. f \in Card
      BY <2>1 DEF NativeDestruct, Card
    <3>3. SameButTree(d, f) /\ f.dirty = d.dirty
      BY <2>1 DEF NativeDestruct, Card, SameButTree
    <3> HIDE DEF f
    <3> DEFINE n == NativeConstruct(f)
    <3>4. /\ n \in Card /\ SameButTree(f, n) /\ Filled(n) /\ n.dirty = f.dirty
          /\ n.shown = n.skin /\ n.skin \in n.wired
      BY <1>1, <2>2, <3>2, <3>3, NativeConstructFills DEF SameButTree
    <3> HIDE DEF n
    <3>5. SameButTree(c, n) /\ ~n.dirty
      BY <2>2, <3>3, <3>4 DEF SameButTree
    <3> QED
      BY <3>1, <3>4, <3>5 DEF Opened, Halfway, OnTree, Pulled, Under, Kept, SameButTree, n
  <2> QED BY <2>4, <2>5
<1> QED BY <1>2, <1>3

\* However a card stood, showing a dinosaur makes it an open one of that dinosaur,
\* in its skin and with its texts.
LEMMA ShowForOpens ==
    ASSUME NEW c \in Card, OnTree(c), Under(c), NEW d \in Dinos, NEW found \in BOOLEAN
    PROVE  LET s == ShowFor(c, d, found)
           IN  Sound(s) /\ s.open /\ s.info = d /\ Kept(c, s)
<1> DEFINE b == [c EXCEPT !.info = d]
           a == ApplySkin(b, SkinOf(d))
           filled == ApplyInfo(a)
           under == HideScanHud(filled, found)
           opened == [AtRest(under) EXCEPT !.open = TRUE, !.panels = @ \union {filled.skin}]
           r == RebuildSlateIfNeeded(opened)
<1>1. ShowFor(c, d, found) = FocusCard(r)
  BY DEF ShowFor
<1>2. b \in Card /\ b.info = d /\ OnTree(b) /\ Under(b) /\ Kept(c, b)
  BY DEF Card, OnTree, Under, Kept
<1> HIDE DEF b
<1>3. SkinOf(d) \in Skins
  BY DEF SkinOf, Skins
<1>4. a \in Card
  <2>1. [b EXCEPT !.skin = SkinOf(d), !.dirty = TRUE, !.wired = @ \union {SkinOf(d)}] \in Card
    BY <1>2, <1>3 DEF Card
  <2> QED BY <1>2, <2>1 DEF ApplySkin
<1>5. a.info = d /\ a.skin = SkinOf(d) /\ Halfway(a) /\ Under(a) /\ Kept(c, a)
  BY <1>2, <1>3 DEF ApplySkin, Card, OnTree, Halfway, Under, Kept
<1> HIDE DEF a
<1>6. /\ filled \in Card /\ Filled(filled) /\ filled.info = d /\ filled.skin = SkinOf(d)
      /\ Halfway(filled) /\ Under(filled) /\ Kept(c, filled)
  BY <1>4, <1>5, ApplyInfoFills DEF SameButTexts, Halfway, Under, Kept
<1> HIDE DEF filled
<1>7. under \in Card /\ Under(under)
  <2>1. filled.hud \in BOOLEAN /\ filled.hidden \in BOOLEAN
    BY <1>6 DEF Card
  <2>2. [filled EXCEPT !.hidden = TRUE, !.saved = filled.hud, !.hud = FALSE] \in Card
    BY <1>6, <2>1 DEF Card
  <2>3. under \in Card
    BY <1>6, <2>2 DEF HideScanHud
  <2>4. Under(under)
    BY <1>6, <2>1 DEF HideScanHud, Card, Under
  <2> QED BY <2>3, <2>4
<1>8. /\ Filled(under) /\ under.info = d /\ under.skin = SkinOf(d) /\ filled.skin = under.skin
      /\ Halfway(under) /\ Kept(c, under)
  BY <1>6 DEF HideScanHud, Card, Halfway, Kept, Filled
<1> HIDE DEF under
<1>9. opened \in Card
  <2>1. AtRest(under) \in Card
    BY <1>7, AtRestRests
  <2>2. filled.skin \in Skins
    BY <1>6, <1>3
  <2> HIDE DEF AtRest
  <2> QED BY <2>1, <2>2 DEF Card
<1>10. Opened(opened) /\ Kept(c, opened) /\ opened.info = d
  <2>1. /\ opened.open /\ opened.panels = under.panels \union {under.skin}
        /\ ~opened.tracking /\ ~opened.active /\ opened.offset = 0 /\ Kept(under, opened)
        /\ opened.info = under.info /\ opened.skin = under.skin /\ opened.tab = under.tab
        /\ opened.of = under.of /\ opened.shown = under.shown /\ opened.dirty = under.dirty
        /\ opened.wired = under.wired /\ opened.hidden = under.hidden
        /\ opened.saved = under.saved /\ opened.hud = under.hud
    BY <1>7, <1>8 DEF AtRest, Card, Kept
  <2> HIDE DEF opened
  <2> QED
    BY <1>7, <1>8, <1>9, <2>1 DEF Opened, Halfway, Pulled, Under, Filled, Kept
<1> HIDE DEF opened
<1>11. Opened(r) /\ ~r.dirty /\ OnTree(r) /\ Kept(c, r) /\ r.info = d
  BY <1>10, RebuildShowsTree DEF Kept
<1> HIDE DEF r
<1>12. FocusCard(r) = IF r.skin = "ocean" THEN [r EXCEPT !.due = TRUE] ELSE r
  BY <1>11 DEF FocusCard, Opened
<1>13. CASE r.skin = "ocean"
  <2> DEFINE q == [r EXCEPT !.due = TRUE]
  <2>1. q \in Card
    BY <1>11 DEF Opened, Card
  <2>2. SameButTree(r, q) /\ q.tab = r.tab /\ q.of = r.of /\ q.wired = r.wired /\ q.dirty = r.dirty
        /\ q.shown = r.shown /\ q.due
    BY <1>11 DEF Opened, Card, SameButTree
  <2> HIDE DEF q
  <2>3. Sound(q) /\ q.open /\ q.info = d /\ Kept(c, q)
    BY <1>11, <2>1, <2>2 DEF Sound, Open, Opened, OnTree, Pulled, Under, Filled, Kept, SameButTree
  <2> QED BY <1>1, <1>12, <1>13, <2>3 DEF q
<1>14. CASE r.skin # "ocean"
  BY <1>1, <1>11, <1>12, <1>14 DEF Sound, Open, Opened, Filled
<1> QED BY <1>13, <1>14

\* A card that is put away is sound, whatever it was.
LEMMA HideCardSound ==
    ASSUME NEW c \in Card, OnTree(c), Under(c), ~c.dirty, c.shown # "none",
           c.info # NoDino => TabFits(c.info, c.tab)
    PROVE  Sound(HideCard(c)) /\ Kept(c, HideCard(c)) /\ ~HideCard(c).open
  BY HideCardShuts DEF Sound, Shut, OnTree, Kept

\* The focus is only ever more on its way.
LEMMA FocusCardSound ==
    ASSUME NEW c, Sound(c) PROVE Sound(FocusCard(c)) /\ Kept(c, FocusCard(c))
<1>1. [c EXCEPT !.due = TRUE] \in Card
  BY DEF Sound, Card
<1>2. c \in Card
  BY DEF Sound
<1>3. Sound([c EXCEPT !.due = TRUE]) /\ Kept(c, [c EXCEPT !.due = TRUE])
  <2> DEFINE q == [c EXCEPT !.due = TRUE]
  <2>1. /\ SameButTree(c, q) /\ q.tab = c.tab /\ q.of = c.of /\ q.wired = c.wired /\ q.dirty = c.dirty
        /\ q.shown = c.shown /\ q.due /\ q.popup = c.popup
    BY <1>2 DEF Card, SameButTree
  <2>2. q \in Card
    BY <1>1
  <2> HIDE DEF q
  <2>3. Sound(q) /\ Kept(c, q)
    BY <2>1, <2>2 DEF Sound, Open, Shut, OnTree, Pulled, Under, Filled, Kept, SameButTree
  <2> QED BY <2>3 DEF q
<1> QED BY <1>3 DEF FocusCard, Kept

\* A sound card from which nothing is owed to the chat but what was.
LEMMA BecomesSound ==
    ASSUME CardInv, NEW s, Sound(s), Kept(card, s), Becomes(s) PROVE CardInv'
<1>1. NoDino \in Dinos \union {NoDino} /\ 0 \in Nat
  OBVIOUS
<1>2. Nobody \in Place
  BY <1>1 DEF Nobody, Place
<1> QED BY <1>2 DEF CardInv, Becomes, Elsewhen, Kept, CardReturns

\* The widget comes into the viewport.
LEMMA CardInvConstruct == CardInv /\ Construct => CardInv'
<1> SUFFICES ASSUME CardInv, Construct PROVE CardInv'
  OBVIOUS
<1>1. card \in Card /\ Sound(card) /\ card.shown = "none" /\ Becomes(NativeConstruct(card))
  BY DEF CardInv, Sound, Construct
<1>2. CASE card.info # NoDino
  <2> DEFINE n == NativeConstruct(card)
  <2>1. card.info \in Dinos /\ card.open
    BY <1>1, <1>2 DEF Sound, Shut, TabFits
  <2>2. /\ n \in Card /\ SameButTree(card, n) /\ Filled(n) /\ n.dirty = card.dirty
        /\ n.shown = n.skin /\ n.skin \in n.wired /\ n.focus = card.focus /\ n.due = card.due
    BY <1>1, <2>1, NativeConstructFills
  <2> HIDE DEF n
  <2>3. Sound(n) /\ Kept(card, n)
    BY <1>1, <2>1, <2>2 DEF Sound, Open, OnTree, Pulled, Under, Filled, Kept, SameButTree
  <2> QED BY <1>1, <2>3, BecomesSound DEF n
<1>3. CASE card.info = NoDino
  <2> DEFINE b == [card EXCEPT !.shown = card.skin, !.wired = @ \union {card.skin}]
  <2>1. NativeConstruct(card) = HideCard(b)
    BY <1>3 DEF NativeConstruct
  <2>2. b \in Card
    BY <1>1 DEF Card
  <2>3. /\ b.shown = b.skin /\ b.skin \in b.wired /\ b.skin \in Skins /\ Under(b) /\ b.dirty = card.dirty
        /\ b.info = card.info /\ Kept(card, b)
    BY <1>1 DEF Card, Sound, Under, Kept
  <2> HIDE DEF b
  <2>4. Sound(HideCard(b)) /\ Kept(b, HideCard(b))
    BY <1>1, <1>3, <2>2, <2>3, HideCardSound DEF OnTree, Skins, Sound
  <2> QED BY <1>1, <2>1, <2>3, <2>4, BecomesSound DEF Kept
<1> QED BY <1>2, <1>3

\* A tap on a dinosaur.
LEMMA CardInvTap == ASSUME CardInv, NEW d \in Dinos, Tap(d) PROVE CardInv'
<1>1. PICK found \in BOOLEAN : Becomes(ShowFor(card, d, found))
  BY DEF Tap
<1>2. Sound(ShowFor(card, d, found)) /\ Kept(card, ShowFor(card, d, found))
  BY ShowForOpens DEF CardInv, Sound
<1> QED BY <1>1, <1>2, BecomesSound

\* The card's way out: closed, or left for the navigation.
LEMMA CardInvClose ==
    CardInv /\ (HandleCloseClicked \/ HandleNavClicked) => CardInv'
<1> SUFFICES ASSUME CardInv, HandleCloseClicked \/ HandleNavClicked PROVE CardInv'
  OBVIOUS
<1>1. Becomes(HideCard(card)) /\ card.shown # "none"
  BY DEF HandleCloseClicked, HandleNavClicked, Pressed, OnScreen
<1> QED BY <1>1, HideCardSound, BecomesSound DEF CardInv, Sound

\* Another tab, and the menu.
LEMMA CardInvTabs ==
    ASSUME CardInv,
           \/ card.info # NoDino /\ \E i \in 0..(TabsOf[card.info] - 1) : HandleTabClicked(i)
           \/ HandleMenuClicked
    PROVE  CardInv'
<1>1. card \in Card /\ Sound(card)
  BY DEF CardInv, Sound
<1>2. ASSUME card.info # NoDino, NEW i \in 0..(TabsOf[card.info] - 1), HandleTabClicked(i) PROVE CardInv'
  <2> DEFINE s == SelectTab(card, i)
  <2>1. TabFits(card.info, card.tab) /\ i \in Nat /\ card.open
    BY <1>1, <1>2 DEF Sound, HandleTabClicked, OnScreen
  <2>2. i < TabsOf[card.info] /\ Becomes(FocusCard(s))
    BY <1>2 DEF HandleTabClicked
  <2>3. s \in Card /\ SameButTexts(card, s) /\ Filled(s)
    BY <1>1, <2>1, <2>2, SelectTabFills
  <2> HIDE DEF s
  <2>4. Sound(s) /\ Kept(card, s)
    BY <1>1, <2>1, <2>3 DEF Sound, Open, OnTree, Pulled, Under, Filled, Kept, SameButTexts
  <2> QED BY <2>2, <2>4, FocusCardSound, BecomesSound DEF Kept
<1>3. CASE HandleMenuClicked
  <2> DEFINE s == [card EXCEPT !.popup = ~@]
  <2>1. s \in Card
    <3>1. ASSUME NEW b \in BOOLEAN PROVE [card EXCEPT !.popup = b] \in Card
      BY <1>1 DEF Card
    <3>2. (~card.popup) \in BOOLEAN
      OBVIOUS
    <3> QED BY <3>1, <3>2
  <2>2. /\ SameButTree(card, s) /\ s.tab = card.tab /\ s.of = card.of /\ s.wired = card.wired
        /\ s.dirty = card.dirty /\ s.shown = card.shown /\ s.focus = card.focus /\ s.due = card.due
    BY <1>1 DEF Card, SameButTree
  <2>3. card.open /\ Becomes(FocusCard(s))
    BY <1>3 DEF HandleMenuClicked, OnScreen
  <2> HIDE DEF s
  <2>4. Sound(s) /\ Kept(card, s)
    BY <1>1, <2>1, <2>2, <2>3 DEF Sound, Open, OnTree, Pulled, Under, Filled, Kept, SameButTree
  <2> QED BY <2>3, <2>4, FocusCardSound, BecomesSound DEF Kept
<1> QED BY <1>2, <1>3

\* Android's way back, and the tick that takes the focus.
LEMMA CardInvFocus == CardInv /\ (NativeOnPreviewKeyDown \/ FocusTick) => CardInv'
<1> SUFFICES ASSUME CardInv, NativeOnPreviewKeyDown \/ FocusTick PROVE CardInv'
  OBVIOUS
<1>1. card \in Card /\ Sound(card)
  BY DEF CardInv, Sound
<1>2. ASSUME NativeOnPreviewKeyDown, card.popup PROVE CardInv'
  <2> DEFINE s == [card EXCEPT !.popup = FALSE]
  <2>1. s \in Card
    BY <1>1 DEF Card
  <2>2. /\ SameButTree(card, s) /\ s.tab = card.tab /\ s.of = card.of /\ s.wired = card.wired
        /\ s.dirty = card.dirty /\ s.shown = card.shown /\ s.focus = card.focus /\ s.due = card.due
    BY <1>1 DEF Card, SameButTree
  <2>3. card.open /\ Becomes(s)
    BY <1>2 DEF NativeOnPreviewKeyDown, OnScreen
  <2> HIDE DEF s
  <2>4. Sound(s) /\ Kept(card, s)
    BY <1>1, <2>1, <2>2, <2>3 DEF Sound, Open, OnTree, Pulled, Under, Filled, Kept, SameButTree
  <2> QED BY <2>3, <2>4, BecomesSound
<1>3. ASSUME NativeOnPreviewKeyDown, ~card.popup PROVE CardInv'
  <2> DEFINE h == HideCard(card)
             s == [h EXCEPT !.focus = FALSE]
  <2>1. Sound(h) /\ Kept(card, h) /\ ~h.open /\ Becomes(s)
    BY <1>1, <1>3, HideCardSound DEF NativeOnPreviewKeyDown, OnScreen, Sound
  <2> HIDE DEF h
  <2>2. s \in Card
    BY <2>1 DEF Sound, Card
  <2>3. /\ SameButTree(h, s) /\ s.tab = h.tab /\ s.of = h.of /\ s.wired = h.wired
        /\ s.dirty = h.dirty /\ s.shown = h.shown /\ s.popup = h.popup
    BY <2>1 DEF Sound, Card, SameButTree
  <2> HIDE DEF s
  <2>4. Sound(s) /\ Kept(card, s)
    BY <2>1, <2>2, <2>3 DEF Sound, Shut, OnTree, Pulled, Under, Kept, SameButTree
  <2> QED BY <2>1, <2>4, BecomesSound
<1>4. CASE FocusTick
  <2> DEFINE f == card.focus \/ (card.open /\ card.skin = "ocean")
             s == [card EXCEPT !.due = FALSE, !.focus = f]
  <2>1. Becomes(s)
    BY <1>4 DEF FocusTick
  <2>2. f \in BOOLEAN /\ (card.open /\ card.skin = "ocean" => f)
    OBVIOUS
  <2> HIDE DEF f
  <2>3. s \in Card
    BY <1>1, <2>2 DEF Card
  <2>4. /\ SameButTree(card, s) /\ s.tab = card.tab /\ s.of = card.of /\ s.wired = card.wired
        /\ s.dirty = card.dirty /\ s.shown = card.shown /\ s.popup = card.popup /\ s.focus = f
    BY <1>1 DEF Card, SameButTree
  <2> HIDE DEF s
  <2>5. Sound(s) /\ Kept(card, s)
    BY <1>1, <2>2, <2>3, <2>4 DEF Sound, Open, Shut, OnTree, Pulled, Under, Filled, Kept, SameButTree
  <2> QED BY <2>1, <2>5, BecomesSound
<1> QED BY <1>2, <1>3, <1>4

\* A finger on the text, and a pull.
LEMMA CardInvPull ==
    ASSUME CardInv, Scroll \/ BeginSwipe \/ \E delta \in (-2)..MaxPull : UpdateSwipe(delta)
    PROVE  CardInv'
<1>1. card \in Card /\ Sound(card) /\ 0 \in 0..MaxPull
  BY CardAssumption DEF CardInv, Sound
<1>2. ASSUME NEW top \in BOOLEAN, NEW tracking \in BOOLEAN, NEW active \in BOOLEAN,
             NEW offset \in 0..MaxPull,
             card.open, tracking => card.skin = "default" /\ card.shown # "none",
             active => tracking,
             ~active => offset = 0,
             Becomes([card EXCEPT !.top = top, !.tracking = tracking, !.active = active, !.offset = offset])
      PROVE  CardInv'
  <2> DEFINE s == [card EXCEPT !.top = top, !.tracking = tracking, !.active = active, !.offset = offset]
  <2>1. s \in Card
    BY <1>1 DEF Card
  <2>2. /\ s.info = card.info /\ s.skin = card.skin /\ s.panels = card.panels /\ s.open = card.open
        /\ s.tracking = tracking /\ s.active = active /\ s.offset = offset
        /\ s.hidden = card.hidden /\ s.saved = card.saved /\ s.hud = card.hud
        /\ s.tab = card.tab /\ s.of = card.of /\ s.wired = card.wired
        /\ s.dirty = card.dirty /\ s.shown = card.shown /\ s.focus = card.focus /\ s.due = card.due
        /\ Kept(card, s)
    BY <1>1 DEF Card, Kept
  <2> HIDE DEF s
  <2>3. Sound(s)
    BY <1>1, <1>2, <2>1, <2>2 DEF Sound, Open, OnTree, Pulled, Under, Filled
  <2> QED BY <1>2, <2>2, <2>3, BecomesSound DEF s
<1>3. card.top \in BOOLEAN /\ card.tracking \in BOOLEAN /\ card.active \in BOOLEAN /\ card.offset \in 0..MaxPull
  BY <1>1 DEF Card
<1>4. CASE Scroll
  <2>1. card.open /\ Becomes([card EXCEPT !.top = FALSE])
    BY <1>4 DEF Scroll, OnScreen
  <2>2. [card EXCEPT !.top = FALSE] =
        [card EXCEPT !.top = FALSE, !.tracking = card.tracking, !.active = card.active, !.offset = card.offset]
    BY <1>1 DEF Card
  <2> QED BY <1>1, <1>2, <1>3, <2>1, <2>2 DEF Sound, Pulled
<1>5. CASE BeginSwipe
  <2>1. /\ card.open /\ card.skin # "ocean" /\ card.skin \in Skins /\ card.shown # "none"
        /\ Becomes([card EXCEPT !.offset = 0, !.tracking = TRUE, !.active = FALSE])
    BY <1>1, <1>5 DEF BeginSwipe, OnScreen, Card
  <2>2. [card EXCEPT !.offset = 0, !.tracking = TRUE, !.active = FALSE] =
        [card EXCEPT !.top = card.top, !.tracking = TRUE, !.active = FALSE, !.offset = 0]
    BY <1>1 DEF Card
  <2> QED BY <1>1, <1>2, <1>3, <2>1, <2>2 DEF Skins
<1>6. ASSUME NEW delta \in (-2)..MaxPull, UpdateSwipe(delta) PROVE CardInv'
  <2>1. card.open /\ card.tracking /\ card.skin = "default" /\ card.shown # "none"
    BY <1>1, <1>6 DEF UpdateSwipe, Sound, Pulled, Shut
  <2>2. CASE ~card.active /\ delta < Slop /\ Becomes([card EXCEPT !.tracking = delta >= -Slop])
    <3> DEFINE t == delta >= -Slop
    <3>1. t \in BOOLEAN
      OBVIOUS
    <3> HIDE DEF t
    <3>2. [card EXCEPT !.tracking = t] =
          [card EXCEPT !.top = card.top, !.tracking = t, !.active = FALSE, !.offset = 0]
      BY <1>1, <2>2 DEF Card, Sound, Pulled
    <3>3. Becomes([card EXCEPT !.tracking = t])
      BY <2>2 DEF t
    <3> QED BY <1>1, <1>2, <1>3, <2>1, <3>1, <3>2, <3>3
  <2>3. CASE Becomes([card EXCEPT !.active = TRUE, !.offset = IF delta > 0 THEN delta ELSE 0])
    <3> DEFINE o == IF delta > 0 THEN delta ELSE 0
    <3>1. o \in 0..MaxPull
      BY CardAssumption
    <3> HIDE DEF o
    <3>2. [card EXCEPT !.active = TRUE, !.offset = o] =
          [card EXCEPT !.top = card.top, !.tracking = TRUE, !.active = TRUE, !.offset = o]
      BY <1>1, <2>1 DEF Card
    <3>3. Becomes([card EXCEPT !.active = TRUE, !.offset = o])
      BY <2>3 DEF o
    <3> QED BY <1>1, <1>2, <1>3, <2>1, <3>1, <3>2, <3>3
  <2> QED BY <1>6, <2>2, <2>3 DEF UpdateSwipe
<1> QED BY <1>4, <1>5, <1>6

\* The end of a pull: far enough, and the card goes.
LEMMA CardInvEndSwipe == CardInv /\ EndSwipe => CardInv'
<1> SUFFICES ASSUME CardInv, EndSwipe PROVE CardInv'
  OBVIOUS
<1> DEFINE r == AtRest(card)
<1>1. card \in Card /\ Sound(card) /\ card.open
  BY DEF CardInv, Sound, EndSwipe, Shut
<1>0. r \in Card /\ r = [card EXCEPT !.tracking = FALSE, !.active = FALSE, !.offset = 0]
  BY <1>1, AtRestRests
<1> HIDE DEF r
<1>2. /\ r.info = card.info /\ r.skin = card.skin /\ r.panels = card.panels /\ r.open = card.open
      /\ ~r.tracking /\ ~r.active /\ r.offset = 0
      /\ r.hidden = card.hidden /\ r.saved = card.saved /\ r.hud = card.hud
      /\ r.tab = card.tab /\ r.of = card.of /\ r.wired = card.wired
      /\ r.dirty = card.dirty /\ r.shown = card.shown /\ r.focus = card.focus /\ r.due = card.due
      /\ Kept(card, r)
  <2>1. card \in Card
    BY <1>1
  <2>2. ~r.tracking /\ ~r.active /\ r.offset = 0
    BY <1>0, <2>1 DEF Card
  <2>3. /\ r.info = card.info /\ r.skin = card.skin /\ r.panels = card.panels /\ r.open = card.open
        /\ r.hidden = card.hidden /\ r.saved = card.saved /\ r.hud = card.hud /\ Kept(card, r)
    BY <1>0, <2>1 DEF Card, Kept
  <2>4. /\ r.tab = card.tab /\ r.of = card.of /\ r.wired = card.wired /\ r.dirty = card.dirty
        /\ r.shown = card.shown /\ r.focus = card.focus /\ r.due = card.due
    BY <1>0, <2>1 DEF Card
  <2> QED BY <2>2, <2>3, <2>4
<1>3. Sound(r)
  BY <1>1, <1>2, <1>0 DEF Sound, Open, OnTree, Pulled, Under, Filled
<1>4. CASE Becomes(r)
  BY <1>2, <1>3, <1>4, BecomesSound
<1>5. CASE Becomes(HideCard(r)) /\ card.shown # "none"
  <2>1. Sound(HideCard(r)) /\ Kept(r, HideCard(r))
    BY <1>2, <1>3, <1>5, <1>0, HideCardSound DEF Sound
  <2> QED BY <1>2, <1>5, <2>1, BecomesSound DEF Kept
<1>6. card.shown # "none"
  BY <1>1 DEF Sound, EndSwipe
<1> QED BY <1>4, <1>5, <1>6 DEF EndSwipe, r

\* The question to the docent: the card goes, and what brings it back is kept.
LEMMA CardInvAsk == CardInv /\ HandleAskDocentClicked => CardInv'
<1> SUFFICES ASSUME CardInv, HandleAskDocentClicked PROVE CardInv'
  OBVIOUS
<1>1. card \in Card /\ Sound(card) /\ card.shown # "none" /\ card.info \in Dinos
  BY CardAssumption DEF CardInv, Sound, HandleAskDocentClicked, Pressed, OnScreen
<1> DEFINE p == [card EXCEPT !.popup = FALSE]
<1>2. PICK found \in BOOLEAN :
          /\ card' = HideCard(KeepReopen(p, found))
          /\ chat' = found
          /\ asked' = IF card.skin = "ocean" /\ found THEN <<card.info, card.tab>> ELSE asked
  BY DEF HandleAskDocentClicked
<1>3. p \in Card
  BY <1>1 DEF Card
<1>4. /\ p.info = card.info /\ p.tab = card.tab /\ p.skin = card.skin /\ p.shown = card.shown
      /\ p.dirty = card.dirty /\ p.wired = card.wired /\ Under(p) /\ Kept(card, p)
  BY <1>1 DEF Card, Kept, Under, Sound
<1> HIDE DEF p
<1> DEFINE k == KeepReopen(p, found)
<1>5. TabFits(card.info, card.tab) /\ <<p.info, p.tab>> \in Place
  BY <1>1, <1>4, CardAssumption DEF Sound, TabFits, Place
<1>6. k \in Card
  <2>1. [p EXCEPT !.heard = TRUE, !.reopen = TRUE, !.reopenAt = <<p.info, p.tab>>] \in Card
    BY <1>3, <1>5 DEF Card
  <2> QED BY <1>3, <2>1 DEF KeepReopen
<1>7. /\ k.info = card.info /\ k.tab = card.tab /\ k.skin = card.skin /\ k.shown = card.shown
      /\ k.dirty = card.dirty /\ k.wired = card.wired /\ Under(k)
  BY <1>3, <1>4 DEF KeepReopen, Card, Under
<1>8. IF card.skin = "ocean" /\ found
      THEN k.heard /\ k.reopen /\ k.reopenAt = <<card.info, card.tab>>
      ELSE Kept(card, k)
  BY <1>3, <1>4 DEF KeepReopen, Card, Kept
<1> HIDE DEF k
<1>9. Sound(HideCard(k)) /\ Kept(k, HideCard(k))
  BY <1>1, <1>6, <1>7, HideCardSound DEF Sound, OnTree
<1>10. card' = HideCard(k) /\ returned' = Nobody
  BY <1>2 DEF k, HandleAskDocentClicked, Elsewhen
<1>11. Nobody \in Place
  BY DEF Nobody, Place
<1>12. CASE card.skin = "ocean" /\ found
  BY <1>2, <1>4, <1>5, <1>8, <1>9, <1>10, <1>11, <1>12 DEF CardInv, CardReturns, Kept
<1>13. CASE ~(card.skin = "ocean" /\ found)
  BY <1>2, <1>8, <1>9, <1>10, <1>11, <1>13 DEF CardInv, CardReturns, Kept
<1> QED BY <1>12, <1>13

\* The chat opens or closes; a card that is owed comes back at its tab.
LEMMA CardInvChat == CardInv /\ ChatTurns => CardInv'
<1> SUFFICES ASSUME CardInv, ChatTurns PROVE CardInv'
  OBVIOUS
<1> DEFINE b == IF chat THEN [card EXCEPT !.focus = FALSE] ELSE card
<1>1. card \in Card /\ Sound(card) /\ ~card.open
  BY DEF CardInv, Sound, ChatTurns
<1>2. /\ card' = HandleDocentOpenStateChanged(b, ~chat) /\ chat' = ~chat
      /\ returned' = (IF chat /\ card.reopen THEN asked ELSE Nobody) /\ asked' = asked
  BY DEF ChatTurns
<1>3. b \in Card
  <2>1. [card EXCEPT !.focus = FALSE] \in Card
    BY <1>1 DEF Card
  <2> QED BY <1>1, <2>1
<1>4. /\ SameButTree(card, b) /\ b.tab = card.tab /\ b.of = card.of /\ b.wired = card.wired
      /\ b.dirty = card.dirty /\ b.shown = card.shown /\ b.popup = card.popup
  BY <1>1 DEF Card, SameButTree
<1> HIDE DEF b
<1>5. Sound(b) /\ Kept(card, b) /\ ~b.open
  BY <1>1, <1>3, <1>4 DEF Sound, Shut, OnTree, Pulled, Under, Kept, SameButTree
<1>6. Nobody \in Place /\ chat' \in BOOLEAN /\ asked' \in Place
  BY <1>2 DEF Nobody, Place, CardInv
<1>7. CASE ~(chat /\ card.reopen)
  <2>1. card' = b
    BY <1>2, <1>5, <1>7 DEF HandleDocentOpenStateChanged, Kept
  <2> QED BY <1>2, <1>5, <1>6, <1>7, <2>1 DEF CardInv, CardReturns, Kept
<1>8. CASE chat /\ card.reopen
  <2> DEFINE back == [b EXCEPT !.reopen = FALSE, !.reopenAt = Nobody]
             shown == ShowFor(back, asked[1], TRUE)
             s == SelectTab(shown, asked[2])
  <2>1. b.heard /\ b.reopen /\ b.reopenAt = asked /\ TabFits(asked[1], asked[2])
    BY <1>5, <1>8 DEF CardInv, Kept
  <2>2. asked[1] \in Dinos /\ asked[1] # NoDino /\ asked[2] \in Nat
    BY <2>1, CardAssumption DEF TabFits
  <2>3. card' = s
    BY <1>2, <1>8, <2>1, <2>2 DEF HandleDocentOpenStateChanged
  <2>4. back \in Card
    BY <1>3, <1>6 DEF Card
  <2>5. OnTree(back) /\ Under(back) /\ ~back.reopen
    BY <1>3, <1>5 DEF Card, OnTree, Under, Sound
  <2> HIDE DEF back
  <2>6. Sound(shown) /\ shown.open /\ shown.info = asked[1] /\ ~shown.reopen
    <3>1. Sound(shown) /\ shown.open /\ shown.info = asked[1] /\ Kept(back, shown)
      BY <2>2, <2>4, <2>5, ShowForOpens
    <3> QED BY <2>5, <3>1 DEF Kept
  <2> HIDE DEF shown
  <2>7. shown \in Card /\ TabFits(shown.info, shown.tab) /\ shown.info # NoDino
    BY <2>2, <2>6 DEF Sound
  <2>8. CASE asked[2] < TabsOf[shown.info]
    <3>1. s \in Card /\ SameButTexts(shown, s) /\ Filled(s) /\ s.tab = asked[2]
      BY <2>2, <2>7, <2>8, SelectTabFills
    <3> HIDE DEF s
    <3>2. Sound(s) /\ s.open /\ s.info = asked[1] /\ ~s.reopen
      BY <2>6, <3>1 DEF Sound, Open, OnTree, Pulled, Under, Filled, SameButTexts
    <3>3. <<s.info, s.tab>> = asked
      BY <3>1, <3>2 DEF CardInv, Place
    <3> QED BY <1>2, <1>6, <1>8, <2>3, <3>2, <3>3 DEF CardInv, CardReturns
  <2>9. CASE ~(asked[2] < TabsOf[shown.info])
    <3>1. s = shown
      BY <2>2, <2>7, <2>9, SelectTabFills
    <3>2. asked[2] = 0 /\ TabsOf[shown.info] = 0
      BY <2>1, <2>2, <2>6, <2>9, CardAssumption DEF TabFits
    <3>3. shown.tab = 0
      BY <2>7, <3>2 DEF TabFits
    <3>4. <<shown.info, shown.tab>> = asked
      BY <2>6, <3>2, <3>3 DEF CardInv, Place
    <3> QED BY <1>2, <1>6, <1>8, <2>3, <2>6, <3>1, <3>4 DEF CardInv, CardReturns
  <2> QED BY <2>8, <2>9
<1> QED BY <1>7, <1>8

\* Every step of the card keeps it.
LEMMA CardInvNext == CardInv /\ CardNext => CardInv'
  BY CardInvConstruct, CardInvTap, CardInvClose, CardInvAsk, CardInvTabs, CardInvFocus,
     CardInvPull, CardInvEndSwipe, CardInvChat DEF CardNext

\* No card is there at first.
LEMMA CardInvInit == CardInit => CardInv
<1> SUFFICES ASSUME CardInit PROVE CardInv
  OBVIOUS
<1>1. Nobody \in Place /\ 0 \in 0..MaxPull /\ 0 \in Nat
  BY CardAssumption DEF Nobody, Place
<1>2. card \in Card
  BY <1>1 DEF CardInit, Card, Skins
<1>3. Sound(card)
  BY <1>2 DEF CardInit, Sound, OnTree, Pulled, Under, Shut
<1> QED BY <1>1, <1>3 DEF CardInit, CardInv, CardReturns

\* What the screen promises of a card is part of it.
LEMMA CardInvRight == CardInv => CardTypeOK /\ CardIsRight
<1> SUFFICES ASSUME CardInv PROVE CardTypeOK /\ CardIsRight
  OBVIOUS
<1>1. card \in Card /\ Sound(card)
  BY DEF CardInv, Sound
<1>2. CardTypeOK
  BY <1>1 DEF CardTypeOK, Card, CardInv
<1>3. TreeInUse
  BY <1>1 DEF TreeInUse, Sound, OnTree
<1>4. CardFits
  BY <1>1, CardAssumption DEF CardFits, Sound, Open, Filled, TabFits
<1>5. NothingLeft
  BY <1>1 DEF NothingLeft, Sound, Shut, Under
<1>6. PullsEnd
  BY <1>1 DEF PullsEnd, Sound, Pulled, Shut
<1> QED BY <1>2, <1>3, <1>4, <1>5, <1>6 DEF CardIsRight, CardInv

-----------------------------------------------------------------------------
(* The types of the manager and of the spawner *)

\* The phase that a tick computes is one of the phases.
LEMMA PhaseTypes == ASSUME NEW scan \in BOOLEAN, NEW anchored \in BOOLEAN PROVE PhaseOf(scan, anchored) \in Phases
  BY DEF PhaseOf, Phases

\* The manager's part of every step keeps its types.
LEMMA ManagerTypes ==
    ASSUME ManagerTypeOK,
           \/ SessionRuns \/ TrackingChanges \/ ScanStarts \/ ScanStops \/ QuietTick
           \/ \E again \in BOOLEAN : CameraTurns(again)
           \/ \E i \in Images, stays \in BOOLEAN : RecognisingTick(i, stays)
    PROVE  ManagerTypeOK'
<1>1. CASE SessionRuns \/ TrackingChanges \/ ScanStarts \/ ScanStops
  BY <1>1 DEF SessionRuns, TrackingChanges, ScanStarts, ScanStops, ClearOverlay, ManagerTypeOK
<1>2. CASE QuietTick
  <2>1. phase' = PhaseOf(scanning, overlay # NoImage) /\ UNCHANGED <<running, front, scanning, overlay, tracked>>
    BY <1>2 DEF QuietTick
  <2>2. phase' \in Phases
    BY <2>1, PhaseTypes DEF ManagerTypeOK
  <2> QED BY <2>1, <2>2 DEF ManagerTypeOK
<1>3. ASSUME NEW again \in BOOLEAN, CameraTurns(again) PROVE ManagerTypeOK'
  BY <1>3 DEF CameraTurns, ClearOverlay, ManagerTypeOK
<1>4. ASSUME NEW i \in Images, NEW stays \in BOOLEAN, RecognisingTick(i, stays) PROVE ManagerTypeOK'
  <2>1. /\ overlay' = IF stays THEN i ELSE NoImage
        /\ scanning' = FALSE /\ phase' = PhaseOf(FALSE, stays) /\ UNCHANGED <<running, front, tracked>>
    BY <1>4 DEF RecognisingTick
  <2>2. phase' \in Phases
    BY <2>1, PhaseTypes
  <2> QED BY <2>1, <2>2 DEF ManagerTypeOK
<1> QED BY <1>1, <1>2, <1>3, <1>4

\* The GETs that are not answered, counted at their addresses.
Unanswered == {x \in Addresses \X Nat : 1 <= x[2] /\ x[2] <= requests[x[1]]}

\* Each scan has the spawner forget one GET at most, and one may be in flight.
FetchOK ==
    /\ bound \in BOOLEAN /\ armed \in BOOLEAN /\ inFlight \in BOOLEAN /\ waiting \in BOOLEAN /\ server \in Addresses
    /\ requests \in [Addresses -> Nat] /\ scans \in 0..MaxScans
    /\ IsFiniteSet(Unanswered) /\ Cardinality(Unanswered) <= scans + IF inFlight THEN 1 ELSE 0

\* An entry with a pin has made one that is not released.
PinsOK ==
    /\ Loaded \subseteq Assets /\ pins \in [Assets -> Nat]
    /\ \A p \in Loaded : entries[p] \in Entry /\ (entries[p].pin # "none" => pins[p] > 0)

Marker == [image : Images \union {NoImage}, actor : BOOLEAN, gaveUp : BOOLEAN]

SpawnerInv == ManagerTypeOK /\ FetchOK /\ PinsOK /\ marker \in Marker /\ spawnable \in BOOLEAN

\* A GET more is unanswered when one is sent.
LEMMA OneMore ==
    ASSUME requests \in [Addresses -> Nat], IsFiniteSet(Unanswered), NEW a \in Addresses,
           requests' = [requests EXCEPT ![a] = requests[a] + 1]
    PROVE  /\ requests' \in [Addresses -> Nat] /\ IsFiniteSet(Unanswered')
           /\ Cardinality(Unanswered') = Cardinality(Unanswered) + 1
<1> DEFINE x == <<a, requests[a] + 1>>
<1>1. requests[a] \in Nat
  OBVIOUS
<1>2. requests' \in [Addresses -> Nat]
  BY <1>1
<1>3. requests'[a] = requests[a] + 1 /\ \A b \in Addresses : b # a => requests'[b] = requests[b]
  OBVIOUS
<1>4. Unanswered' = Unanswered \union {x}
  BY <1>1, <1>3 DEF Unanswered
<1>5. x \notin Unanswered
  BY <1>1 DEF Unanswered
<1> HIDE DEF x
<1>6. IsFiniteSet(Unanswered \union {x}) /\ Cardinality(Unanswered \union {x}) = Cardinality(Unanswered) + 1
  BY <1>5, FS_AddElement
<1> QED BY <1>2, <1>4, <1>6

\* And one less when it is answered or fails.
LEMMA OneLess ==
    ASSUME requests \in [Addresses -> Nat], IsFiniteSet(Unanswered), NEW a \in Addresses, requests[a] > 0,
           requests' = [requests EXCEPT ![a] = requests[a] - 1]
    PROVE  /\ requests' \in [Addresses -> Nat] /\ IsFiniteSet(Unanswered')
           /\ Cardinality(Unanswered') = Cardinality(Unanswered) - 1
<1> DEFINE x == <<a, requests[a]>>
<1>1. requests[a] \in Nat
  OBVIOUS
<1>2. requests' \in [Addresses -> Nat]
  BY <1>1
<1>3. requests'[a] = requests[a] - 1 /\ \A b \in Addresses : b # a => requests'[b] = requests[b]
  OBVIOUS
<1>4. Unanswered' = Unanswered \ {x}
  BY <1>1, <1>3 DEF Unanswered
<1>5. x \in Unanswered
  BY <1>1 DEF Unanswered
<1> HIDE DEF x
<1>6. IsFiniteSet(Unanswered \ {x}) /\ Cardinality(Unanswered \ {x}) = Cardinality(Unanswered) - 1
  BY <1>5, FS_RemoveElement
<1> QED BY <1>2, <1>4, <1>6

\* No address has more GETs unanswered than there are in all.
LEMMA FewUnanswered ==
    ASSUME FetchOK, NEW a \in Addresses
    PROVE  requests[a] \in 0..MaxScans + 1
<1> DEFINE r == requests[a]
           f == [k \in 1..r |-> <<a, k>>]
<1>1. r \in Nat /\ scans \in Nat /\ scans <= MaxScans /\ MaxScans \in Nat
  BY SpawnerAssumption DEF FetchOK
<1>2. f \in Injection(1..r, Unanswered)
  <2>1. \A k \in 1..r : f[k] \in Unanswered
    BY <1>1 DEF Unanswered
  <2>2. \A j, k \in 1..r : f[j] = f[k] => j = k
    OBVIOUS
  <2> QED BY <2>1, <2>2 DEF Injection, IsInjective
<1>3. IsFiniteSet(Unanswered) /\ Cardinality(Unanswered) \in Nat
  BY FS_CardinalityType DEF FetchOK
<1>4. Cardinality(1..r) <= Cardinality(Unanswered)
  <2> HIDE DEF f
  <2> QED BY <1>2, <1>3, FS_Injection
<1>5. Cardinality(1..r) = r
  BY <1>1, FS_Interval
<1>6. Cardinality(Unanswered) <= MaxScans + 1
  BY <1>1, <1>3 DEF FetchOK
<1> HIDE DEF r
<1>7. r \in 0..MaxScans + 1
  BY <1>1, <1>3, <1>4, <1>5, <1>6
<1> QED BY <1>7 DEF r

\* The invariant of the spawner gives its types.
LEMMA SpawnerTypes == SpawnerInv => SpawnerTypeOK
<1> SUFFICES ASSUME SpawnerInv PROVE SpawnerTypeOK
  OBVIOUS
<1>1. \A a \in Addresses : requests[a] \in 0..MaxScans + 1
  BY FewUnanswered DEF SpawnerInv
<1>2. requests \in [Addresses -> 0..MaxScans + 1]
  BY <1>1 DEF SpawnerInv, FetchOK
<1> QED BY <1>2 DEF SpawnerInv, FetchOK, PinsOK, Marker, SpawnerTypeOK

\* It holds when the app starts.
LEMMA SpawnerStart == SpawnerInit => SpawnerInv
<1> SUFFICES ASSUME SpawnerInit PROVE SpawnerInv
  OBVIOUS
<1>1. requests = [a \in Addresses |-> 0] /\ scans = 0 /\ inFlight = FALSE
  BY DEF SpawnerInit
<1>2. Unanswered = {}
  BY <1>1 DEF Unanswered
<1>3. FetchOK
  <2>1. bound \in BOOLEAN /\ armed \in BOOLEAN /\ inFlight \in BOOLEAN /\ waiting \in BOOLEAN
    BY Zenon DEF SpawnerInit
  <2>2. server \in Addresses /\ scans \in 0..MaxScans /\ requests \in [Addresses -> Nat]
    BY <1>1, SpawnerAssumption DEF SpawnerInit, Addresses
  <2>3. IsFiniteSet(Unanswered) /\ Cardinality(Unanswered) = 0
    BY <1>2, FS_EmptySet, Zenon
  <2> QED BY <1>1, <2>1, <2>2, <2>3 DEF FetchOK
<1>4. PinsOK
  BY DEF SpawnerInit, PinsOK, Loaded
<1>5. ManagerTypeOK
  BY DEF SpawnerInit, ManagerInit, ManagerTypeOK, Phases
<1> QED BY <1>3, <1>4, <1>5 DEF SpawnerInit, SpawnerInv, Marker, NoMarker

\* An entry that gets its actor, or has none to get, stays an entry.
LEMMA SpawnedTypes ==
    ASSUME spawnable \in BOOLEAN
    PROVE  /\ \A e \in Entry : Spawned(e) \in Entry /\ Spawned(e).pin = e.pin
           /\ \A m \in Marker : Spawned(m) \in Marker
           /\ \A i \in Images : Trigger(i) \in Marker
<1>1. \A m \in Marker : Spawned(m) \in Marker
  BY DEF Spawned, Marker
<1>2. \A e \in Entry : Spawned(e) \in Entry /\ Spawned(e).pin = e.pin
  BY DEF Spawned, Entry
<1>3. \A i \in Images : [NoMarker EXCEPT !.image = i] \in Marker
  BY DEF NoMarker, Marker
<1> QED BY <1>1, <1>2, <1>3 DEF Trigger

\* Nothing of the fetches changes but flags that say less is in flight.
LEMMA FetchRests ==
    ASSUME FetchOK, requests' = requests, server' = server, scans' = scans, inFlight' = inFlight,
           bound' \in BOOLEAN, armed' \in BOOLEAN, waiting' \in BOOLEAN
    PROVE  FetchOK'
<1>1. Unanswered' = Unanswered
  BY DEF Unanswered
<1> QED BY <1>1 DEF FetchOK

\* PinsOK depends on the entries and the pins.
LEMMA PinsRest == PinsOK /\ entries' = entries /\ pins' = pins => PinsOK'
  BY DEF PinsOK, Loaded

\* ClearAll releases pins that were made.
LEMMA ClearAllKeeps == PinsOK /\ ClearAll => PinsOK' /\ marker' \in Marker
<1> SUFFICES ASSUME PinsOK, ClearAll PROVE PinsOK' /\ marker' \in Marker
  OBVIOUS
<1>1. entries' = <<>> /\ marker' = NoMarker /\ pins' = Released
  BY DEF ClearAll
<1>2. \A p \in Assets : Released[p] \in Nat
  <2> TAKE p \in Assets
  <2>1. pins[p] \in Nat
    BY DEF PinsOK
  <2>2. p \in Loaded /\ entries[p].pin # "none" => pins[p] > 0
    BY DEF PinsOK
  <2>3. Released[p] = IF p \in Loaded /\ entries[p].pin # "none" THEN pins[p] - 1 ELSE pins[p]
    BY DEF Released
  <2> QED BY <2>1, <2>2, <2>3
<1>3. Released \in [Assets -> Nat]
  BY <1>2 DEF Released
<1>4. Loaded' = {}
  BY <1>1 DEF Loaded
<1> QED BY <1>1, <1>3, <1>4 DEF PinsOK, Marker, NoMarker

-----------------------------------------------------------------------------
(* The buttons and the manager *)

\* A scan forgets the GET that was in flight, and is counted for it.
LEMMA StartScanTypes == SpawnerInv /\ StartScan => SpawnerInv'
<1> SUFFICES ASSUME SpawnerInv, StartScan PROVE SpawnerInv'
  OBVIOUS
<1>1. ManagerTypeOK'
  BY ManagerTypes DEF SpawnerInv, StartScan
<1>2. scans \in Nat /\ scans' = scans + 1 /\ scans < MaxScans /\ MaxScans \in Nat
  BY SpawnerAssumption DEF SpawnerInv, FetchOK, StartScan
<1>3. IsFiniteSet(Unanswered) /\ Cardinality(Unanswered) \in Nat /\ Cardinality(Unanswered) <= scans + 1
  BY <1>2, FS_CardinalityType DEF SpawnerInv, FetchOK
<1>4. CASE HandleScanStarted
  <2>1. /\ armed' = TRUE /\ inFlight' = FALSE /\ waiting' = FALSE
        /\ bound' = bound /\ server' = server /\ requests' = requests /\ spawnable' = spawnable /\ ClearAll
    BY <1>4 DEF HandleScanStarted
  <2>2. Unanswered' = Unanswered
    BY <2>1 DEF Unanswered
  <2>3. FetchOK'
    <3>1. bound' \in BOOLEAN /\ armed' \in BOOLEAN /\ inFlight' \in BOOLEAN /\ waiting' \in BOOLEAN
      BY <2>1, Zenon DEF SpawnerInv, FetchOK
    <3>2. server' \in Addresses /\ requests' \in [Addresses -> Nat] /\ scans' \in 0..MaxScans
      BY <1>2, <2>1 DEF SpawnerInv, FetchOK
    <3>3. IsFiniteSet(Unanswered') /\ Cardinality(Unanswered') <= scans' + IF inFlight' THEN 1 ELSE 0
      BY <1>2, <1>3, <2>1, <2>2
    <3> QED BY <3>1, <3>2, <3>3 DEF FetchOK
  <2>4. PinsOK' /\ marker' \in Marker
    BY <2>1, ClearAllKeeps DEF SpawnerInv
  <2> QED BY <1>1, <2>1, <2>3, <2>4 DEF SpawnerInv
<1>5. CASE UNCHANGED <<fetchVars, exhibitVars, spawnable>>
  <2>1. /\ bound' = bound /\ armed' = armed /\ inFlight' = inFlight /\ waiting' = waiting /\ server' = server
        /\ requests' = requests /\ entries' = entries /\ marker' = marker /\ pins' = pins /\ spawnable' = spawnable
    BY <1>5 DEF fetchVars, exhibitVars
  <2>2. Unanswered' = Unanswered
    BY <2>1 DEF Unanswered
  <2>3. FetchOK'
    BY <1>2, <1>3, <2>1, <2>2 DEF SpawnerInv, FetchOK
  <2> QED BY <1>1, <2>1, <2>3, PinsRest DEF SpawnerInv
<1> QED BY <1>4, <1>5 DEF StartScan

\* What the manager tells the spawner, but for the start of a scan, touches no
\* fetch and no pin.
LEMMA ToldKeeps ==
    ASSUME SpawnerInv, ManagerTypeOK', marker' \in Marker, scans' = scans, bound' = bound, armed' \in {FALSE, armed},
           UNCHANGED <<inFlight, waiting, server, requests, entries, pins, spawnable>>
    PROVE  SpawnerInv'
<1>1. /\ inFlight' = inFlight /\ waiting' = waiting /\ server' = server /\ requests' = requests
      /\ entries' = entries /\ pins' = pins /\ spawnable' = spawnable
  OBVIOUS
<1>2. FetchOK'
  <2>1. FetchOK /\ bound' \in BOOLEAN /\ armed' \in BOOLEAN /\ waiting' \in BOOLEAN
    BY <1>1 DEF SpawnerInv, FetchOK
  <2> QED BY <1>1, <2>1, FetchRests
<1>3. PinsOK'
  BY <1>1, PinsRest DEF SpawnerInv
<1> QED BY <1>1, <1>2, <1>3 DEF SpawnerInv

\* So do the buttons that end a scan and turn the camera.
LEMMA ButtonTypes == SpawnerInv /\ (StopScan \/ ToggleCameraFacing) => SpawnerInv'
<1>1. ASSUME SpawnerInv, StopScan PROVE SpawnerInv'
  <2>1. ManagerTypeOK'
    BY <1>1, ManagerTypes DEF SpawnerInv, StopScan
  <2> QED BY <1>1, <2>1, ToldKeeps DEF StopScan, HandleScanStopped, SpawnerInv
<1>2. ASSUME SpawnerInv, ToggleCameraFacing PROVE SpawnerInv'
  <2>1. ManagerTypeOK'
    BY <1>2, ManagerTypes DEF SpawnerInv, ToggleCameraFacing
  <2> QED BY <1>2, <2>1, ToldKeeps DEF ToggleCameraFacing, HandleScanStopped, fetchVars, SpawnerInv
<1> QED BY <1>1, <1>2

\* The manager finds a marker.
LEMMA FoundTypes ==
    ASSUME SpawnerInv, NEW i \in Images, ManagerFinds(i) PROVE SpawnerInv'
<1>1. PICK m \in {marker, NoMarker, Trigger(i)} :
          RecognisingTick(i, ~(bound /\ Replaces(m))) /\ marker' = m
  BY DEF ManagerFinds
<1>2. m \in Marker
  <2>1. NoMarker \in Marker
    BY DEF NoMarker, Marker
  <2>2. marker \in Marker /\ Trigger(i) \in Marker
    BY SpawnedTypes DEF SpawnerInv
  <2> QED BY <2>1, <2>2
<1>3. ManagerTypeOK'
  <2>1. (~(bound /\ Replaces(m))) \in BOOLEAN
    BY Zenon
  <2> QED BY <1>1, <2>1, ManagerTypes DEF SpawnerInv
<1> QED BY <1>1, <1>2, <1>3, ToldKeeps DEF ManagerFinds, HandleScanStopped

\* The spawner rests while the manager or the screen acts.
LEMMA SpawnerRests ==
    ASSUME SpawnerInv, ManagerTypeOK', UNCHANGED spawnerVars PROVE SpawnerInv'
<1>1. /\ bound' = bound /\ armed' = armed /\ inFlight' = inFlight /\ waiting' = waiting /\ server' = server
      /\ requests' = requests /\ entries' = entries /\ marker' = marker /\ pins' = pins /\ spawnable' = spawnable
      /\ scans' = scans
  BY DEF spawnerVars, fetchVars, exhibitVars
<1>2. UNCHANGED <<inFlight, waiting, server, requests, entries, pins, spawnable>>
  BY <1>1
<1> QED BY <1>1, <1>2, ToldKeeps DEF SpawnerInv

-----------------------------------------------------------------------------
(* The answers of the servers *)

\* A resolve that begins is one attempt more, unless those are no longer counted.
LEMMA ResolvedTypes ==
    ASSUME NEW e \in Entry, NEW begins \in BOOLEAN
    PROVE  /\ Resolve(e, begins) \in Entry /\ Resolve(e, begins).pin = IF begins THEN "busy" ELSE "none"
           /\ e.attempts < MaxAttempts => Resolve(e, begins).attempts # e.attempts
<1> DEFINE n == IF e.attempts < MaxAttempts + 2 THEN e.attempts + 1 ELSE e.attempts
           p == IF begins THEN "busy" ELSE "none"
<1>1. MaxAttempts \in Nat /\ e.attempts \in 0..MaxAttempts + 2
  BY SpawnerAssumption DEF Entry
<1>2. n \in 0..MaxAttempts + 2 /\ (e.attempts < MaxAttempts => n # e.attempts)
  BY <1>1
<1>3. Resolve(e, begins) = [e EXCEPT !.pin = p, !.attempts = n]
  BY DEF Resolve
<1>4. p \in Pins
  BY DEF Pins
<1> HIDE DEF n, p
<1>5. Resolve(e, begins) \in Entry /\ Resolve(e, begins).pin = p /\ Resolve(e, begins).attempts = n
  BY <1>2, <1>3, <1>4 DEF Entry
<1> QED BY <1>2, <1>5 DEF p

\* The list is applied: every resolve that begins makes a pin.
LEMMA AppliedTypes ==
    ASSUME PinsOK, NEW listed \in SUBSET Assets, NEW begins \in SUBSET Assets, ApplyAnchorsJson(listed, begins)
    PROVE  PinsOK'
<1>1. CASE UNCHANGED <<entries, pins>>
  BY <1>1, PinsRest
<1>2. CASE ~UNCHANGED <<entries, pins>>
  <2> DEFINE all == Loaded \union listed
  <2>1. /\ entries' = [p \in all |-> Resolve(Applied(p), p \in begins)]
        /\ pins' = [p \in Assets |-> IF p \in all \intersect begins THEN pins[p] + 1 ELSE pins[p]]
    BY <1>2 DEF ApplyAnchorsJson
  <2>2. all \subseteq Assets /\ Loaded' = all
    BY <2>1 DEF PinsOK, Loaded
  <2>3. pins' \in [Assets -> Nat]
    BY <2>1 DEF PinsOK
  <2> HIDE DEF all
  <2>4. ASSUME NEW p \in all
        PROVE  entries'[p] \in Entry /\ (entries'[p].pin # "none" => pins'[p] > 0)
    <3>1. Fresh \in Entry
      BY SpawnerAssumption DEF Fresh, Entry, Pins
    <3>2. Applied(p) \in Entry
      BY <3>1 DEF Applied, PinsOK
    <3>3. (p \in begins) \in BOOLEAN
      OBVIOUS
    <3>4. entries'[p] \in Entry /\ (entries'[p].pin # "none" => p \in begins)
      BY <2>1, <3>2, <3>3, ResolvedTypes
    <3>5. p \in begins => pins'[p] = pins[p] + 1 /\ pins[p] \in Nat
      BY <2>1, <2>2 DEF PinsOK
    <3> QED BY <3>4, <3>5
  <2> QED BY <2>2, <2>3, <2>4 DEF PinsOK
<1> QED BY <1>1, <1>2

\* An answer comes, in time or late.
LEMMA AnswerTypes ==
    ASSUME SpawnerInv, NEW a \in Addresses, NEW listed \in SUBSET Assets, AnswerComes(a, listed) PROVE SpawnerInv'
<1>1. /\ bound' = bound /\ armed' = armed /\ waiting' = waiting /\ server' = server /\ marker' = marker
      /\ spawnable' = spawnable /\ scans' = scans /\ inFlight' = FALSE
      /\ requests[a] > 0 /\ requests' = [requests EXCEPT ![a] = requests[a] - 1]
  BY DEF AnswerComes
<1>2. ManagerTypeOK'
  BY DEF SpawnerInv, AnswerComes, managerVars, ManagerTypeOK
<1>3. PinsOK'
  BY AppliedTypes DEF SpawnerInv, AnswerComes
<1>4. FetchOK'
  <2>1. /\ requests' \in [Addresses -> Nat] /\ IsFiniteSet(Unanswered')
        /\ Cardinality(Unanswered') = Cardinality(Unanswered) - 1
    BY <1>1, OneLess DEF SpawnerInv, FetchOK
  <2>2. Cardinality(Unanswered) \in Nat
    BY FS_CardinalityType DEF SpawnerInv, FetchOK
  <2>3. bound' \in BOOLEAN /\ armed' \in BOOLEAN /\ inFlight' \in BOOLEAN /\ waiting' \in BOOLEAN
    BY <1>1, Zenon DEF SpawnerInv, FetchOK
  <2>4. server' \in Addresses /\ scans' \in 0..MaxScans
    BY <1>1 DEF SpawnerInv, FetchOK
  <2>5. Cardinality(Unanswered') <= scans' + IF inFlight' THEN 1 ELSE 0
    BY <1>1, <2>1, <2>2, SpawnerAssumption DEF SpawnerInv, FetchOK
  <2> QED BY <2>1, <2>3, <2>4, <2>5 DEF FetchOK
<1> QED BY <1>1, <1>2, <1>3, <1>4 DEF SpawnerInv

\* A GET fails, and the next address is one of those there are.
LEMMA FailTypes ==
    ASSUME SpawnerInv, NEW a \in Addresses, FetchFails(a) PROVE SpawnerInv'
<1>1. /\ bound' = bound /\ armed' = armed /\ marker' = marker /\ entries' = entries /\ pins' = pins
      /\ spawnable' = spawnable /\ scans' = scans /\ inFlight' = FALSE
      /\ requests[a] > 0 /\ requests' = [requests EXCEPT ![a] = requests[a] - 1]
      /\ server' = (server + 1) % Servers /\ waiting' = IF server' # 0 THEN FALSE ELSE waiting
  BY DEF FetchFails, NextServer, exhibitVars
<1>2. ManagerTypeOK'
  BY DEF SpawnerInv, FetchFails, managerVars, ManagerTypeOK
<1>4. FetchOK'
  <2>1. /\ requests' \in [Addresses -> Nat] /\ IsFiniteSet(Unanswered')
        /\ Cardinality(Unanswered') = Cardinality(Unanswered) - 1
    BY <1>1, OneLess DEF SpawnerInv, FetchOK
  <2>2. Cardinality(Unanswered) \in Nat
    BY FS_CardinalityType DEF SpawnerInv, FetchOK
  <2>3. bound' \in BOOLEAN /\ armed' \in BOOLEAN /\ inFlight' \in BOOLEAN /\ waiting' \in BOOLEAN
    <3>1. bound' \in BOOLEAN /\ armed' \in BOOLEAN /\ inFlight' \in BOOLEAN
      BY <1>1, Zenon DEF SpawnerInv, FetchOK
    <3>2. waiting' = FALSE \/ waiting' = waiting
      BY <1>1
    <3>3. waiting' \in BOOLEAN
      BY <3>2, Zenon DEF SpawnerInv, FetchOK
    <3> QED BY <3>1, <3>3
  <2>4. server' \in Addresses /\ scans' \in 0..MaxScans
    <3>1. server \in Nat /\ Servers \in Nat \ {0}
      BY SpawnerAssumption DEF SpawnerInv, FetchOK, Addresses
    <3>2. server' \in 0..Servers - 1
      BY <1>1, <3>1
    <3> QED BY <1>1, <3>2 DEF SpawnerInv, FetchOK, Addresses
  <2>5. Cardinality(Unanswered') <= scans' + IF inFlight' THEN 1 ELSE 0
    BY <1>1, <2>1, <2>2, SpawnerAssumption DEF SpawnerInv, FetchOK
  <2> QED BY <2>1, <2>3, <2>4, <2>5 DEF FetchOK
<1> QED BY <1>1, <1>2, <1>4, PinsRest DEF SpawnerInv

\* The wait for the next GET ends, or the manager is found.
LEMMA WaitOrBindTypes == SpawnerInv /\ (WaitEnds \/ TryBindTrackingManager) => SpawnerInv'
<1> SUFFICES ASSUME SpawnerInv, WaitEnds \/ TryBindTrackingManager PROVE SpawnerInv'
  OBVIOUS
<1>1. /\ inFlight' = inFlight /\ server' = server /\ requests' = requests /\ entries' = entries /\ marker' = marker
      /\ pins' = pins /\ spawnable' = spawnable /\ scans' = scans /\ UNCHANGED managerVars
  BY DEF WaitEnds, TryBindTrackingManager, exhibitVars
<1>2. ManagerTypeOK'
  BY <1>1 DEF SpawnerInv, managerVars, ManagerTypeOK
<1>3. \/ bound' = bound /\ armed' = armed /\ waiting' = FALSE
      \/ bound' = TRUE /\ armed' = scanning /\ waiting' = waiting
  BY DEF WaitEnds, TryBindTrackingManager
<1>4. bound' \in BOOLEAN /\ armed' \in BOOLEAN /\ waiting' \in BOOLEAN
  BY <1>3, Zenon DEF SpawnerInv, FetchOK, ManagerTypeOK
<1>5. FetchOK'
  BY <1>1, <1>4, FetchRests DEF SpawnerInv
<1> QED BY <1>1, <1>2, <1>5, PinsRest DEF SpawnerInv

-----------------------------------------------------------------------------
(* The tick of the spawner *)

\* A GET is sent only when none is in flight.
LEMMA FetchTypes ==
    ASSUME FetchOK, FetchAssetAnchors, bound' = bound, armed' = armed, server' = server, scans' = scans PROVE FetchOK'
<1>1. CASE inFlight \/ waiting
  <2>1. inFlight' = inFlight /\ waiting' = waiting /\ requests' = requests
    BY <1>1 DEF FetchAssetAnchors
  <2>2. bound' \in BOOLEAN /\ armed' \in BOOLEAN /\ waiting' \in BOOLEAN
    BY <2>1, Zenon DEF FetchOK
  <2> QED BY <2>1, <2>2, FetchRests
<1>2. CASE ~(inFlight \/ waiting)
  <2>1. inFlight' = TRUE /\ waiting' = TRUE /\ requests' = [requests EXCEPT ![server] = requests[server] + 1]
    BY <1>2 DEF FetchAssetAnchors
  <2>2. /\ requests' \in [Addresses -> Nat] /\ IsFiniteSet(Unanswered')
        /\ Cardinality(Unanswered') = Cardinality(Unanswered) + 1
    BY <2>1, OneMore DEF FetchOK
  <2>3. Cardinality(Unanswered) \in Nat
    BY FS_CardinalityType DEF FetchOK
  <2>4. bound' \in BOOLEAN /\ armed' \in BOOLEAN /\ inFlight' \in BOOLEAN /\ waiting' \in BOOLEAN
    BY <2>1, Zenon DEF FetchOK
  <2>5. Cardinality(Unanswered') <= scans' + IF inFlight' THEN 1 ELSE 0
    BY <1>2, <2>1, <2>2, <2>3, SpawnerAssumption DEF FetchOK
  <2> QED BY <2>2, <2>4, <2>5 DEF FetchOK
<1> QED BY <1>1, <1>2

\* A polled entry has a pin of which there is one at least.
LEMMA PolledTypes ==
    ASSUME spawnable \in BOOLEAN, armed \in BOOLEAN, NEW e \in Entry, NEW late \in BOOLEAN, NEW begins \in BOOLEAN,
           NEW n \in Nat, e.pin # "none" => n > 0, NEW q, q = Polled(e, late, begins)
    PROVE  q \in Entry /\ PinsAfter(n, e, q) \in Nat /\ (q.pin # "none" => PinsAfter(n, e, q) > 0)
<1>1. CASE q \in Entry /\ q.pin = e.pin /\ q.attempts = e.attempts
  <2>1. PinsAfter(n, e, q) = n
    BY <1>1 DEF PinsAfter
  <2> QED BY <1>1, <2>1
<1>2. ASSUME NEW f \in Entry, f.pin = "none", f.attempts = e.attempts, q = Retry(f, begins)
      PROVE  q \in Entry /\ PinsAfter(n, e, q) \in Nat /\ (q.pin # "none" => PinsAfter(n, e, q) > 0)
  <2>1. CASE armed /\ f.attempts < MaxAttempts
    <3>1. q \in Entry /\ q.attempts # e.attempts
      BY <1>2, <2>1, ResolvedTypes DEF Retry
    <3>2. PinsAfter(n, e, q) = n - (IF e.pin # "none" THEN 1 ELSE 0) + (IF q.pin # "none" THEN 1 ELSE 0)
      BY <3>1 DEF PinsAfter
    <3> QED BY <3>1, <3>2
  <2>2. CASE ~(armed /\ f.attempts < MaxAttempts)
    <3>1. q = f
      BY <1>2, <2>2 DEF Retry
    <3>2. PinsAfter(n, e, q) = n - (IF e.pin # "none" THEN 1 ELSE 0)
      BY <1>2, <3>1 DEF PinsAfter
    <3> QED BY <1>2, <3>1, <3>2
  <2> QED BY <2>1, <2>2
<1>3. CASE e.gaveUp \/ e.actor
  BY <1>1, <1>3 DEF Polled
<1>4. CASE ~(e.gaveUp \/ e.actor) /\ e.pin = "none"
  <2>1. q = IF late THEN Retry(e, begins) ELSE e
    BY <1>4 DEF Polled
  <2> QED BY <1>1, <1>2, <1>4, <2>1
<1>5. CASE ~(e.gaveUp \/ e.actor) /\ e.pin = "seen"
  <2>1. q = Spawned(e)
    BY <1>5 DEF Polled
  <2>2. q \in Entry /\ q.pin = e.pin /\ q.attempts = e.attempts
    BY <2>1, SpawnedTypes DEF Spawned, Entry
  <2> QED BY <1>1, <2>2
<1>6. CASE ~(e.gaveUp \/ e.actor) /\ e.pin \notin {"none", "seen"}
  <2> DEFINE f == [e EXCEPT !.pin = "none", !.gaveUp = e.attempts >= MaxAttempts]
  <2>1. q = IF e.pin = "error" \/ late THEN Retry(f, begins) ELSE e
    BY <1>6 DEF Polled
  <2>2. (e.attempts >= MaxAttempts) \in BOOLEAN
    OBVIOUS
  <2>3. f \in Entry /\ f.pin = "none" /\ f.attempts = e.attempts
    BY <2>2 DEF Entry, Pins
  <2> HIDE DEF f
  <2> QED BY <1>1, <1>2, <2>1, <2>3
<1> QED BY <1>3, <1>4, <1>5, <1>6

\* So it is for all the entries of a tick.
LEMMA PollTypes ==
    ASSUME PinsOK, spawnable \in BOOLEAN, armed \in BOOLEAN, PollResolves PROVE PinsOK'
<1>1. PICK late, begins \in SUBSET Loaded :
          /\ entries' = [p \in Loaded |-> Polled(entries[p], p \in late, p \in begins)]
          /\ pins' = [p \in Assets |->
                        IF p \in Loaded THEN PinsAfter(pins[p], entries[p], entries'[p]) ELSE pins[p]]
  BY DEF PollResolves
<1>2. Loaded' = Loaded /\ Loaded \subseteq Assets
  BY <1>1 DEF Loaded, PinsOK
<1>3. ASSUME NEW p \in Loaded
      PROVE  entries'[p] \in Entry /\ pins'[p] \in Nat /\ (entries'[p].pin # "none" => pins'[p] > 0)
  <2>1. (p \in late) \in BOOLEAN /\ (p \in begins) \in BOOLEAN
    OBVIOUS
  <2>2. entries[p] \in Entry /\ pins[p] \in Nat /\ (entries[p].pin # "none" => pins[p] > 0)
    BY <1>2 DEF PinsOK
  <2>3. entries'[p] = Polled(entries[p], p \in late, p \in begins) /\ pins'[p] = PinsAfter(pins[p], entries[p], entries'[p])
    BY <1>1, <1>2
  <2> QED BY <2>1, <2>2, <2>3, PolledTypes
<1>4. \A p \in Assets : pins'[p] \in Nat
  BY <1>1, <1>3 DEF PinsOK
<1>5. pins' \in [Assets -> Nat]
  BY <1>1, <1>4
<1> QED BY <1>2, <1>3, <1>5 DEF PinsOK

\* The tick of the spawner.
LEMMA TickTypes == SpawnerInv /\ Tick => SpawnerInv'
<1> SUFFICES ASSUME SpawnerInv, Tick PROVE SpawnerInv'
  OBVIOUS
<1>1. /\ bound' = bound /\ armed' = armed /\ server' = server /\ spawnable' = spawnable /\ scans' = scans
      /\ UNCHANGED managerVars
  BY DEF Tick
<1>2. ManagerTypeOK'
  BY <1>1 DEF SpawnerInv, managerVars, ManagerTypeOK
<1>3. marker' \in Marker
  <2>1. tracked \subseteq Images
    BY DEF SpawnerInv, ManagerTypeOK
  <2>2. marker' \in {NoMarker, marker, Spawned(marker)} \union {Trigger(i) : i \in tracked}
    BY DEF Tick, TickMarker
  <2>3. NoMarker \in Marker
    BY DEF NoMarker, Marker
  <2>4. marker \in Marker /\ Spawned(marker) \in Marker
    BY SpawnedTypes DEF SpawnerInv
  <2>5. \A i \in tracked : Trigger(i) \in Marker
    BY <2>1, SpawnedTypes DEF SpawnerInv
  <2> QED BY <2>2, <2>3, <2>4, <2>5
<1>4. FetchOK /\ PinsOK /\ spawnable \in BOOLEAN /\ armed \in BOOLEAN
  BY DEF SpawnerInv, FetchOK
<1>5. CASE FetchAssetAnchors /\ UNCHANGED <<entries, pins>>
  <2>1. FetchOK'
    BY <1>1, <1>4, <1>5, FetchTypes
  <2> QED BY <1>1, <1>2, <1>3, <1>4, <1>5, <2>1, PinsRest DEF SpawnerInv
<1>6. CASE PollResolves /\ UNCHANGED <<inFlight, waiting, requests>>
  <2>1. bound' \in BOOLEAN /\ armed' \in BOOLEAN /\ waiting' \in BOOLEAN
    BY <1>1, <1>6 DEF SpawnerInv, FetchOK
  <2>2. FetchOK'
    BY <1>1, <1>4, <1>6, <2>1, FetchRests
  <2>3. PinsOK'
    BY <1>4, <1>6, PollTypes
  <2> QED BY <1>1, <1>2, <1>3, <1>4, <2>2, <2>3 DEF SpawnerInv
<1> QED BY <1>5, <1>6 DEF Tick

\* ARCore moves entries that have a pin.
LEMMA ArCoreTypes == ASSUME SpawnerInv, NEW p \in Assets, ArCoreMoves(p) PROVE SpawnerInv'
<1>1. /\ inFlight' = inFlight /\ server' = server /\ requests' = requests /\ marker' = marker /\ bound' = bound
      /\ armed' = armed /\ waiting' = waiting
      /\ pins' = pins /\ spawnable' = spawnable /\ scans' = scans /\ UNCHANGED managerVars
  BY DEF ArCoreMoves, fetchVars
<1>2. ManagerTypeOK'
  BY <1>1 DEF SpawnerInv, managerVars, ManagerTypeOK
<1>3. FetchOK'
  <2>1. bound' \in BOOLEAN /\ armed' \in BOOLEAN /\ waiting' \in BOOLEAN
    BY <1>1 DEF SpawnerInv, FetchOK
  <2> QED BY <1>1, <2>1, FetchRests DEF SpawnerInv
<1>4. PICK s \in {"error", "hidden", "seen"} : entries' = [entries EXCEPT ![p].pin = s] /\ entries[p].pin # "none"
  <2>1. CASE entries[p].pin = "busy"
    BY <2>1 DEF ArCoreMoves
  <2>2. CASE entries[p].pin = "hidden"
    BY <2>2 DEF ArCoreMoves
  <2>3. CASE entries[p].pin = "seen"
    BY <2>3 DEF ArCoreMoves
  <2>4. CASE entries[p].pin \notin {"busy", "hidden", "seen"}
    BY <2>4 DEF ArCoreMoves
  <2> QED BY <2>1, <2>2, <2>3, <2>4
<1>5. p \in Loaded /\ PinsOK
  BY DEF ArCoreMoves, SpawnerInv
<1>6. PinsOK'
  <2>1. entries[p] \in Entry /\ pins[p] > 0
    BY <1>4, <1>5 DEF PinsOK
  <2>2. [entries[p] EXCEPT !.pin = s] \in Entry
    BY <2>1 DEF Entry, Pins
  <2>3. entries' = [entries EXCEPT ![p] = [entries[p] EXCEPT !.pin = s]]
    BY <1>4
  <2>4. DOMAIN entries' = DOMAIN entries
    BY <2>3
  <2>5. /\ entries'[p] = [entries[p] EXCEPT !.pin = s]
        /\ \A q \in Loaded : q # p => entries'[q] = entries[q]
    BY <1>5, <2>3 DEF Loaded
  <2> QED BY <1>1, <1>5, <2>1, <2>2, <2>4, <2>5 DEF PinsOK, Loaded
<1> QED BY <1>1, <1>2, <1>3, <1>6 DEF SpawnerInv

\* Every step of the spawner keeps its invariant.
LEMMA SpawnerInvNext == SpawnerInv /\ SpawnerNext => SpawnerInv'
<1> SUFFICES ASSUME SpawnerInv, SpawnerNext PROVE SpawnerInv'
  OBVIOUS
<1>1. CASE World(SessionRuns) \/ World(TrackingChanges)
  BY <1>1, ManagerTypes, SpawnerRests DEF World, SpawnerInv
<1>2. CASE ManagerTick
  BY <1>2, ManagerTypes, SpawnerRests, FoundTypes DEF ManagerTick, SpawnerInv
<1> QED BY <1>1, <1>2, StartScanTypes, ButtonTypes, FailTypes, AnswerTypes, WaitOrBindTypes, TickTypes, ArCoreTypes
        DEF SpawnerNext

-----------------------------------------------------------------------------
(* The types of the rest *)

\* The screen beside HudInv.
HudRest == open \in BOOLEAN /\ mapOpen \in BOOLEAN /\ settled \in BOOLEAN /\ scanBefore \in BOOLEAN

\* The screen is a user of the manager's session.
LEMMA HudManagerTypes == ManagerTypeOK /\ HudNext => ManagerTypeOK'
<1> SUFFICES ASSUME ManagerTypeOK, HudNext PROVE ManagerTypeOK'
  OBVIOUS
<1>1. UNCHANGED managerVars => ManagerTypeOK'
  BY DEF managerVars, ManagerTypeOK
<1>2. CASE \/ \E t \in {"Scan", "Docent"} : GoTo(t)
           \/ LeaveScan \/ HandleNavTabClicked \/ HudTick \/ GraphShows
           \/ \E o \in BOOLEAN : ApplyOpenState(o)
           \/ \E chosen \in BOOLEAN : FullMapCloses(chosen)
           \/ HandleNavClosedByAutoEnd \/ FlipFails
  BY <1>1, <1>2 DEF GoTo, LeaveScan, HandleNavTabClicked, HudTick, GraphShows, ApplyOpenState, FullMapCloses,
                    HandleNavClosedByAutoEnd, FlipFails, Elsewhere
<1>3. CASE GraphScans \/ HandleCloseARClicked \/ HandleReferenceRescan
  BY <1>3, ManagerTypes DEF GraphScans, HandleCloseARClicked, HandleReferenceRescan
<1>4. CASE HandleMarkerFound
  BY <1>4, ManagerTypes DEF HandleMarkerFound
<1>5. CASE HandleCameraFlipClicked
  <2>1. (front /\ ~front /\ scanning) \in BOOLEAN
    OBVIOUS
  <2> QED BY <1>5, <2>1, ManagerTypes DEF HandleCameraFlipClicked
<1>6. CASE (SessionRuns \/ TrackingChanges \/ QuietTick) /\ UNCHANGED hudVars
  BY <1>6, ManagerTypes
<1> QED BY <1>2, <1>3, <1>4, <1>5, <1>6 DEF HudNext

\* The rest of the screen keeps its types.
LEMMA HudRestNext == ManagerTypeOK /\ HudRest /\ HudNext => HudRest'
<1> SUFFICES ASSUME ManagerTypeOK, HudRest, HudNext PROVE HudRest'
  OBVIOUS
<1>1. /\ open' = open \/ open' = (tab' = "Docent") \/ open' \in BOOLEAN
      /\ mapOpen' \in {mapOpen, TRUE, FALSE}
      /\ settled' \in {settled, TRUE, FALSE, mapOpen' = mapOpen}
      /\ scanBefore' \in {scanBefore, FALSE, scanning}
  <2>1. \A t, sees, guides : ApplyHudTab(t, sees, guides) => open' = (tab' = "Docent")
    BY DEF ApplyHudTab
  <2>2. Elsewhere => scanBefore' = scanBefore
    BY DEF Elsewhere
  <2>3. CASE \/ \E t \in {"Scan", "Docent"} : GoTo(t)
             \/ LeaveScan \/ HudTick \/ HandleNavClosedByAutoEnd \/ HandleNavTabClicked
             \/ \E chosen \in BOOLEAN : FullMapCloses(chosen)
    BY <2>1, <2>2, <2>3, Zenon
    DEF GoTo, LeaveScan, HandleNavTabClicked, HudTick, FullMapCloses, HandleNavClosedByAutoEnd, SetHudTab
  <2>4. CASE GraphShows \/ \E o \in BOOLEAN : ApplyOpenState(o)
    BY <2>2, <2>4 DEF GraphShows, ApplyOpenState
  <2>5. CASE GraphScans \/ HandleCloseARClicked \/ HandleMarkerFound
    BY <2>5 DEF GraphScans, HandleCloseARClicked, HandleMarkerFound, Rest, hudVars, shownVars
  <2>6. CASE HandleReferenceRescan
    BY <2>1, <2>6, Zenon DEF HandleReferenceRescan, SetHudTab
  <2>7. CASE HandleCameraFlipClicked \/ FlipFails
    BY <2>7 DEF HandleCameraFlipClicked, FlipFails
  <2>8. CASE UNCHANGED hudVars
    BY <2>8 DEF hudVars, shownVars
  <2> QED BY <2>3, <2>4, <2>5, <2>6, <2>7, <2>8, Zenon DEF HudNext
<1> QED BY <1>1 DEF HudRest, ManagerTypeOK

\* So do the marker images.
LEMMA ImagesTypes == ImagesTypeOK /\ ImagesInv' /\ ImagesNext => ImagesTypeOK'
<1> SUFFICES ASSUME ImagesTypeOK, ImagesInv', ImagesNext PROVE ImagesTypeOK'
  OBVIOUS
<1> USE DEF ImagesNext, SessionStarts, SessionStops, PluginDrops, SecondPasses, EnableCloudAnchorMode,
            TickKeepMarkerImages, configVars
<1>1. session' \in {"stopped", "rear", "front"}
  BY DEF ImagesTypeOK
<1>2. /\ dropping' \in BOOLEAN /\ cloudOn' \in BOOLEAN /\ wasRunning' \in BOOLEAN /\ due' \in BOOLEAN
      /\ missed' \in BOOLEAN
  <2>1. /\ dropping \in BOOLEAN /\ cloudOn \in BOOLEAN /\ wasRunning \in BOOLEAN /\ due \in BOOLEAN
        /\ missed \in BOOLEAN
    BY DEF ImagesTypeOK
  <2> QED BY <2>1
<1>3. loaded' \in BOOLEAN /\ failed' \in BOOLEAN
  <2>1. loaded \in BOOLEAN /\ failed \in BOOLEAN
    BY DEF ImagesTypeOK
  <2> QED BY <2>1 DEF Restores
<1>4. checksLeft' \in 0..2
  BY DEF ImagesInv
<1> QED BY <1>1, <1>2, <1>3, <1>4 DEF ImagesTypeOK

\* What the reveals share.
RevealRest == hint \in States /\ inSight \subseteq Exhibits /\ busy \in BOOLEAN

\* And what the reveals share.
LEMMA RevealRestNext == RevealInv /\ RevealInv' /\ RevealRest /\ RevealNext => RevealRest'
<1> SUFFICES ASSUME RevealInv, RevealInv', RevealRest, RevealNext PROVE RevealRest'
  OBVIOUS
<1>1. "none" \in States /\ "Ready" \in States /\ "Throwing" \in States
  BY DEF States
<1>2. ASSUME NEW e \in Exhibits, Spawn(e) \/ Destroy(e) PROVE RevealRest'
  BY <1>1, <1>2 DEF Spawn, Destroy, RevealRest
<1>3. ASSUME NEW e \in Exhibits, TickComponent(e) PROVE RevealRest'
  <2>1. PICK holds \in BOOLEAN, dt \in 1..2 : Moves(e, Ticked(reveal[e], holds, dt))
    BY <1>3 DEF TickComponent
  <2> DEFINE s == Ticked(reveal[e], holds, dt)
  <2>2. reveal' = [reveal EXCEPT ![e] = s] /\ hint' = Hint(reveal[e], s)
    BY <2>1 DEF Moves
  <2> HIDE DEF s
  <2>3. s.state \in States
    BY <2>2 DEF RevealInv, RevealShape, Component
  <2>4. hint' \in States
    BY <1>1, <2>2, <2>3 DEF Hint, RevealRest
  <2> QED BY <1>3, <2>4 DEF TickComponent, RevealRest
<1>4. ASSUME NEW b \in BOOLEAN, Press(b) \/ Release(b) PROVE RevealRest'
  BY <1>1, <1>4 DEF Press, Release, RevealRest
<1>5. CASE SecondFinger \/ Backgrounded \/ LookAround \/ OpenOrClosePanel
  BY <1>1, <1>5 DEF SecondFinger, Backgrounded, LookAround, OpenOrClosePanel, RevealRest
<1> QED BY <1>2, <1>3, <1>4, <1>5 DEF RevealNext

-----------------------------------------------------------------------------
(* The theorems *)

\* The manager's session has the spawner over it, or the screen.
SessionInv ==
    /\ side = "screen" => marker = NoMarker
    /\ side # "screen" => ScanInv /\ ~recognized

IInv == SessionInv /\ HudInv /\ ImagesInv /\ RevealInv /\ CardInv

\* A step of one part leaves the invariants of the others alone.
LEMMA IInvNext == IInv /\ [Next]_vars => IInv'
<1> SUFFICES ASSUME IInv, [Next]_vars PROVE IInv'
  OBVIOUS
<1>1. UNCHANGED <<side, managerVars, spawnerVars, hudVars>> => SessionInv' /\ HudInv'
  BY ScanInvDepends, HudInvDepends
     DEF IInv, SessionInv, managerVars, spawnerVars, fetchVars, exhibitVars, scanState, hudVars, shownVars
<1>2. UNCHANGED imageVars => ImagesInv'
  BY DEF IInv, imageVars, configVars, ImagesInv, MarkerImagesComeBack
<1>3. UNCHANGED revealVars => RevealInv'
  BY DEF IInv, revealVars, RevealInv, RevealShape
<1>6. UNCHANGED cardVars => CardInv'
  BY DEF IInv, cardVars, CardInv, CardReturns
<1>4. CASE side = "scan" /\ SpawnerNext /\ UNCHANGED <<side, imageVars, revealVars, hudVars, cardVars>>
  <2>1. ScanInv /\ ~recognized
    BY <1>4 DEF IInv, SessionInv
  <2>2. SessionInv'
    BY <1>4, <2>1, ScanInvSpawner DEF SessionInv, hudVars, shownVars
  <2>3. HudInv'
    BY <1>4, <2>1 DEF IInv, HudInv, hudVars, shownVars
  <2> QED BY <1>2, <1>3, <1>4, <1>6, <2>2, <2>3 DEF IInv
<1>5. CASE side = "screen" /\ HudNext /\ UNCHANGED <<side, spawnerVars, imageVars, revealVars, cardVars>>
  <2>1. SessionInv'
    BY <1>5 DEF IInv, SessionInv, spawnerVars, exhibitVars
  <2> QED BY <1>2, <1>3, <1>5, <1>6, <2>1, HudInvNext DEF IInv
<1> QED
  BY <1>1, <1>2, <1>3, <1>4, <1>5, <1>6, ImagesInvNext, RevealInvNext, CardInvNext DEF IInv, Next, vars

\* What the spawner, the screen, the image tracker and the reveals each keep
\* and the card of a dinosaur (ScanInv, HudInv, ImagesInv, RevealInv, CardInv) holds in every reachable state.
THEOREM IInvHolds == Spec => []IInv
<1>1. Init => IInv
  <2>1. Init => SessionInv
    BY ScanInvInit DEF Init, SessionInv, SpawnerInit, HudInit
  <2> QED BY <2>1, HudInvInit, ImagesInvInit, RevealInvInit, CardInvInit DEF Init, IInv
<1> QED BY <1>1, IInvNext, PTL DEF Spec

\* The manager's overlay never stands beside an exhibit of the spawner for a
\* marker (HandleMarkerFound), for any markers, servers and number of scans.
THEOREM OneDinosaurForTheMarker == Spec => []OneExhibitForTheMarker
<1>1. IInv => OneExhibitForTheMarker
  BY DEF IInv, SessionInv, ScanInv, OneExhibitForTheMarker
<1> QED BY <1>1, IInvHolds, PTL

\* After the looks a start is owed, a session of the rear camera has its images
\* (TickKeepMarkerImages), however often sessions stop and cameras turn, unless
\* no tick saw it start anew or the last look failed to put them back.
THEOREM ImagesComeBack == Spec => []MarkerImagesComeBack
<1>1. IInv => MarkerImagesComeBack
  BY DEF IInv, ImagesInv
<1> QED BY <1>1, IInvHolds, PTL

\* What the widget takes for recognised stands there, and a tab that has been
\* shown is all there is on the screen (ApplyHudTab), whatever the graph does; and
\* a dinosaur's card is in its skin, with its texts, leaves nothing behind and comes
\* back from the chat (ShowFor, HideCard), for any dinosaurs and tabs.
THEOREM ScreenIsRight == Spec => []ScreensAreRight
<1>1. IInv => HudIsRight
  BY DEF IInv, HudInv, HudIsRight, RecognisedIsThere, OneTabOnScreen
<1>2. IInv => CardIsRight
  BY CardInvRight DEF IInv
<1>3. IInv => ScreensAreRight
  BY <1>1, <1>2 DEF ScreensAreRight
<1> QED BY <1>3, IInvHolds, PTL

\* However a reveal ends, the dinosaur stands there (Cleanup), for any number of
\* exhibits and any times of the profile.
THEOREM RevealLeavesTheDinosaur == Spec => []EndedRevealShowsTheDinosaur
<1>1. IInv => EndedRevealShowsTheDinosaur
  <2> SUFFICES ASSUME IInv, NEW e \in Exhibits, reveal[e].state \in Ended
               PROVE  /\ model[e] = [shown |-> TRUE, locked |-> FALSE, clickable |-> TRUE, rising |-> TRUE]
                      /\ reveal[e].props = {}
    BY DEF EndedRevealShowsTheDinosaur
  <2>1. model[e] \in Model /\ Fits(reveal[e], model[e]) /\ reveal[e].state # "none"
    BY DEF IInv, RevealInv, RevealShape, Ended
  <2> QED BY <2>1 DEF Model, Fits
<1> QED BY <1>1, IInvHolds, PTL

\* What the parts keep beside IInv, for their types.
TypesInv == side \in Sides /\ SpawnerInv /\ HudRest /\ ImagesTypeOK /\ RevealRest

\* A step of one part leaves the types of the others alone.
LEMMA TypesInvNext == IInv /\ IInv' /\ TypesInv /\ [Next]_vars => TypesInv'
<1> SUFFICES ASSUME IInv, IInv', TypesInv, [Next]_vars PROVE TypesInv'
  OBVIOUS
<1>1. UNCHANGED managerVars => ManagerTypeOK'
  BY DEF TypesInv, SpawnerInv, managerVars, ManagerTypeOK
<1>2. ManagerTypeOK' /\ UNCHANGED spawnerVars => SpawnerInv'
  BY SpawnerRests DEF TypesInv
<1>3. UNCHANGED hudVars => HudRest'
  BY DEF TypesInv, HudRest, hudVars, shownVars
<1>4. UNCHANGED imageVars => ImagesTypeOK'
  BY DEF TypesInv, ImagesTypeOK, imageVars, configVars
<1>5. UNCHANGED revealVars => RevealRest'
  BY DEF TypesInv, RevealRest, revealVars
<1>6. ManagerTypeOK /\ RevealInv /\ RevealInv' /\ ImagesInv'
  BY DEF TypesInv, SpawnerInv, IInv
<1>7. CASE side = "scan" /\ SpawnerNext /\ UNCHANGED <<side, imageVars, revealVars, hudVars, cardVars>>
  <2>1. SpawnerInv'
    BY <1>7, SpawnerInvNext DEF TypesInv
  <2> QED BY <1>3, <1>4, <1>5, <1>7, <2>1 DEF TypesInv
<1>8. CASE side = "images" /\ ImagesNext /\ UNCHANGED <<side, managerVars, spawnerVars, revealVars, hudVars, cardVars>>
  BY <1>1, <1>2, <1>3, <1>5, <1>6, <1>8, ImagesTypes DEF TypesInv
<1>9. CASE side = "reveal" /\ RevealNext /\ UNCHANGED <<side, managerVars, spawnerVars, imageVars, hudVars, cardVars>>
  BY <1>1, <1>2, <1>3, <1>4, <1>6, <1>9, RevealRestNext DEF TypesInv
<1>10. CASE side = "screen" /\ HudNext /\ UNCHANGED <<side, spawnerVars, imageVars, revealVars, cardVars>>
  BY <1>2, <1>4, <1>5, <1>6, <1>10, HudManagerTypes, HudRestNext DEF TypesInv
<1>11. CASE side = "card" /\ CardNext /\ UNCHANGED <<side, managerVars, spawnerVars, imageVars, revealVars, hudVars>>
  BY <1>1, <1>2, <1>3, <1>4, <1>5, <1>11 DEF TypesInv
<1>12. CASE UNCHANGED vars
  BY <1>1, <1>2, <1>3, <1>4, <1>5, <1>12 DEF TypesInv, vars
<1> QED BY <1>7, <1>8, <1>9, <1>10, <1>11, <1>12, Zenon DEF Next

\* The state of the five parts is always of its type, for any exhibits, markers,
\* addresses and scans: a pin is not released twice, and of the GETs that nobody
\* waits for any more there is one for each scan at most (UNavCloudAssetSpawner).
THEOREM ExhibitsKeepTheirTypes == Spec => []TypeOK
<1>1. Init => TypesInv
  <2> SUFFICES ASSUME Init PROVE TypesInv
    OBVIOUS
  <2>1. SpawnerInv
    BY SpawnerStart DEF Init
  <2>2. HudRest
    BY DEF Init, HudInit, HudRest
  <2>3. ImagesTypeOK
    <3>1. session = "stopped" /\ checksLeft = 0
      BY DEF Init, ImagesInit
    <3>2. /\ loaded \in BOOLEAN /\ dropping \in BOOLEAN /\ cloudOn \in BOOLEAN /\ wasRunning \in BOOLEAN
          /\ due \in BOOLEAN /\ missed \in BOOLEAN /\ failed \in BOOLEAN
      BY Zenon DEF Init, ImagesInit
    <3> QED BY <3>1, <3>2 DEF ImagesTypeOK
  <2>4. RevealRest
    BY DEF Init, RevealInit, RevealRest, States
  <2> QED BY <2>1, <2>2, <2>3, <2>4 DEF Init, TypesInv
<1>2. IInv /\ TypesInv => TypeOK
  <2> SUFFICES ASSUME IInv, TypesInv PROVE TypeOK
    OBVIOUS
  <2>1. SpawnerTypeOK /\ ManagerTypeOK
    BY SpawnerTypes DEF TypesInv, SpawnerInv
  <2>2. RevealTypeOK
    <3>1. Component = Reveal
      BY DEF Component, Reveal, Elapses, Sequences, Losses
    <3> QED BY <3>1 DEF IInv, TypesInv, RevealInv, RevealShape, RevealRest, RevealTypeOK
  <2>3. HudTypeOK
    BY <2>1 DEF IInv, TypesInv, HudInv, HudRest, Panel, HudTypeOK
  <2>4. CardTypeOK
    BY CardInvRight DEF IInv
  <2> QED BY <2>1, <2>2, <2>3, <2>4 DEF TypesInv, TypeOK
<1> QED BY <1>1, <1>2, TypesInvNext, IInvHolds, PTL DEF Spec
=============================================================================
