--------------------------- MODULE ARTrackingManager ---------------------------
(***************************************************************************)
(* The owner of the AR session (AARTrackingManager): it scans for printed  *)
(* markers when asked to, stands an overlay on the first one that is known *)
(* and then ends the scan; it turns the camera round by restarting the     *)
(* session.  Listeners are told of every change of the scan and of every   *)
(* marker found, in the call that makes it, so the operators below are the *)
(* manager's part of a step and NavCloudAssetSpawner adds the listener's.  *)
(*                                                                         *)
(* An overlay, its pin and the component between them come and go          *)
(* together.  How it follows the pin within a dead band is left out.       *)
(***************************************************************************)
EXTENDS Naturals, FiniteSets

CONSTANTS
    Images,     \* the printed markers of the session's image database
    Known,      \* those the registry maps to a species
    NoImage     \* no image

ASSUME ImagesAssumption == Known \subseteq Images /\ IsFiniteSet(Images) /\ NoImage \notin Images

VARIABLES
    running,     \* whether the AR session runs
    front,       \* bFrontCamera
    scanning,    \* bIsScanning
    overlay,     \* the image under SpawnedOverlay (bIsAnchored), or NoImage
    phase,       \* ScanPhase
    tracked      \* ARCore: the images it tracks

managerVars == <<running, front, scanning, overlay, phase, tracked>>

Phases == {"Idle", "Searching", "Aiming", "Recognized"}

ManagerTypeOK ==
    /\ running \in BOOLEAN /\ front \in BOOLEAN /\ scanning \in BOOLEAN
    /\ overlay \in Images \union {NoImage} /\ phase \in Phases /\ tracked \subseteq Images

\* BeginPlay without the automatic scan; the permission may come later.
ManagerInit ==
    /\ running = FALSE /\ front = FALSE /\ scanning = FALSE
    /\ overlay = NoImage /\ phase = "Idle" /\ tracked = {}

-----------------------------------------------------------------------------

ClearOverlay == overlay' = NoImage

\* StartARSessionInternal, and ARCore once it has started.
SessionRuns ==
    /\ ~running /\ running' = TRUE
    /\ UNCHANGED <<front, scanning, overlay, phase, tracked>>

\* ARCore finds and loses images: never with the front camera.
TrackingChanges ==
    /\ running /\ ~front
    /\ tracked' \in SUBSET Images \ {tracked}
    /\ UNCHANGED <<running, front, scanning, overlay, phase>>

\* StartScan: ClearOverlay even if the scan is on already.
ScanStarts ==
    /\ ClearOverlay /\ scanning' = TRUE
    /\ UNCHANGED <<running, front, phase, tracked>>

\* StopScan, of a scan that is on.
ScanStops ==
    /\ scanning' = FALSE
    /\ UNCHANGED <<running, front, overlay, phase, tracked>>

\* ToggleCameraFacing: no scan, no overlay, and another session; a listener it
\* tells may start the scan again.
CameraTurns(again) ==
    /\ running
    /\ scanning' = again /\ ClearOverlay
    /\ running' = FALSE /\ front' = ~front /\ tracked' = {}
    /\ UNCHANGED phase

\* CheckForTrackedImages takes the first tracked image the registry knows; an
\* unknown one is skipped, for it may belong to the navigation.
Recognisable == IF scanning /\ overlay = NoImage THEN tracked \intersect Known ELSE {}

\* UpdateScanPhase, at the end of a tick.
PhaseOf(scan, anchored) ==
    CASE anchored -> "Recognized"
      [] ~anchored /\ scan -> IF tracked = {} THEN "Searching" ELSE "Aiming"
      [] OTHER -> "Idle"

\* Tick, when nothing is recognised.
QuietTick ==
    /\ Recognisable = {}
    /\ phase' = PhaseOf(scanning, overlay # NoImage)
    /\ UNCHANGED <<running, front, scanning, overlay, tracked>>

\* Tick, when image i is recognised and the listeners of OnMarkerFound leave the
\* overlay or clear it.
RecognisingTick(i, stays) ==
    /\ i \in Recognisable
    /\ overlay' = IF stays THEN i ELSE NoImage
    /\ scanning' = FALSE
    /\ phase' = PhaseOf(FALSE, stays)
    /\ UNCHANGED <<running, front, tracked>>
===============================================================================
