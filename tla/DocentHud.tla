------------------------------- MODULE DocentHud -------------------------------
(***************************************************************************)
(* The screen over the camera (UDocentChatWidget): three tabs that share   *)
(* it, the buttons of the scan and of the camera, and what the widget      *)
(* hears from the AR session's owner and from the minimap.  The widget's   *)
(* own event graph in the editor touches the same panels and starts and    *)
(* stops scans whenever it likes, so a tick shows the tab once more.       *)
(*                                                                         *)
(* No spawner replaces the manager's overlay here.  bFrontCamera of the    *)
(* widget is the manager's, and bResumeScanAfterFlip is set and used up    *)
(* within one click.  The hint, the chip, the toast, the screenshot, the   *)
(* keyboard and its focus are left out.                                    *)
(***************************************************************************)
EXTENDS ARTrackingManager

VARIABLES
    tab,          \* ActiveTab
    open,         \* bIsOpen: the chat covers the screen
    recognized,   \* bReferenceRecognized
    guiding,      \* bNavigationGuidanceActive
    mapOpen,      \* whether the minimap's full map is open
    panel,        \* ScanPanel, NavPanel, BottomBar and Btn_CloseAR
    settled,      \* history: nothing has changed since the tab was last shown
    scanBefore    \* history: the scan was on when the camera turned to the front

shownVars == <<tab, open, recognized, guiding, mapOpen, panel, settled>>
hudVars == <<shownVars, scanBefore>>

Tabs == {"Scan", "Nav", "Docent"}

HudTypeOK ==
    /\ ManagerTypeOK
    /\ tab \in Tabs /\ open \in BOOLEAN /\ recognized \in BOOLEAN
    /\ guiding \in BOOLEAN /\ mapOpen \in BOOLEAN
    /\ panel \in [scan : BOOLEAN, nav : {"visible", "hidden", "gone"}, bar : BOOLEAN, close : BOOLEAN]
    /\ settled \in BOOLEAN /\ scanBefore \in BOOLEAN

\* NativeConstruct, of a screen with a button that opens the chat.
HudInit ==
    /\ tab = "Scan" /\ open = FALSE /\ recognized = FALSE /\ guiding = FALSE /\ mapOpen = FALSE
    /\ panel = [scan |-> TRUE, nav |-> "gone", bar |-> TRUE, close |-> FALSE]
    /\ settled = TRUE /\ scanBefore = FALSE

-----------------------------------------------------------------------------
(* The tabs *)

NavPanel(t, guides) ==
    CASE t = "Scan"   -> IF guides THEN "visible" ELSE "gone"
      [] t = "Nav"    -> IF mapOpen THEN "hidden" ELSE "visible"
      [] t = "Docent" -> "gone"

\* On the tab of the chat the bar goes when the chat opens, not at every tick.
BottomBar(t) == IF t = "Docent" THEN open /\ panel.bar ELSE t = "Scan"

\* ApplyHudTab, of tab t and what the widget then holds.
ApplyHudTab(t, sees, guides) ==
    /\ tab' = t /\ open' = (t = "Docent") /\ recognized' = sees /\ guiding' = guides
    /\ panel' = [scan |-> t = "Scan", nav |-> NavPanel(t, guides),
                 bar |-> BottomBar(t), close |-> t = "Scan" /\ sees]

\* SetHudTab, where nothing follows that the tab depends on.
SetHudTab(t, sees, guides) == ApplyHudTab(t, sees, guides) /\ settled' = TRUE

Elsewhere == UNCHANGED <<managerVars, scanBefore>>

\* The buttons of the scan and of the chat, and the way back (HideChat, Android's).
GoTo(t) == SetHudTab(t, recognized, guiding) /\ UNCHANGED mapOpen /\ Elsewhere

\* ScanCloseButton: what was recognised is forgotten as well.
LeaveScan == SetHudTab("Scan", FALSE, guiding) /\ UNCHANGED mapOpen /\ Elsewhere

\* NabButton: the tab is shown, and then the full map opens if it can.
HandleNavTabClicked ==
    /\ ApplyHudTab("Nav", FALSE, guiding)
    /\ mapOpen' \in {mapOpen, TRUE} /\ settled' = (mapOpen' = mapOpen)
    /\ Elsewhere

\* ToggleChat, and HideChat on another tab: the chat and the bar, not the tab.
ApplyOpenState(o) ==
    /\ o = ~open \/ (~o /\ tab # "Docent")
    /\ open' = o /\ panel' = [panel EXCEPT !.bar = ~o] /\ settled' = FALSE
    /\ UNCHANGED <<tab, recognized, guiding, mapOpen>> /\ Elsewhere

\* The full map: a destination is chosen, or the user goes back.
FullMapCloses(chosen) ==
    /\ mapOpen /\ mapOpen' = FALSE
    /\ SetHudTab("Scan", recognized, guiding \/ chosen) /\ Elsewhere

\* HandleNavClosedByAutoEnd: the minimap ends the guidance, map or no map.
HandleNavClosedByAutoEnd ==
    /\ guiding /\ SetHudTab("Scan", recognized, FALSE)
    /\ UNCHANGED mapOpen /\ Elsewhere

\* NativeTick.
HudTick == GoTo(tab)

\* The event graph of the widget.
GraphShows ==
    /\ \E scan \in BOOLEAN, nav \in {"visible", "gone"} :
            panel' = [panel EXCEPT !.scan = scan, !.nav = nav]
    /\ settled' = FALSE
    /\ UNCHANGED <<tab, open, recognized, guiding, mapOpen>> /\ Elsewhere

-----------------------------------------------------------------------------
(* The scan *)

\* Fault: a scan that starts does not forget what the last one recognised.
ScanToldOnly == panel' = [panel EXCEPT !.close = FALSE] /\ UNCHANGED recognized

\* HandleScanStateChanged(TRUE).
ScanTold == panel' = [panel EXCEPT !.close = FALSE] /\ recognized' = FALSE

Rest == UNCHANGED <<tab, open, guiding, mapOpen, scanBefore>>

\* Scans started and stopped by the graph; HandleScanStateChanged(FALSE) keeps
\* what the widget holds.
GraphScans ==
    \/ /\ ScanStarts
       /\ IF scanning THEN UNCHANGED <<recognized, panel>> ELSE ScanTold
       /\ settled' = FALSE /\ Rest
    \/ scanning /\ ScanStops /\ UNCHANGED hudVars

\* HandleCloseARClicked: the dinosaur goes, and the scan starts again.
HandleCloseARClicked ==
    /\ panel.close /\ ScanStarts
    /\ recognized' = FALSE /\ panel' = [panel EXCEPT !.close = FALSE]
    /\ settled' = FALSE /\ Rest

\* HandleReferenceCapture, where the shutter means a scan (HandleReferenceRescan).
HandleReferenceRescan ==
    /\ ~scanning /\ ~recognized /\ ~front
    /\ SetHudTab("Scan", FALSE, guiding) /\ ScanStarts
    /\ UNCHANGED <<mapOpen, scanBefore>>

\* HandleMarkerFound, in the manager's tick; the tab is shown again by the next.
HandleMarkerFound ==
    /\ \E i \in Images : RecognisingTick(i, TRUE)
    /\ recognized' = TRUE /\ panel' = [panel EXCEPT !.close = TRUE]
    /\ settled' = FALSE /\ Rest

\* HandleCameraFlipClicked, and HandleCameraFacingChanged that the turn calls:
\* the scan starts again if the camera is back and the click noted one that the
\* turn ended.
HandleCameraFlipClicked ==
    LET bResumeScanAfterFlip == ~front /\ scanning IN
    /\ CameraTurns(front /\ bResumeScanAfterFlip)
    /\ recognized' = FALSE /\ settled' = FALSE
    /\ scanBefore' = IF front THEN FALSE ELSE scanning
    /\ UNCHANGED <<tab, open, guiding, mapOpen, panel>>

\* The front camera has no configuration: nothing turns.
FlipFails ==
    /\ ~front /\ recognized' = FALSE /\ settled' = FALSE
    /\ UNCHANGED <<managerVars, tab, open, guiding, mapOpen, panel, scanBefore>>

HudNext ==
    \/ \E t \in {"Scan", "Docent"} : GoTo(t)
    \/ LeaveScan \/ HandleNavTabClicked \/ HudTick \/ GraphShows
    \/ \E o \in BOOLEAN : ApplyOpenState(o)
    \/ \E chosen \in BOOLEAN : FullMapCloses(chosen)
    \/ HandleNavClosedByAutoEnd
    \/ GraphScans \/ HandleCloseARClicked \/ HandleReferenceRescan \/ HandleMarkerFound
    \/ HandleCameraFlipClicked \/ FlipFails
    \/ (SessionRuns \/ TrackingChanges \/ QuietTick) /\ UNCHANGED hudVars

-----------------------------------------------------------------------------
(* Properties *)

\* What the widget takes for recognised stands there: whoever ends or restarts
\* a scan, the camera's turn included, has the widget forget it
\* (HandleScanStateChanged, HandleCameraFlipClicked).
RecognisedIsThere == recognized => overlay # NoImage

\* Once a tab has been shown and nothing has touched the screen since, it is all
\* there is: the scan with its bar, the navigation or the chat, the navigation's
\* panel beside the scan only while it guides, and the button that takes the
\* dinosaur away only where one stands (ApplyHudTab).
OneTabOnScreen ==
    settled =>
        /\ panel.scan <=> tab = "Scan"
        /\ open <=> tab = "Docent"
        /\ panel.bar <=> panel.scan
        /\ panel.nav = "visible" => ~open /\ (panel.scan => guiding)
        /\ panel.close => panel.scan /\ overlay # NoImage

\* The screen tells the truth about the AR session under it.
HudIsRight == RecognisedIsThere /\ OneTabOnScreen

\* A scan that was on when the camera turned to the front is on again when the
\* camera comes back (the comment in HandleCameraFlipClicked).
ScanResumesAfterFlip == [][front /\ ~front' /\ scanBefore => scanning']_hudVars
===============================================================================
