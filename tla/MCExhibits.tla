------------------------------ MODULE MCExhibits ------------------------------
(***************************************************************************)
(* An exhibit from the scan to the end of its opening, in five parts that   *)
(* touch only through what each leaves to its environment: a behaviour is   *)
(* one of them, the rest at rest.  The manager's session is part of two.    *)
(***************************************************************************)
EXTENDS NavCloudAssetSpawner, MarkerImages, TimeReveal, DocentHud, DinoInfoCard

VARIABLE side

\* The dinosaurs of the cards are numbers, and have as many tabs.
MCTabsOf == [d \in Dinos |-> d]

Sides == {"scan", "images", "reveal", "screen", "card"}
vars == <<side, managerVars, spawnerVars, imageVars, revealVars, hudVars, cardVars>>

Init == side \in Sides /\ SpawnerInit /\ ImagesInit /\ RevealInit /\ HudInit /\ CardInit

Scan(A) == side = "scan" /\ A /\ UNCHANGED <<side, imageVars, revealVars, hudVars, cardVars>>
Show(A) == side = "reveal" /\ A /\ UNCHANGED <<side, managerVars, spawnerVars, imageVars, hudVars, cardVars>>

Next ==
    \/ side = "scan" /\ SpawnerNext /\ UNCHANGED <<side, imageVars, revealVars, hudVars, cardVars>>
    \/ side = "images" /\ ImagesNext /\ UNCHANGED <<side, managerVars, spawnerVars, revealVars, hudVars, cardVars>>
    \/ side = "reveal" /\ RevealNext /\ UNCHANGED <<side, managerVars, spawnerVars, imageVars, hudVars, cardVars>>
    \/ side = "screen" /\ HudNext /\ UNCHANGED <<side, spawnerVars, imageVars, revealVars, cardVars>>
    \/ side = "card" /\ CardNext /\ UNCHANGED <<side, managerVars, spawnerVars, imageVars, revealVars, hudVars>>

\* The app ticks, a request ends within its time, and the last of the addresses
\* answers with its anchors when it is asked again and again.
Fairness ==
    /\ WF_vars(Scan(Tick \/ TryBindTrackingManager)) /\ WF_vars(Scan(WaitEnds))
    /\ WF_vars(Scan(\E a \in Addresses : FetchFails(a) \/ \E listed \in SUBSET Assets : AnswerComes(a, listed)))
    /\ SF_vars(Scan(AnswerComes(Servers - 1, Assets)))
    /\ \A e \in Exhibits : WF_vars(Show(TickComponent(e)))

Spec == Init /\ [][Next]_vars /\ Fairness

TypeOK ==
    /\ side \in Sides
    /\ SpawnerTypeOK /\ ImagesTypeOK /\ RevealTypeOK /\ HudTypeOK /\ CardTypeOK

\* What lies over the camera, the scan screen and the card of a dinosaur
\* (UDocentChatWidget::ApplyHudTab, UDinoInfoCardWidget::ShowFor and HideCard),
\* shows what it should in any order of taps, tabs, scans and chats.
ScreensAreRight == HudIsRight /\ CardIsRight
===============================================================================
