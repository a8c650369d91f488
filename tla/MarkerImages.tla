----------------------------- MODULE MarkerImages -----------------------------
(***************************************************************************)
(* The marker images of the AR session (NavArCoreConfig).  Turning on the  *)
(* mode of cloud anchors makes the ARCore plugin drop the image database   *)
(* of the session, at once and again at each start of a session.  The      *)
(* spawner's tick puts it back: when it sees a session running that was    *)
(* not, and once more a second later, not to lean on who runs first.       *)
(*                                                                         *)
(* A session may be stopped and started in one call (the camera's turn,    *)
(* the localizer's safety net), and then no tick need see it stopped.      *)
(* Putting the images back can fail, and a failure counts as a look.  The  *)
(* plugin drops within a second.                                           *)
(***************************************************************************)
EXTENDS Naturals

VARIABLES
    session,       \* "stopped", or the camera of the session that runs
    loaded,        \* ARCore: the session has the images
    dropping,      \* the plugin will drop them
    cloudOn,       \* GArCoreCfgCloudModeOn
    wasRunning,    \* GArCoreCfgWasRunning
    checksLeft,    \* GArCoreCfgChecksLeft
    due,           \* GArCoreCfgNextCheck has come
    missed,        \* history: no tick has seen the stop before the last start
    failed         \* history: the last look did not put the images back

configVars == <<cloudOn, wasRunning, checksLeft, due>>
imageVars == <<session, loaded, dropping, configVars, missed, failed>>

ImagesInit ==
    /\ session = "stopped" /\ loaded = FALSE /\ dropping = FALSE
    /\ cloudOn = FALSE /\ wasRunning = FALSE /\ checksLeft = 0 /\ due = TRUE
    /\ missed = FALSE /\ failed = FALSE

ImagesTypeOK ==
    /\ session \in {"stopped", "rear", "front"}
    /\ {loaded, dropping, cloudOn, wasRunning, due, missed, failed} \subseteq BOOLEAN /\ checksLeft \in 0..2

\* The images of the rear camera's configuration come with the session; that of
\* the front camera has none.
SessionStarts(camera) ==
    /\ session = "stopped" /\ session' = camera /\ loaded' = (camera = "rear")
    /\ dropping' = cloudOn /\ missed' = (cloudOn /\ wasRunning)
    /\ UNCHANGED <<configVars, failed>>

SessionStops ==
    /\ session # "stopped" /\ session' = "stopped"
    /\ loaded' = FALSE /\ dropping' = FALSE
    /\ UNCHANGED <<configVars, missed, failed>>

PluginDrops ==
    /\ dropping /\ dropping' = FALSE /\ loaded' = FALSE
    /\ UNCHANGED <<session, configVars, missed, failed>>

\* A second after a look.  The look that saw a session start is as old as it.
SecondPasses ==
    /\ ~due /\ (dropping => missed) /\ due' = TRUE
    /\ UNCHANGED <<session, loaded, dropping, cloudOn, wasRunning, checksLeft, missed, failed>>

\* ArCoreCfgRestoreImageDatabase, of a session with or without its images:
\* what is there is left alone, the front camera has none to put back, and the
\* session, its database or the configuration may refuse.
Restores(there) ==
    /\ loaded' \in IF there THEN {TRUE} ELSE {session = "rear", FALSE}
    /\ failed' = (session = "rear" /\ ~loaded')

\* EnableCloudAnchorMode, called by the spawner and the resolver in their first
\* tick with a session: the plugin drops the images and they are put back.
EnableCloudAnchorMode ==
    /\ session # "stopped" /\ ~cloudOn
    /\ cloudOn' = TRUE /\ wasRunning' = TRUE /\ Restores(FALSE)
    /\ UNCHANGED <<session, dropping, checksLeft, due, missed>>

Restarted == session # "stopped" /\ ~wasRunning

\* Fault: one look, at the start, is thought to be enough.
OneCheck == IF Restarted THEN 1 ELSE checksLeft

Checks == IF Restarted THEN 2 ELSE checksLeft

\* TickKeepMarkerImages.
TickKeepMarkerImages ==
    /\ cloudOn
    /\ wasRunning' = (session # "stopped")
    /\ IF session # "stopped" /\ Checks > 0 /\ (due \/ Restarted)
       THEN checksLeft' = Checks - 1 /\ due' = FALSE /\ Restores(loaded)
       ELSE UNCHANGED <<checksLeft, due, loaded, failed>>
    /\ UNCHANGED <<session, dropping, cloudOn, missed>>

ImagesNext ==
    \/ \E camera \in {"rear", "front"} : SessionStarts(camera)
    \/ SessionStops \/ PluginDrops \/ SecondPasses
    \/ EnableCloudAnchorMode \/ TickKeepMarkerImages

\* Once the looks that a start is owed are over, a session of the rear camera
\* has its images, whatever the order of the plugin and the ticks, unless no tick
\* saw that it was a new session or the last look could not put them back
\* (TickKeepMarkerImages).
MarkerImagesComeBack ==
    session = "rear" /\ cloudOn /\ wasRunning /\ checksLeft = 0 => loaded \/ missed \/ failed
===============================================================================
