------------------------- MODULE NavCloudAssetSpawner -------------------------
(***************************************************************************)
(* The spawner of exhibits (UNavCloudAssetSpawner).  While a scan is on it *)
(* fetches the list of asset anchors, resolves each of them through ARCore *)
(* and stands an exhibit on what was found; a marker in sight triggers one *)
(* exhibit in the same way, and takes the place of the manager's overlay.  *)
(*                                                                         *)
(* A tick runs after the manager's, on the game thread; the answers of the *)
(* server come between ticks.  Where an exhibit stands and with which      *)
(* offset, the toasts and the loading of the assets are left out, but for  *)
(* whether there is a class to spawn at all.                               *)
(***************************************************************************)
EXTENDS ARTrackingManager

CONSTANTS
    Assets,         \* the points of the map whose label makes them assets
    Servers,        \* number of addresses to try (ServerCandidates), from 0
    MaxAttempts,    \* kSpawnMaxAttempts
    MaxScans,       \* bound on the scans started
    MaxTurns        \* bound on the turns of the camera

ASSUME SpawnerAssumption ==
    /\ IsFiniteSet(Assets) /\ Servers \in Nat \ {0}
    /\ MaxAttempts \in Nat \ {0} /\ MaxScans \in Nat /\ MaxTurns \in Nat

VARIABLES
    bound,      \* the delegates are bound (TrackingManager)
    armed,      \* bScanArmed
    inFlight,   \* bFetchInFlight
    waiting,    \* NextFetchTime has not come
    server,     \* ServerCandidateIndex
    requests,   \* how many GETs each address has not answered
    entries,    \* Entries, by PointNo
    marker,     \* the one of MarkerEntries
    pins,       \* ARCore: for each point, the cloud pins made and not released
    spawnable,  \* whether there is a class of actor to spawn
    scans, turns

fetchVars == <<bound, armed, inFlight, waiting, server, requests>>
exhibitVars == <<entries, marker, pins>>
spawnerVars == <<fetchVars, exhibitVars, spawnable, scans, turns>>
allVars == <<managerVars, spawnerVars>>

Pins == {"none", "busy", "error", "hidden", "seen"}
Entry == [pin : Pins, attempts : 0..MaxAttempts + 2, actor : BOOLEAN, gaveUp : BOOLEAN]
Fresh == [pin |-> "none", attempts |-> 0, actor |-> FALSE, gaveUp |-> FALSE]
NoMarker == [image |-> NoImage, actor |-> FALSE, gaveUp |-> FALSE]
Loaded == DOMAIN entries
Addresses == 0..Servers - 1

SpawnerInit ==
    /\ ManagerInit
    /\ bound = FALSE /\ armed = FALSE /\ inFlight = FALSE /\ waiting = FALSE
    /\ server = 0 /\ requests = [a \in Addresses |-> 0]
    /\ entries = <<>> /\ marker = NoMarker /\ pins = [p \in Assets |-> 0]
    /\ spawnable \in BOOLEAN /\ scans = 0 /\ turns = 0

-----------------------------------------------------------------------------
(* What the manager tells *)

\* ClearAll: the actors are destroyed and the pins held are released.
Released == [p \in Assets |-> IF p \in Loaded /\ entries[p].pin # "none" THEN pins[p] - 1 ELSE pins[p]]

ClearAll == entries' = <<>> /\ marker' = NoMarker /\ pins' = Released

\* HandleScanStateChanged(TRUE): a new round; what the last one asked the
\* server is forgotten, not cancelled.
HandleScanStarted ==
    /\ ClearAll
    /\ armed' = TRUE /\ inFlight' = FALSE /\ waiting' = FALSE
    /\ UNCHANGED <<bound, server, requests, spawnable>>

\* HandleScanStateChanged(FALSE): nothing new is begun, what is there stays.
HandleScanStopped ==
    /\ armed' = IF bound THEN FALSE ELSE armed
    /\ UNCHANGED <<bound, inFlight, waiting, server, requests, entries, pins, spawnable>>

\* SpawnOrFollow of an entry whose pin is tracked and that has no actor yet.
Spawned(e) == [e EXCEPT !.actor = spawnable, !.gaveUp = ~spawnable]

\* SpawnMarkerTrigger: the image still tracked gets a pin and the exhibit.
Trigger(i) == Spawned([NoMarker EXCEPT !.image = i])

\* The user's scan button.
StartScan ==
    /\ scans < MaxScans /\ scans' = scans + 1
    /\ ScanStarts
    /\ IF ~scanning /\ bound THEN HandleScanStarted
       ELSE UNCHANGED <<fetchVars, exhibitVars, spawnable>>
    /\ UNCHANGED turns

StopScan ==
    /\ scanning /\ ScanStops
    /\ HandleScanStopped /\ UNCHANGED <<marker, scans, turns>>

ToggleCameraFacing ==
    /\ turns < MaxTurns /\ turns' = turns + 1
    /\ CameraTurns(FALSE)
    /\ IF scanning THEN HandleScanStopped
       ELSE UNCHANGED <<fetchVars, entries, pins, spawnable>>
    /\ UNCHANGED <<marker, scans>>

\* Fault: only an exhibit made for this very image replaces the overlay.
ReplacesWhatItMade(m) == marker = NoMarker /\ m # NoMarker

\* HandleMarkerFound: with a marker entry, from before or made here, the
\* manager's overlay is cleared.
Replaces(m) == m # NoMarker

\* The manager's tick with image i in sight: it stands its overlay, ends the
\* scan and tells of both; making the pin of the trigger may fail.
ManagerFinds(i) ==
    /\ \E m \in IF ~bound \/ marker # NoMarker THEN {marker} ELSE {NoMarker, Trigger(i)} :
        /\ RecognisingTick(i, ~(bound /\ Replaces(m)))
        /\ marker' = m
    /\ HandleScanStopped
    /\ UNCHANGED <<scans, turns>>

ManagerTick ==
    \/ \E i \in Images : ManagerFinds(i)
    \/ QuietTick /\ UNCHANGED spawnerVars

-----------------------------------------------------------------------------
(* The list of anchors *)

\* FetchAssetAnchors: not while one is in flight, nor within five seconds.
FetchAssetAnchors ==
    IF inFlight \/ waiting THEN UNCHANGED <<inFlight, waiting, requests>>
    ELSE inFlight' = TRUE /\ waiting' = TRUE /\ requests' = [requests EXCEPT ![server] = @ + 1]

\* StartResolve: ARCore begins, or refuses and the entry has no pin.  What the
\* entry held before is not looked at.
Resolve(e, begins) ==
    [e EXCEPT !.pin = IF begins THEN "busy" ELSE "none",
              !.attempts = IF @ < MaxAttempts + 2 THEN @ + 1 ELSE @]

\* ApplyAnchorsJson: new points are added, then all of them are resolved.
Applied(p) == IF p \in Loaded THEN entries[p] ELSE Fresh

ApplyAnchorsJson(listed, begins) ==
    IF ~armed \/ Loaded \union listed = {} THEN UNCHANGED <<entries, pins>>
    ELSE /\ entries' = [p \in Loaded \union listed |-> Resolve(Applied(p), p \in begins)]
         /\ pins' = [p \in Assets |->
                        IF p \in (Loaded \union listed) \intersect begins THEN pins[p] + 1 ELSE pins[p]]

\* The answer of the server: the anchors it lists, those disabled left out.
AnswerComes(a, listed) ==
    /\ requests[a] > 0 /\ requests' = [requests EXCEPT ![a] = @ - 1]
    /\ inFlight' = FALSE
    /\ \E begins \in SUBSET Assets : ApplyAnchorsJson(listed, begins)
    /\ UNCHANGED <<managerVars, bound, armed, waiting, server, marker, spawnable, scans, turns>>

\* Fault: the addresses are not gone round.
WalkOn == server' = server + 1 /\ waiting' = FALSE

\* OnFetchFailed: the next address at once; back at the first one, after the wait.
NextServer ==
    /\ server' = (server + 1) % Servers
    /\ waiting' = IF server' # 0 THEN FALSE ELSE waiting

\* A request that fails or is not answered in time.
FetchFails(a) ==
    /\ requests[a] > 0 /\ requests' = [requests EXCEPT ![a] = @ - 1]
    /\ inFlight' = FALSE
    /\ NextServer
    /\ UNCHANGED <<managerVars, bound, armed, exhibitVars, spawnable, scans, turns>>

WaitEnds == waiting /\ waiting' = FALSE
            /\ UNCHANGED <<managerVars, bound, armed, inFlight, server, requests, exhibitVars, spawnable, scans, turns>>

-----------------------------------------------------------------------------
(* The tick *)

\* PollResolves, of one entry: late if its attempt lasts longer than twelve
\* seconds, begins if ARCore would start another.
Retry(e, begins) == IF armed /\ e.attempts < MaxAttempts THEN Resolve(e, begins) ELSE e

Polled(e, late, begins) ==
    CASE e.gaveUp \/ e.actor -> e
      [] ~(e.gaveUp \/ e.actor) /\ e.pin = "none" -> IF late THEN Retry(e, begins) ELSE e
      [] ~(e.gaveUp \/ e.actor) /\ e.pin = "seen" -> Spawned(e)
      [] OTHER -> IF e.pin = "error" \/ late
                  THEN Retry([e EXCEPT !.pin = "none", !.gaveUp = e.attempts >= MaxAttempts], begins)
                  ELSE e

\* Pins made and released by polling e: a retry makes a pin and counts as one.
PinsAfter(n, e, polled) ==
    LET dropped == e.pin # "none" /\ (polled.pin = "none" \/ polled.attempts # e.attempts)
        made == polled.attempts # e.attempts /\ polled.pin # "none"
    IN n - (IF dropped THEN 1 ELSE 0) + (IF made THEN 1 ELSE 0)

PollResolves ==
    \E late, begins \in SUBSET Loaded :
        /\ entries' = [p \in Loaded |-> Polled(entries[p], p \in late, p \in begins)]
        /\ pins' = [p \in Assets |->
                        IF p \in Loaded THEN PinsAfter(pins[p], entries[p], entries'[p]) ELSE pins[p]]

\* PollMarkerTriggers and SpawnOrFollow of the marker's entry.
TickMarker ==
    IF marker = NoMarker
    THEN marker' \in {NoMarker} \union (IF armed THEN {Trigger(i) : i \in tracked} ELSE {})
    ELSE marker' = IF marker.image \in tracked /\ ~marker.actor /\ ~marker.gaveUp
                   THEN Spawned(marker) ELSE marker

Tick ==
    /\ running /\ bound
    /\ TickMarker
    /\ IF armed /\ Loaded = {} THEN FetchAssetAnchors /\ UNCHANGED <<entries, pins>>
       ELSE PollResolves /\ UNCHANGED <<inFlight, waiting, requests>>
    /\ UNCHANGED <<managerVars, bound, armed, server, spawnable, scans, turns>>

\* TryBindTrackingManager, in the tick that finds the manager: a scan that is
\* on already is caught up with.
TryBindTrackingManager ==
    /\ running /\ ~bound /\ bound' = TRUE
    /\ armed' = scanning
    /\ UNCHANGED <<managerVars, inFlight, waiting, server, requests, exhibitVars, spawnable, scans, turns>>

\* ARCore moves a resolve on, and finds or loses an anchor it has resolved.
ArCoreMoves(p) ==
    /\ running /\ p \in Loaded
    /\ \E s \in CASE entries[p].pin = "busy" -> {"error", "hidden", "seen"}
                  [] entries[p].pin = "hidden" -> {"seen"}
                  [] entries[p].pin = "seen" -> {"hidden"}
                  [] OTHER -> {} :
            entries' = [entries EXCEPT ![p].pin = s]
    /\ UNCHANGED <<managerVars, fetchVars, marker, pins, spawnable, scans, turns>>

World(A) == A /\ UNCHANGED spawnerVars

SpawnerNext ==
    \/ World(SessionRuns) \/ World(TrackingChanges)
    \/ StartScan \/ StopScan \/ ToggleCameraFacing \/ ManagerTick
    \/ \E a \in Addresses : FetchFails(a) \/ \E listed \in SUBSET Assets : AnswerComes(a, listed)
    \/ WaitEnds
    \/ Tick \/ TryBindTrackingManager
    \/ \E p \in Assets : ArCoreMoves(p)

SpawnerTypeOK ==
    /\ ManagerTypeOK
    /\ bound \in BOOLEAN /\ armed \in BOOLEAN /\ inFlight \in BOOLEAN /\ waiting \in BOOLEAN
    /\ server \in Addresses /\ requests \in [Addresses -> 0..MaxScans + 1]
    /\ Loaded \subseteq Assets /\ \A p \in Loaded : entries[p] \in Entry
    /\ marker \in [image : Images \union {NoImage}, actor : BOOLEAN, gaveUp : BOOLEAN]
    /\ pins \in [Assets -> Nat]

-----------------------------------------------------------------------------
(* Properties *)

\* A marker shows one dinosaur: the manager's overlay never stands while the
\* spawner holds an exhibit for a marker, made before the manager saw its own
\* or in answer to it (HandleMarkerFound).
OneExhibitForTheMarker == overlay # NoImage => marker = NoMarker

===============================================================================
