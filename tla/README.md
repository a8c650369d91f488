# A formal model of Time Machine AR

Time Machine AR shows visitors of a museum the animals behind its fossils: an
Unreal Engine client (`TimeMachineAR/`) finds its place in the building from
cloud anchors, guides the visitor to an exhibit, lets it rise from its marker
and lets the visitor chat with a docent; a FastAPI service (`backend_server/`)
computes routes, keeps cloud anchors and streams the docent's answers; a UDP
server (`Server_Core/`) shares the visitors' transforms between the devices.
This directory holds TLA+ models of the parts whose correctness depends on the
order of events, the TLC configurations that check them and theorems about them
checked by TLAPS.

`PROJECT.json` lists the components, the runs, the mutants, the code behind
every definition (`map`), the hazards and the theorems.

## Inventory

### `Server_Core`: the UDP server

| Part | State | Operations | What makes it correct |
|---|---|---|---|
| `RudpChannel` | next numbers, reassembly buffer, pending list with retries | `AssignSendSeq`, `OnReliableSent`, `OnReliableReceived`, `GetCumulativeAck`, `OnAckReceived`, `CollectRetransmissions`, `AcceptUnreliable` | each reliable message is delivered once, in order, or the session is given up; unreliable ones never go back |
| `SessionManager` | two indexes, by address and by user, under one mutex | `CreateOrGet`, `FindByAddr`, `RemoveByUserId`, `RemoveTimedOut` | the indexes agree; what is removed stays removed; silent clients are forgotten |
| `Session` | transform under a seqlock, era, time of the last packet | `PublishTransform`, `SetEra`, `ReadTransform`, `Touch` | a reader gets a transform that was published, never half of one |
| `IOCPServer`, `main` | threads, completion port, logic queues, receive and send buffers, stage of the shutdown | `Start`, `WorkerThread`, `DispatchPacket`, `LogicThread`, `SendTo`, `RetransmitSweep`, `BroadcastTick`, `Shutdown`, the console handler | acknowledged packets are handled; no buffer is lost or in two places; visitors of one era see each other; a shutdown completes |

Workers take completions from one port. A worker runs the channel of the
packet's session under its mutex, pushes what the channel delivers to the logic
queue of the session and acknowledges it. Logic threads, one per queue, handle
the packets. The main thread retransmits and expires sessions, another thread
broadcasts 30 times a second, and the console handler shuts the server down
from a thread of its own. Hard: the mutexes cover less than the steps that have
to be atomic; a seqlock without locks; a shutdown in the middle of it all;
datagrams that are lost, repeated and reordered.

### `TimeMachineAR`: the client

| Part | State | Operations | What makes it correct |
|---|---|---|---|
| `NavMinimapWidget`, `NavClient`, `NavArrivalAutoEnd`, `NavGuideLogWidget` | destination, route, requests in flight, off-route timer, stages of the arrival, phase of the log | choose, answers and failures, poses, `EvaluateAutoReroute`, clean-up | the route shown leads where the visitor asked to go; rerouting when due; guidance ends after a stay at the destination, and then does end |
| `NavRouteProgress` | line, steps, last segment, arrival | `SetRoute`, `Update`, `GetGuidance` | the way left, the next turn and the arrival are as the visitor walks |
| `NavLocalizer`, `NavRelocalizeOverlay`, `NavStatusWidget` | transform, quality, accumulated evidence, overlay, hint | scan, markers, first fix, loss, recovery, watch over jumps | "found again" is said of a right position, and the overlay does go |
| `NavCloudResolver` | entries, resolves in flight, back-off, reference anchor, blend | list, schedule, poll, `UpdateReferenceAnchor`, `PassJumpGate`, `TickBlend` | the limit on running resolves; nothing leaks, starves or is given up; one wrong anchor moves nobody |
| `NavCloudAnchorAdmin` | points, scan, hosting, bind, preview, offsets | register, bind, preview, nudge | an anchor is bound to a point that was listed; offsets survive |
| `ARTrackingManager`, `NavCloudAssetSpawner`, `NavArCoreConfig` | scan, overlay, exhibits of markers and anchors, requests over several addresses, image database | scan, recognise, fetch, resolve, spawn, clear, restore the images | one exhibit per marker; the markers stay recognisable |
| `TimeRevealComponent`, `TimeWatchActor`, `DinoOverlayActor` | state of the reveal, props, touch, shared hint | throw, impact, sequence, pause, cancel | however a reveal ends, the dinosaur stands there |
| `DocentClient`, `DocentChatWidget`, `SseParser` | session, turn under way, bubbles, bytes of a stream | sessions, questions, stream events, completions, widget actions | an answer lands in its own bubble, ends once, and the input is unlocked again |
| `DinoInfoCardWidget` | dinosaur, tab, skin, trees, pull, what it hides | show, hide, tabs, swipe, ask the docent, back from it | the card shown is that of the dinosaur; a closed card leaves nothing behind |
| `DocentChatWidget` as the screen | tab, chat open, recognised, guiding, panels | tabs, buttons of the scan and the camera, what the manager and the minimap tell | one tab on the screen; what it shows of the AR session is so |
| widgets, registry, template files | layout | drawing | presentation |

Everything runs on the game thread, but in callbacks: HTTP completions, tasks
posted by the HTTP thread, AR session events, timers, clicks. Hard: answers
that come late, out of order or after what they answer was given up; flags
shared by requests that are not told apart; timers that outlive what started
them; an AR session that is restarted under the listeners.

### `backend_server`: the service

| Part | State | Operations | What makes it correct |
|---|---|---|---|
| `routers/chat.py`, `services/*docent*`, `services/llm` | sessions and messages in the database | create a session, a turn whole or streamed, one-shot questions | a prepared text replaces an answer only before its first piece; the history is the conversation; one subject |
| `services/routing.py`, `routers/navigation.py` | cached graph of the map | `get_graph`, `snap_to_edge`, `find_route`, steps | a shortest way of the graph, and steps that follow it |
| `routers/cloud_anchors.py`, `services/cloud_anchor_*.py`, the daily job | rows with anchor, offset, expiry | register, bind, unbind, offset, extend, disable | a listed anchor lives or is taken off the list; an offset goes with its anchor |
| other routers | none of their own | reads | request in, answer out |

## Modules

| Module | Models |
|---|---|
| `Maps`, `CloudPoints` | removal of entries from a function; the points and ids shared by the anchor modules |
| `RudpChannel` | `RudpChannel.cpp`, both directions, as operators on records |
| `ReliableStream` | what a reliable stream promises (abstract) |
| `RudpLink` | a server that sends, a network, a client that acknowledges, the retransmission sweep; implements `ReliableStream` |
| `SessionManager` | the table, the workers that create, find and touch, the LEAVE on the logic thread, the sweep |
| `Seqlock` | writer and readers of `Session.h`, one action per load, word and store |
| `PacketPipeline` | workers, queues, logic threads, reposting, shutdown; composes `RudpChannel` |
| `ServerProcess` | `Start` and its failures, the completion port, receive and send buffers, the threads that send, the console handler, `Shutdown`, the end of `main` |
| `WorldState` | visitors who join, move and change era; the transform's numbers; the broadcast with its era filter and fragments |
| `NavGuidance` | requests, route, progress, arrival, rerouting, guide log |
| `Routing` | the service's graph and cache, snapping, search, way points, steps |
| `RouteProgress` | the client's line, projection on it, next step, arrival |
| `NavCloudResolver` | the queue of anchors, the running resolves, back-off, preemption, the list of anchors |
| `NavReferenceAnchor` | which recognised anchor gives the position: hysteresis, dwell, jump gate, re-latching, blend |
| `NavLocalizer` | first fix, quality, loss, recovery and its overlay, hint and status line |
| `CloudAnchorService` | the table of anchors, the handlers, the background extension, the daily job |
| `NavCloudAnchorAdmin` | the list of points, scan, hosting, bind |
| `NavCloudPreview` | preview of bound points, retries, nudges, saved offsets |
| `ARTrackingManager` | the AR session, the marker scan, the overlay, the camera |
| `NavCloudAssetSpawner` | fetch over several addresses, pins, exhibits of anchors and markers; composes `ARTrackingManager` |
| `MarkerImages` | the image database the plugin drops and `NavArCoreConfig` puts back |
| `TimeReveal` | the states of a reveal, its props, touch and the shared hint |
| `DocentHud` | the tabs of the screen, the buttons of the scan and the camera; composes `ARTrackingManager` |
| `DinoInfoCard` | the card about a dinosaur: its two skins, tabs, pull, chat and what it hides |
| `DocentChat` | client, widget, stream and completions of the chat |
| `ChatService` | sessions, stored messages, prompt, history, fall-back, clients that go away |
| `SseParser` | frames out of bytes cut anywhere |
| `AnswerStream` | what both ends take a streamed answer to be (abstract); client and service implement it |
| `*Proofs` | theorems; each extends the module it is about |
| `MC*` | the instances TLC checks |

Correspondence, module by module:

- **RudpLink.** `out` is the sending half of a channel (`next`, the pending
  list), `in` the receiving half (`next`, `reasm`). `AssignSendSeq`,
  `Register`, `Transmit` are the three steps of `SendReliableToSession`, which
  are not one critical section. `net` and `acks` are sets of datagrams that
  are never removed, which covers loss (never read), repetition (read again)
  and reordering. `RetransmitSweep` does the whole sweep: everything overdue is
  sent again, or the session is dropped when one has no retries left; in the code
  the removal comes after the sending, which for one session changes nothing that
  the other end can tell apart.
- **SessionManager.** `byAddr` and `byUser` are the maps; each method runs
  under the mutex and is one action. What a worker does between a look-up and
  the use of the result is a step of its own, as is the LEAVE between its queue
  and its handler.
- **Seqlock.** A transform is a function from words to values; writing and
  copying take a word at a time, in any order, since neither the compiler nor
  the CPU is told otherwise for plain fields. `ReadTransform` is modelled with
  its `continue`, which in C++ jumps to the condition of the do-while loop, and
  with `s2` starting from an arbitrary value on the first pass.
- **PacketPipeline.** A worker is waiting or holds the packets the channel
  delivered and pushes them one by one; in between other workers run. `posted`
  counts the registered receives. `StopWorkers`, `StopLogic`, `JoinLogic` are
  the stages of `Shutdown`, in its order.
- **ServerProcess.** `main` is where `main` is in `Start` or in its loop;
  `thread` and `sender` where each thread is, `port` the completions that wait,
  `free`, `pool` and `sending` the send buffers. `Shutdown` goes through its
  joins one at a time (`shutting`), whichever thread runs it. `StartThreads` creates
  all workers in one step; a `Shutdown` between two of them (`IOCPServer.cpp:44-47`),
  which joins some and not others, is not told apart from one before or after them.
- **WorldState.** Numbers are those of `SendTransform`; `air` holds the
  transforms under way (`MaxAir` of them), which may be lost, overtaken or come again; what
  was accepted is handled in any order. A tick builds the packets of each visitor,
  cut at `MaxEntries`, with the count of fragments cut to its width
  (`FragModulus` for 2^8).
- **NavGuidance.** A request carries the destination it was made for; answers
  come in any order, late or never. Distance is abstracted to `near` the
  destination or not and `off` the route or not; time comes in units of the
  largest step a pose may account for (`MaxGap` between poses, clamped to
  `MaxDelta` as the code does). `Closed` is `HandleEnded`: the minimap clears
  the route and tells the listeners. `dwelt` is the stay at the end of the route
  shown, `stay` the one that goes on over a change of routes; both are history.
- **Routing, RouteProgress.** Geometry is exact where it can be: places are
  whole, distances between nodes whole by assumption, other lengths rounded
  down. `AstarPath` is the A* of `find_route` with its heap order, one `Pop` to a
  turn of its loop; an arc is pushed at most once, so it has no more turns than
  arcs and one. `answer` keeps what was asked with what was answered.
  `walked` is where the visitor is on the line,
  `lost` that a stray has put the search window elsewhere.
- **NavCloudResolver.** `pc` is where in `Tick` the game thread is: `frame`
  before `PollOrphanPins` and `PollResolves`, which are one action, `schedule`
  before `ScheduleResolves`, `serve` in its loop over the waiting anchors, one
  action per way through its body. Only at `frame` may ARCore, the user, the
  server and the clock act. `future` is what ARCore makes of a pin. Whether a
  pending resolve can be cancelled is left open (`stuck`). Times are ages and
  remaining waits; `stamp` keeps the order of the attempts' start times.
- **NavReferenceAnchor.** `hall` holds what is true (the user's spot, anchors in
  sight, wrong ones, the shift of ARCore's frame), `pos` what the resolver and
  the localizer hold. A transform is what an anchor implies: how far the position
  is off. `ResolverTicks` is one pass of `UpdateReferenceAnchor` and `TickBlend`. The
  shipped app does not blend (`bBlendNearbyAnchors`); both configurations are begun
  with.
- **NavLocalizer.** `app` is the localizer, the overlay and the status line,
  `world` the quality, the frame of ARCore and what is in view; `todo` are the
  subsystems that have not ticked in this frame, in no fixed order. `pose` is the
  frame, relative to ARCore's, in which the position was solved: 0 is right. `slid`
  notes that ARCore corrected itself between a fix of the recovery and its end; only
  the property reads it.
- **CloudAnchorService.** Time is in pauses of the daily job. A handler is two
  steps, on one of several threads: `Handle` has read the row and decided, `Commit`
  writes the columns that differ from what was read on the row as it is by then
  (or the commit fails, `RollBack`). The job is one step per row between its read and
  its commit; a call may be answered, refused (`CronMisses`) or raise (`CronDies`),
  which ends the run with nothing committed. `left` and `most` are Google's times for
  an anchor.
- **NavCloudAnchorAdmin, NavCloudPreview.** `wire` holds the PUTs that have not
  reached the server, given up or not. An offset is a number of nudges; `saved`
  what the save slot holds at a restart.
- **ARTrackingManager, NavCloudAssetSpawner.** The manager tells its listeners in
  the call that makes the change, so the manager's operators are the first half
  of an action and the spawner's the second. `requests` counts the GETs each
  address has not answered, for a new round forgets them without cancelling.
- **MarkerImages.** `dropping` is the plugin's pending removal of the images;
  `checksLeft` and `due` are the checks that a start is owed. A stop and a start with
  no tick in between are the restarts of `ARTrackingManager.cpp:187-188`; `Restores` may
  fail in each way the code has, a failure uses up the check, and `missed` and
  `failed` remember either for the property. Markers are taken to trigger
  (`AreMarkerTriggersEnabled`).
- **TimeReveal.** Time is the time a reveal spends in its states; a tick is one
  exhibit's `TickComponent`, with what is left of it carried into the next state.
  `hint` is the one hint of the screen, which the exhibits share.
- **DocentHud.** `panel` is what is visible of the four widgets the tabs share.
  `ApplyHudTab` is applied by the buttons, the minimap's events and every tick;
  `GraphShows` and `GraphScans` are the widget's event graph, a binary asset known
  only by what the comments and `docs/clock-reveal-handoff/handoff.md` say of it, so
  it may do either at any time. A click that turns the camera is one action with
  the callback the turn makes.
- **DinoInfoCard.** The widget is one record and its operations are operators on
  it, as they call each other. `of` says whose texts a tree carries, `wired`
  whose buttons answer, `shown` which tree Slate draws. A pull is counted in steps
  of `SwipeStartSlop`.
- **DocentChat.** `tasks` are the events the HTTP thread has posted,
  `link[t]` the request of question `t` up to its completion. Handlers receive
  no request identity in the code, and in the model they do not use one; the
  numbers serve the properties. `bStreamReady` is the platform's answer, the
  same for every request.
- **ChatService.** A text is the set of blocks it is made of, each with the
  exhibit it speaks of. `_prepare_turn` stores the question in a step of its own;
  the model speaks piece by piece, and its failure or the client's going away can
  come between any two.
- **SseParser.** A byte is a line's content, a line feed or a carriage return; the
  bytes of the frames in `sent` come cut anywhere.

Where a run has several parts, its `MC` module holds them side by side with a variable
`side` (`part` in `MCNavGuidance`): a behaviour is of one part, and the others rest. The
parts touch only through what each leaves to its environment, which is free to do all the
others could; except where a part is composed with another (`PacketPipeline` with
`RudpChannel`, `NavCloudAssetSpawner` and `DocentHud` with `ARTrackingManager`,
`RouteProgress` with `Routing`), whose steps are taken together.

## Runs

| Run | Instance | Question |
|---|---|---|
| `sessions` | table: 2 users, 2 addresses, 2 workers, 2 sessions; transform: 1 reader, 3 words, 2 writes; link: 3 messages of 2 contents, 1 reassembly slot, 1 retry | the table under interleaving; silent sessions expire; copies made between equal counters are snapshots; readers get through; order, loss, give-up, the refinement of the stream, and that every send settles |
| `pipeline` | packets: 1 session, 2 workers, 2 queues, 3 reliable packets, 1 transform; process: 2 workers, the broadcast and main threads, 1 receive, a send pool of 1 that grows to 3; world: 4 users of whom 1 moves, 2 eras, 1 change of era, 2 entries to a packet | no packet lost or handled twice; every buffer in one place; a shutdown ends; what visitors are told of each other comes right |
| `pipeline_order` | 2 workers, 1 queue, 2 packets | *violated*: reliable packets are handled in order |
| `server_shutdown` | the process part of `pipeline` | *violated*: no send is under way when the pool is freed |
| `seqlock_torn` | the transform part of `sessions` | *violated*: every read is a snapshot |
| `nav` | 2 destinations, 3 requests, poses up to 2 units apart; a hall of 40 by 30 units of 10 cm with a hub, a one-way table and an empty one | the route shown, rerouting, shortest ways, the guidance the walker gets, the end of guidance |
| `route_dwell` | the guidance part of `nav` | *violated*: guidance ends only after a stay as long as the dwell at the end of the route shown |
| `docent` | client: 2 questions, 2 session requests, 1 piece; service: 2 conversations, 2 requests, 2 pieces, a history of 2; parser: 3 streams of frames in chunks of up to 3 | answers apart and closed, the conversation kept, frames as sent, both ends refine `AnswerStream` |
| `anchors` | 2 points, 2 ids, hosted for 2, extensible to 4, extended within 2; 2 handler threads with 3 requests while no time passes, 2 while the job runs; 1 reload, 2 retries | an offset that could be seen goes with its anchor; what is listed lives, what is dead leaves the list |
| `exhibits` | 2 images of which 1 is known, 1 asset, 2 servers, 2 attempts, 2 scans, 1 camera turn, 2 exhibits; the screen with the same images; the card of 2 dinosaurs, one of each skin, with 1 and 2 tabs, pulled by up to 2 | one exhibit for a marker, the marker images come back, every reveal ends well, screen and card are right |
| `camera_flip` | the same | *violated*: a scan is resumed when the camera comes back |
| `positioning` | queue: 3 anchors, 2 places, 1 slot, 1 orphan; reference: 3 anchors with none, one or two wrong, 2 spots, 4 events; localizer: 1 marker, 4 changes | the queue of resolves, the position cloud anchors give, recovery |

The cfg of each run names its properties, and the comment before each definition
says what it is about. Some are conjunctions of parts that belong to one
question; the parts have names and comments of their own:

| Property | Parts |
|---|---|
| `RoutesAreRight` | `RouteLeadsToDestination`, `ReroutesAreDue` |
| `GuidanceEndsRight` | `EndsOnlyAfterStay`, `CleanUpComes`, `LogFits` |
| `ServerKeepsItsWord` | `OneVoice`, `ConversationIsKept`, `HistoryIsThePast`, `OneSubject`, `OneShotSubject` |
| `AnchorsLiveOrLeave` | `ListedAnchorsLive`, `DeadAnchorsLeaveTheList` |
| `ScreensAreRight` | `HudIsRight`, `CardIsRight` |
| `HudIsRight` | `RecognisedIsThere`, `OneTabOnScreen` |
| `CardIsRight` | `TreeInUse`, `CardFits`, `NothingLeft`, `PullsEnd`, `CardReturns` |
| `RevealsEndWell` | `EndedRevealShowsTheDinosaur`, `ThrownWatchArrives` |
| `QueueIsSound` | `LiveWithinCap`, `NothingLeaks`, `PinFitsEntry` |
| `TriedInOrder` | `NearGoesFirst`, `NoAnchorGivenUp` |
| `CloudPositionIsSound` | `OneAnchorMovesNobody`, `PositionComesRight` |
| `RecoveryIsSound` | `RecoveredMeansRight`, `RelocalizingEnds` |
| `ServerStops` | the joins of `PacketPipeline`, the shutdown of `ServerProcess` |

Every property of a passing run has a mutant in `PROJECT.json`: a definition of
the code with a plausible fault, under which TLC finds the property violated.
The faulty forms stand before the definitions they replace, marked `Fault` or
described as such.

### Why the bounds are enough

Two of each actor are enough for an interleaving of two.

- `sessions`, the link: a reassembly buffer of one entry is full as soon as it is used, so
  three messages meet the in-order, the buffered and the refused case; one retry
  reaches give-up.
- `pipeline`: three reliable packets let two workers hold neighbours while a third
  is on its way. One receive and a pool of one meet the empty list, the growth and
  the refused growth. Of four users three are told to each, one more than fits a
  packet, so the last packet is neither full nor empty; the one who moves changes
  era between transforms that are handled in any order. Two transforms
  can be in the air, so that the newer can overtake the older. The count of fragments is cut
  at `FragModulus` (4), which three visitors do not reach: the cut itself is not met.
- `sessions`, table and transform: two workers can create, find and remove the same session;
  three words of a transform can be torn in two places, and the second write can start
  inside a pass of the reader.
- `nav`: three requests allow an old answer after a new choice and a reroute in
  flight at the end of guidance. The hall has a one-way edge, an entry in the
  middle of an edge, an exhibit off its edge and a place no way leads to.
- `docent`: with two questions the answer of the first can meet the bubble of the
  second; a second session request can fail in the middle of an answer. Two
  pieces tell a failure before the first piece from one after it; a history of
  two drops the oldest message. Chunks of up to three bytes cut a line end in two; none
  holds a whole boundary of CR LF CR LF, which the buffer puts together.
- `anchors`: an anchor hosted for two pauses of the job can be seen by one run and
  missed by none, or by the last. A row can be bound to the other anchor while
  the job is between its read and its commit. Two threads read the same row before
  either commits, and a third request puts what they race about there.
- `exhibits`: with two scans an answer of the first comes in the second; the
  second address is reached after the first gave up; two exhibits share the hint. The
  screen needs no bound: its own state is finite.
- `positioning`: with three anchors one can give the distance, one be near and
  wait and one be far and hold the only slot, so each way through the loop is met;
  one orphan takes that slot. Two wrong anchors can agree against the one in
  charge. Times are the smallest with the order the code's have. A far anchor has
  at most two nearer ones before it: starving behind many is out of these bounds.

Bounds on numbers, requests and times (`MaxMsgs`, `MaxSessions`, `MaxSeq`,
`MaxTransform`, `MaxNumber`, `MaxAir`, `MaxChanges`, `MaxRequests`, `MaxGap`, `MaxTurns`,
`MaxPieces`, `MaxCalls`, `MaxReloads`, `MaxOffset`, `MaxPins`, `MaxOrphans`,
`MaxEvents` and the like) are constants in the guards of the actions that count.

### What the violations show

1. **Seqlock.** The reader's `continue` (`Session.h:107`) re-tests `s1 != s2`
   with the `s2` of the pass before (`:72-73` says it retries); an odd counter
   seen twice ends the loop with a half-written copy.
2. **Order.** The order the channel establishes is lost between the release of
   its mutex and the push to the queue (`IOCPServer.cpp:625`), against
   `IOCPServer.h:268-270`.
3. **Shutdown.** The send pool is freed "because no send is in flight"
   (`IOCPServer.cpp:144`), but the main thread, which nobody joins, may be in
   one: a sweep of retransmissions goes on while the console handler shuts down.
4. **Camera.** A scan that was on when the camera was turned to the front is to be
   resumed on the way back (`DocentChatWidget.h:422`, `DocentChatWidget.cpp:1067-1068`).
   The turn to the front clears the flag that remembers it (`:1084`), and the click
   back overwrites it, so it never is.
5. **Dwell.** The countdown after an arrival is to start anew with a new route
   (`NavArrivalAutoEnd.h:44`, "새 경로가 잡히거나 경로가 지워질 때 부른다"); `SetWaypoints`
   (`NavMinimapWidget.cpp:57-76`), by which answers of the service are shown, does not
   reset it. A stay that began at the end of the last route counts at the end of the
   next, and the clean-up takes the route just chosen. What does hold
   is that guidance ends only after a stay as long as the dwell over all routes
   (`EndsOnlyAfterStay`, proved).

### Disagreements without a run

Met while modelling, each at its line; the models contain the behaviour, or leave
it out where "Not modelled" says so.

*Server.* A LEAVE handled late removes by user id (`IOCPServer.cpp:792`) what may
already be the next session. An interrupt during `Start` is swallowed, since
`m_bRunning` is not set yet and `g_bInterrupted` is never read; the workers
created after such an early `Shutdown` get no exit key. `main` may return while
the handler is still in `Shutdown`, whose second call returns at once, and the
destructor then meets joinable threads. A receive whose posting fails is one
buffer less for good (`:333`). With a multiple of 256 fragments nothing is sent
(`:1040`; beyond 6400 visitors). `DummyClient` sends JOIN once: if it is lost, all
its transforms are dropped; its first transform has number 0, which `BroadcastTick`
takes for "no position yet". A client restarted on the same address keeps its old
session, and its restarted numbers are dropped (`SessionManager.cpp:44`).

*Guidance.* An answer that comes after the one to a later request is shown
(`NavClient.cpp:411`), until another comes; `RouteLeadsToDestination` is about the time in
which none has (`disorder`). Signals that arrive under the full map overwrite the phase that
hides the guide log (`NavGuideLogWidget.cpp:308` against `:468`). An entry in the middle of
an edge may walk against a one-way edge (`routing.py:8-10`, `snap_to_edge`); start and goal
on one edge are routed over an end of it (`navigation.py:77-91`); an entry is measured by
geometry where edges go by `distance_cm`, and a `distance_cm` below the straight line breaks
the optimality of A*; exhibits are avoided only at equal cost (`routing.py:267`); the cached
graph is stale until a restart, for nothing outside the tests calls `invalidate`
(`routing.py:11-12`, `:100`). The turn at the start is a step of no length that is never
shown (`NavRouteProgress.cpp:212-246`); a walker who strays beyond the search window is
placed wrongly until back; one abeam of the end has arrived (`:170`); a route of one way
point counts as none (`NavRouteProgress.h:60`).

*Position.* `ResetLocalization` leaves the banner (`NavLocalizer.cpp:280`). A position
solved by markers cannot be recovered by cloud anchors (about `:600`). `HandleMarkersFailed`
stays bound (`:331`), so any failure stops the scan, and a second `StartLocalizing` binds
twice. A recovery from degraded takes the hint's line down while `bSoftHintShown` stays. A
jump in the cool-down is only logged. With the blend off, as the app is shipped
(`NavCloudResolver.h:279-284`, `NavCloudResolver.cpp:1743`), a reference anchor that stays
in sight while ARCore's frame shifts silently is not solved again by the resolver, for
`UpdateReferenceAnchor` returns when the nearest anchor is the reference (`:1454`) or not
nearer enough than it; with the blend on this is so only beyond `BlendRadius`.
`PositionComesRight` excepts exactly that (`keepsReference`). During a recovery nothing
looks for a jump (`NavLocalizer.cpp:792-806`): when ARCore corrects itself between the fix
and the end, in good quality and with the anchor out of view or the re-latching at rest, the
position announced as found ("측위가 잡혔습니다", `NavLocalizer.h:365`) is off by the correction,
although a transform taken while things are off is not to be trusted
(`NavLocalizer.cpp:794-795`); `RecoveredMeansRight` excepts that case (`slid`).
`NavCloudResolver.h:55` says that the interval of 12 s between requests is always kept; an
anchor that has just come near loses its wait (`NavCloudResolver.cpp:881`).

*Anchors.* `PollPendingHost` binds to the point selected when hosting ends, not when
it began (`NavCloudAnchorAdmin.cpp:568`); `EnterPreview` and `ApplyPointsJson` change
the selection without resetting the scan (comment at `:437`); a failed
`FetchPoints` is not repeated (`:374-380`); the preview removes pins without
cancelling their resolves (`:864`, `:900`). On the server the background
extension marks whichever anchor the row has by then (`cloud_anchor_ttl.py:53`);
`put_asset_offset` does not say which anchor it was tuned on
(`cloud_anchors.py:299`), and one that commits between the read and the commit of a bind
or an unbind stays with the next anchor, though the comment has the offset of the old
one cleared (`:194`, "에셋 보정은 옛 앵커 pose 기준이라 새 앵커에선 엉뚱한 자리가 된다 → 지운다"):
the clearing writes nothing when there was none to be read. `OffsetStaysOnlyIfRaced`
says that this is the only way. A bind leaves `enabled` as it was (`:193-205`), and its
look for a clash comes before its commit. The job disables by row though the row
may be bound anew (`extend_cloud_anchor_ttls.py:73`, `:104`), and nothing catches what a
call raises (`:64-106`): one row whose call raises every day keeps those after it from
being extended or disabled, although the job is what is to make good a lost
extension (`cloud_anchor_ttl.py:9-11`). `ListedAnchorsLive` speaks of anchors whose rows
were answered for, `DeadAnchorsLeaveTheList` of runs that were whole.

*Exhibits.* Resolves are left behind against the comment at
`NavCloudAssetSpawner.cpp:124-127`, and a scan switched off and on during a fetch gets two
answers, the second of which overwrites the pins (`:731-734`). The front camera leaves the
spawner's exhibits. The marker images are to be put back when a session has started again
(`NavArCoreConfig.h:14`, `:44-45`); a tick that sees a session running before and after a
restart made in one call (`ARTrackingManager.cpp:187-188`, `NavLocalizer.cpp:1182-1183`)
does not know of it, and a second look that fails is not repeated
(`NavArCoreConfig.cpp:89-92`, `:118-139`). `MarkerImagesComeBack` excepts the two.
`HandleMarkerFound` clears the manager's overlay also when its own spawn failed
(`:346-348`). One swipe throws the watches of two exhibits, which share a hint (`:271`).

*Screen.* During guidance the navigation's panel stays visible behind the scan
(`DocentChatWidget.cpp:558`), which `handoff.md:90` has collapsed, and which
`TimeRevealComponent.cpp:285` takes for an open panel, so every reveal is cancelled
in its first tick. The tab of the chat collapses it although a collapsed minimap
stops ticking (`:533-535`). `ToggleChat` is undone by the next tick, and a guidance
that ends under the full map leaves the map over the scan's tab.

*Card.* A dinosaur with neither tabs nor an introduction keeps the texts and tiles
of the one before it, since `SelectTab(0)` returns before `ApplyTabContent`, though
the comment there says that tiles of the kind are shown even without tabs;
`CardFits` therefore speaks of dinosaurs with tabs. The button of the full screen
is not bound anew when the widget is first constructed on the ocean's skin, and is
left out.

*Docent.* A question refused while an answer is under way clears the flag that
refused it (`DocentClient.cpp:550`), so the next is accepted and both answers go
to one bubble. Two session requests may be answered in reverse, and the last
answer wins (`DocentClient.cpp:328`). The completion of a request looks at the flags of the
question under way by then, and events posted before it may run after it. `AnswersStayApart`
leaves these cases out (`disturbed`); that the bubbles are closed
(`ClientQuestionsAreClosed`) is checked with them.

### Fairness

Only what the program's own scheduling gives is assumed.

- `sessions`: time passes and the main thread sweeps; a write that was begun is ended, a
  reader takes steps, and calls that send finish; nothing of the network. Strong fairness
  only of the clean-up, whose time comes and goes.
- `pipeline`: threads that can run do run, and the system completes the sends it
  took; clients go on sending, not every transform is lost, and the reliable
  stream delivers. Not that a receive can be posted, that a call succeeds or that
  the server is told to stop.
- `nav`: poses keep coming, with time between them, whenever the visitor can be
  localised, which is an assumption on the museum.
- `docent`: every request completes, by its time-out (`RequestTimeoutSec`) at the
  latest; the game thread runs what is posted to it; a model answers or times out.
- `anchors`: ARCore ends what it hosts; the app ticks; requests end. Nothing of the daily
  job and of Google: that the job is whole again and again is a premise of the
  property (`WholeRuns`).
- `exhibits`: the app ticks, requests end, and the last address answers when it is
  asked again and again (strong fairness).
- `positioning`: time goes on, and every unit of it has frames and a pass of the
  scheduler; nothing of ARCore, the server or the user. `NoAnchorGivenUp` speaks of
  behaviours in which, from some time on, ARCore takes requests, no given-up
  resolve runs on, no anchor starts over and the distances do not jump (`Upset`):
  each of these can keep a far anchor waiting for ever, as TLC shows when it is
  left out.

## Proofs

The theorems hold for every value of the constants that satisfies the named
assumptions (`LinkAssumption`, `ChannelAssumption`, `ServiceAssumption` and so
on), not for the instances above.

- **RudpLink** (`RudpLinkProofs`). The properties are not inductive: that the
  receiver gets a prefix of what was sent needs to know that every datagram in
  the network, every pending entry and every buffered packet carries the
  content that was given its number, that acknowledgements in the network never
  exceed what was delivered, and that whatever is assigned and not acknowledged
  is pending or still in the hands of its sender. `IInv` is their conjunction;
  one lemma per action shows it is kept. The one hard step is receiving the
  awaited number: the channel hands up the maximal run of buffered successors,
  which `RunToGap` shows to be an interval, by the least number that is
  missing. From `IInv` follow type correctness, `InOrderExactlyOnce`,
  `NoSilentLoss`, `NoPendingBelowAck`, `DroppedOnlyAfterRetries`, the bound of
  the buffer, and that every step is a step of `ReliableStream` or a stutter
  (`LinkImplementsStream`).
- **Numbers** (`Induction`). Induction without an operator as a parameter: what is
  proved by induction is a set of numbers, and a number outside it has a least one
  (`LeastOf`, by the theorems on well-founded sets). From it `InductionTo`, that a
  definition by recursion over `0..m` defines a function (`RecursionTo`), and that
  the run of numbers up to the first gap is an interval (`RunToGap`), on which
  the channel's `Drained` rests in the link's proof and in the server's.
- **Sessions** (`SessionProofs`). The table: `TableInv` is the type invariant
  with the agreement of the two indexes; `GoneForGood` follows from it step by
  step. The transform: `LockInv` ties each reader to the history of published
  values: while the counter is what the reader loaded, the words it has copied
  are those of the published transform; once the counter has moved the pass
  cannot succeed. Hence a pass that copies between two equal loads returns a
  published value. `SessionsKeepTheirTypes` puts these two and the link together.
- **Server** (`PipelineProofs`). `PipeInv` says of every reliable packet that its places
  (the network's side of the channel, the reassembly buffer, the hands of one worker, one
  queue, what is handled) hold it once between them, so `NoneLostNoneTwice` is a matter of
  lines: each step moves a line from one place to the next (`PipeInv` is kept action by
  action, the channel by the lemmas above). `ProcInv` counts the buffers: every receive
  buffer is with the system, at the port, with a worker or given up, every send buffer free,
  being filled or sent, which needs to know where each thread may be at each stage of
  `Start` and `Shutdown`. `WorldInv` is the types of the world.
- **Guidance** (`NavigationProofs`). `GuideInv`: a request in flight was made for a
  destination that was chosen (`RequestsOK`), what is shown was answered to a request that
  was current (`ShownOK`), the countdown runs only from an arrival and has not run longer
  than the stay (`CountdownOK`), the off-route timer fits what it measured (`TimerOK`), the
  log's phase fits the minimap (`LogOK`). From it `RoutesAreRight`, `EndsOnlyAfterStay` and
  `LogFits`.
- **Route** (`NavigationProofs`). `ServiceAnswersShortest`: the answer is a shortest
  way of the graph the service holds. The invariant of the search, `Sound`, says that
  what is explored is a tree from the source (`Tree`), that an entry of the heap says
  what an arc from the tree costs (`EntryOK`) and no entry is there twice (`Apart`), that a
  node reached and not explored waits in the heap (`Pending`), that the arcs of the
  explored nodes have been followed (`Relaxed`), that by the estimate the explored
  nodes are nearer than what waits (`Nearest`), and that an entry of an explored node is
  out of date (`Stale`). So a way from the source to the goal that is shorter than what is
  popped would leave the explored nodes at a node that waits with a smaller estimate
  (`NoneShorter`), and if nothing waits there is no way (`NothingLeft`). It rests on the
  triangle inequality, proved here in whole numbers, and on no arc being shorter
  than it looks. `AstarPath` does end within the turns it is given: each turn pops an
  arc that is never pushed again. What is found, a branch of the
  tree, passes no node twice and so is among the ways of `WaysTo`. The pairs of
  ends are compared by a least element of a finite set; the straights of the steps add up
  to the line by induction over its legs.
  `NavigationTyped`: the steps as the app counts them (`Lead`) rise and stay on
  the line; a nearest segment of the window exists and is one of the line; and the way left,
  clamped to the segment, is within it, for any pose (`VisitorInv`).
  Assumed (`RoutingAssumption`): distances between nodes are whole, the hall fits in
  `Reach`, and no row of the table is shorter than it looks. The last is what makes
  the estimate admissible, as the tests say it has to be (`test_routing.py:414-415`); a row
  without a `distance_cm` has it, one with it is not checked (see above).
- **Anchors** (`NavigationProofs`). `ListedAnchorsLive` speaks of rows, but what is
  inductive speaks of anchors: one the job never missed is at its maximum, or was
  never extended, in which case it has more than a day before the pause, and in
  its last day the run under way has still to visit it. The visit does extend it,
  since what was never extended has its maximum far ahead: that is where
  `MaxLife >= Life + Within` is needed (365, 1 and 7 days in the code).
  A call that is lost or raises makes the ids of the rows not yet visited `unlucky`,
  of which nothing is said. `OffsetStaysOnlyIfRaced` needs of what a thread has
  still to write (`RequestOK`) that a change of the anchor takes the offset off, or was
  decided on a row that had none, and has one now only if it was raced.
  The types themselves (`AnchorsKeepTheirTypes`) need that the least and the
  greatest of a finite set of numbers are in it, that a reply is a table, and
  that a bind whose hosting succeeded has an anchor to bind.
- **Docent** (`DocentProofs`). `ChatInv`: the flags of client and widget
  (`FlagsOK`), the bubbles (`BubblesOK`), requests and tasks (`NetOK`), and, as
  long as no question was refused in the middle of an answer, that the answers
  under way are those of the last question (`ApartOK`, `QuietOK`, `BusyOK`).
  `ServiceInv` says it request by request: what was spoken comes from one voice, what is
  kept is what was spoken, the history is of earlier turns, the exhibit is the
  one the session or the question names.
  For the refinement of `AnswerStream`, `StreamInv` adds that a question not yet sent has
  no request and that a client which streams never has a plain one (`LinksOK`), and that
  what is final has said something (`SaidOK`): without it the service could tell an
  answer that never spoke. `DocentGivesAnswerStreams` is `Order`, the steps; that
  every answer settles is left to TLC.
  The parser (`EventsComeAsSent`): `ParserInv` says that what has been taken out is what
  the first `k` frames say, and that the buffer and the bytes on their way are together
  the bytes of the others. Appending moves bytes from one to the other. When a boundary
  is found in the buffer it is the first of the remaining frames that ends there and
  nothing shorter: no earlier place looks like a boundary, because a line ends with
  bytes that are no end of line and, with CR LF, the LF of one line is not followed by the LF
  of another. What is cut off is then the bytes of one frame, `Pieces` gives its
  lines back, and `Meaning` what it says. `Encode`, `Pieces` and `Said` are
  recursive; what each gives is shown by `RecursionTo` and by induction over the frames, the
  lines and the bytes, as sets of indexes. Assumed: every frame has a line
  (`_sse` writes two); nothing of how names, data and comments overlap.
- **Positioning** (`PositioningProofs`). The queue: `QueueInv` says what entries and orphans
  look like (`ShapeOK`), that a pin is held by one entry or one orphan and by nobody twice
  (`HeldOK`), that the anchors that wait are entries that may be served (`WaitingOK`), and
  that in a pass the slots left and those taken are the cap (`SlotsOK`), which is where a
  victim must give up one. `TypesInv` adds its numbers (`ClocksOK`), and that the remembered
  requests are oldest first (`RequestsOK`), without which dropping those past the window
  would count wrong. `NearGoesFirst` needs the order of the pass (`ServedOK`): a near anchor
  that is ready still waits, or the budget is spent. The order of the loop has a greatest
  element in every non-empty set of anchors; that is a lemma (`GreatestOf`), by the element
  with the fewest above it. Assumed of the server's list: an anchor it reports moved is one
  it lists. The reference anchor: `RefInv` are its types; `Moves` says what one tick may do
  to the position, and each stage of the tick (watching, latching again, gating, blending)
  is shown to do no more, blending or not, so a lone anchor moves nobody
  (`NoLoneAnchorMoves`). The localizer: `RecoveryOK` says that a fix of a relocalisation is
  of the frame ARCore uses, or ARCore has corrected itself since, as long as the quality is
  good, and that after the localizer's tick none is held in bad quality. The overlay reads
  both later in the same frame, which is why `RecoveryIsRight` needs to know who has ticked.
- **Exhibits** (`ExhibitsProofs`). Five invariants, one for each part of the run.
  One exhibit for a marker: the spawner is armed only while the scan that armed it
  goes on, and an overlay ends the scan, so neither can appear beside the other.
  The images: a start that drops them and that a tick sees arms two looks, and while a
  removal is pending a look is left; what a look that failed, or a start that no tick saw,
  leaves behind is remembered. The reveals: `Fits` says what a model must look like in
  each state of its component; an end of any kind restores it. The screen: what is
  recognised stands and has ended the scan, so whatever takes the overlay away either
  finds the scan on, and nothing recognised, or has the widget forget it. The
  card: what it shows is of the dinosaur it was opened for, through every
  swipe, pull and button.
  The types (`ExhibitsKeepTheirTypes`) need more than types in the spawner: an entry
  that holds a pin has made one that is not yet released (`PinsOK`), and the addresses with an
  unanswered GET are finitely many, at most one for each scan and the one in flight
  (`FetchOK`); they are counted as a set, since a sum over addresses would be a fold.

Only model-checked:

- everything under fairness, since the prover has neither fairness nor ENABLED:
  `EverySendSettles`, `SilentSessionsExpire`, `ReadersGetThrough`, `ServerStops`,
  `VisitorsAreTold`, `ClientQuestionsAreClosed`, the fairness of the abstract streams,
  and the halves that something comes about of the properties that have two:
  `GuidanceEndsRight`, `AnchorsLiveOrLeave`, `RevealsEndWell`, `TriedInOrder`,
  `CloudPositionIsSound` and `RecoveryIsSound`, whose other halves are proved;
- `GuidanceFitsTheWalk`, which is so of the hall of the run, whose lines do not cross
  themselves and turn at corners that are further apart than the search window is
  vague, and not of every geometry.

## Not modelled

- Sockets, logging, drawing and layout: the cards, hints, screenshot and keyboard of the
  chat widget, the full map and the minimap as pictures, the list of destinations, the look
  of the watch and the curves of a reveal.
- Geometry beyond the plane: heights, smoothing of the pose;
  placement of an exhibit on its anchor; the distance filter of the broadcast.
- Reads without state: maps, markers, exhibits, `get_history`, the parsers and the
  smoke test of `NavClient`.
- In the localizer: the upload of the field log, registering the marker images, the
  survey log, the texts of reasons and stages, console commands, and the quiet mode
  without `bRelocOnResume`.
- In the queue of resolves: the spawner's pins, which wait among the same orphans.
- In the exhibits: the loading of the configuration, `Deinitialize`,
  `CaptureTemplateOffset`.
- In the administrator's app: its overlay, the look-up of asset classes and the
  configuration of the server's address.
- Prompts, external models and the database schema; the template of the game, editor
  scripts and tools.

## Plan

1. Which lines, windows and thresholds make guidance fit the walk (no crossing within
   a window, no corner within a threshold of another), as an assumption on the
   constants; then `GuidanceFitsTheWalk` from `VisitorInv`.
2. The distance filter of the broadcast, and more visitors who move.
3. Sessions told apart in `DocentChat`, so that answers to session requests that
   come in reverse can be judged.
4. The positioning parts composed in one behaviour, with the geometry of more than
   one dimension.
