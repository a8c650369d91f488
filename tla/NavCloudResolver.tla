--------------------------- MODULE NavCloudResolver ---------------------------
(***************************************************************************)
(* The queue of cloud anchors the app tries to recognise                   *)
(* (UNavCloudResolverSubsystem): which anchors the server lists, which of  *)
(* them ARCore is looking for, how failed attempts wait, and how an anchor *)
(* the user is near takes the slot of a far one (decisions D42 to D44).    *)
(*                                                                         *)
(* A frame of the game thread is PollOrphanPins, PollResolves and          *)
(* ScheduleResolves; the last is a loop with a step for each anchor it     *)
(* serves.  Between frames time passes, the user walks, ARCore finishes    *)
(* resolves or loses track of a pin, and a list of anchors arrives.  Which *)
(* anchor carries the user's position (RefPointNo, the jump gate, the      *)
(* blend) is not part of this module.                                      *)
(*                                                                         *)
(* Times are kept as ages and remaining waits, counted in one unit; the    *)
(* order of the attempts' start times is kept as a rank.  The hall is a    *)
(* line, and the map and the world agree on where an anchor is.            *)
(***************************************************************************)
EXTENDS Integers, Sequences, FiniteSets

CONSTANTS
    Anchors,          \* point numbers
    Answers,          \* the lists of anchors the server may answer
    Pos,              \* where each anchor is
    Places,           \* where the user may be
    NearCm, Slack,    \* NearAnchorCm, PlanSlackCm
    Cap,              \* MaxConcurrentResolves
    FarBudget, NearBudget, Window,  \* requests allowed in a minute
    Timeout,          \* kAttemptTimeoutSeconds
    Base, BackoffMax, \* kBackoffBaseSeconds, RetryBackoffMaxSeconds
    MinPreempt,       \* kMinAttemptBeforePreemptSeconds
    Hold,             \* kResourceExhaustedHoldSeconds
    MaxFailures,      \* failures past which the interval no longer grows
    MaxPins,          \* pins the model tells apart
    MaxOrphans        \* bound on resolves that could not be cancelled

NoPin == 0

ASSUME ResolverAssumption ==
    /\ Anchors \subseteq Nat \ {0} /\ IsFiniteSet(Anchors)
    /\ Answers \subseteq [anchors : SUBSET Anchors, assets : SUBSET Anchors,
                          moved : SUBSET Anchors]
    /\ \A answer \in Answers : answer.moved \subseteq answer.anchors
    /\ Pos \in [Anchors -> Int] /\ Places \subseteq Int /\ Places # {}
    /\ {NearCm, Slack, FarBudget, NearBudget, Window, Timeout, Base, BackoffMax,
        MinPreempt, Hold, MaxFailures, MaxPins, MaxOrphans} \subseteq Nat
    /\ Cap \in Nat \ {0} /\ FarBudget \in 1..NearBudget
    /\ Timeout < BackoffMax /\ Base \in 1..BackoffMax
    /\ MaxFailures > 0 /\ Base * 2 ^ (MaxFailures - 1) >= BackoffMax

VARIABLES
    pc,          \* the step of the frame that comes next
    entries,     \* the point numbers of the Entries
    pin,         \* Entry.Pin
    recognized,  \* the anchors with bRecognized
    wasNear,     \* the anchors with bNearLast
    failures,    \* Entry.ConsecutiveFailures
    wait,        \* what is left until Entry.NextEligibleTime
    stamp,       \* rank of Entry.AttemptStart among the entries, 0 if unset
    age,         \* time since Entry.AttemptStart, AgeCap once the attempt is over
    hold,        \* what is left until GlobalResolveHoldUntil
    requests,    \* ages of RecentRequestTimes
    orphans,     \* OrphanPins
    waiting,     \* ScheduleResolves: Waiting, not yet served
    free,        \* ScheduleResolves: Free
    \* ARCore and the user
    future,      \* the state of each pin's resolve
    stale,       \* pins of entries, made for a cloud id the entry no longer has
    tracking,    \* resolved pins that are being tracked
    place,       \* where the user is
    passed       \* a pass was due and done in this unit of time

entryVars == <<entries, pin, recognized, wasNear, failures, wait, stamp, age>>
queueVars == <<hold, requests, orphans>>
loopVars == <<waiting, free>>
arcoreVars == <<future, stale, tracking>>
placeVars == <<place, passed>>
resolverVars == <<pc, entryVars, queueVars, loopVars, arcoreVars, placeVars>>

Pins == 1..MaxPins
Ended == {"Error", "Exhausted", "NotFound"}
AgeCap == Timeout + 1

Larger(a, b) == IF a > b THEN a ELSE b
Smaller(a, b) == IF a < b THEN a ELSE b
Distance(a, b) == Larger(a - b, b - a)

-----------------------------------------------------------------------------
(* Distance *)

\* GetTrackingRecognizedPin: anchors in S that are seen right now.
Seen(S) == {r \in S : pin[r] \in tracking}

\* EstimateDistanceLowerBoundCm, by the triangle inequality over the anchors
\* in S that are seen; -1 if there is none.
BoundBy(S, e) ==
    LET known == {Larger(0, Distance(Distance(Pos[e], Pos[r]),
                                     Distance(place, Pos[r])) - Slack)
                  : r \in Seen(S) \ {e}}
    IN IF known = {} THEN -1 ELSE CHOOSE b \in known : \A c \in known : b >= c

Bound(e) == BoundBy(recognized, e)
IsNear(bound) == 0 <= bound /\ bound <= NearCm
Near(e) == IsNear(Bound(e))

\* BoundKey(a) < BoundKey(b): an unknown distance counts as the farthest.
Closer(a, b) == Bound(a) >= 0 /\ (Bound(b) < 0 \/ Bound(a) < Bound(b))

-----------------------------------------------------------------------------
(* Slots and pins *)

\* IsInFlight
InFlight == {e \in entries \ recognized : pin[e] # NoPin}

\* Fault: orphans hold no slot.
LiveWithoutOrphans == Cardinality(InFlight)

\* CountLiveResolves
Live == Cardinality(InFlight)
          + Cardinality({p \in orphans : future[p] = "Pending"})

Running(P) == {p \in P : future[p] = "Pending"}

\* Pins of P are given up: an ended resolve is detached, a running one is
\* cancelled, and those that cannot be cancelled (stuck) run on.
LetGo(P, stuck) ==
    /\ future' = [p \in Pins |-> IF p \in P \ stuck THEN "none" ELSE future[p]]
    /\ tracking' = tracking \ P

\* ReleaseCloudPin on each pin of P; what cannot be cancelled is an orphan.
Release(P, stuck) ==
    /\ LetGo(P, stuck)
    /\ orphans' = orphans \union stuck
    /\ Cardinality(orphans') <= MaxOrphans

\* Fault: a pin is dropped and its resolve is left as it is.
PollOrphansAndDrop(P, stuck) == LetGo(orphans, stuck) /\ orphans' = stuck

\* PollOrphanPins, and then ReleaseCloudPin on each pin of P: the orphans are
\* cancelled again, and those that ended leave the list.
PollOrphansAndRelease(P, stuck) ==
    /\ LetGo(P \union orphans, stuck)
    /\ orphans' = stuck
    /\ Cardinality(orphans') <= MaxOrphans

-----------------------------------------------------------------------------
(* Attempts *)

\* The ranks of start times s, dense and with 0 kept for "never".
Ranked(s) == [e \in Anchors |-> Cardinality({s[a] : a \in Anchors} \intersect 1..s[e])]

\* AttemptStart and the clocks read from it, for an attempt at e that starts
\* now.  Attempts within one unit of time start at the same time.
StartAttempt(e) ==
    LET last == CHOOSE n \in {stamp[a] : a \in Anchors} : \A a \in Anchors : stamp[a] <= n
        now == IF \E a \in Anchors : stamp[a] > 0 /\ age[a] = 0 THEN last ELSE last + 1
    IN /\ stamp' = Ranked([stamp EXCEPT ![e] = now])
       /\ age' = [age EXCEPT ![e] = 0]

\* AttemptStart = 0 for each anchor of S.  The code keeps it when an anchor is
\* recognised, but reads it again only after it was set to 0.
ForgetAttempts(S) ==
    /\ stamp' = Ranked([e \in Anchors |-> IF e \in S THEN 0 ELSE stamp[e]])
    /\ age' = [e \in Anchors |-> IF e \in S THEN 0 ELSE age[e]]

-----------------------------------------------------------------------------
(* PollResolves *)

\* Fault: the interval never grows.
FailDelayFlat(e, n, f, bound) ==
    LET delay == Larger(0, Base - age[e])
    IN IF f = "Exhausted" THEN Larger(delay, BackoffMax) ELSE delay

\* Fault: after ResourceExhausted the longest wait is added to the usual one.
FailDelaySummed(e, n, f, bound) ==
    Larger(0, Base - age[e]) + (IF f = "Exhausted" THEN BackoffMax ELSE 0)

\* FailAttempt: how long an entry waits after its n-th failure in a row, when
\* the failed attempt ended in state f and the anchor was this far.
FailDelay(e, n, f, bound) ==
    LET doubled == Base * 2 ^ (n - 1)
        interval == IF doubled \in 0..BackoffMax THEN doubled ELSE BackoffMax
        eased == (IsNear(bound) \/ bound < 0) /\ f # "NotFound"
        delay == Larger(0, (IF eased THEN Base ELSE interval) - age[e])
    IN IF f = "Exhausted" THEN Larger(delay, BackoffMax) ELSE delay

\* PollOrphanPins and PollResolves with WatchRecognizedAnchor: an anchor whose
\* resolve succeeded and that is seen is recognised; a failed or overdue
\* attempt is released and waits; a recognised anchor whose pin died goes back
\* to the queue.  The entries are polled by number, so a failing one measures
\* its distance by the entries before it as they are after their own turn.  If
\* it is time, ScheduleResolves follows.
PollResolves ==
    LET dead == {e \in recognized : future[pin[e]] \in Ended}
        found == {e \in InFlight : future[pin[e]] = "Success" /\ pin[e] \in tracking}
        failed == {e \in InFlight \ found :
                     future[pin[e]] \in Ended \/ age[e] > Timeout}
        after == (recognized \ dead) \union found
        seenBy(e) == {r \in after : r < e} \union {r \in recognized : r > e}
        count(e) == Smaller(MaxFailures, failures[e] + 1)
    IN /\ pc = "frame"
       /\ pc' \in {"frame", "schedule"}
       /\ recognized' = after
       /\ LET given == {pin[e] : e \in dead \union failed}
          IN \E stuck \in SUBSET Running(orphans \union given) :
               PollOrphansAndRelease(given, stuck)
       /\ stale' = stale \ {pin[e] : e \in dead \union failed}
       /\ pin' = [e \in Anchors |->
                    IF e \in dead \union failed THEN NoPin ELSE pin[e]]
       /\ failures' = [e \in Anchors |-> IF e \in failed THEN count(e)
                                         ELSE IF e \in dead \union found THEN 0
                                         ELSE failures[e]]
       /\ wait' = [e \in Anchors |->
                     IF e \in failed
                     THEN FailDelay(e, count(e), future[pin[e]], BoundBy(seenBy(e), e))
                     ELSE IF e \in dead \union found THEN 0 ELSE wait[e]]
       /\ ForgetAttempts(dead \union found)
       /\ hold' = IF \E e \in failed : future[pin[e]] = "Exhausted" THEN Hold ELSE hold
       /\ UNCHANGED <<entries, wasNear, requests, loopVars, placeVars>>

-----------------------------------------------------------------------------
(* ScheduleResolves *)

\* The end of the pass, and of the frame.
EndPass == pc' = "frame" /\ waiting' = {} /\ free' = 0

\* ScheduleResolves returns early: cloud mode is off or the tracking quality is
\* too low.
SkipPass ==
    /\ pc = "schedule"
    /\ EndPass
    /\ passed' = TRUE
    /\ UNCHANGED <<entryVars, queueVars, arcoreVars, place>>

\* The first part of the pass: an anchor that has just come near no longer
\* waits, and the entries whose wait is over line up.
BeginPass ==
    LET near == {e \in entries \ recognized : Near(e)}
        relieved == {e \in near \ wasNear : failures[e] > 0 \/ wait[e] > 0}
        ready == {e \in entries \ recognized :
                    pin[e] = NoPin /\ (e \in relieved \/ wait[e] = 0)}
    IN /\ pc = "schedule"
       /\ wasNear' = near
       /\ failures' = [e \in Anchors |-> IF e \in relieved THEN 0 ELSE failures[e]]
       /\ wait' = [e \in Anchors |-> IF e \in relieved THEN 0 ELSE wait[e]]
       /\ IF ready = {} \/ hold > 0
          THEN EndPass
          ELSE pc' = "serve" /\ waiting' = ready /\ free' = Cap - Live
       /\ passed' = TRUE
       /\ UNCHANGED <<entries, pin, recognized, stamp, age, queueVars,
                      arcoreVars, place>>

\* Fault: the distance is left out of the order.
BeforeByStart(a, b) == IF stamp[a] # stamp[b] THEN stamp[a] < stamp[b] ELSE a < b

\* The order in which waiting anchors are served.
Before(a, b) ==
    IF Near(a) # Near(b) THEN Near(a)
    ELSE IF Bound(a) # Bound(b) THEN Closer(a, b)
    ELSE IF stamp[a] # stamp[b] THEN stamp[a] < stamp[b]
    ELSE a < b

First == CHOOSE e \in waiting : \A a \in waiting \ {e} : Before(e, a)

HasBudget(e) == Len(requests) < (IF Near(e) THEN NearBudget ELSE FarBudget)

\* A near anchor over its budget is passed over; behind a far one there are
\* only far ones.
PassOver ==
    /\ pc = "serve" /\ waiting # {} /\ ~HasBudget(First)
    /\ IF Near(First)
       THEN waiting' = waiting \ {First} /\ UNCHANGED <<pc, free>>
       ELSE EndPass
    /\ UNCHANGED <<entryVars, queueVars, arcoreVars, placeVars>>

\* Attempts a near anchor may take the slot of, the farthest and then the
\* oldest first.
Victims == {e \in InFlight : ~Near(e) /\ age[e] >= MinPreempt}
Victim == CHOOSE v \in Victims :
              \A w \in Victims \ {v} :
                 \/ Closer(w, v)
                 \/ Bound(w) = Bound(v) /\ stamp[v] < stamp[w]
                 \/ Bound(w) = Bound(v) /\ stamp[v] = stamp[w] /\ v < w

NeedsSlot == pc = "serve" /\ waiting # {} /\ HasBudget(First) /\ free <= 0

\* Only a near anchor makes room; without a victim the pass is over.
NoSlot ==
    /\ NeedsSlot
    /\ ~Near(First) \/ Victims = {}
    /\ EndPass
    /\ UNCHANGED <<entryVars, queueVars, arcoreVars, placeVars>>

\* The victim goes back to the queue at once.  If its resolve cannot be
\* cancelled, the slot stays taken and the pass is over.
Preempt ==
    /\ NeedsSlot
    /\ Near(First) /\ Victims # {}
    /\ \E stuck \in SUBSET Running({pin[Victim]}) :
         /\ Release({pin[Victim]}, stuck)
         /\ IF stuck = {}
            THEN free' = free + 1 /\ UNCHANGED <<pc, waiting>>
            ELSE EndPass
    /\ stale' = stale \ {pin[Victim]}
    /\ pin' = [pin EXCEPT ![Victim] = NoPin]
    /\ wait' = [wait EXCEPT ![Victim] = 0]
    /\ UNCHANGED <<entries, recognized, wasNear, failures, stamp, age, hold,
                   requests, placeVars>>

CanStart == pc = "serve" /\ waiting # {} /\ HasBudget(First) /\ free > 0

Unused == {p \in Pins : future[p] = "none" /\ \A e \in Anchors : pin[e] # p}

\* StartResolve: ARCore takes the request.  The new pin is an unused one.
StartResolve ==
    LET e == First
        p == IF e \in Unused THEN e ELSE CHOOSE q \in Unused : \A r \in Unused : q >= r
    IN /\ CanStart /\ Unused # {}
       /\ StartAttempt(e)
       /\ pin' = [pin EXCEPT ![e] = p]
       /\ future' = [future EXCEPT ![p] = "Pending"]
       /\ requests' = Append(requests, 0)
       /\ waiting' = waiting \ {e} /\ free' = free - 1
       /\ UNCHANGED <<pc, entries, recognized, wasNear, failures, wait, hold,
                      orphans, stale, tracking, placeVars>>

\* StartResolve: this request is refused; the anchor waits, the others go on.
StartFails ==
    LET e == First
    IN /\ CanStart
       /\ StartAttempt(e)
       /\ wait' = [wait EXCEPT ![e] = Base]
       /\ waiting' = waiting \ {e}
       /\ UNCHANGED <<pc, entries, pin, recognized, wasNear, failures, queueVars,
                      free, arcoreVars, placeVars>>

\* StartResolve: the session takes no request now; nobody is to blame.
StartBlocked ==
    /\ CanStart
    /\ EndPass
    /\ UNCHANGED <<entryVars, queueVars, arcoreVars, placeVars>>

\* StartResolve: ARCore has too many tasks; all new requests are held back.
StartExhausted ==
    /\ CanStart
    /\ StartAttempt(First)
    /\ wait' = [wait EXCEPT ![First] = Hold]
    /\ hold' = Hold
    /\ EndPass
    /\ UNCHANGED <<entries, pin, recognized, wasNear, failures, requests,
                   orphans, arcoreVars, placeVars>>

\* Every waiting anchor has been served.
AllServed ==
    /\ pc = "serve" /\ waiting = {}
    /\ EndPass
    /\ UNCHANGED <<entryVars, queueVars, arcoreVars, placeVars>>

ServePass == \/ PassOver \/ NoSlot \/ Preempt \/ StartResolve \/ StartFails
             \/ StartBlocked \/ StartExhausted \/ AllServed

-----------------------------------------------------------------------------
(* The list of anchors *)

\* What the server answers: anchors, those among them hosted under a new cloud
\* id, and anchors labelled as only carrying an exhibit.

\* The entries an answer takes out: those that became asset anchors, and
\* those it does not list, unless it lists no anchor at all.
Dropped(answer) ==
    (entries \intersect answer.assets)
      \union (IF answer.anchors = {} THEN {} ELSE entries \ answer.anchors)

\* Fault: an anchor hosted anew keeps its pin and its history.
RehostedIgnored(answer) == {}

\* The entries an answer finds hosted anew.
Rehosted(answer) == entries \intersect answer.anchors \intersect answer.moved

\* ApplyAnchorsJson
ApplyAnchorsJson(answer) ==
    LET dropped == Dropped(answer)
        reset == dropped \union Rehosted(answer)
        given == {pin[e] : e \in reset} \ {NoPin}
    IN /\ pc = "frame"
       /\ entries' = (entries \ dropped) \union answer.anchors
       /\ pin' = [e \in Anchors |-> IF e \in reset THEN NoPin ELSE pin[e]]
       /\ \E stuck \in SUBSET Running(given) : Release(given, stuck)
       /\ stale' = (stale \union {pin[e] : e \in answer.moved})
                     \intersect ({pin'[e] : e \in Anchors} \ {NoPin})
       /\ recognized' = recognized \ reset
       /\ wasNear' = wasNear \ dropped
       /\ failures' = [e \in Anchors |-> IF e \in reset THEN 0 ELSE failures[e]]
       /\ wait' = [e \in Anchors |-> IF e \in reset THEN 0 ELSE wait[e]]
       /\ ForgetAttempts(reset)
       /\ UNCHANGED <<pc, hold, requests, loopVars, placeVars>>

-----------------------------------------------------------------------------
(* ARCore, the user and the clock, between frames *)

\* A resolve ends.  Of an orphan only whether it succeeded matters.
Resolve(p) ==
    /\ pc = "frame" /\ future[p] = "Pending"
    /\ \E result \in {"Success"} \union (IF p \in orphans THEN {"Error"} ELSE Ended) :
         /\ future' = [future EXCEPT ![p] = result]
         /\ tracking' = IF result = "Success" /\ p \notin orphans
                        THEN tracking \union {p} ELSE tracking
    /\ UNCHANGED <<pc, entryVars, queueVars, loopVars, stale, placeVars>>

\* A resolved pin is lost from view, or seen again.
Blink(p) ==
    /\ pc = "frame" /\ future[p] = "Success" /\ p \notin orphans
    /\ tracking' = IF p \in tracking THEN tracking \ {p} ELSE tracking \union {p}
    /\ UNCHANGED <<pc, entryVars, queueVars, loopVars, future, stale, placeVars>>

\* A resolved pin dies.
Die(p) ==
    /\ pc = "frame" /\ future[p] = "Success" /\ p \notin orphans
    /\ future' = [future EXCEPT ![p] = "Error"]
    /\ tracking' = tracking \ {p}
    /\ UNCHANGED <<pc, entryVars, queueVars, loopVars, stale, placeVars>>

Walk ==
    /\ pc = "frame"
    /\ place' \in Places \ {place}
    /\ UNCHANGED <<pc, entryVars, queueVars, loopVars, arcoreVars, passed>>

\* A unit of time, in which many frames and a pass every 0.2 s fit: an overdue
\* attempt is polled before the next unit.  Requests older than the window, which
\* stand first, no longer count; the code takes them off the list when it next
\* counts them.
Elapse ==
    LET old == Cardinality({i \in DOMAIN requests : requests[i] >= Window}) IN
    /\ pc = "frame"
    /\ \A e \in InFlight : age[e] <= Timeout
    /\ passed /\ passed' = FALSE
    /\ age' = [e \in Anchors |->
                 IF stamp[e] = 0 THEN 0
                 ELSE IF e \in InFlight THEN age[e] + 1 ELSE AgeCap]
    /\ wait' = [e \in Anchors |-> Larger(0, wait[e] - 1)]
    /\ hold' = Larger(0, hold - 1)
    /\ requests' = [i \in 1..(Len(requests) - old) |-> requests[old + i] + 1]
    /\ UNCHANGED <<pc, entries, pin, recognized, wasNear, failures, stamp,
                   orphans, loopVars, arcoreVars, place>>

-----------------------------------------------------------------------------
QueueInit ==
    /\ pc = "frame"
    /\ entries = {}
    /\ pin = [e \in Anchors |-> NoPin]
    /\ recognized = {} /\ wasNear = {}
    /\ failures = [e \in Anchors |-> 0]
    /\ wait = [e \in Anchors |-> 0]
    /\ stamp = [e \in Anchors |-> 0]
    /\ age = [e \in Anchors |-> 0]
    /\ hold = 0 /\ requests = <<>> /\ orphans = {}
    /\ waiting = {} /\ free = 0
    /\ future = [p \in Pins |-> "none"]
    /\ stale = {} /\ tracking = {}
    /\ place \in Places /\ passed = FALSE

Frame == PollResolves \/ SkipPass \/ BeginPass \/ ServePass

Outside ==
    \/ \E answer \in Answers : ApplyAnchorsJson(answer)
    \/ \E p \in Pins : Resolve(p) \/ Blink(p) \/ Die(p)
    \/ Walk

QueueNext == Frame \/ Outside \/ Elapse

-----------------------------------------------------------------------------
(* Properties *)

QueueTypeOK ==
    /\ pc \in {"frame", "schedule", "serve"}
    /\ entries \subseteq Anchors
    /\ pin \in [Anchors -> Pins \union {NoPin}]
    /\ recognized \subseteq entries /\ wasNear \subseteq entries
    /\ failures \in [Anchors -> 0..MaxFailures]
    /\ wait \in [Anchors -> 0..Larger(BackoffMax, Hold)]
    /\ stamp \in [Anchors -> 0..Cardinality(Anchors)]
    /\ age \in [Anchors -> 0..AgeCap]
    /\ hold \in 0..Hold
    /\ requests \in Seq(0..Window) /\ Len(requests) <= NearBudget
    /\ orphans \subseteq Pins /\ Cardinality(orphans) <= MaxOrphans
    /\ waiting \subseteq entries \ recognized
    /\ free \in -MaxOrphans..Cap
    /\ future \in [Pins -> {"none", "Pending", "Success"} \union Ended]
    /\ stale \subseteq Pins
    /\ tracking \subseteq {p \in Pins : future[p] = "Success"}
    /\ place \in Places /\ passed \in BOOLEAN

\* D42: ARCore never runs more resolves than MaxConcurrentResolves, whatever
\* was preempted, timed out, re-hosted or taken off the list while its resolve
\* could not be cancelled.  (ScheduleResolves, CountLiveResolves.)
LiveWithinCap == Cardinality(Running(Pins)) <= Cap

\* A resolve that runs, and a resolved anchor that is attached, belongs to
\* exactly one entry or waits among the orphans: no resolve and no attached
\* anchor is left behind with nobody to end it.  (ReleaseCloudPin and its
\* callers, PollOrphanPins.)
NothingLeaks ==
    /\ \A p \in Pins : future[p] \in {"Pending", "Success"} =>
         p \in orphans \/ \E e \in entries : pin[e] = p
    /\ \A d, e \in Anchors : pin[d] = pin[e] /\ pin[d] # NoPin => d = e
    /\ \A e \in Anchors : pin[e] # NoPin => pin[e] \notin orphans

\* The pin an entry holds was made for the cloud id the entry has now, so what
\* is recognised is what the server lists, also when an anchor is hosted anew
\* while it is being resolved.  (ApplyAnchorsJson.)
PinFitsEntry == \A e \in entries : pin[e] \notin stale

\* The three together: what ARCore runs, what the entries and the orphans hold,
\* and what the server lists agree.
QueueIsSound == LiveWithinCap /\ NothingLeaks /\ PinFitsEntry

\* D44: a far anchor gets no slot while an anchor the user is near is ready
\* and has none.  (The order, the budgets and the breaks of ScheduleResolves.)
NearGoesFirst ==
    [][\A e \in entries :
         pin[e] = NoPin /\ pin'[e] # NoPin /\ ~Near(e) =>
            \A n \in entries \ recognized :
               ~(Near(n) /\ pin[n] = NoPin /\ wait[n] = 0)]_resolverVars

\* An anchor that is not listed, holds a pin or has just been tried.
Attended(e) == e \notin entries \/ pin[e] # NoPin \/ (stamp[e] > 0 /\ age[e] = 0)

\* What can make others wait for ever: ARCore takes no requests, a resolve that
\* cannot be cancelled keeps its slot, an anchor starts over and goes first as
\* one never tried, or the distances jump.
StartsOver(e) == /\ stamp[e] > 0 \/ e \in recognized
                 /\ stamp'[e] = 0 /\ e \notin recognized'
Upset == \/ SkipPass \/ StartBlocked \/ StartExhausted
         \/ orphans' # {}
         \/ entries' # entries \/ \E e \in Anchors : StartsOver(e)
         \/ \E p \in Pins : Blink(p)

\* D44, no anchor is given up: once ARCore takes requests, what is recognised
\* stays in view, the list is settled and the user is far from every anchor
\* still sought, each listed anchor is tried again and again, however often it
\* and the others fail.  (FailAttempt, ScheduleResolves.)
NoAnchorGivenUp ==
    <>[](\A e \in entries \ recognized : ~Near(e)) /\ <>[][~Upset]_resolverVars
       => \A e \in Anchors : []<>Attended(e)

\* Both together: near anchors go before far ones, and yet none is given up.
TriedInOrder == NearGoesFirst /\ NoAnchorGivenUp
===============================================================================
