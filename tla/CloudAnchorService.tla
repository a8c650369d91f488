-------------------------- MODULE CloudAnchorService --------------------------
(***************************************************************************)
(* The server's table of cloud anchors and what keeps the anchors alive:   *)
(* the handlers of the admin endpoints (routers/cloud_anchors.py), the     *)
(* extension tried in the background after a bind (cloud_anchor_ttl.py)    *)
(* and the job that runs once a day (extend_cloud_anchor_ttls.py).         *)
(*                                                                         *)
(* The app hosts an anchor for a day; Google drops it then unless one of   *)
(* the two has moved its end to the maximum.  The handlers run on threads. *)
(* Each reads a row, decides by what it read and commits at some later     *)
(* time: only the columns that differ from what it read are written, on    *)
(* the row as it is by then, and nothing locks it in between.  The job     *)
(* reads the rows once and commits once.  Who hosts an anchor may bind it  *)
(* to any point, at any time after.  The unit of time is the pause between *)
(* two runs of the job, which a hosted anchor outlives.                    *)
(***************************************************************************)
EXTENDS CloudPoints

CONSTANTS
    Life,          \* how long an anchor is hosted for (LifetimeInDays)
    MaxLife,       \* how long it can be extended to
    Within,        \* EXTEND_WITHIN
    Handlers,      \* the threads that run the handlers
    MaxCalls       \* bound on the requests that write

ASSUME ServiceAssumption ==
    /\ Life \in Nat /\ Life > 1 /\ Within \in Nat /\ Within >= Life
    /\ MaxLife \in Nat /\ MaxLife >= Life + Within
    /\ MaxCalls \in Nat /\ Handlers \subseteq Nat

VARIABLES
    rows,      \* the table: a record for each point that was seeded
    open,      \* what each thread has read and has still to commit
    left,      \* days until an anchor's expireTime; 0 when Google has it no more
    most,      \* days until its maximumExpireTime
    hosted,    \* the ids that were given
    jobs,      \* the ids with a background extension scheduled
    cron,      \* the run of the daily job, Idle between runs
    ran,       \* the job ran in this unit of time
    calls,     \* requests that write, so far
    unlucky    \* ids that were not on the list, or not answered for, in the last run
               \* of the job before they end (for the properties)

serviceVars == <<rows, open, left, most, hosted, jobs, cron, ran, calls, unlucky>>
google == <<left, most, hosted>>

Row == [cloud : Ids \union {NoId}, enabled : BOOLEAN, offset : BOOLEAN]
Idle == [todo |-> {}, disable |-> {}, busy |-> FALSE, whole |-> TRUE]

\* What a thread will write on a point's row, and the anchor it will then have
\* extended; nothing if it is free.  An asset offset was put on the row since it
\* was read: that is `raced' (for the properties).
Request(p, changes, extend) == [point |-> p, changes |-> changes, extend |-> extend, raced |-> FALSE]
Free == Request(NoPoint, <<>>, NoId)

\* A row of a planned point; `offset' tells whether it has an asset offset, tuned
\* on the anchor it has.  The columns that are only shown are left out (coordinates, verified_at,
\* the mirrored lifetimes, ttl_extended_at): no decision reads them.
Planned(on) == [cloud |-> NoId, enabled |-> on, offset |-> FALSE]

ServiceInit ==
    /\ rows = [p \in Points |-> Planned(TRUE)] /\ open = [h \in Handlers |-> Free]
    /\ left = [c \in Ids |-> 0] /\ most = [c \in Ids |-> 0] /\ hosted = {}
    /\ jobs = {} /\ cron = Idle /\ ran = FALSE /\ calls = 0 /\ unlucky = {}

-----------------------------------------------------------------------------
(* The table *)

Bound(p) == rows[p].cloud # NoId
Listed(p) == Bound(p) /\ rows[p].enabled

\* list_cloud_anchors: the points each state of the query shows.
ListCloudAnchors(state) ==
    {p \in Points : CASE state = "bound" -> Listed(p)
                      [] state = "unbound" -> ~Bound(p)
                      [] state = "all" -> TRUE}

\* The columns of a handler's new row that differ from the one it read.
Changed(p, new) == [col \in {k \in DOMAIN new : new[k] # rows[p][k]} |-> new[col]]

\* The first thread that is free has read point p's row; one that would write
\* nothing and ask for nothing is left out.
Handle(p, changes, extend) ==
    /\ changes # <<>> \/ extend # NoId
    /\ \E h \in Handlers :
        /\ open[h] = Free /\ \A g \in Handlers : g < h => open[g] # Free
        /\ open' = [open EXCEPT ![h] = Request(p, changes, extend)]
    /\ UNCHANGED <<rows, google, jobs, cron, ran, unlucky>>

\* upsert_point: cloud_id is left alone.
UpsertPoint(p, on) == Handle(p, Changed(p, [rows[p] EXCEPT !.enabled = on]), NoId)

\* bind_point's look for another point that has the id.
Clash(p, c) == \E q \in Points \ {p} : rows[q].cloud = c

\* Fault: the offset stays with the point.
BoundRowKeepsOffset(row, c) == [row EXCEPT !.cloud = c]

\* What bind_point makes of the row.  `enabled' is left as it was.
BoundRow(row, c) ==
    [row EXCEPT !.cloud = c, !.offset = @ /\ row.cloud = c]

\* bind_point, unless it refuses; once it has committed it schedules the extension.
BindPoint(p, c) == ~Clash(p, c) /\ Handle(p, Changed(p, BoundRow(rows[p], c)), c)

\* verify_point, for a point that is bound.
VerifyPoint(p, ok) == Bound(p) /\ Handle(p, Changed(p, [rows[p] EXCEPT !.enabled = ok]), NoId)

\* unbind_point
UnbindPoint(p) == Handle(p, Changed(p, Planned(rows[p].enabled)), NoId)

\* put_asset_offset: the time of the change is always another, and an offset
\* without one does not count.
PutAssetOffset(p) == Handle(p, [offset |-> TRUE], NoId)

\* delete_asset_offset
DeleteAssetOffset(p) == Handle(p, Changed(p, [rows[p] EXCEPT !.offset = FALSE]), NoId)

\* A row once `changes' are written on it.
Written(row, changes) ==
    [col \in DOMAIN row |-> IF col \in DOMAIN changes THEN changes[col] ELSE row[col]]

\* cloud_id is UNIQUE.
Taken(r) == "cloud" \in DOMAIN r.changes /\ r.changes.cloud # NoId /\ Clash(r.point, r.changes.cloud)

PutsOffset(r) == "offset" \in DOMAIN r.changes /\ r.changes.offset

\* A handler commits.
Commit(h) ==
    /\ open[h] # Free /\ ~Taken(open[h])
    /\ LET r == open[h] IN
        /\ rows' = [rows EXCEPT ![r.point] = Written(@, r.changes)]
        /\ jobs' = jobs \union ({r.extend} \ {NoId})
        /\ open' = [g \in Handlers |->
                      IF g = h THEN Free
                      ELSE IF PutsOffset(r) /\ open[g].point = r.point THEN [open[g] EXCEPT !.raced = TRUE]
                      ELSE open[g]]
    /\ UNCHANGED <<google, cron, ran, unlucky>>

\* Its commit fails, for the id is taken or the database or the server is down.
RollBack(h) ==
    /\ open[h] # Free /\ open' = [open EXCEPT ![h] = Free]
    /\ UNCHANGED <<rows, google, jobs, cron, ran, unlucky>>

-----------------------------------------------------------------------------
(* The background extension *)

\* Fault: the end is moved to MaxLife from now.
ExtendByMax(c) == left' = [left EXCEPT ![c] = IF @ > 0 THEN MaxLife ELSE 0]

\* extend_to_max: get, then set_expire; an anchor that is gone answers 404.
ExtendToMax(c) == left' = [left EXCEPT ![c] = IF @ > 0 THEN most[c] ELSE 0]

\* _extend_now: the anchor is extended, and the row it was bound to, if it is
\* still there, is told so (columns that are only shown).
JobExtends(c) ==
    /\ jobs' = jobs \ {c}
    /\ ExtendToMax(c)
    /\ UNCHANGED <<rows, open, most, hosted, cron, ran, unlucky>>

\* No credentials, a failed request, an exception, a worker that died.
JobFails(c) ==
    /\ jobs' = jobs \ {c}
    /\ UNCHANGED <<rows, open, google, cron, ran, unlucky>>

-----------------------------------------------------------------------------
(* The daily job *)

\* plan_extension
PlanExtension(expire, max) ==
    IF max <= Within THEN "rehost_needed"
    ELSE IF expire < Within /\ expire < max THEN "extend" ELSE "noop"

\* The one query of the run; an anchor that is off the list is not looked at.
CronStarts ==
    /\ ~cron.busy /\ ~ran
    /\ LET listed == ListCloudAnchors("bound") IN
       /\ cron' = [todo |-> {<<p, rows[p].cloud>> : p \in listed}, disable |-> {},
                   busy |-> TRUE, whole |-> TRUE]
       /\ unlucky' = unlucky \union {c \in hosted : left[c] <= 1 /\ \A p \in listed : rows[p].cloud # c}
    /\ UNCHANGED <<rows, open, google, jobs, ran>>

\* Fault: an anchor that is gone stays on the list.
DisableNone(p, c) == {}

\* A 404 takes the row off the list, once the run commits.
Disables(p, c) == IF left[c] = 0 THEN {p} ELSE {}

\* Google moves the end of an anchor that is due, if asked.
Extension(c) == IF left[c] > 0 /\ PlanExtension(left[c], most[c]) = "extend"
                THEN ExtendToMax(c) ELSE UNCHANGED left

\* One row of the run, with the id read at the start; an extension is asked for
\* at once.
CronVisits(p, c) ==
    /\ <<p, c>> \in cron.todo
    /\ cron' = [cron EXCEPT !.todo = @ \ {<<p, c>>}, !.disable = @ \union Disables(p, c)]
    /\ Extension(c)
    /\ UNCHANGED <<rows, open, most, hosted, jobs, ran, unlucky>>

\* Google answers neither 200 nor 404, to the look or to the extension after
\* it: the row waits for the next run.
CronMisses(p, c) ==
    /\ <<p, c>> \in cron.todo
    /\ cron' = [cron EXCEPT !.todo = @ \ {<<p, c>>}, !.whole = FALSE]
    /\ unlucky' = unlucky \union {c}
    /\ UNCHANGED <<rows, open, google, jobs, ran>>

\* Nothing catches an exception, of a call to Google, whether or not the answer
\* that was lost told of an extension, or of the commit: the run is over,
\* the rows still to come are not looked at, and no row leaves the list.
CronDies ==
    /\ cron.busy /\ cron' = Idle /\ ran' = TRUE
    /\ UNCHANGED left \/ \E p \in Points, c \in Ids : <<p, c>> \in cron.todo /\ Extension(c)
    /\ unlucky' = unlucky \union {c \in Ids : \E p \in Points : <<p, c>> \in cron.todo}
    /\ UNCHANGED <<rows, open, most, hosted, jobs>>

\* The commit writes what changed on the rows as they are now.
CronCommits ==
    /\ cron.busy /\ cron.todo = {}
    /\ rows' = [p \in Points |-> [rows[p] EXCEPT !.enabled = @ /\ p \notin cron.disable]]
    /\ cron' = Idle /\ ran' = TRUE
    /\ UNCHANGED <<open, google, jobs, unlucky>>

-----------------------------------------------------------------------------
(* Google and time *)

\* An anchor is hosted, for Life and extensible to MaxLife.
HostAnchor(c) ==
    /\ c \in Ids \ hosted /\ \A d \in Ids \ hosted : c <= d
    /\ hosted' = hosted \union {c}
    /\ left' = [left EXCEPT ![c] = Life]
    /\ most' = [most EXCEPT ![c] = MaxLife]
    /\ UNCHANGED <<rows, open, jobs, cron, ran, unlucky>>

\* Time passes, once the job has run.
Day ==
    /\ ran /\ ~cron.busy
    /\ left' = [c \in Ids |-> IF left[c] > 0 THEN left[c] - 1 ELSE 0]
    /\ most' = [c \in Ids |-> IF most[c] > 0 THEN most[c] - 1 ELSE 0]
    /\ ran' = FALSE
    /\ UNCHANGED <<rows, open, hosted, jobs, cron, unlucky>>

-----------------------------------------------------------------------------
(* Specification *)

\* Somebody with the server's tools, or with the app's pads.
Tools ==
    \E p \in Points : \/ \E on \in BOOLEAN : UpsertPoint(p, on) \/ VerifyPoint(p, on)
                      \/ UnbindPoint(p) \/ PutAssetOffset(p) \/ DeleteAssetOffset(p)

\* Somebody with the app binds an anchor that was hosted.
Registers == \E p \in Points : \E c \in hosted : rows[p].cloud # c /\ BindPoint(p, c)

Requests == calls < MaxCalls /\ calls' = calls + 1 /\ (Tools \/ Registers)

Background == \E c \in jobs : JobExtends(c) \/ JobFails(c)
CronStep == CronStarts \/ CronCommits \/ CronDies
Cron == CronStep \/ \E p \in Points, c \in Ids : CronVisits(p, c) \/ CronMisses(p, c)

Commits == \E h \in Handlers : Commit(h) \/ RollBack(h)

ServiceNext ==
    \/ Requests
    \/ UNCHANGED calls /\ (Commits \/ Background \/ Cron \/ Day \/ \E c \in Ids : HostAnchor(c))

-----------------------------------------------------------------------------
(* Properties *)

ServiceTypeOK ==
    /\ rows \in [Points -> Row]
    /\ \A h \in Handlers : open[h] = Free \/
         /\ open[h].point \in Points /\ Written(rows[open[h].point], open[h].changes) \in Row
         /\ open[h].extend \in hosted \union {NoId} /\ open[h].raced \in BOOLEAN
    /\ left \in [Ids -> 0..MaxLife] /\ most \in [Ids -> 0..MaxLife]
    /\ \A c \in Ids : left[c] <= most[c]
    /\ hosted \subseteq Ids /\ unlucky \subseteq Ids /\ jobs \subseteq Ids
    /\ cron.todo \subseteq Points \X Ids
    /\ cron.disable \subseteq Points
    /\ cron.busy \in BOOLEAN /\ cron.whole \in BOOLEAN /\ ran \in BOOLEAN /\ calls \in 0..MaxCalls

\* An anchor on the visitors' list lives until its maximum, even when every
\* background extension is lost, as long as the daily job saw its row and was
\* answered (cloud_anchor_ttl.py:9-11 leaves the rest to the job).
ListedAnchorsLive ==
    \A p \in Points : Listed(p) /\ rows[p].cloud \notin unlucky =>
        left[rows[p].cloud] > 0 \/ most[rows[p].cloud] = 0

\* What the comment in bind_point says (cloud_anchors.py:193-195): an asset
\* offset was tuned on the anchor that leaves and would put the exhibit in the
\* wrong place on the next one, so it leaves as well.
OffsetGoesWithAnchor ==
    [][\A p \in Points : rows'[p].cloud # rows[p].cloud => ~rows'[p].offset]_serviceVars

\* An offset that a handler could see on the row does not outlive the anchor it
\* changes (cloud_anchors.py:193-195, 266-267): what stays was put between its
\* read of the row and its commit.
OffsetStaysOnlyIfRaced ==
    [][\A p \in Points : rows'[p].cloud # rows[p].cloud /\ rows'[p].offset =>
          \E h \in Handlers : open[h].point = p /\ open[h].raced /\ open'[h] = Free]_serviceVars

\* If again and again a run of the job is answered for every row it read, and
\* commits, then an anchor that Google has dropped does not stay on the visitors'
\* list (extend_cloud_anchor_ttls.py:64-104): again and again there is none at all.
DeadOnTheList(c) == left[c] = 0 /\ \E p \in Points : Listed(p) /\ rows[p].cloud = c
WholeRuns == []<><<CronCommits /\ cron.whole>>_serviceVars
DeadAnchorsLeaveTheList == WholeRuns => []<>(\A c \in Ids : ~DeadOnTheList(c))

\* Both together: what visitors are sent to look for is there, or is soon taken
\* off the list.
AnchorsLiveOrLeave == []ListedAnchorsLive /\ DeadAnchorsLeaveTheList
===============================================================================
