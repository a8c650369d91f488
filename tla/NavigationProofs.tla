-------------------------- MODULE NavigationProofs ---------------------------
(***************************************************************************)
(* Theorems about the way to a destination, in three parts.                *)
(*                                                                         *)
(* The table of cloud anchors (CloudAnchorService, in the specification of *)
(* MCAnchors): what visitors are sent to look for is alive, and an asset   *)
(* offset that stays behind its anchor was put while a handler took the    *)
(* anchor away.  The handlers are any number of threads, the lifetimes any that *)
(* ServiceAssumption allows; none of it needs the fairness.                *)
(*                                                                         *)
(* Guidance (NavGuidance): a route that is shown leads to the destination  *)
(* that is shown once the latest request is settled, the server is asked   *)
(* for another one only when it is due, guidance ends only after a stay at *)
(* the destination, and the guide log says so.  Poses, answers and choices *)
(* come in any order and at any time.                                      *)
(*                                                                         *)
(* The route (Routing and RouteProgress): the service answers a shortest way *)
(* of the graph it holds, for any map whose ways are no shorter than they  *)
(* look, and the steps and the place of the visitor are on the line.  With *)
(* guidance they make the specification of MCNavGuidance; none of it needs *)
(* the fairness.                                                           *)
(***************************************************************************)
EXTENDS MCAnchors, MCNavGuidance, SequenceTheorems, Induction

-----------------------------------------------------------------------------
(* The table of cloud anchors: the invariant *)

\* What a handler has still to write makes a row of a row.  If it changes the
\* anchor it takes the offset off, or the row had none when it was read.
RequestOK(r) ==
    /\ r = [point |-> r.point, changes |-> r.changes, extend |-> r.extend, raced |-> r.raced]
    /\ r.point \in Points /\ r.extend \in hosted \union {NoId} /\ r.raced \in BOOLEAN
    /\ "cloud" \in DOMAIN r.changes => r.changes.cloud \in hosted \union {NoId}
    /\ "enabled" \in DOMAIN r.changes => r.changes.enabled \in BOOLEAN
    /\ "offset" \in DOMAIN r.changes => r.changes.offset \in BOOLEAN
    /\ "cloud" \in DOMAIN r.changes =>
         IF "offset" \in DOMAIN r.changes THEN ~r.changes.offset ELSE r.raced \/ ~rows[r.point].offset

\* Rows, requests and the run of the job speak of anchors that were hosted.
TableInv ==
    /\ rows \in [Points -> Row]
    /\ hosted \subseteq Ids
    /\ \A p \in Points : rows[p].cloud \in hosted \union {NoId}
    /\ open = [h \in Handlers |-> open[h]]
    /\ \A h \in Handlers : open[h] = Free \/ RequestOK(open[h])
    /\ cron.todo \subseteq Points \X hosted
    /\ cron.busy \in BOOLEAN /\ ran \in BOOLEAN /\ (cron.busy => ~ran)

\* An anchor whose end was moved to its maximum.
Extended(c) == left[c] = most[c]

\* One never extended yet.  It has more than a day before the pause; in its last
\* one the run under way has still to visit it.
Waiting(c) ==
    /\ left[c] \in 1..Life /\ most[c] = left[c] + (MaxLife - Life)
    /\ ran => left[c] > 1
    /\ cron.busy /\ left[c] = 1 => \E p \in Points : <<p, c>> \in cron.todo

\* unlucky grows and never shrinks, so it need not be typed.
LifeInv ==
    /\ left \in [Ids -> Nat] /\ most \in [Ids -> Nat]
    /\ \A c \in hosted \ unlucky : Extended(c) \/ Waiting(c)

ServiceInv == TableInv /\ LifeInv

\* Nothing is hosted at first.
LEMMA ServiceInvInit == ServiceInit => ServiceInv
<1> SUFFICES ASSUME ServiceInit PROVE ServiceInv
  OBVIOUS
<1>1. Planned(TRUE) \in Row /\ Planned(TRUE).cloud = NoId
  BY DEF Planned, Row
<1>2. TableInv
  BY <1>1 DEF ServiceInit, TableInv, Idle
<1>3. LifeInv
  BY DEF ServiceInit, LifeInv
<1> QED BY <1>2, <1>3 DEF ServiceInv

-----------------------------------------------------------------------------
(* The steps *)

\* The columns of a row, and of one that a handler writes on it.
Columns == {"cloud", "enabled", "offset"}

LEMMA RowIs ==
  ASSUME NEW f, f = [c \in Columns |-> f[c]],
         f["cloud"] \in Ids \union {NoId}, f["enabled"] \in BOOLEAN, f["offset"] \in BOOLEAN
  PROVE  f \in Row
BY DEF Row, Columns

LEMMA WrittenIs ==
  ASSUME NEW row \in Row, NEW ch
  PROVE  /\ Written(row, ch).cloud = IF "cloud" \in DOMAIN ch THEN ch.cloud ELSE row.cloud
         /\ Written(row, ch).enabled = IF "enabled" \in DOMAIN ch THEN ch.enabled ELSE row.enabled
         /\ Written(row, ch).offset = IF "offset" \in DOMAIN ch THEN ch.offset ELSE row.offset
         /\ /\ "cloud" \in DOMAIN ch => ch.cloud \in Ids \union {NoId}
            /\ "enabled" \in DOMAIN ch => ch.enabled \in BOOLEAN
            /\ "offset" \in DOMAIN ch => ch.offset \in BOOLEAN
            => Written(row, ch) \in Row
<1>1. DOMAIN row = Columns
  BY DEF Row, Columns
<1>2. \A c \in Columns : Written(row, ch)[c] = IF c \in DOMAIN ch THEN ch[c] ELSE row[c]
  BY <1>1 DEF Written
<1>3. Written(row, ch) = [c \in Columns |-> Written(row, ch)[c]]
  BY <1>1 DEF Written
<1>4. ASSUME "cloud" \in DOMAIN ch => ch.cloud \in Ids \union {NoId},
             "enabled" \in DOMAIN ch => ch.enabled \in BOOLEAN, "offset" \in DOMAIN ch => ch.offset \in BOOLEAN
      PROVE  Written(row, ch) \in Row
  <2>1. /\ Written(row, ch)["cloud"] \in Ids \union {NoId} /\ Written(row, ch)["enabled"] \in BOOLEAN
        /\ Written(row, ch)["offset"] \in BOOLEAN
    BY <1>2, <1>4 DEF Row, Columns
  <2> QED BY <1>3, <2>1, RowIs
<1> QED BY <1>2, <1>4 DEF Columns

\* What differs between two rows.
LEMMA ChangedIs ==
  ASSUME NEW p \in Points, NEW new \in Row
  PROVE  /\ "cloud" \in DOMAIN Changed(p, new) <=> new.cloud # rows[p].cloud
         /\ "enabled" \in DOMAIN Changed(p, new) <=> new.enabled # rows[p].enabled
         /\ "offset" \in DOMAIN Changed(p, new) <=> new.offset # rows[p].offset
         /\ \A c \in DOMAIN Changed(p, new) : Changed(p, new)[c] = new[c]
<1>1. DOMAIN new = Columns
  BY DEF Row, Columns
<1> QED BY <1>1 DEF Changed, Columns

\* What LifeInv says depends on the lifetimes, the hosted ids, the job and unlucky.
lives == <<left, most, hosted, cron, ran, unlucky>>

\* With them, nothing changes.
LEMMA LifeInvDepends == LifeInv /\ UNCHANGED lives => LifeInv'
  BY DEF LifeInv, lives, Extended, Waiting

\* A handler has read its row.
LEMMA HandleKeeps ==
  ASSUME ServiceInv, NEW p, NEW changes, NEW extend, Handle(p, changes, extend), RequestOK(Request(p, changes, extend))
  PROVE  ServiceInv'
<1>1. /\ UNCHANGED <<rows, left, most, hosted, jobs, cron, ran, unlucky>>
      /\ \E h \in Handlers : open' = [open EXCEPT ![h] = Request(p, changes, extend)]
  BY DEF Handle, google
<1>2. LifeInv'
  BY <1>1, LifeInvDepends DEF ServiceInv, lives
<1>3. \A r : RequestOK(r) => RequestOK(r)'
  BY <1>1 DEF RequestOK
<1>4. /\ open' = [h \in Handlers |-> open'[h]]
      /\ \A h \in Handlers : open'[h] = open[h] \/ open'[h] = Request(p, changes, extend)
  BY <1>1 DEF ServiceInv, TableInv
<1>5. \A h \in Handlers : open'[h] = Free \/ RequestOK(open[h])'
  BY <1>3, <1>4 DEF ServiceInv, TableInv
<1> QED BY <1>1, <1>2, <1>4, <1>5 DEF ServiceInv, TableInv

\* What a handler makes of the row it read: an offset that it saw goes with the
\* anchor.
LEMMA ChangedKeeps ==
  ASSUME ServiceInv, NEW p \in Points, NEW new \in Row, NEW extend \in hosted \union {NoId},
         new.cloud \in hosted \union {NoId}, new.cloud # rows[p].cloud => ~new.offset,
         Handle(p, Changed(p, new), extend)
  PROVE  ServiceInv'
<1> DEFINE ch == Changed(p, new)  r == Request(p, ch, extend)
<1>1. rows[p] \in Row
  BY DEF ServiceInv, TableInv
<1>2. /\ "cloud" \in DOMAIN ch <=> new.cloud # rows[p].cloud
      /\ "offset" \in DOMAIN ch <=> new.offset # rows[p].offset
      /\ \A c \in DOMAIN ch : ch[c] = new[c]
  BY ChangedIs
<1> HIDE DEF ch
<1>3. r = [point |-> p, changes |-> ch, extend |-> extend, raced |-> FALSE]
  BY DEF Request
<1>4. new.cloud \in hosted \union {NoId} /\ new.enabled \in BOOLEAN /\ new.offset \in BOOLEAN /\ rows[p].offset \in BOOLEAN
  BY <1>1 DEF Row
<1>5. /\ "cloud" \in DOMAIN ch => ch.cloud \in hosted \union {NoId}
      /\ "enabled" \in DOMAIN ch => ch.enabled \in BOOLEAN
      /\ "offset" \in DOMAIN ch => ch.offset \in BOOLEAN
      /\ "cloud" \in DOMAIN ch => IF "offset" \in DOMAIN ch THEN ~ch.offset ELSE ~rows[p].offset
  BY <1>2, <1>4
<1> HIDE DEF r
<1>6. r.point = p /\ r.changes = ch /\ r.extend = extend /\ r.raced = FALSE
  BY <1>3
<1>7. RequestOK(r)
  BY <1>3, <1>5, <1>6 DEF RequestOK
<1> QED BY <1>7, HandleKeeps DEF r, ch

\* Every handler of the table reads a row, and writes what goes with it.
LEMMA ServiceInvTools == ServiceInv /\ Tools => ServiceInv'
<1> SUFFICES ASSUME ServiceInv, Tools PROVE ServiceInv'
  OBVIOUS
<1>1. PICK p \in Points, on \in BOOLEAN :
          UpsertPoint(p, on) \/ VerifyPoint(p, on) \/ UnbindPoint(p) \/ PutAssetOffset(p) \/ DeleteAssetOffset(p)
  BY DEF Tools
<1>2. rows[p] \in Row /\ rows[p].cloud \in hosted \union {NoId}
  BY DEF ServiceInv, TableInv
<1>3. CASE UpsertPoint(p, on) \/ VerifyPoint(p, on)
  <2> DEFINE new == [rows[p] EXCEPT !.enabled = on]
  <2>1. new \in Row /\ new.cloud = rows[p].cloud
    BY <1>2 DEF Row
  <2>2. Handle(p, Changed(p, new), NoId)
    BY <1>3 DEF UpsertPoint, VerifyPoint
  <2> QED BY <1>2, <2>1, <2>2, ChangedKeeps
<1>4. CASE UnbindPoint(p)
  <2> DEFINE new == Planned(rows[p].enabled)
  <2>1. new \in Row /\ new.cloud = NoId /\ ~new.offset
    BY <1>2 DEF Row, Planned
  <2>2. Handle(p, Changed(p, new), NoId)
    BY <1>4 DEF UnbindPoint
  <2> HIDE DEF new
  <2> QED BY <2>1, <2>2, ChangedKeeps
<1>5. CASE PutAssetOffset(p)
  <2>1. RequestOK(Request(p, [offset |-> TRUE], NoId))
    BY DEF RequestOK, Request
  <2> QED BY <1>5, <2>1, HandleKeeps DEF PutAssetOffset
<1>6. CASE DeleteAssetOffset(p)
  <2> DEFINE new == [rows[p] EXCEPT !.offset = FALSE]
  <2>1. new \in Row /\ new.cloud = rows[p].cloud
    BY <1>2 DEF Row
  <2>2. Handle(p, Changed(p, new), NoId)
    BY <1>6 DEF DeleteAssetOffset
  <2> QED BY <1>2, <2>1, <2>2, ChangedKeeps
<1> QED BY <1>1, <1>3, <1>4, <1>5, <1>6

\* One that is bound was hosted.
LEMMA ServiceInvRegisters == ServiceInv /\ Registers => ServiceInv'
<1> SUFFICES ASSUME ServiceInv, NEW p \in Points, NEW c \in hosted, BindPoint(p, c) PROVE ServiceInv'
  BY DEF Registers
<1> DEFINE new == BoundRow(rows[p], c)
<1>1. rows[p] \in Row /\ c \in Ids
  BY DEF ServiceInv, TableInv
<1>2. new \in Row /\ new.cloud = c /\ (c # rows[p].cloud => ~new.offset)
  BY <1>1 DEF BoundRow, Row
<1>3. Handle(p, Changed(p, new), c)
  BY DEF BindPoint
<1> HIDE DEF new
<1> QED BY <1>2, <1>3, ChangedKeeps

\* A request is committed: an offset that it puts is told to the others, and the
\* rest of the table is as it was.
LEMMA CommitKeeps == ASSUME ServiceInv, NEW h \in Handlers, Commit(h) PROVE ServiceInv'
<1> DEFINE r == open[h]
<1>1. /\ UNCHANGED <<left, most, hosted, cron, ran, unlucky>> /\ r # Free
      /\ rows' = [rows EXCEPT ![r.point] = Written(@, r.changes)]
      /\ open' = [g \in Handlers |->
                    IF g = h THEN Free
                    ELSE IF PutsOffset(r) /\ open[g].point = r.point THEN [open[g] EXCEPT !.raced = TRUE]
                    ELSE open[g]]
  BY DEF Commit, google
<1>2. RequestOK(r) /\ rows \in [Points -> Row] /\ r.point \in Points /\ rows[r.point] \in Row
  BY <1>1 DEF ServiceInv, TableInv, RequestOK
<1> DEFINE new == Written(rows[r.point], r.changes)
<1>3. hosted \subseteq Ids
  BY DEF ServiceInv, TableInv
<1>4. /\ new \in Row
      /\ new.cloud = IF "cloud" \in DOMAIN r.changes THEN r.changes.cloud ELSE rows[r.point].cloud
      /\ new.offset = IF "offset" \in DOMAIN r.changes THEN r.changes.offset ELSE rows[r.point].offset
  BY <1>2, <1>3, WrittenIs DEF RequestOK
<1>5. rows'[r.point] = new /\ \A p \in Points : p # r.point => rows'[p] = rows[p]
  BY <1>1, <1>2
<1>6. rows' \in [Points -> Row]
  BY <1>1, <1>2, <1>4
<1>7. \A p \in Points : rows'[p].cloud \in hosted \union {NoId}
  BY <1>2, <1>4, <1>5 DEF ServiceInv, TableInv, RequestOK
<1>8. ASSUME NEW g \in Handlers PROVE open'[g] = Free \/ RequestOK(open[g])'
  <2> DEFINE q == open[g]
  <2>1. CASE g = h
    BY <1>1, <2>1
  <2>2. CASE g # h /\ q = Free
    <3>1. q.point = NoPoint
      BY <2>2 DEF Free, Request
    <3>2. q.point # r.point
      BY <1>2, <3>1, PointsAssumption
    <3> QED BY <1>1, <2>2, <3>2
  <2>3. CASE g # h /\ RequestOK(q) /\ PutsOffset(r) /\ q.point = r.point
    <3>1. open'[g] = [q EXCEPT !.raced = TRUE]
      BY <1>1, <2>3
    <3>2. q = [point |-> q.point, changes |-> q.changes, extend |-> q.extend, raced |-> q.raced]
      BY <2>3 DEF RequestOK
    <3> HIDE DEF q
    <3>3. open'[g] = [point |-> q.point, changes |-> q.changes, extend |-> q.extend, raced |-> TRUE]
      BY <3>1, <3>2
    <3>4. /\ open'[g].point = q.point /\ open'[g].changes = q.changes /\ open'[g].extend = q.extend
          /\ open'[g].raced = TRUE
      BY <3>3
    <3>5. open'[g] = [point |-> open'[g].point, changes |-> open'[g].changes, extend |-> open'[g].extend,
                      raced |-> open'[g].raced]
      BY <3>3, <3>4
    <3> QED BY <1>1, <2>3, <3>4, <3>5 DEF RequestOK
  <2>4. CASE g # h /\ RequestOK(q) /\ ~(PutsOffset(r) /\ q.point = r.point)
    <3>1. open'[g] = q
      BY <1>1, <2>4
    <3>2. q.point \in Points /\ (~rows[q.point].offset => ~rows'[q.point].offset)
      <4>1. q.point \in Points
        BY <2>4 DEF RequestOK
      <4>2. CASE q.point # r.point
        BY <1>5, <4>1, <4>2
      <4>3. CASE q.point = r.point /\ "offset" \in DOMAIN r.changes
        <5>1. r.changes.offset = FALSE
          BY <1>2, <2>4, <4>3 DEF PutsOffset, RequestOK
        <5>2. rows'[q.point].offset = r.changes.offset
          BY <1>4, <1>5, <4>3
        <5>3. rows'[q.point].offset = FALSE
          BY <5>1, <5>2
        <5> QED BY <4>1, <5>3
      <4>4. CASE q.point = r.point /\ "offset" \notin DOMAIN r.changes
        <5>1. rows'[q.point].offset = rows[q.point].offset
          BY <1>4, <1>5, <4>4
        <5>2. rows[q.point].offset \in BOOLEAN
          BY <1>2, <4>1 DEF Row
        <5> QED BY <4>1, <5>1, <5>2
      <4> QED BY <4>1, <4>2, <4>3, <4>4
    <3> QED BY <1>1, <2>4, <3>1, <3>2 DEF RequestOK
  <2> QED BY <2>1, <2>2, <2>3, <2>4 DEF ServiceInv, TableInv
<1>9. open' = [g \in Handlers |-> open'[g]]
  BY <1>1
<1>10. TableInv'
  BY <1>1, <1>6, <1>7, <1>8, <1>9 DEF ServiceInv, TableInv
<1> QED BY <1>1, <1>10, LifeInvDepends DEF ServiceInv, lives

\* A request that is rolled back changes nothing.
LEMMA RollBackKeeps == ASSUME ServiceInv, NEW h \in Handlers, RollBack(h) PROVE ServiceInv'
<1>1. UNCHANGED <<rows, left, most, hosted, cron, ran, unlucky>> /\ open' = [open EXCEPT ![h] = Free]
  BY DEF RollBack, google
<1>2. \A r : RequestOK(r) => RequestOK(r)'
  BY <1>1 DEF RequestOK
<1>3. /\ open' = [g \in Handlers |-> open'[g]]
      /\ \A g \in Handlers : open'[g] = open[g] \/ open'[g] = Free
  BY <1>1 DEF ServiceInv, TableInv
<1>4. TableInv'
  BY <1>1, <1>2, <1>3 DEF ServiceInv, TableInv
<1> QED BY <1>1, <1>4, LifeInvDepends DEF ServiceInv, lives

\* The rows and the requests depend on little.
LEMMA TableInvDepends ==
  ASSUME ServiceInv, UNCHANGED <<rows, open, hosted>>, cron'.todo \subseteq Points \X hosted,
         cron'.busy \in BOOLEAN, ran' \in BOOLEAN, cron'.busy => ~ran'
  PROVE  TableInv'
<1>1. \A r : RequestOK(r) => RequestOK(r)'
  BY DEF RequestOK
<1> QED BY <1>1 DEF ServiceInv, TableInv

\* A new anchor has Life before it.
LEMMA HostKeeps == ASSUME ServiceInv, NEW c \in Ids, HostAnchor(c) PROVE ServiceInv'
<1>1. TableInv'
  <2>1. UNCHANGED <<rows, open, cron, ran>> /\ hosted' = hosted \union {c}
    BY DEF HostAnchor
  <2>2. \A r : RequestOK(r) => RequestOK(r)'
    BY <2>1 DEF RequestOK
  <2> QED BY <2>1, <2>2 DEF ServiceInv, TableInv
<1>2. left' \in [Ids -> Nat] /\ most' \in [Ids -> Nat]
  BY ServiceAssumption DEF HostAnchor, ServiceInv, LifeInv
<1>3. Waiting(c)'
  BY ServiceAssumption DEF HostAnchor, ServiceInv, LifeInv, TableInv, Waiting
<1>4. ASSUME NEW d \in hosted \ unlucky PROVE Extended(d)' \/ Waiting(d)'
  <2>1. d \in Ids /\ d # c /\ left'[d] = left[d] /\ most'[d] = most[d]
    BY <1>4 DEF HostAnchor, ServiceInv, LifeInv, TableInv
  <2>2. Extended(d) \/ Waiting(d)
    BY <1>4 DEF ServiceInv, LifeInv
  <2> QED BY <2>1, <2>2 DEF HostAnchor, Extended, Waiting
<1> QED BY <1>1, <1>2, <1>3, <1>4 DEF HostAnchor, ServiceInv, LifeInv

\* The background extension takes an anchor to its maximum, or does nothing.
LEMMA ServiceInvBackground == ServiceInv /\ Background => ServiceInv'
<1> SUFFICES ASSUME ServiceInv, NEW c \in jobs, JobExtends(c) \/ JobFails(c), Background PROVE ServiceInv'
  BY DEF Background
<1>1. CASE JobFails(c)
  <2>1. UNCHANGED lives /\ UNCHANGED <<rows, open>>
    BY <1>1 DEF JobFails, google, lives
  <2>2. TableInv'
    BY <2>1, TableInvDepends DEF ServiceInv, TableInv, lives
  <2> QED BY <2>1, <2>2, LifeInvDepends DEF ServiceInv
<1>2. CASE JobExtends(c)
  <2>1. UNCHANGED <<rows, open, most, hosted, cron, ran, unlucky>>
    BY <1>2 DEF JobExtends
  <2>2. left' \in [Ids -> Nat] /\ \A d \in Ids : d # c => left'[d] = left[d]
    BY <1>2 DEF JobExtends, ExtendToMax, ServiceInv, LifeInv
  <2>3. c \in Ids => left'[c] = IF left[c] > 0 THEN most[c] ELSE 0
    BY <1>2 DEF JobExtends, ExtendToMax, ServiceInv, LifeInv
  <2>4. ASSUME NEW d \in hosted \ unlucky PROVE Extended(d)' \/ Waiting(d)'
    <3>1. d \in Ids /\ (Extended(d) \/ Waiting(d)) /\ left[d] \in Nat /\ most[d] \in Nat
      BY <2>4 DEF ServiceInv, TableInv, LifeInv
    <3>2. CASE d # c
      BY <2>1, <2>2, <3>1, <3>2 DEF Extended, Waiting
    <3>3. CASE d = c
      BY <2>1, <2>3, <3>1, <3>3, ServiceAssumption DEF Extended, Waiting
    <3> QED BY <3>2, <3>3
  <2>5. TableInv'
    BY <2>1, TableInvDepends DEF ServiceInv, TableInv
  <2> QED BY <2>1, <2>2, <2>4, <2>5 DEF ServiceInv, LifeInv
<1> QED BY <1>1, <1>2

\* A run of the job starts, or ends: nobody it can reach waits for its visit any more.
LEMMA ServiceInvCronStep == ServiceInv /\ CronStep => ServiceInv'
<1>1. ASSUME ServiceInv, CronStarts PROVE ServiceInv'
  <2>1. UNCHANGED <<rows, open, left, most, hosted, ran>> /\ ~ran /\ cron'.busy
    BY <1>1 DEF CronStarts, google
  <2>2. cron'.todo = {<<p, rows[p].cloud>> : p \in ListCloudAnchors("bound")}
    BY <1>1 DEF CronStarts
  <2>3. \A p \in ListCloudAnchors("bound") : p \in Points /\ rows[p].cloud \in hosted
    BY <1>1 DEF ListCloudAnchors, Listed, Bound, ServiceInv, TableInv
  <2>4. TableInv'
    <3>1. cron'.todo \subseteq Points \X hosted
      BY <2>2, <2>3
    <3>2. cron'.busy \in BOOLEAN
      BY <1>1 DEF CronStarts
    <3> QED BY <1>1, <2>1, <3>1, <3>2, TableInvDepends DEF ServiceInv, TableInv
  <2>5. ASSUME NEW c \in hosted \ unlucky', Waiting(c) PROVE Waiting(c)'
    <3>1. left[c] = 1 => \E p \in ListCloudAnchors("bound") : rows[p].cloud = c
      BY <1>1, <2>5 DEF CronStarts
    <3>2. left[c] = 1 => \E p \in Points : <<p, c>> \in cron'.todo
      BY <2>2, <2>3, <3>1
    <3> QED BY <2>1, <2>5, <3>2 DEF Waiting
  <2>6. unlucky \subseteq unlucky'
    BY <1>1 DEF CronStarts
  <2>7. LifeInv'
    BY <1>1, <2>1, <2>5, <2>6 DEF ServiceInv, LifeInv, Extended
  <2> QED BY <2>4, <2>7 DEF ServiceInv
<1>2. ASSUME ServiceInv, CronCommits PROVE ServiceInv'
  <2>1. UNCHANGED <<open, left, most, hosted, unlucky>> /\ cron' = Idle /\ ran' = TRUE
    BY <1>2 DEF CronCommits, google
  <2>2. /\ rows' \in [Points -> Row]
        /\ \A p \in Points : rows'[p].cloud = rows[p].cloud /\ rows'[p].offset = rows[p].offset
    <3>1. ASSUME NEW p \in Points, NEW on \in BOOLEAN
          PROVE  /\ [rows[p] EXCEPT !.enabled = on] \in Row
                 /\ [rows[p] EXCEPT !.enabled = on].cloud = rows[p].cloud
                 /\ [rows[p] EXCEPT !.enabled = on].offset = rows[p].offset
      BY <1>2 DEF ServiceInv, TableInv, Row
    <3>2. \A p \in Points : (rows[p].enabled /\ p \notin cron.disable) \in BOOLEAN
      OBVIOUS
    <3> QED BY <1>2, <3>1, <3>2 DEF CronCommits
  <2>3. TableInv'
    <3>1. \A r : RequestOK(r) => RequestOK(r)'
      BY <2>1, <2>2 DEF RequestOK
    <3> QED BY <1>2, <2>1, <2>2, <3>1 DEF ServiceInv, TableInv, Idle
  <2>4. ASSUME NEW c \in hosted \ unlucky, Waiting(c) PROVE Waiting(c)'
    BY <1>2, <2>1, <2>4 DEF CronCommits, Waiting, Idle
  <2>5. LifeInv'
    BY <1>2, <2>1, <2>4 DEF ServiceInv, LifeInv, Extended
  <2> QED BY <2>3, <2>5 DEF ServiceInv
<1>3. ASSUME ServiceInv, CronDies PROVE ServiceInv'
  <2>1. UNCHANGED <<rows, open, most, hosted>> /\ cron' = Idle /\ ran' = TRUE
    BY <1>3 DEF CronDies
  <2>2. TableInv'
    BY <1>3, <2>1, TableInvDepends DEF Idle
  <2>3. left' \in [Ids -> Nat] /\ \A d \in Ids : left'[d] \in {left[d], most[d]}
    BY <1>3 DEF CronDies, Extension, ExtendToMax, ServiceInv, LifeInv
  <2>4. ASSUME NEW d \in hosted \ unlucky' PROVE Extended(d)' \/ Waiting(d)'
    <3>1. d \in hosted \ unlucky /\ d \in Ids /\ \A p \in Points : <<p, d>> \notin cron.todo
      BY <1>3 DEF CronDies, ServiceInv, TableInv
    <3>2. Extended(d) \/ Waiting(d)
      BY <1>3, <3>1 DEF ServiceInv, LifeInv
    <3>3. CASE left'[d] = most[d]
      BY <2>1, <3>3 DEF Extended
    <3>4. CASE left'[d] = left[d] /\ Waiting(d)
      BY <1>3, <2>1, <3>1, <3>4 DEF CronDies, Waiting, Idle
    <3> QED BY <2>3, <3>1, <3>2, <3>3, <3>4 DEF Extended
  <2>5. LifeInv'
    BY <1>3, <2>1, <2>3, <2>4 DEF ServiceInv, LifeInv
  <2> QED BY <2>2, <2>5 DEF ServiceInv
<1> QED BY <1>1, <1>2, <1>3 DEF CronStep

\* A visit extends an anchor in its last day: its maximum is far, for it was
\* never extended (MaxLife >= Life + Within).
LEMMA ServiceInvVisits ==
  ASSUME ServiceInv, NEW p \in Points, NEW c \in Ids, CronVisits(p, c)
  PROVE  ServiceInv'
<1>1. UNCHANGED <<rows, open, most, hosted, ran, unlucky>>
  BY DEF CronVisits
<1>2. cron'.todo = cron.todo \ {<<p, c>>} /\ cron'.busy = cron.busy
  BY DEF CronVisits
<1>3. left' \in [Ids -> Nat] /\ \A d \in Ids : left'[d] = left[d] \/ (d = c /\ left'[d] = most[d])
  BY DEF CronVisits, Extension, ExtendToMax, ServiceInv, LifeInv
<1>4. TableInv'
  BY <1>1, <1>2, TableInvDepends DEF ServiceInv, TableInv
<1>5. ASSUME NEW d \in hosted \ unlucky PROVE Extended(d)' \/ Waiting(d)'
  <2>1. d \in Ids /\ (Extended(d) \/ Waiting(d)) /\ left[d] \in Nat /\ most[d] \in Nat
    BY DEF ServiceInv, TableInv, LifeInv
  <2>2. CASE Extended(d)
    BY <1>1, <1>3, <2>1, <2>2 DEF Extended
  <2>3. CASE left'[d] = most[d]
    BY <1>1, <2>3 DEF Extended
  <2>4. CASE Waiting(d) /\ left'[d] = left[d] /\ (d # c \/ left[d] # 1)
    BY <1>1, <1>2, <2>4 DEF Waiting
  <2>5. CASE Waiting(d) /\ d = c /\ left[d] = 1
    <3>1. PlanExtension(left[c], most[c]) = "extend"
      BY <2>1, <2>5, ServiceAssumption DEF PlanExtension, Waiting
    <3>2. left'[c] = most[c]
      BY <2>1, <2>5, <3>1 DEF CronVisits, Extension, ExtendToMax, ServiceInv, LifeInv
    <3> QED BY <1>1, <2>5, <3>2 DEF Extended
  <2> QED BY <1>3, <2>1, <2>2, <2>3, <2>4, <2>5
<1> QED BY <1>1, <1>3, <1>4, <1>5 DEF ServiceInv, LifeInv

\* A miss makes the anchor unlucky.
LEMMA ServiceInvMisses ==
  ASSUME ServiceInv, NEW p \in Points, NEW c \in Ids, CronMisses(p, c)
  PROVE  ServiceInv'
<1>1. UNCHANGED <<rows, open, left, most, hosted, ran>> /\ unlucky' = unlucky \union {c}
  BY DEF CronMisses, google
<1>2. cron'.todo = cron.todo \ {<<p, c>>} /\ cron'.busy = cron.busy
  BY DEF CronMisses
<1>3. TableInv'
  BY <1>1, <1>2, TableInvDepends DEF ServiceInv, TableInv
<1>4. ASSUME NEW d \in hosted \ unlucky', Waiting(d) PROVE Waiting(d)'
  BY <1>1, <1>2, <1>4 DEF Waiting
<1> QED BY <1>1, <1>3, <1>4 DEF ServiceInv, LifeInv, Extended

\* A day goes by after a run, when nobody waiting is in his last.
LEMMA ServiceInvDay == ServiceInv /\ Day => ServiceInv'
<1> SUFFICES ASSUME ServiceInv, Day PROVE ServiceInv'
  OBVIOUS
<1>1. UNCHANGED <<rows, open, hosted, cron, unlucky>> /\ ran /\ ~cron.busy /\ ran' = FALSE
  BY DEF Day
<1>2. \A c \in Ids : /\ left'[c] = IF left[c] > 0 THEN left[c] - 1 ELSE 0
                     /\ most'[c] = IF most[c] > 0 THEN most[c] - 1 ELSE 0
  BY DEF Day
<1>3. left' \in [Ids -> Nat] /\ most' \in [Ids -> Nat]
  BY DEF Day, ServiceInv, LifeInv
<1>4. ASSUME NEW c \in hosted \ unlucky PROVE Extended(c)' \/ Waiting(c)'
  <2>1. c \in Ids /\ (Extended(c) \/ Waiting(c)) /\ left[c] \in Nat /\ most[c] \in Nat
    BY DEF ServiceInv, TableInv, LifeInv
  <2>2. CASE Extended(c)
    BY <1>2, <2>1, <2>2 DEF Extended
  <2>3. CASE Waiting(c)
    BY <1>1, <1>2, <2>1, <2>3, ServiceAssumption DEF Waiting
  <2> QED BY <2>1, <2>2, <2>3
<1>5. TableInv'
  BY <1>1, TableInvDepends DEF ServiceInv, TableInv
<1> QED BY <1>1, <1>3, <1>4, <1>5 DEF ServiceInv, LifeInv

-----------------------------------------------------------------------------
(* The theorems *)

\* The steps of the other two parts leave the table alone.
LEMMA ServiceInvNext == ServiceInv /\ [Next]_vars => ServiceInv'
<1> SUFFICES ASSUME ServiceInv, [Next]_vars PROVE ServiceInv'
  OBVIOUS
<1>1. CASE UNCHANGED serviceVars
  <2>1. UNCHANGED <<rows, open>> /\ UNCHANGED lives
    BY <1>1 DEF serviceVars, lives
  <2>2. TableInv'
    BY <2>1, TableInvDepends DEF ServiceInv, TableInv, lives
  <2> QED BY <2>1, <2>2, LifeInvDepends DEF ServiceInv
<1>2. CASE ServiceNext
  <2>1. CASE Cron
    BY <2>1, ServiceInvCronStep, ServiceInvVisits, ServiceInvMisses DEF Cron
  <2>2. CASE Requests
    BY <2>2, ServiceInvTools, ServiceInvRegisters DEF Requests
  <2>3. CASE Commits
    BY <2>3, CommitKeeps, RollBackKeeps DEF Commits
  <2> QED BY <1>2, <2>1, <2>2, <2>3, HostKeeps, ServiceInvBackground, ServiceInvDay DEF ServiceNext
<1> QED BY <1>1, <1>2 DEF Next, vars

\* In every reachable state an anchor that the job never missed is at its
\* maximum, or waits for a visit that comes in time (ServiceInv).
THEOREM ServiceInvHolds == Spec => []ServiceInv
<1>1. Init => ServiceInv
  BY ServiceInvInit DEF Init
<1> QED BY <1>1, ServiceInvNext, PTL DEF Spec

\* What visitors are sent to look for is alive until its maximum, though every
\* background extension is lost, for any lifetimes the service may have.
THEOREM WhatIsListedLives == Spec => []ListedAnchorsLive
<1>1. ServiceInv => ListedAnchorsLive
  <2> SUFFICES ASSUME ServiceInv, NEW p \in Points, Listed(p), rows[p].cloud \notin unlucky
               PROVE  left[rows[p].cloud] > 0 \/ most[rows[p].cloud] = 0
    BY DEF ListedAnchorsLive
  <2> DEFINE c == rows[p].cloud
  <2>1. c \in hosted \ unlucky /\ c \in Ids
    BY DEF Listed, Bound, ServiceInv, TableInv
  <2>2. (Extended(c) \/ Waiting(c)) /\ left[c] \in Nat /\ most[c] \in Nat
    BY <2>1 DEF ServiceInv, LifeInv
  <2> QED BY <2>2, ServiceAssumption DEF Extended, Waiting
<1> QED BY <1>1, ServiceInvHolds, PTL

\* Whoever binds a point to another anchor takes the offset of the old one off
\* (bind_point, unbind_point), unless it was put between the handler's read of
\* the row and its commit; for any points, ids and threads.
THEOREM OffsetStaysOnlyWhenRaced == Spec => OffsetStaysOnlyIfRaced
<1> DEFINE ByRace(p) == \E h \in Handlers : open[h].point = p /\ open[h].raced /\ open'[h] = Free
<1>1. ServiceInv /\ [Next]_vars =>
        [\A p \in Points : rows'[p].cloud # rows[p].cloud /\ rows'[p].offset => ByRace(p)]_serviceVars
  <2> SUFFICES ASSUME ServiceInv, Next, NEW p \in Points, rows'[p].cloud # rows[p].cloud, rows'[p].offset
               PROVE  ByRace(p)
    BY DEF vars
  <2>1. rows \in [Points -> Row]
    BY DEF ServiceInv, TableInv
  <2>2. ServiceNext
    BY DEF Next, serviceVars
  <2>3. ASSUME NEW h \in Handlers, Commit(h) PROVE ByRace(p)
    <3> DEFINE r == open[h]
    <3>1. /\ RequestOK(r) /\ r.point \in Points /\ open'[h] = Free
          /\ rows' = [rows EXCEPT ![r.point] = Written(@, r.changes)]
      BY <2>3 DEF Commit, ServiceInv, TableInv, RequestOK
    <3> HIDE DEF r
    <3>2. r.point = p
      BY <2>1, <3>1
    <3> DEFINE row == rows[p]  new == Written(row, r.changes)
    <3>3. row \in Row /\ rows'[p] = new
      BY <2>1, <3>1, <3>2
    <3>4. r.raced \in BOOLEAN /\ row.offset \in BOOLEAN
      BY <3>1, <3>3 DEF RequestOK, Row
    <3>5. "cloud" \in DOMAIN r.changes
      BY <3>3, WrittenIs
    <3>6. ASSUME "offset" \in DOMAIN r.changes PROVE FALSE
      <4>1. new.offset = r.changes.offset
        BY <3>3, <3>6, WrittenIs
      <4>2. r.changes.offset = FALSE
        BY <3>1, <3>5, <3>6 DEF RequestOK
      <4>3. rows'[p].offset = FALSE
        BY <3>3, <4>1, <4>2
      <4> QED BY <4>3
    <3>7. new.offset = row.offset
      BY <3>3, <3>6, WrittenIs
    <3>8. row.offset = TRUE
      BY <3>3, <3>4, <3>7
    <3>9. r.raced
      BY <3>1, <3>2, <3>4, <3>5, <3>6, <3>8 DEF RequestOK
    <3> QED BY <3>1, <3>2, <3>9 DEF r
  <2>4. rows' # rows /\ ~\A q \in Points : rows'[q].cloud = rows[q].cloud
    OBVIOUS
  <2>5. CASE Requests
    <3>1. UNCHANGED rows
      BY <2>5 DEF Requests, Tools, Registers, UpsertPoint, VerifyPoint, UnbindPoint, PutAssetOffset,
                  DeleteAssetOffset, BindPoint, Handle
    <3> QED BY <2>4, <3>1
  <2>6. CASE Background \/ Day \/ \E c \in Ids : HostAnchor(c)
    BY <2>4, <2>6 DEF Background, JobExtends, JobFails, Day, HostAnchor
  <2>7. CASE CronCommits
    <3>1. \A q \in Points : rows'[q].cloud = rows[q].cloud
      BY <2>1, <2>7 DEF CronCommits, Row
    <3> QED BY <2>4, <3>1
  <2>8. CASE Cron /\ ~CronCommits
    BY <2>4, <2>8, Zenon DEF Cron, CronStep, CronStarts, CronDies, CronVisits, CronMisses
  <2>9. CASE Commits
    BY <2>3, <2>4, <2>9 DEF Commits, RollBack
  <2> QED BY <2>2, <2>5, <2>6, <2>7, <2>8, <2>9 DEF ServiceNext
<1> QED BY <1>1, ServiceInvHolds, PTL DEF Spec, OffsetStaysOnlyIfRaced

-----------------------------------------------------------------------------
(* What the three sides store *)

\* The greatest has the fewest above it.
LEMMA GreatestOf ==
  ASSUME NEW K \in SUBSET Nat, IsFiniteSet(K), K # {}
  PROVE  \E m \in K : \A k \in K : m >= k
<1> DEFINE above == [m \in K |-> {k \in K : k > m}]
           counts == {Cardinality(above[m]) : m \in K}
<1>1. \A m \in K : IsFiniteSet(above[m]) /\ Cardinality(above[m]) \in Nat
  <2>1. \A m \in K : above[m] \subseteq K
    OBVIOUS
  <2> HIDE DEF above
  <2> QED BY <2>1, FS_Subset, FS_CardinalityType
<1> HIDE DEF above
<1>2. counts \in SUBSET Nat /\ counts # {}
  BY <1>1
<1>3. PICK n \in counts : \A i \in counts : n <= i
  <2> HIDE DEF counts
  <2> QED BY <1>2, LeastOf
<1>4. PICK m \in K : \A k \in K : Cardinality(above[m]) <= Cardinality(above[k])
  BY <1>3
<1>5. ASSUME NEW k \in K, k > m PROVE FALSE
  <2>1. k \in above[m] /\ k \notin above[k]
    BY <1>5 DEF above
  <2>2. above[k] \subseteq above[m]
    <3>1. \A j \in Nat : j > k => j > m
      BY <1>5
    <3> QED BY <3>1 DEF above
  <2>3. Cardinality(above[k]) <= Cardinality(above[m]) /\ Cardinality(above[k]) # Cardinality(above[m])
    BY <1>1, <2>1, <2>2, FS_Subset
  <2>4. PICK a \in Nat : a = Cardinality(above[k])
    BY <1>1
  <2>5. PICK b \in Nat : b = Cardinality(above[m])
    BY <1>1
  <2>6. b <= a
    BY <1>4, <2>4, <2>5
  <2> QED BY <2>3, <2>4, <2>5, <2>6
<1>6. ASSUME NEW k \in K PROVE m >= k
  <2>1. k \in Nat /\ m \in Nat
    OBVIOUS
  <2> QED BY <1>5, <2>1
<1> QED BY <1>6

LEMMA FirstAndLast ==
  ASSUME NEW S \in SUBSET Points
  PROVE  /\ FirstPoint(S) \in Points \union {NoPoint} /\ LastPoint(S) \in Points \union {NoPoint}
         /\ S # {} => FirstPoint(S) \in S
<1>1. CASE S = {}
  BY <1>1 DEF FirstPoint, LastPoint
<1>2. CASE S # {}
  <2>1. S \in SUBSET Nat /\ IsFiniteSet(S)
    BY PointsAssumption, FS_Subset
  <2>2. (\E p \in S : \A q \in S : p <= q) /\ (\E p \in S : \A q \in S : p >= q)
    BY <1>2, <2>1, LeastOf, GreatestOf
  <2>3. (CHOOSE p \in S : \A q \in S : p <= q) \in S
    BY <2>2, Zenon
  <2>4. (CHOOSE p \in S : \A q \in S : p >= q) \in S
    BY <2>2, Zenon
  <2> QED BY <1>2, <2>3, <2>4 DEF FirstPoint, LastPoint
<1> QED BY <1>1, <1>2

\* The lifetimes and the run of the job; the rows and the requests are in ServiceInv.
CronType == [todo : SUBSET (Points \X Ids), disable : SUBSET Points, busy : BOOLEAN, whole : BOOLEAN]
TimesOK == left \in [Ids -> 0..MaxLife] /\ most \in [Ids -> 0..MaxLife] /\ \A c \in Ids : left[c] <= most[c]
StoredOK == /\ cron \in CronType /\ ran \in BOOLEAN /\ calls \in 0..MaxCalls
            /\ unlucky \subseteq Ids /\ jobs \subseteq Ids

\* What the app of the administrator has of the server's table.
Listing == {<<>>} \union [Points -> Ids \union {NoId}]
AdminOK ==
    /\ asked \in BOOLEAN /\ reloads \in 0..MaxReloads /\ list \in Listing /\ reply \in Listing
    /\ selected \in Points \union {NoPoint}
    /\ scan \in Scans /\ pending \in {"none", "InProgress", "Success", "Error"}
    /\ pending = "Success" => given # {}
    /\ binding \in [point : Points \union {NoPoint}, cloud : Ids \union {NoId}, code : {0, 200, 409}]
    /\ wire \subseteq [point : Points, cloud : Ids]
    /\ given \subseteq Ids /\ server \in [Points -> Ids \union {NoId}]

LEMMA TimesKeep == TimesOK /\ StoredOK /\ ServiceNext => TimesOK'
<1> SUFFICES ASSUME TimesOK, StoredOK, ServiceNext PROVE TimesOK'
  OBVIOUS
<1>1. Life \in 0..MaxLife /\ MaxLife \in Nat
  BY ServiceAssumption
<1>2. ASSUME UNCHANGED <<left, most>> PROVE TimesOK'
  BY <1>2 DEF TimesOK
<1>3. ASSUME NEW c \in Ids, ExtendToMax(c), UNCHANGED most PROVE TimesOK'
  BY <1>1, <1>3 DEF ExtendToMax, TimesOK
<1>4. CASE Day
  <2>1. /\ left' = [c \in Ids |-> IF left[c] > 0 THEN left[c] - 1 ELSE 0]
        /\ most' = [c \in Ids |-> IF most[c] > 0 THEN most[c] - 1 ELSE 0]
    BY <1>4 DEF Day
  <2> QED BY <1>1, <2>1 DEF TimesOK
<1>5. ASSUME NEW c \in Ids, HostAnchor(c) PROVE TimesOK'
  <2>1. left' = [left EXCEPT ![c] = Life] /\ most' = [most EXCEPT ![c] = MaxLife]
    BY <1>5 DEF HostAnchor
  <2> QED BY <1>1, <2>1 DEF TimesOK
<1>6. CASE Requests \/ Commits
  <2>1. UNCHANGED <<left, most>>
    BY <1>6 DEF Requests, Tools, Registers, UpsertPoint, VerifyPoint, UnbindPoint, PutAssetOffset, DeleteAssetOffset,
                BindPoint, Handle, Commits, Commit, RollBack, google
  <2> QED BY <1>2, <2>1
<1>7. CASE Background
  <2>1. PICK c \in jobs : JobExtends(c) \/ JobFails(c)
    BY <1>7 DEF Background
  <2>2. c \in Ids
    BY DEF StoredOK
  <2> QED BY <1>2, <1>3, <2>1, <2>2 DEF JobExtends, JobFails, google
<1>8. CASE Cron
  <2>1. CASE CronStarts \/ CronCommits
    BY <1>2, <2>1 DEF CronStarts, CronCommits, google
  <2>2. ASSUME NEW p \in Points, NEW c \in Ids, CronVisits(p, c) \/ CronMisses(p, c) PROVE TimesOK'
    <3>1. \/ ExtendToMax(c) /\ UNCHANGED most
          \/ UNCHANGED <<left, most>>
      BY <2>2 DEF CronVisits, CronMisses, Extension, google
    <3> QED BY <1>2, <1>3, <3>1
  <2>3. CASE CronDies
    BY <1>2, <1>3, <2>3 DEF CronDies, Extension
  <2> QED BY <1>8, <2>1, <2>2, <2>3 DEF Cron, CronStep
<1> QED BY <1>4, <1>5, <1>6, <1>7, <1>8, Zenon DEF ServiceNext

LEMMA StoredKeeps == ServiceInv /\ StoredOK /\ ServiceNext => StoredOK'
<1> SUFFICES ASSUME ServiceInv, StoredOK, ServiceNext PROVE StoredOK'
  OBVIOUS
<1>0. rows \in [Points -> Row] /\ hosted \subseteq Ids
  BY DEF ServiceInv, TableInv
<1>1. CASE Requests
  <2>1. calls' \in 0..MaxCalls
    BY <1>1, ServiceAssumption DEF Requests, StoredOK
  <2>2. UNCHANGED <<cron, ran, unlucky, jobs>>
    BY <1>1 DEF Requests, Tools, Registers, UpsertPoint, VerifyPoint, UnbindPoint, PutAssetOffset, DeleteAssetOffset,
                BindPoint, Handle
  <2> QED BY <2>1, <2>2 DEF StoredOK
<1>2. CASE Commits /\ UNCHANGED calls
  <2>1. ASSUME NEW h \in Handlers, Commit(h) PROVE jobs' \subseteq Ids
    <3>1. open[h].extend \in hosted \union {NoId}
      BY <2>1 DEF Commit, ServiceInv, TableInv, RequestOK
    <3> QED BY <1>0, <2>1, <3>1 DEF Commit, StoredOK
  <2>2. UNCHANGED <<cron, ran, unlucky>> /\ (UNCHANGED jobs \/ \E h \in Handlers : Commit(h))
    BY <1>2 DEF Commits, Commit, RollBack
  <2> QED BY <1>2, <2>1, <2>2 DEF StoredOK
<1>3. CASE (Background \/ Day \/ \E c \in Ids : HostAnchor(c)) /\ UNCHANGED calls
  BY <1>3 DEF Background, Day, JobExtends, JobFails, HostAnchor, StoredOK, google
<1>4. CASE Cron /\ UNCHANGED calls
  <2>1. CASE CronStarts
    <3>1. {<<p, rows[p].cloud>> : p \in ListCloudAnchors("bound")} \subseteq Points \X Ids
      BY <1>0 DEF ListCloudAnchors, Listed, Bound, Row
    <3>2. cron' \in CronType
      BY <2>1, <3>1 DEF CronStarts, CronType
    <3>3. unlucky' \subseteq Ids
      BY <1>0, <2>1 DEF CronStarts, StoredOK
    <3> QED BY <1>4, <2>1, <3>2, <3>3 DEF CronStarts, StoredOK
  <2>2. CASE CronCommits \/ CronDies
    <3>1. cron' = Idle /\ ran' = TRUE /\ UNCHANGED jobs /\ unlucky' \subseteq Ids
      BY <2>2 DEF CronCommits, CronDies, StoredOK
    <3> QED BY <1>4, <3>1 DEF StoredOK, CronType, Idle
  <2>3. ASSUME NEW p \in Points, NEW c \in Ids, CronVisits(p, c) \/ CronMisses(p, c) PROVE StoredOK'
    <3>1. cron \in CronType /\ Disables(p, c) \subseteq Points
      BY DEF StoredOK, Disables
    <3>2. cron' = [cron EXCEPT !.todo = @ \ {<<p, c>>}, !.disable = @ \union Disables(p, c)]
          \/ cron' = [cron EXCEPT !.todo = @ \ {<<p, c>>}, !.whole = FALSE]
      BY <2>3 DEF CronVisits, CronMisses
    <3>3. cron' \in CronType
      <4> HIDE DEF Disables
      <4> QED BY <3>1, <3>2 DEF CronType
    <3> QED BY <1>4, <2>3, <3>3 DEF CronVisits, CronMisses, StoredOK
  <2> QED BY <1>4, <2>1, <2>2, <2>3 DEF Cron, CronStep
<1> QED BY <1>1, <1>2, <1>3, <1>4, Zenon DEF ServiceNext

LEMMA AdminKeeps == AdminOK /\ AdminNext => AdminOK'
<1> SUFFICES ASSUME AdminOK, AdminNext PROVE AdminOK'
  OBVIOUS
<1> USE DEF AdminOK, listVars, hostVars, world
<1>1. \A l \in Listing : DOMAIN l \subseteq Points
  BY DEF Listing
<1>2. server \in Listing /\ <<>> \in Listing
  BY DEF Listing
<1>3. NoBind \in [point : Points \union {NoPoint}, cloud : Ids \union {NoId}, code : {0, 200, 409}]
  BY DEF NoBind
<1>4. CASE FetchPoints
  BY <1>2, <1>4 DEF FetchPoints
<1>5. CASE ApplyPointsJson
  <2>1. selected' \in Points \union {NoPoint}
    <3> DEFINE free == {p \in Points : p \in DOMAIN reply /\ reply[p] = NoId}
    <3>1. free \in SUBSET Points /\ DOMAIN reply \in SUBSET Points
      BY <1>1
    <3>2. selected' = FirstPoint(IF free = {} THEN DOMAIN reply ELSE free)
      BY <1>5 DEF ApplyPointsJson
    <3> HIDE DEF free
    <3> QED BY <3>1, <3>2, FirstAndLast
  <2> QED BY <1>2, <1>5, <2>1 DEF ApplyPointsJson
<1>6. CASE OnApplyServerUrl
  <2>1. reloads' \in 0..MaxReloads
    BY <1>6, AdminAssumption DEF OnApplyServerUrl
  <2>2. asked' = FALSE /\ list' = <<>>
    BY <1>6 DEF OnApplyServerUrl
  <2> QED BY <1>2, <1>6, <2>1, <2>2 DEF OnApplyServerUrl
<1>7. CASE SelectAdjacent
  <2>1. selected' \in Points \union {NoPoint}
    <3> DEFINE after == {p \in Loaded : p > selected}
               before == {p \in Loaded : p < selected}
    <3>1. after \in SUBSET Points /\ before \in SUBSET Points /\ Loaded \in SUBSET Points
      BY <1>1 DEF Loaded
    <3>2. selected' \in {FirstPoint(IF after = {} THEN Loaded ELSE after), LastPoint(IF before = {} THEN Loaded ELSE before)}
      BY <1>7 DEF SelectAdjacent
    <3> HIDE DEF after, before
    <3> QED BY <3>1, <3>2, FirstAndLast
  <2> QED BY <1>7, <2>1 DEF SelectAdjacent, Scans
<1>8. CASE AccumulateScan \/ RegisterAtCrosshair
  BY <1>8 DEF AccumulateScan, RegisterAtCrosshair
<1>9. CASE HostEnds
  BY <1>9 DEF HostEnds
<1>10. CASE PollPendingHost
  <2>1. CASE pending = "Success" /\ SelectedPoint # NoPoint
    <3>1. given \in SUBSET Nat /\ IsFiniteSet(given) /\ given # {}
      <4>1. given \in SUBSET Ids /\ given # {}
        BY <2>1
      <4>2. Ids \subseteq Nat /\ IsFiniteSet(Ids)
        BY PointsAssumption
      <4>3. IsFiniteSet(given)
        BY <4>1, <4>2, FS_Subset
      <4> QED BY <4>1, <4>2, <4>3
    <3>2. \E c \in given : \A d \in given : c >= d
      BY <3>1, GreatestOf
    <3>3. \E c \in given : \A d \in given : d <= c
      BY <3>1, <3>2
    <3>4. Newest \in Ids
      BY <3>3, Zenon DEF Newest
    <3>5. SelectedPoint \in Points
      BY <1>1, <2>1 DEF SelectedPoint, Loaded
    <3>6. /\ binding' = [point |-> SelectedPoint, cloud |-> Newest, code |-> 0]
          /\ wire' = wire \union {[point |-> SelectedPoint, cloud |-> Newest]}
      BY <1>10, <2>1 DEF PollPendingHost, BindSelectedPoint
    <3> QED BY <1>10, <3>4, <3>5, <3>6 DEF PollPendingHost, Scans
  <2>2. CASE ~(pending = "Success" /\ SelectedPoint # NoPoint)
    BY <1>10, <2>2 DEF PollPendingHost, BindSelectedPoint, Scans
  <2> QED BY <2>1, <2>2
<1>11. CASE BindEnds
  <2>1. list' \in Listing
    BY <1>11 DEF BindEnds, Listing, Loaded
  <2> QED BY <1>3, <1>11, <2>1 DEF BindEnds
<1>12. ASSUME NEW m \in wire, BindArrives(m) \/ BindIsLost(m) PROVE AdminOK'
  <2>1. server' \in [Points -> Ids \union {NoId}]
    BY <1>12 DEF BindArrives, BindIsLost
  <2>2. binding' \in [point : Points \union {NoPoint}, cloud : Ids \union {NoId}, code : {0, 200, 409}]
    BY <1>12 DEF BindArrives, BindIsLost
  <2> QED BY <1>12, <2>1, <2>2 DEF BindArrives, BindIsLost
<1>13. CASE UnbindElsewhere
  BY <1>13 DEF UnbindElsewhere
<1> QED BY <1>4, <1>5, <1>6, <1>7, <1>8, <1>9, <1>10, <1>11, <1>12, <1>13 DEF AdminNext

LEMMA PreviewKeeps == PreviewTypeOK /\ PreviewNext => PreviewTypeOK'
<1> SUFFICES ASSUME PreviewTypeOK, PreviewNext PROVE PreviewTypeOK'
  OBVIOUS
<1> USE DEF PreviewTypeOK
<1>1. CASE EnterPreview
  <2>1. PICK started \in SUBSET bound :
          /\ entries' = [p \in started |-> [pin |-> "Pending", retries |-> 0, asset |-> FALSE]]
          /\ chosen' = IF started = {} THEN chosen ELSE FirstPoint(started)
    BY <1>1 DEF EnterPreview
  <2>2. chosen' \in Points
    BY <2>1, FirstAndLast
  <2>3. [pin |-> "Pending", retries |-> 0, asset |-> FALSE] \in Entry
    BY PreviewAssumption DEF Entry, PinStates
  <2> QED BY <1>1, <2>1, <2>2, <2>3 DEF EnterPreview
<1>2. CASE ExitPreview \/ Restart
  <2>1. preview' = FALSE /\ entries' = <<>> /\ UNCHANGED <<bound, chosen, saved>>
        /\ (offsets' = offsets \/ offsets' = saved)
    BY <1>2 DEF ExitPreview, Restart
  <2>2. DOMAIN entries' = {}
    BY <2>1
  <2> QED BY <2>1, <2>2
<1>3. CASE ApplyNudge
  <2>1. NudgeTarget \in Points
    <3>1. Shown \in SUBSET Points
      BY DEF Shown
    <3> QED BY <3>1, FirstAndLast DEF NudgeTarget
  <2>2. PICK to \in 0..MaxOffset : offsets' = [offsets EXCEPT ![NudgeTarget] = to]
    BY <1>3 DEF ApplyNudge
  <2>3. offsets' \in [Points -> 0..MaxOffset] /\ saved' = offsets'
    BY <1>3, <2>1, <2>2 DEF ApplyNudge, SaveOffsets
  <2> QED BY <1>3, <2>3 DEF ApplyNudge
<1>4. ASSUME NEW p \in Points, Register(p) \/ Choose(p) PROVE PreviewTypeOK'
  BY <1>4 DEF Register, Choose
<1>5. ASSUME NEW p \in DOMAIN entries, NEW e \in Entry, Change(p, e),
             UNCHANGED <<preview, bound, chosen, offsets, saved>>
      PROVE  PreviewTypeOK'
  <2>1. preview
    <3>1. entries # <<>>
      OBVIOUS
    <3> QED BY <3>1
  <2>2. DOMAIN entries' = DOMAIN entries /\ \A q \in DOMAIN entries : entries'[q] \in Entry
    BY <1>5 DEF Change
  <2> QED BY <1>5, <2>1, <2>2
<1>6. ASSUME NEW p \in DOMAIN entries, ArCoreStep(p) PROVE PreviewTypeOK'
  <2>1. PICK to \in PinStates : Change(p, [entries[p] EXCEPT !.pin = to])
    BY <1>6 DEF ArCoreStep, PinStates, Entry
  <2>2. [entries[p] EXCEPT !.pin = to] \in Entry
    BY DEF Entry
  <2> QED BY <1>5, <1>6, <2>1, <2>2 DEF ArCoreStep
<1>7. ASSUME NEW p \in DOMAIN entries, TickPreview(p) PROVE PreviewTypeOK'
  <2>1. entries[p] \in Entry
    OBVIOUS
  <2>2. CASE RetryResolve(p)
    <3>1. PICK pin \in {"Pending", "null"} :
              Change(p, [pin |-> pin, retries |-> entries[p].retries + 1, asset |-> FALSE])
      BY <2>2 DEF RetryResolve
    <3>2. entries[p].retries + 1 \in 0..MaxRetries
      BY <2>1, <2>2, PreviewAssumption DEF RetryResolve, Entry
    <3>3. [pin |-> pin, retries |-> entries[p].retries + 1, asset |-> FALSE] \in Entry
      BY <3>2 DEF Entry, PinStates
    <3> QED BY <1>5, <2>2, <3>1, <3>3 DEF RetryResolve
  <2>3. CASE ShowAsset(p)
    <3>1. [entries[p] EXCEPT !.asset = TRUE] \in Entry
      BY <2>1 DEF Entry
    <3> QED BY <1>5, <2>3, <3>1 DEF ShowAsset
  <2> QED BY <1>7, <2>2, <2>3 DEF TickPreview
<1> QED BY <1>1, <1>2, <1>3, <1>4, <1>6, <1>7 DEF PreviewNext, OnPreviewClicked

\* The server's table, what is still to be written on it and the lifetimes it
\* knows, the list and the bind under way in the administrator's app, and the preview with its saved offsets are
\* always of their types; an anchor never has longer to live than its maximum.
THEOREM AnchorsKeepTheirTypes == Spec => []TypeOK
<1> DEFINE Inv == side \in Sides /\ TimesOK /\ StoredOK /\ AdminOK /\ PreviewTypeOK
<1>1. Init => Inv
  <2> SUFFICES ASSUME Init PROVE Inv
    OBVIOUS
  <2>1. side \in Sides /\ ServiceInit /\ AdminInit /\ PreviewInit
    BY DEF Init
  <2>2. TimesOK /\ StoredOK
    <3>1. 0 \in 0..MaxLife /\ 0 \in 0..MaxCalls
      BY ServiceAssumption
    <3>2. Idle \in CronType
      BY DEF Idle, CronType
    <3>3. TimesOK
      BY <2>1, <3>1 DEF ServiceInit, TimesOK
    <3>4. cron \in CronType
      BY <2>1, <3>2 DEF ServiceInit
    <3> QED BY <2>1, <3>1, <3>3, <3>4 DEF ServiceInit, StoredOK
  <2>3. AdminOK
    <3>1. 0 \in 0..MaxReloads /\ <<>> \in Listing /\ "little" \in Scans
      BY AdminAssumption DEF Listing, Scans
    <3>2. NoBind \in [point : Points \union {NoPoint}, cloud : Ids \union {NoId}, code : {0, 200, 409}]
      BY DEF NoBind
    <3> QED BY <2>1, <3>1, <3>2 DEF AdminInit, AdminOK
  <2>4. PreviewTypeOK
    <3>1. 0 \in 0..MaxOffset /\ DOMAIN <<>> = {}
      BY PreviewAssumption
    <3> QED BY <2>1, <3>1 DEF PreviewInit, PreviewTypeOK
  <2> QED BY <2>1, <2>2, <2>3, <2>4
<1>2. ServiceInv /\ Inv /\ [Next]_vars => Inv'
  <2> SUFFICES ASSUME ServiceInv, Inv, [Next]_vars PROVE Inv'
    OBVIOUS
  <2>1. UNCHANGED serviceVars => TimesOK' /\ StoredOK'
    BY DEF serviceVars, TimesOK, StoredOK
  <2>2. UNCHANGED adminVars => AdminOK'
    BY DEF adminVars, listVars, hostVars, world, AdminOK
  <2>3. UNCHANGED previewVars => PreviewTypeOK'
    BY DEF previewVars, PreviewTypeOK
  <2>4. \/ ServiceNext /\ UNCHANGED <<side, adminVars, previewVars>>
        \/ AdminNext /\ UNCHANGED <<side, serviceVars, previewVars>>
        \/ PreviewNext /\ UNCHANGED <<side, serviceVars, adminVars>>
        \/ UNCHANGED <<side, serviceVars, adminVars, previewVars>>
    BY Zenon DEF Next, vars
  <2>5. side' = side
    BY <2>4
  <2>6. TimesOK' /\ StoredOK'
    BY <2>1, <2>4, TimesKeep, StoredKeeps
  <2>7. AdminOK'
    BY <2>2, <2>4, AdminKeeps
  <2>8. PreviewTypeOK'
    BY <2>3, <2>4, PreviewKeeps
  <2> QED BY <2>5, <2>6, <2>7, <2>8
<1>3. ServiceInv /\ Inv => TypeOK
  <2> SUFFICES ASSUME ServiceInv, Inv PROVE TypeOK
    OBVIOUS
  <2>1. rows \in [Points -> Row] /\ hosted \subseteq Ids
    BY DEF ServiceInv, TableInv
  <2>2. ASSUME NEW h \in Handlers, open[h] # Free
        PROVE  /\ open[h].point \in Points /\ Written(rows[open[h].point], open[h].changes) \in Row
               /\ open[h].extend \in hosted \union {NoId} /\ open[h].raced \in BOOLEAN
    <3>1. RequestOK(open[h])
      BY <2>2 DEF ServiceInv, TableInv
    <3>2. rows[open[h].point] \in Row
      BY <2>1, <3>1 DEF RequestOK
    <3> QED BY <2>1, <3>1, <3>2, WrittenIs DEF RequestOK
  <2>3. ServiceTypeOK
    BY <2>1, <2>2 DEF TimesOK, StoredOK, CronType, ServiceTypeOK
  <2>4. AdminTypeOK
    BY DEF AdminOK, AdminTypeOK, Listing, Loaded
  <2> QED BY <2>3, <2>4 DEF TypeOK
<1> QED BY <1>1, <1>2, <1>3, ServiceInvHolds, PTL DEF Spec

-----------------------------------------------------------------------------
(* Guidance *)

GuideSpec == GuideInit /\ [][GuideNext]_guideVars

-----------------------------------------------------------------------------
(* The invariant *)

Numbers ==
    {DwellSec, EndMessageSec, MaxDelta, Hold, Cooldown, MaxGap, MaxRequests} \subseteq Nat

\* The requests: each one that was sent is in flight, or is no later than the
\* latest that was settled, which is not in flight; the latest in flight is for
\* the destination, if there is one.
RequestsOK ==
    /\ issued \in Nat /\ settled \in 0..issued /\ DOMAIN requests \subseteq 1..issued
    /\ settled \notin DOMAIN requests
    /\ \A id \in 1..issued : id \in DOMAIN requests \/ id <= settled
    /\ issued \in DOMAIN requests /\ destination # NoNode => requests[issued] = destination

\* When the latest request was settled in its turn, its answer is what is shown.
ShownOK == ~disorder /\ settled = issued /\ route # NoRoute => route.to = destination

\* The countdown runs no longer than the user has stayed.
CountdownOK == stage \in {"Idle", "Dwelling"} => elapsed <= stay

\* The timer runs no longer than the user has been off the route, and not at all
\* without a destination.
TimerOK == offFor # NotOff => offFor <= offRun /\ destination # NoNode

\* The log speaks of an end while there is one, and of a journey that has begun.
LogOK == /\ phase = "Ended" => stage = "AfterEnded"
         /\ phase \in Journey => logHasDest

GuideInv == GuideTypeOK /\ RequestsOK /\ ShownOK /\ CountdownOK /\ TimerOK /\ LogOK

LEMMA NumbersAre == Numbers
BY GuidanceAssumption DEF Numbers

\* What the parts of the invariant depend on.
LEMMA RequestsStay == RequestsOK /\ UNCHANGED <<network, settled, destination>> => RequestsOK'
BY DEF RequestsOK, network
LEMMA ShownStays == ShownOK /\ UNCHANGED <<disorder, settled, issued, route, destination>> => ShownOK'
BY DEF ShownOK, NoRoute
LEMMA CountdownStays == CountdownOK /\ UNCHANGED <<autoEnd, stay>> => CountdownOK'
BY DEF CountdownOK, autoEnd
LEMMA TimerStays == TimerOK /\ UNCHANGED <<offFor, offRun, destination>> => TimerOK'
BY DEF TimerOK

\* The types of what only some of the actions change.
RouteTypeOK == destination \in Node \cup {NoNode} /\ route \in {NoRoute} \cup [to : Node, long : BOOLEAN]
CountdownTypeOK ==
    /\ \/ stage = "Idle" /\ elapsed = 0
       \/ stage = "Dwelling" /\ elapsed \in 0..(DwellSec - 1)
       \/ stage = "AfterEnded" /\ elapsed \in {0} \cup 0..(EndMessageSec - 1)
    /\ dwelt \in 0..DwellSec /\ stay \in 0..DwellSec
TimerTypeOK == offFor \in NotOff..Hold /\ cooling \in 0..Cooldown /\ offRun \in NotOff..Hold
Phases == {"NavOn", "Localized", "FullMapOpen", "Guiding", "OffRoute", "Arrived", "Recognized", "Ended"}
FlagsTypeOK == /\ localized \in BOOLEAN /\ mapOpen \in BOOLEAN /\ logHasDest \in BOOLEAN
               /\ phase \in Phases /\ disorder \in BOOLEAN
RequestTypeOK == /\ issued \in 0..MaxRequests /\ DOMAIN requests \subseteq 1..issued
                 /\ \A id \in DOMAIN requests : requests[id] \in Node
                 /\ settled \in 0..MaxRequests

LEMMA TypeParts ==
    GuideTypeOK <=> RouteTypeOK /\ CountdownTypeOK /\ TimerTypeOK /\ FlagsTypeOK /\ RequestTypeOK
BY DEF GuideTypeOK, RouteTypeOK, CountdownTypeOK, TimerTypeOK, FlagsTypeOK, RequestTypeOK, Phases

LEMMA GuideInvInit == GuideInit => GuideInv
<1> SUFFICES ASSUME GuideInit PROVE GuideInv
  OBVIOUS
<1>1. NotOff \in NotOff..Hold /\ 0 \in 0..Cooldown /\ 0 \in 0..MaxRequests /\ 0 \in 0..DwellSec
  BY NumbersAre DEF Numbers, NotOff
<1>2. DOMAIN requests = {}
  BY DEF GuideInit
<1>3. GuideTypeOK
  BY <1>1, <1>2 DEF GuideInit, GuideTypeOK
<1> QED BY <1>2, <1>3 DEF GuideInit, GuideInv, RequestsOK, ShownOK, CountdownOK, TimerOK, LogOK, Journey

-----------------------------------------------------------------------------
(* Requests and their answers *)

\* A request for the destination that the next state has.
LEMMA SendKeeps ==
    ASSUME GuideInv, NEW node \in Node, SendRoute(node), issued < MaxRequests, settled' = settled,
           destination' \in {node, NoNode}
    PROVE  RequestsOK' /\ RequestTypeOK' /\ settled' # issued'
<1>1. issued' = issued + 1 /\ requests' = Put(requests, issued + 1, node)
  BY DEF SendRoute
<1>2. /\ DOMAIN requests' = DOMAIN requests \cup {issued + 1} /\ requests'[issued + 1] = node
      /\ \A j \in DOMAIN requests : j # issued + 1 => requests'[j] = requests[j]
  BY <1>1 DEF Put
<1>3. issued \in Nat /\ settled \in 0..issued /\ DOMAIN requests \subseteq 1..issued /\ issued \in 0..MaxRequests
  BY TypeParts DEF GuideInv, RequestsOK, RequestTypeOK
<1>4. RequestsOK'
  <2>1. /\ issued' \in Nat /\ settled' \in 0..issued' /\ DOMAIN requests' \subseteq 1..issued'
        /\ settled' \notin DOMAIN requests'
    BY <1>1, <1>2, <1>3 DEF GuideInv, RequestsOK
  <2>2. \A id \in 1..issued' : id \in DOMAIN requests' \/ id <= settled'
    <3>1. \A id \in 1..issued' : id \in 1..issued \/ id = issued + 1
      BY <1>1, <1>3
    <3> QED BY <1>2, <3>1 DEF GuideInv, RequestsOK
  <2>3. destination' # NoNode => requests'[issued'] = destination'
    BY <1>1, <1>2
  <2> QED BY <2>1, <2>2, <2>3 DEF RequestsOK
<1>5. issued' \in 0..MaxRequests /\ settled' \in 0..MaxRequests
  BY <1>1, <1>3, NumbersAre DEF Numbers
<1>6. RequestTypeOK'
  BY <1>1, <1>2, <1>3, <1>5, TypeParts DEF GuideInv, RequestTypeOK
<1> QED BY <1>1, <1>3, <1>4, <1>6

\* A request that is settled, whether by an answer or a failure.
LEMMA SettleKeeps ==
    ASSUME GuideInv, NEW id \in DOMAIN requests, requests' = Erase(requests, {id}), settled' = Latest(id),
           UNCHANGED <<issued, destination>>
    PROVE  RequestsOK' /\ RequestTypeOK' /\ settled' = (IF id < settled THEN settled ELSE id) /\ id # settled
<1>1. /\ DOMAIN requests' = DOMAIN requests \ {id}
      /\ \A j \in DOMAIN requests \ {id} : requests'[j] = requests[j]
  BY DEF Erase, Restrict
<1>2. /\ issued \in Nat /\ settled \in 0..issued /\ DOMAIN requests \subseteq 1..issued
      /\ issued \in 0..MaxRequests /\ id \in 1..issued /\ id # settled
  BY TypeParts DEF GuideInv, RequestsOK, RequestTypeOK
<1>3. settled' = (IF id < settled THEN settled ELSE id)
  BY DEF Latest
<1>4. settled' \in 0..issued /\ settled' \in 0..MaxRequests /\ settled <= settled' /\ id <= settled'
  <2>1. issued \in Nat /\ settled \in Nat /\ id \in Nat /\ id <= issued /\ settled <= issued
        /\ MaxRequests \in Nat /\ issued <= MaxRequests
    BY <1>2, NumbersAre DEF Numbers
  <2> QED BY <1>3, <2>1
<1>5. settled' \notin DOMAIN requests'
  BY <1>1, <1>2, <1>3 DEF GuideInv, RequestsOK
<1>6. \A j \in 1..issued : j \in DOMAIN requests' \/ j <= settled'
  BY <1>1, <1>2, <1>4 DEF GuideInv, RequestsOK
<1>7. RequestsOK'
  BY <1>1, <1>2, <1>4, <1>5, <1>6 DEF GuideInv, RequestsOK
<1>8. RequestTypeOK'
  BY <1>1, <1>2, <1>4, TypeParts DEF GuideInv, RequestTypeOK
<1> QED BY <1>2, <1>3, <1>7, <1>8

LEMMA AnswerKeeps == ASSUME GuideInv, NEW id \in DOMAIN requests, NEW long \in BOOLEAN, Answer(id, long) PROVE GuideInv'
<1>1. /\ requests' = Erase(requests, {id}) /\ settled' = Latest(id)
      /\ route' = [to |-> requests[id], long |-> long] /\ offFor' = NotOff /\ offRun' = NotOff
      /\ disorder' = (id < settled \/ destination = NoNode)
      /\ UNCHANGED <<destination, stage, elapsed, cooling, localized, mapOpen, phase, logHasDest, issued, stay>>
      /\ dwelt' = 0
  BY DEF Answer, SetRoute, autoEnd, log
<1>2. RequestsOK' /\ RequestTypeOK' /\ settled' = (IF id < settled THEN settled ELSE id) /\ id # settled
  BY <1>1, SettleKeeps
<1>3. ShownOK'
  <2>1. ASSUME ~disorder', settled' = issued' PROVE route'.to = destination'
    <3>1. ~(id < settled) /\ destination # NoNode /\ id = issued
      BY <1>1, <1>2, <2>1
    <3>2. requests[id] = destination
      BY <3>1 DEF GuideInv, RequestsOK
    <3> QED BY <1>1, <3>2
  <2> QED BY <2>1 DEF ShownOK
<1>4. RouteTypeOK'
  BY <1>1, TypeParts DEF GuideInv, RouteTypeOK, RequestTypeOK
<1>5. NotOff \in NotOff..Hold /\ 0 \in 0..DwellSec
  BY NumbersAre DEF Numbers, NotOff
<1>6. CountdownTypeOK' /\ TimerTypeOK' /\ FlagsTypeOK'
  BY <1>1, <1>5, TypeParts DEF GuideInv, CountdownTypeOK, TimerTypeOK, FlagsTypeOK
<1>7. GuideTypeOK'
  <2>1. RouteTypeOK' /\ CountdownTypeOK' /\ TimerTypeOK' /\ FlagsTypeOK' /\ RequestTypeOK' => GuideTypeOK'
    BY TypeParts, PTL
  <2> QED BY <1>2, <1>4, <1>6, <2>1
<1>8. CountdownOK' /\ TimerOK' /\ LogOK'
  BY <1>1 DEF GuideInv, CountdownOK, TimerOK, LogOK
<1> QED BY <1>2, <1>3, <1>7, <1>8 DEF GuideInv

LEMMA FailKeeps == ASSUME GuideInv, NEW id \in DOMAIN requests, Fail(id) PROVE GuideInv'
<1>1. /\ requests' = Erase(requests, {id}) /\ settled' = Latest(id)
      /\ disorder' = (disorder \/ id > settled)
      /\ UNCHANGED <<destination, route, stage, elapsed, offFor, cooling, localized, mapOpen, phase, logHasDest,
                     issued, dwelt, stay, offRun>>
  BY DEF Fail, minimap, autoEnd, gates, log
<1>2. RequestsOK' /\ RequestTypeOK' /\ settled' = (IF id < settled THEN settled ELSE id) /\ id # settled
  BY <1>1, SettleKeeps
<1>3. ShownOK'
  <2>1. id \in Int /\ settled \in Int
    BY DEF GuideInv, RequestsOK
  <2>2. ASSUME ~disorder' PROVE settled' = settled /\ ~disorder
    <3>1. ~disorder /\ ~(id > settled)
      BY <1>1, <2>2, Zenon
    <3>2. settled' = settled
      BY <1>2, <2>1, <3>1
    <3> QED BY <3>1, <3>2
  <2> QED BY <1>1, <2>2 DEF GuideInv, ShownOK, NoRoute
<1>4. RouteTypeOK' /\ CountdownTypeOK' /\ TimerTypeOK' /\ FlagsTypeOK'
  BY <1>1, TypeParts DEF GuideInv, RouteTypeOK, CountdownTypeOK, TimerTypeOK, FlagsTypeOK, NoRoute
<1>5. GuideTypeOK'
  <2>1. RouteTypeOK' /\ CountdownTypeOK' /\ TimerTypeOK' /\ FlagsTypeOK' /\ RequestTypeOK' => GuideTypeOK'
    BY TypeParts, PTL
  <2> QED BY <1>2, <1>4, <2>1
<1>6. CountdownOK' /\ TimerOK' /\ LogOK'
  BY <1>1 DEF GuideInv, CountdownOK, TimerOK, LogOK
<1> QED BY <1>2, <1>3, <1>5, <1>6 DEF GuideInv

-----------------------------------------------------------------------------
(* The full map, the localizer and the Blueprint *)

LEMMA ChooseKeeps == ASSUME GuideInv, NEW node \in Node, StartSelectedGuidance(node) PROVE GuideInv'
<1>1. /\ mapOpen /\ issued < MaxRequests /\ destination' = node /\ SendRoute(node) /\ mapOpen' = FALSE
      /\ logHasDest' = TRUE /\ phase' = "Guiding"
      /\ UNCHANGED <<route, stage, elapsed, offFor, cooling, localized, dwelt, stay, offRun, disorder, settled>>
  BY DEF StartSelectedGuidance, autoEnd, gates, history
<1>2. RequestsOK' /\ RequestTypeOK' /\ settled' # issued'
  BY <1>1, SendKeeps
<1>3. node # NoNode
  BY GuidanceAssumption
<1>4. RouteTypeOK' /\ CountdownTypeOK' /\ TimerTypeOK' /\ FlagsTypeOK'
  BY <1>1, TypeParts DEF GuideInv, RouteTypeOK, CountdownTypeOK, TimerTypeOK, FlagsTypeOK, NoRoute, Phases
<1>5. GuideTypeOK'
  <2>1. RouteTypeOK' /\ CountdownTypeOK' /\ TimerTypeOK' /\ FlagsTypeOK' /\ RequestTypeOK' => GuideTypeOK'
    BY TypeParts, PTL
  <2> QED BY <1>2, <1>4, <2>1
<1>6. ShownOK' /\ CountdownOK' /\ TimerOK' /\ LogOK'
  BY <1>1, <1>2, <1>3 DEF GuideInv, ShownOK, CountdownOK, TimerOK, LogOK, Journey
<1> QED BY <1>2, <1>5, <1>6 DEF GuideInv

\* What only the log, the map and the localizer hear of.
LEMMA LogKeeps ==
    ASSUME GuideInv, UNCHANGED <<minimap, autoEnd, gates, logHasDest, network, history>>,
           localized' \in BOOLEAN, mapOpen' \in BOOLEAN, phase' \in Phases, LogOK'
    PROVE  GuideInv'
<1>1. UNCHANGED <<destination, route, stage, elapsed, offFor, cooling, logHasDest, requests, issued, dwelt, stay, offRun,
                  disorder, settled>>
  BY DEF minimap, autoEnd, gates, network, history
<1>2. RouteTypeOK' /\ CountdownTypeOK' /\ TimerTypeOK' /\ FlagsTypeOK' /\ RequestTypeOK'
  BY <1>1, TypeParts
  DEF GuideInv, RouteTypeOK, CountdownTypeOK, TimerTypeOK, FlagsTypeOK, RequestTypeOK, NoRoute
<1>3. GuideTypeOK'
  <2>1. RouteTypeOK' /\ CountdownTypeOK' /\ TimerTypeOK' /\ FlagsTypeOK' /\ RequestTypeOK' => GuideTypeOK'
    BY TypeParts, PTL
  <2> QED BY <1>2, <2>1
<1>4. RequestsOK'
  BY <1>1, RequestsStay DEF GuideInv, network
<1>5. ShownOK' /\ CountdownOK' /\ TimerOK'
  BY <1>1, ShownStays, CountdownStays, TimerStays DEF GuideInv, autoEnd
<1> QED BY <1>3, <1>4, <1>5 DEF GuideInv

LEMMA QuietKeeps ==
    ASSUME GuideInv, OpenFullMap \/ CancelFullMap \/ Localized \/ Relocalized \/ PosesStop \/ LocalizationLost
                         \/ AnchorChanged
    PROVE  GuideInv'
<1>1. UNCHANGED <<minimap, autoEnd, gates, logHasDest, network, history>>
  BY DEF OpenFullMap, CancelFullMap, Localized, Relocalized, PosesStop, LocalizationLost, AnchorChanged, log
<1>2. localized \in BOOLEAN /\ mapOpen \in BOOLEAN /\ phase \in Phases /\ LogOK
  BY TypeParts DEF GuideInv, FlagsTypeOK
<1>3. localized' \in BOOLEAN /\ mapOpen' \in BOOLEAN
  BY <1>2 DEF OpenFullMap, CancelFullMap, Localized, Relocalized, PosesStop, LocalizationLost, AnchorChanged
<1>4. /\ phase' \in {phase, "FullMapOpen", "Localized", "NavOn", "Recognized", AfterFullMap}
      /\ logHasDest' = logHasDest /\ stage' = stage
  BY <1>1 DEF OpenFullMap, CancelFullMap, Localized, Relocalized, PosesStop, LocalizationLost, AnchorChanged, log, autoEnd
<1>5. phase' \in Phases /\ LogOK'
  BY <1>2, <1>4 DEF Phases, LogOK, Journey, AfterFullMap
<1> QED BY <1>1, <1>3, <1>5, LogKeeps

LEMMA ClearKeeps == ASSUME GuideInv, ClearCurrentPose PROVE GuideInv'
<1>1. /\ offFor' = NotOff /\ offRun' = NotOff
      /\ UNCHANGED <<destination, route, stage, elapsed, cooling, localized, mapOpen, phase, logHasDest, requests,
                     issued, dwelt, stay, disorder, settled>>
  BY DEF ClearCurrentPose, minimap, autoEnd, log, network
<1>2. NotOff \in NotOff..Hold
  BY NumbersAre DEF Numbers, NotOff
<1>3. RouteTypeOK' /\ CountdownTypeOK' /\ TimerTypeOK' /\ FlagsTypeOK' /\ RequestTypeOK'
  BY <1>1, <1>2, TypeParts
  DEF GuideInv, RouteTypeOK, CountdownTypeOK, TimerTypeOK, FlagsTypeOK, RequestTypeOK, NoRoute
<1>4. GuideTypeOK'
  <2>1. RouteTypeOK' /\ CountdownTypeOK' /\ TimerTypeOK' /\ FlagsTypeOK' /\ RequestTypeOK' => GuideTypeOK'
    BY TypeParts, PTL
  <2> QED BY <1>3, <2>1
<1>5. RequestsOK' /\ ShownOK' /\ CountdownOK'
  BY <1>1, RequestsStay, ShownStays, CountdownStays DEF GuideInv, network, autoEnd
<1>6. TimerOK' /\ LogOK'
  BY <1>1 DEF GuideInv, TimerOK, LogOK
<1> QED BY <1>4, <1>5, <1>6 DEF GuideInv

-----------------------------------------------------------------------------
(* A pose *)

LEMMA LeastIs == \A m, n \in Int : Least(m, n) \in {m, n} /\ Least(m, n) <= m /\ Least(m, n) <= n
BY DEF Least

\* Another route is asked for, or not.
LEMMA RerouteKeeps ==
    ASSUME GuideInv, NEW dt \in 0..MaxGap, NEW off \in BOOLEAN, NEW degraded \in BOOLEAN,
           EvaluateAutoReroute(off, dt, degraded), settled' = settled, destination' \in {destination, NoNode}
    PROVE  /\ RequestsOK' /\ RequestTypeOK' /\ cooling' \in 0..Cooldown
           /\ UNCHANGED network \/ (settled' # issued' /\ RerouteDue(off, dt, degraded))
<1>1. dt \in Nat /\ Cooldown \in Nat /\ cooling \in 0..Cooldown
  BY NumbersAre, TypeParts DEF Numbers, GuideInv, TimerTypeOK
<1>2. CASE RerouteDue(off, dt, degraded) /\ issued < MaxRequests
  <2>1. SendRoute(destination) /\ cooling' = Cooldown
    BY <1>2 DEF EvaluateAutoReroute
  <2>2. destination \in Node
    BY <1>2, TypeParts DEF RerouteDue, GuideInv, RouteTypeOK
  <2>3. RequestsOK' /\ RequestTypeOK' /\ settled' # issued'
    BY <1>2, <2>1, <2>2, SendKeeps
  <2> QED BY <1>1, <1>2, <2>1, <2>3
<1>3. CASE ~(RerouteDue(off, dt, degraded) /\ issued < MaxRequests)
  <2>1. UNCHANGED network /\ cooling' = cooling - Least(cooling, dt)
    BY <1>3 DEF EvaluateAutoReroute
  <2>2. requests' = requests /\ issued' = issued
    BY <2>1 DEF network
  <2>3. RequestsOK'
    BY <2>2 DEF GuideInv, RequestsOK
  <2>4. RequestTypeOK'
    BY <2>2, TypeParts DEF GuideInv, RequestTypeOK
  <2>5. cooling' \in 0..Cooldown
    BY <1>1, <2>1 DEF Least
  <2> QED BY <2>1, <2>3, <2>4, <2>5
<1> QED BY <1>2, <1>3

\* The timer, and the spell off the route that it measures.
LEMMA TimerKeeps ==
    ASSUME GuideInv, NEW dt \in 0..MaxGap, NEW off \in BOOLEAN
    PROVE  LET timer == OffRouteTimer(off, dt)
               spell == IF ~off THEN NotOff ELSE IF offRun = NotOff THEN 0 ELSE Least(offRun + dt, Hold)
           IN  /\ timer \in NotOff..Hold /\ spell \in NotOff..Hold
               /\ timer # NotOff => timer <= spell /\ destination # NoNode
               /\ off /\ timer >= Hold => spell = Hold
<1> DEFINE timer == OffRouteTimer(off, dt)
           spell == IF ~off THEN NotOff ELSE IF offRun = NotOff THEN 0 ELSE Least(offRun + dt, Hold)
<1>1. /\ dt \in Nat /\ Hold \in Nat /\ offFor \in NotOff..Hold /\ offRun \in NotOff..Hold
      /\ offFor # NotOff => offFor <= offRun /\ destination # NoNode
  BY NumbersAre, TypeParts DEF Numbers, GuideInv, TimerTypeOK, TimerOK
<1>2. timer = IF destination # NoNode THEN IF ~off THEN NotOff
                                          ELSE IF offFor = NotOff THEN 0 ELSE Least(offFor + dt, Hold)
              ELSE NotOff
  <2>1. CASE destination # NoNode /\ ~off
    BY <2>1 DEF OffRouteTimer
  <2>2. CASE destination # NoNode /\ off
    <3>1. CASE offFor = NotOff
      BY <2>2, <3>1 DEF OffRouteTimer
    <3>2. CASE offFor # NotOff
      BY <2>2, <3>2 DEF OffRouteTimer
    <3> QED BY <3>1, <3>2
  <2>3. CASE destination = NoNode
    BY <1>1, <2>3 DEF OffRouteTimer
  <2> QED BY <2>1, <2>2, <2>3
<1> HIDE DEF timer
<1>3. timer \in NotOff..Hold /\ spell \in NotOff..Hold
  BY <1>1, <1>2 DEF Least, NotOff
<1>4. timer # NotOff => timer <= spell /\ destination # NoNode
  BY <1>1, <1>2 DEF Least, NotOff
<1>5. off /\ timer >= Hold => spell = Hold
  BY <1>1, <1>2 DEF Least, NotOff
<1> QED BY <1>3, <1>4, <1>5 DEF timer

\* The countdown, the stay that it measures, and what the log says.
Countdown(arrived, off, delta) ==
    BeforeEnded(arrived, off, delta) \/ FinishingMessage(arrived, off, delta) \/ Closed(delta)

LEMMA CountdownKeeps ==
    ASSUME GuideInv, NEW arrived \in BOOLEAN, NEW off \in BOOLEAN, NEW delta \in Nat,
           HasRoute, Countdown(arrived, off, delta),
           stay' = IF arrived /\ HasRoute' THEN Least(stay + delta, DwellSec) ELSE 0,
           dwelt' = IF arrived /\ HasRoute' THEN Least(dwelt + delta, DwellSec) ELSE 0
    PROVE  /\ CountdownTypeOK' /\ CountdownOK' /\ LogOK'
           /\ logHasDest' \in BOOLEAN /\ phase' \in Phases
           /\ (UNCHANGED minimap /\ HasRoute') \/ (route' = NoRoute /\ destination' = NoNode /\ ~HasRoute')
           /\ stage # "AfterEnded" /\ stage' = "AfterEnded" => stay' = DwellSec
<1>1. DwellSec \in Nat /\ EndMessageSec \in Nat /\ dwelt \in 0..DwellSec /\ stay \in 0..DwellSec /\ CountdownTypeOK /\ phase \in Phases
      /\ CountdownOK /\ LogOK
  BY NumbersAre, TypeParts DEF Numbers, GuideInv, CountdownTypeOK, FlagsTypeOK
<1>2. GuidanceUpdated(arrived, off) \in Phases
      /\ (GuidanceUpdated(arrived, off) = "Ended" => phase = "Ended")
  <2>1. CASE arrived /\ phase \notin {"Recognized", "Ended"}
    BY <2>1 DEF GuidanceUpdated, Phases
  <2>2. CASE ~arrived /\ phase \notin {"FullMapOpen", "Ended"}
    BY <2>2 DEF GuidanceUpdated, Phases
  <2>3. CASE arrived /\ phase \in {"Recognized", "Ended"}
    BY <1>1, <2>3 DEF GuidanceUpdated
  <2>4. CASE ~arrived /\ phase \in {"FullMapOpen", "Ended"}
    BY <1>1, <2>4 DEF GuidanceUpdated
  <2> QED BY <2>1, <2>2, <2>3, <2>4
<1>3. stay' \in 0..DwellSec /\ dwelt' \in 0..DwellSec
  BY <1>1 DEF Least
<1>4. CASE BeforeEnded(arrived, off, delta)
  <2>1. /\ stage \in {"Idle", "Dwelling"} /\ stage' = Dwell(arrived, delta)[1] /\ elapsed' = Dwell(arrived, delta)[2]
        /\ phase' = (IF stage' = "AfterEnded" THEN "Ended" ELSE GuidanceUpdated(arrived, off))
        /\ logHasDest' = TRUE /\ route' = route /\ destination' = destination
    BY <1>4 DEF BeforeEnded, minimap
  <2>2. HasRoute'
    BY <2>1 DEF HasRoute
  <2>3. elapsed \in Nat /\ elapsed <= stay
    BY <1>1, <2>1 DEF CountdownTypeOK, CountdownOK
  <2>4. CASE ~arrived
    <3>1. stage' = "Idle" /\ elapsed' = 0
      BY <2>1, <2>4 DEF Dwell
    <3> QED BY <1>1, <1>2, <1>3, <2>1, <2>2, <3>1 DEF CountdownTypeOK, CountdownOK, LogOK, minimap
  <2>5. CASE arrived /\ elapsed + delta >= DwellSec
    <3>1. stage' = "AfterEnded" /\ elapsed' = 0
      BY <2>1, <2>5 DEF Dwell
    <3>2. stay' = DwellSec
      BY <1>1, <2>2, <2>3, <2>5 DEF Least
    <3>3. phase' = "Ended"
      BY <2>1, <3>1
    <3> QED BY <1>3, <2>1, <2>2, <3>1, <3>2, <3>3 DEF CountdownTypeOK, CountdownOK, LogOK, minimap, Phases, Journey
  <2>6. CASE arrived /\ ~(elapsed + delta >= DwellSec)
    <3>1. stage' = "Dwelling" /\ elapsed' = elapsed + delta
      BY <2>1, <2>6 DEF Dwell
    <3>2. elapsed' \in 0..(DwellSec - 1) /\ elapsed' <= stay'
      BY <1>1, <2>2, <2>3, <2>6, <3>1 DEF Least
    <3> QED BY <1>1, <1>2, <1>3, <2>1, <2>2, <3>1, <3>2 DEF CountdownTypeOK, CountdownOK, LogOK, minimap
  <2> QED BY <2>4, <2>5, <2>6
<1>5. CASE FinishingMessage(arrived, off, delta)
  <2>1. /\ stage = "AfterEnded" /\ elapsed + delta < EndMessageSec /\ elapsed' = elapsed + delta
        /\ phase' = GuidanceUpdated(arrived, off) /\ logHasDest' = TRUE /\ stage' = stage
        /\ route' = route /\ destination' = destination
    BY <1>5 DEF FinishingMessage, minimap
  <2>2. elapsed' \in 0..(EndMessageSec - 1)
    BY <1>1, <2>1 DEF CountdownTypeOK
  <2>3. CountdownTypeOK' /\ CountdownOK'
    BY <1>3, <2>1, <2>2 DEF CountdownTypeOK, CountdownOK
  <2>4. HasRoute'
    BY <2>1 DEF HasRoute
  <2>5. LogOK' /\ phase' \in Phases
    BY <1>2, <2>1 DEF LogOK
  <2> QED BY <2>1, <2>3, <2>4, <2>5 DEF minimap
<1>6. CASE Closed(delta)
  <2>1. /\ route' = NoRoute /\ destination' = NoNode /\ stage' = "Idle" /\ elapsed' = 0
        /\ logHasDest' = FALSE /\ phase' = "Localized"
    BY <1>6 DEF Closed
  <2>2. ~HasRoute'
    BY <2>1 DEF HasRoute, NoRoute
  <2>3. CountdownTypeOK' /\ LogOK' /\ phase' \in Phases
    BY <1>3, <2>1 DEF CountdownTypeOK, LogOK, Phases, Journey
  <2>4. CountdownOK'
    BY <1>3, <2>1 DEF CountdownOK
  <2> QED BY <2>1, <2>2, <2>3, <2>4
<1> QED BY <1>4, <1>5, <1>6 DEF Countdown

\* What a pose does, in one place.
LEMMA PoseIs ==
    ASSUME GuideInv, NEW dt \in 0..MaxGap, NEW arrived \in BOOLEAN, NEW off \in BOOLEAN, NEW degraded \in BOOLEAN,
           Pose(dt, arrived, off, degraded)
    PROVE  /\ GuideInv'
           /\ stage # "AfterEnded" /\ stage' = "AfterEnded" => stay' = DwellSec
           /\ issued' > issued /\ destination' = destination => offRun' = Hold
<1> DEFINE delta == Least(dt, MaxDelta)
           spell == IF ~off THEN NotOff ELSE IF offRun = NotOff THEN 0 ELSE Least(offRun + dt, Hold)
<1>1. delta \in Nat
  BY NumbersAre DEF Least, Numbers
<1>2. /\ HasRoute /\ EvaluateAutoReroute(off, dt, degraded)
      /\ stay' = (IF arrived /\ HasRoute' THEN Least(stay + delta, DwellSec) ELSE 0)
      /\ dwelt' = (IF arrived /\ HasRoute' THEN Least(dwelt + delta, DwellSec) ELSE 0)
      /\ offFor' = (IF HasRoute' THEN OffRouteTimer(off, dt) ELSE NotOff) /\ offRun' = spell
      /\ UNCHANGED <<localized, mapOpen, disorder, settled>>
  BY DEF Pose
<1>3. Countdown(arrived, off, delta)
  BY DEF Pose, Countdown
<1> HIDE DEF delta
<1>4. /\ CountdownTypeOK' /\ CountdownOK' /\ LogOK'
      /\ logHasDest' \in BOOLEAN /\ phase' \in Phases
      /\ (UNCHANGED minimap /\ HasRoute') \/ (route' = NoRoute /\ destination' = NoNode /\ ~HasRoute')
      /\ stage # "AfterEnded" /\ stage' = "AfterEnded" => stay' = DwellSec
  BY <1>1, <1>2, <1>3, CountdownKeeps
<1>5. destination' \in {destination, NoNode}
  BY <1>4 DEF minimap
<1>6. /\ RequestsOK' /\ RequestTypeOK' /\ cooling' \in 0..Cooldown
      /\ UNCHANGED network \/ (settled' # issued' /\ RerouteDue(off, dt, degraded))
  BY <1>2, <1>5, RerouteKeeps
<1>7. /\ OffRouteTimer(off, dt) \in NotOff..Hold /\ spell \in NotOff..Hold
      /\ OffRouteTimer(off, dt) # NotOff => OffRouteTimer(off, dt) <= spell /\ destination # NoNode
      /\ off /\ OffRouteTimer(off, dt) >= Hold => spell = Hold
  BY TimerKeeps
<1> HIDE DEF spell
<1>8. NotOff \in NotOff..Hold
  BY NumbersAre DEF Numbers, NotOff
<1>9. TimerTypeOK'
  BY <1>2, <1>6, <1>7, <1>8 DEF TimerTypeOK
<1>10. TimerOK'
  BY <1>2, <1>4, <1>7 DEF TimerOK, minimap
<1>11. RouteTypeOK'
  BY <1>4, TypeParts DEF GuideInv, RouteTypeOK, minimap, NoRoute
<1>12. FlagsTypeOK'
  BY <1>2, <1>4, TypeParts DEF GuideInv, FlagsTypeOK
<1>13. GuideTypeOK'
  <2>1. RouteTypeOK' /\ CountdownTypeOK' /\ TimerTypeOK' /\ FlagsTypeOK' /\ RequestTypeOK' => GuideTypeOK'
    BY TypeParts, PTL
  <2> QED BY <1>4, <1>6, <1>9, <1>11, <1>12, <2>1
<1>14. ShownOK'
  <2>1. CASE route' = NoRoute
    BY <2>1 DEF ShownOK, NoRoute
  <2>2. CASE UNCHANGED minimap /\ UNCHANGED network
    <3>1. UNCHANGED <<disorder, settled, issued, route, destination>>
      BY <1>2, <2>2 DEF minimap, network
    <3> QED BY <3>1, ShownStays DEF GuideInv
  <2>3. CASE settled' # issued'
    BY <2>3 DEF ShownOK
  <2> QED BY <1>4, <1>6, <2>1, <2>2, <2>3
<1>15. issued' > issued /\ destination' = destination => offRun' = Hold
  <2>1. issued \in Nat
    BY DEF GuideInv, RequestsOK
  <2>2. UNCHANGED network => ~(issued' > issued)
    BY <2>1 DEF network
  <2>3. RerouteDue(off, dt, degraded) => off /\ OffRouteTimer(off, dt) >= Hold
    BY DEF RerouteDue
  <2> QED BY <1>2, <1>6, <1>7, <2>2, <2>3
<1> QED BY <1>4, <1>6, <1>10, <1>13, <1>14, <1>15 DEF GuideInv

-----------------------------------------------------------------------------
(* Guidance *)

LEMMA GuideInvNext == GuideInv /\ [GuideNext]_guideVars => GuideInv'
<1> SUFFICES ASSUME GuideInv, [GuideNext]_guideVars PROVE GuideInv'
  OBVIOUS
<1>1. CASE UNCHANGED guideVars
  <2>1. /\ UNCHANGED <<minimap, autoEnd, gates, logHasDest, network, history>>
        /\ UNCHANGED <<localized, mapOpen, phase, stage>>
    BY <1>1 DEF guideVars, log, autoEnd
  <2>2. localized' \in BOOLEAN /\ mapOpen' \in BOOLEAN /\ phase' \in Phases
    BY <2>1, TypeParts DEF GuideInv, FlagsTypeOK
  <2>3. LogOK'
    BY <2>1 DEF GuideInv, LogOK
  <2> QED BY <2>1, <2>2, <2>3, LogKeeps
<1>2. CASE \E id \in DOMAIN requests : (\E long \in BOOLEAN : Answer(id, long)) \/ Fail(id)
  BY <1>2, AnswerKeeps, FailKeeps
<1>3. CASE \E node \in Node : StartSelectedGuidance(node)
  BY <1>3, ChooseKeeps
<1>4. CASE OpenFullMap \/ CancelFullMap \/ Localized \/ Relocalized \/ PosesStop \/ LocalizationLost \/ AnchorChanged
  BY <1>4, QuietKeeps
<1>5. CASE ClearCurrentPose
  BY <1>5, ClearKeeps
<1>6. CASE \E dt \in 0..MaxGap, arrived, off, degraded \in BOOLEAN : Pose(dt, arrived, off, degraded)
  BY <1>6, PoseIs
<1> QED BY <1>1, <1>2, <1>3, <1>4, <1>5, <1>6 DEF GuideNext

\* The invariant of guidance and its log, at every moment.
THEOREM GuideInvAlways == GuideSpec => []GuideInv
BY GuideInvInit, GuideInvNext, PTL DEF GuideSpec

\* The state of guidance keeps its types, and the countdown never stands at its
\* end (NavArrivalAutoEnd.cpp:3-51).
THEOREM GuidanceTypeCorrect == GuideSpec => []GuideTypeOK
<1>1. GuideInv => GuideTypeOK
  BY DEF GuideInv
<1> QED BY <1>1, GuideInvAlways, PTL

\* Only a pose asks for another route to the same destination, or ends guidance.
LEMMA StepIs ==
    ASSUME GuideInv, [GuideNext]_guideVars
    PROVE  /\ stage # "AfterEnded" /\ stage' = "AfterEnded" => stay' = DwellSec
           /\ issued' > issued /\ destination' = destination /\ ~mapOpen => offRun' = Hold
<1>1. CASE \E dt \in 0..MaxGap, arrived, off, degraded \in BOOLEAN : Pose(dt, arrived, off, degraded)
  BY <1>1, PoseIs
<1>2. CASE ~\E dt \in 0..MaxGap, arrived, off, degraded \in BOOLEAN : Pose(dt, arrived, off, degraded)
  <2>1. stage' = stage
    BY <1>2 DEF GuideNext, Answer, SetRoute, Fail, StartSelectedGuidance, OpenFullMap, CancelFullMap, Localized, Relocalized, PosesStop,
                LocalizationLost, AnchorChanged, ClearCurrentPose, guideVars, autoEnd
  <2>2. mapOpen \/ issued' = issued
    BY <1>2 DEF GuideNext, Answer, SetRoute, Fail, StartSelectedGuidance, OpenFullMap, CancelFullMap, Localized, Relocalized, PosesStop,
                LocalizationLost, AnchorChanged, ClearCurrentPose, guideVars, network
  <2>3. issued \in Nat
    BY DEF GuideInv, RequestsOK
  <2> QED BY <2>1, <2>2, <2>3
<1> QED BY <1>1, <1>2

\* Once the latest request is settled in its turn, the line on the map leads to
\* the destination that is shown, and another route is asked for only when it is
\* due, whatever is answered late or not at all (NavMinimapWidget.cpp:194-200,
\* 400-407, 452-472).
THEOREM RoutesLeadWhereTheyShould == GuideSpec => RoutesAreRight
<1>1. GuideInv => RouteLeadsToDestination
  <2> SUFFICES ASSUME GuideInv, requests = <<>>, ~disorder, route # NoRoute PROVE route.to = destination
    BY DEF RouteLeadsToDestination
  <2>1. DOMAIN requests = {}
    OBVIOUS
  <2>2. issued \in Nat /\ settled \in 0..issued /\ (\A id \in 1..issued : id <= settled)
    BY <2>1 DEF GuideInv, RequestsOK
  <2>3. settled = issued
    BY <2>2
  <2> QED BY <2>3 DEF GuideInv, ShownOK
<1>2. GuideInv /\ [GuideNext]_guideVars
          => [issued' > issued /\ destination' = destination /\ ~mapOpen => offRun' = Hold]_guideVars
  BY StepIs
<1> QED BY <1>1, <1>2, GuideInvAlways, PTL DEF GuideSpec, RoutesAreRight, ReroutesAreDue

\* Guidance ends only after an unbroken stay as long as the dwell, at the end of
\* this route or of those before it (NavArrivalAutoEnd.cpp:22-40).
THEOREM GuidanceEndsAfterStay == GuideSpec => EndsOnlyAfterStay
<1>1. GuideInv /\ [GuideNext]_guideVars
          => [stage # "AfterEnded" /\ stage' = "AfterEnded" => stay' = DwellSec]_guideVars
  BY StepIs
<1> QED BY <1>1, GuideInvAlways, PTL DEF GuideSpec, EndsOnlyAfterStay

\* What the guide log shows of an end or of a journey is so
\* (NavGuideLogWidget.cpp:242-341, 424-450).
THEOREM LogSaysWhatIsSo == GuideSpec => []LogFits
<1>1. GuideInv => LogFits
  BY DEF GuideInv, LogOK, LogFits, LogShown, Effective, Journey
<1> QED BY <1>1, GuideInvAlways, PTL

-----------------------------------------------------------------------------
(* The route *)

USE DEF Square

\* A number times itself grows with the number.
LEMMA Squares ==
  ASSUME NEW m \in Nat, NEW n \in Nat
  PROVE  /\ m <= n => m * m <= n * n
         /\ m < n => m * m < n * n
         /\ m * m \in Nat
<1>1. m <= n => m * m <= m * n /\ m * n <= n * n
  OBVIOUS
<1>2. m < n => m * m <= m * n /\ m * n < n * n
  OBVIOUS
<1> QED BY <1>1, <1>2

\* The root of a number, rounded down.
LEMMA RootIs ==
  ASSUME NEW n \in 0..Square(Reach)
  PROVE  Root[n] \in 0..Reach /\ Square(Root[n]) <= n /\ n < Square(Root[n] + 1)
<1>0. Reach \in Nat
  BY RoutingAssumption
<1> DEFINE K == {d \in Nat : n < Square(d + 1)}
<1>1. Reach \in K
  <2>1. Reach * Reach < (Reach + 1) * (Reach + 1)
    BY <1>0, Squares
  <2>2. n \in Int /\ n <= Reach * Reach /\ Reach * Reach \in Int /\ (Reach + 1) * (Reach + 1) \in Int
    BY <1>0
  <2> QED BY <1>0, <2>1, <2>2
<1>2. PICK d \in K : \A k \in K : d <= k
  <2>1. K \in SUBSET Nat /\ K # {}
    BY <1>1
  <2> HIDE DEF K
  <2> QED BY <2>1, LeastOf
<1>3. d \in 0..Reach /\ n < Square(d + 1)
  BY <1>0, <1>1, <1>2
<1>4. Square(d) <= n
  <2>1. CASE d = 0
    BY <2>1
  <2>2. CASE d # 0
    <3>1. d - 1 \in Nat /\ d - 1 \notin K
      BY <2>2, <1>2, <1>3
    <3>2. ~(n < Square(d - 1 + 1)) /\ d - 1 + 1 = d /\ d * d \in Int /\ n \in Int
      BY <3>1, <1>3
    <3> QED BY <3>2
  <2> QED BY <2>1, <2>2
<1>5. \E r \in 0..Reach : Square(r) <= n /\ n < Square(r + 1)
  BY <1>3, <1>4, Zenon
<1>6. Root[n] = CHOOSE r \in 0..Reach : Square(r) <= n /\ n < Square(r + 1)
  BY DEF Root
<1> HIDE DEF Square
<1> QED BY <1>5, <1>6

-----------------------------------------------------------------------------
(* The hall *)

\* Points no further out than nodes are.
Spanned(x, c) == \E s, t \in Spot : Pos[s][c] <= x /\ x <= Pos[t][c]
Point == Int \X Int
InHall(p) == p \in Point /\ Spanned(p[1], 1) /\ Spanned(p[2], 2)

LEMMA NodesInHall == \A s \in Spot : InHall(Pos[s]) /\ Pos[s][1] \in Nat /\ Pos[s][2] \in Nat
<1> SUFFICES ASSUME NEW s \in Spot PROVE InHall(Pos[s]) /\ Pos[s][1] \in Nat /\ Pos[s][2] \in Nat
  OBVIOUS
<1>1. Pos[s] \in Nat \X Nat
  BY RoutingAssumption
<1> QED BY <1>1 DEF InHall, Spanned, Point

\* The square of a difference.
LEMMA Nearer ==
  ASSUME NEW a \in Int, NEW b \in Int, NEW x \in Int, NEW y \in Int, a <= x, x <= b, a <= y, y <= b
  PROVE  Square(x - y) <= Square(a - b) /\ Square(x - y) \in Nat
<1>1. PICK m \in Nat : (x >= y /\ m = x - y) \/ (x < y /\ m = y - x)
  <2>1. CASE x >= y
    <3>1. x - y \in Nat
      BY <2>1
    <3> QED BY <2>1, <3>1
  <2>2. CASE x < y
    <3>1. y - x \in Nat
      BY <2>2
    <3> QED BY <2>2, <3>1
  <2> QED BY <2>1, <2>2
<1>2. PICK n \in Nat : n = b - a
  OBVIOUS
<1>3. m <= n
  BY <1>1, <1>2
<1>4. m * m <= n * n /\ m * m \in Nat
  BY <1>3, Squares
<1>5. (x - y) * (x - y) = m * m
  <2>1. CASE x >= y
    BY <2>1, <1>1
  <2>2. CASE ~(x >= y)
    <3>1. x - y = -m
      BY <2>2, <1>1
    <3> QED BY <3>1
  <2> QED BY <2>1, <2>2
<1>6. (a - b) * (a - b) = n * n
  <2>1. a - b = -n
    BY <1>2
  <2> QED BY <2>1
<1> QED BY <1>4, <1>5, <1>6

LEMMA HallInReach ==
  ASSUME NEW p, NEW q, InHall(p), InHall(q)
  PROVE  SquaredDistance(p, q) \in 0..Square(Reach)
<1>1. p[1] \in Int /\ p[2] \in Int /\ q[1] \in Int /\ q[2] \in Int
  BY DEF InHall, Point
<1>2. ASSUME NEW c \in {1, 2}
      PROVE  \E s, t \in Spot : /\ Square(p[c] - q[c]) <= Square(Pos[s][c] - Pos[t][c])
                                /\ Square(p[c] - q[c]) \in Nat
  <2>1. PICK s1 \in Spot, t1 \in Spot : Pos[s1][c] <= p[c] /\ p[c] <= Pos[t1][c]
    BY DEF InHall, Spanned
  <2>2. PICK s2 \in Spot, t2 \in Spot : Pos[s2][c] <= q[c] /\ q[c] <= Pos[t2][c]
    BY DEF InHall, Spanned
  <2>3. \A s \in Spot : Pos[s][c] \in Int
    BY NodesInHall
  <2>4. PICK s \in {s1, s2} : Pos[s][c] <= p[c] /\ Pos[s][c] <= q[c]
    BY <2>1, <2>2, <2>3, <1>1
  <2>5. PICK t \in {t1, t2} : p[c] <= Pos[t][c] /\ q[c] <= Pos[t][c]
    BY <2>1, <2>2, <2>3, <1>1
  <2>6. p[c] \in Int /\ q[c] \in Int /\ Pos[s][c] \in Int /\ Pos[t][c] \in Int /\ s \in Spot /\ t \in Spot
    BY <1>1, <2>3
  <2>7. Square(p[c] - q[c]) <= Square(Pos[s][c] - Pos[t][c]) /\ Square(p[c] - q[c]) \in Nat
    BY <2>4, <2>5, <2>6, Nearer
  <2> QED BY <2>6, <2>7, Zenon
<1>3. PICK s \in Spot, t \in Spot : /\ Square(p[1] - q[1]) <= Square(Pos[s][1] - Pos[t][1])
                                    /\ Square(p[1] - q[1]) \in Nat
  BY <1>2
<1>4. PICK u \in Spot, v \in Spot : /\ Square(p[2] - q[2]) <= Square(Pos[u][2] - Pos[v][2])
                                    /\ Square(p[2] - q[2]) \in Nat
  BY <1>2
<1>5. Square(Pos[s][1] - Pos[t][1]) + Square(Pos[u][2] - Pos[v][2]) <= Square(Reach)
  BY RoutingAssumption, Zenon
<1>6. Square(Pos[s][1] - Pos[t][1]) \in Int /\ Square(Pos[u][2] - Pos[v][2]) \in Int /\ Square(Reach) \in Int
  <2>1. Pos[s][1] \in Int /\ Pos[t][1] \in Int /\ Pos[u][2] \in Int /\ Pos[v][2] \in Int
    BY NodesInHall
  <2>2. Reach \in Int
    BY RoutingAssumption
  <2> QED BY <2>1, <2>2
<1> HIDE DEF Square
<1> QED BY <1>3, <1>4, <1>5, <1>6 DEF SquaredDistance

\* Distances, rounded down; a difference in one direction is no more.
LEMMA EuclidIs ==
  ASSUME NEW p, NEW q, InHall(p), InHall(q)
  PROVE  /\ Euclid(p, q) \in 0..Reach
         /\ Square(Euclid(p, q)) <= SquaredDistance(p, q)
         /\ Euclid(p, q) = 0 => p = q
         /\ p = q => Euclid(p, q) = 0
<1>1. SquaredDistance(p, q) \in 0..Square(Reach)
  BY HallInReach
<1>2. PICK n \in 0..Square(Reach) : n = SquaredDistance(p, q)
  BY <1>1, Zenon
<1>3. Euclid(p, q) = Root[n]
  BY <1>2, Zenon DEF Euclid
<1>4. Root[n] \in 0..Reach /\ Square(Root[n]) <= n /\ n < Square(Root[n] + 1)
  BY RootIs
<1>5. p[1] \in Int /\ p[2] \in Int /\ q[1] \in Int /\ q[2] \in Int /\ p = <<p[1], p[2]>> /\ q = <<q[1], q[2]>>
  BY DEF InHall, Point
<1>6. ASSUME Root[n] = 0 PROVE p = q
  <2>1. n = 0
    BY <1>4, <1>6
  <2>2. PICK a \in Int, b \in Int : a = p[1] - q[1] /\ b = p[2] - q[2]
    BY <1>5
  <2>3. a * a + b * b = 0
    BY <2>1, <2>2, <1>2, Zenon DEF SquaredDistance
  <2>4. a = 0 /\ b = 0
    BY <2>3
  <2>5. p[1] = q[1] /\ p[2] = q[2]
    BY <2>2, <2>4, <1>5
  <2> QED BY <2>5, <1>5, Zenon
<1>7. ASSUME p = q PROVE Root[n] = 0
  <2>1. n = 0
    BY <1>2, <1>5, <1>7 DEF SquaredDistance
  <2>2. PICK r \in Nat : r = Root[n]
    BY <1>4, RoutingAssumption
  <2>3. r * r <= 0
    BY <2>1, <2>2, <1>4
  <2>4. r = 0
    BY <2>3
  <2> QED BY <2>2, <2>4
<1> QED BY <1>2, <1>3, <1>4, <1>6, <1>7

Amid(x, y, z) == (x <= z /\ z <= y) \/ (y <= z /\ z <= x)

\* A point between two of the hall is in the hall.
LEMMA AlongInHall ==
  ASSUME NEW p, NEW q, InHall(p), InHall(q), NEW far \in 0..Euclid(p, q)
  PROVE  InHall(Along(p, q, far))
<1>1. PICK d \in Nat : d = Euclid(p, q)
  BY EuclidIs, RoutingAssumption
<1>2. CASE d = 0
  BY <1>1, <1>2 DEF Along
<1>3. CASE d # 0
  <2>1. Along(p, q, far) = <<p[1] + ((q[1] - p[1]) * far) \div d, p[2] + ((q[2] - p[2]) * far) \div d>>
    BY <1>1, <1>3 DEF Along
  <2>2. ASSUME NEW x \in Int, NEW y \in Int
        PROVE  \E z \in Int : z = x + ((y - x) * far) \div d /\ Amid(x, y, z)
    <3>1. PICK e \in Int : e = y - x
      OBVIOUS
    <3>2. PICK m \in Int : m = e * far
      BY <3>1, <1>1
    <3>3. PICK k \in Int : k = m \div d
      BY <1>1, <1>3, <3>2
    <3>4. d * k <= m /\ m < d * (k + 1)
      BY <1>1, <1>3, <3>2, <3>3
    <3>5. far \in Nat /\ far <= d
      BY <1>1
    <3>6. e >= 0 => 0 <= k /\ k <= e
      <4> SUFFICES ASSUME e >= 0 PROVE 0 <= k /\ k <= e
        OBVIOUS
      <4>1. 0 <= m /\ m <= d * e
        BY <3>2, <3>5, <1>1
      <4>2. 0 < d * (k + 1)
        BY <4>1, <3>4, <1>1, <1>3
      <4>3. 0 <= k
        BY <4>2, <1>1, <1>3
      <4>4. d * k <= d * e
        BY <4>1, <3>4, <1>1, <1>3
      <4>5. k <= e
        BY <4>4, <1>1, <1>3
      <4> QED BY <4>3, <4>5
    <3>7. e < 0 => e <= k /\ k <= 0
      <4> SUFFICES ASSUME e < 0 PROVE e <= k /\ k <= 0
        OBVIOUS
      <4>1. m <= 0 /\ d * e <= m
        BY <3>2, <3>5, <1>1
      <4>2. d * k <= 0
        BY <4>1, <3>4, <1>1, <1>3
      <4>3. k <= 0
        BY <4>2, <1>1, <1>3
      <4>4. d * e < d * (k + 1)
        BY <4>1, <3>4, <1>1, <1>3
      <4>5. e < k + 1
        BY <4>4, <1>1, <1>3
      <4> QED BY <4>3, <4>5
    <3>8. ((y - x) * far) \div d = k
      BY <3>1, <3>2, <3>3, Zenon
    <3>9. x + k \in Int /\ Amid(x, y, x + k)
      BY <3>1, <3>6, <3>7 DEF Amid
    <3> QED BY <3>8, <3>9, Zenon
  <2>3. p[1] \in Int /\ p[2] \in Int /\ q[1] \in Int /\ q[2] \in Int
    BY DEF InHall, Point
  <2>4. ASSUME NEW c \in {1, 2}, NEW z \in Int, Amid(p[c], q[c], z)
        PROVE  Spanned(z, c)
    <3>1. PICK s1 \in Spot, t1 \in Spot : Pos[s1][c] <= p[c] /\ p[c] <= Pos[t1][c]
      BY DEF InHall, Spanned
    <3>2. PICK s2 \in Spot, t2 \in Spot : Pos[s2][c] <= q[c] /\ q[c] <= Pos[t2][c]
      BY DEF InHall, Spanned
    <3>3. \A s \in Spot : Pos[s][c] \in Int
      BY NodesInHall
    <3>4. \E s \in {s1, s2} : Pos[s][c] <= z
      BY <2>4, <3>1, <3>2, <3>3, <2>3 DEF Amid
    <3>5. \E t \in {t1, t2} : z <= Pos[t][c]
      BY <2>4, <3>1, <3>2, <3>3, <2>3 DEF Amid
    <3> QED BY <3>4, <3>5 DEF Spanned
  <2>5. PICK a \in Int : a = p[1] + ((q[1] - p[1]) * far) \div d /\ Amid(p[1], q[1], a)
    BY <2>2, <2>3
  <2>6. PICK b \in Int : b = p[2] + ((q[2] - p[2]) * far) \div d /\ Amid(p[2], q[2], b)
    BY <2>2, <2>3
  <2>7. Spanned(a, 1) /\ Spanned(b, 2)
    BY <2>4, <2>5, <2>6
  <2>8. Along(p, q, far) = <<a, b>>
    BY <2>1, <2>5, <2>6, Zenon
  <2> QED BY <2>7, <2>8 DEF InHall, Point
<1> QED BY <1>2, <1>3

\* Distances between nodes are whole, and obey the triangle inequality.
LEMMA BetweenIs ==
  ASSUME NEW s \in Spot, NEW t \in Spot
  PROVE  /\ Between(s, t) = Euclid(Pos[s], Pos[t]) /\ Between(s, t) \in 0..Reach /\ Between(s, t) \in Nat
         /\ Square(Between(s, t)) = SquaredDistance(Pos[s], Pos[t])
         /\ Between(s, s) = 0
<1>1. Between(s, t) = Euclid(Pos[s], Pos[t]) /\ Between(s, s) = Euclid(Pos[s], Pos[s])
  BY DEF Between, Length
<1>2. Euclid(Pos[s], Pos[t]) \in 0..Reach /\ Euclid(Pos[s], Pos[s]) = 0
  BY EuclidIs, NodesInHall
<1>3. Square(Euclid(Pos[s], Pos[t])) = SquaredDistance(Pos[s], Pos[t])
  BY RoutingAssumption, Zenon
<1>4. Reach \in Nat
  BY RoutingAssumption
<1> HIDE DEF Square
<1> QED BY <1>1, <1>2, <1>3, <1>4

LEMMA Triangle ==
  ASSUME NEW a \in Nat, NEW b \in Nat, NEW c \in Nat,
         NEW x \in Int, NEW y \in Int, NEW u \in Int, NEW v \in Int,
         a * a = x * x + y * y, b * b = u * u + v * v,
         c * c = (x + u) * (x + u) + (y + v) * (y + v)
  PROVE  c <= a + b
<1>1. PICK dot \in Int : dot = x * u + y * v
  OBVIOUS
<1>2. PICK cross \in Int : cross = x * v - y * u
  OBVIOUS
<1>3. (a * a) * (b * b) = dot * dot + cross * cross
  <2>1. (x * x + y * y) * (u * u + v * v) = (x * u + y * v) * (x * u + y * v) + (x * v - y * u) * (x * v - y * u)
    OBVIOUS
  <2> QED BY <2>1, <1>1, <1>2
<1>4. PICK m \in Nat : m = a * b
  BY Squares
<1>5. dot * dot <= m * m
  <2>1. (a * a) * (b * b) = m * m
    BY <1>4
  <2>2. cross * cross >= 0
    OBVIOUS
  <2> QED BY <1>3, <2>1, <2>2
<1>6. dot <= m
  <2> SUFFICES ASSUME m < dot PROVE FALSE
    OBVIOUS
  <2>1. dot \in Nat
    OBVIOUS
  <2>2. m * m < dot * dot
    BY <2>1, Squares
  <2> QED BY <2>2, <1>5
<1>7. c * c = a * a + b * b + 2 * dot
  <2>1. (x + u) * (x + u) + (y + v) * (y + v) = (x * x + y * y) + (u * u + v * v) + 2 * (x * u + y * v)
    OBVIOUS
  <2> QED BY <2>1, <1>1
<1>8. (a + b) * (a + b) = a * a + b * b + 2 * m
  BY <1>4
<1>9. c * c <= (a + b) * (a + b)
  BY <1>6, <1>7, <1>8
<1> SUFFICES ASSUME a + b < c PROVE FALSE
  OBVIOUS
<1>10. a + b \in Nat
  OBVIOUS
<1>11. (a + b) * (a + b) < c * c
  BY <1>10, Squares
<1> QED BY <1>9, <1>11

LEMMA NoShortCut ==
  ASSUME NEW r \in Spot, NEW s \in Spot, NEW t \in Spot
  PROVE  Between(r, t) <= Between(r, s) + Between(s, t)
<1>1. PICK a \in Nat, b \in Nat, c \in Nat : a = Between(r, s) /\ b = Between(s, t) /\ c = Between(r, t)
  BY BetweenIs
<1>2. a * a = SquaredDistance(Pos[r], Pos[s]) /\ b * b = SquaredDistance(Pos[s], Pos[t])
      /\ c * c = SquaredDistance(Pos[r], Pos[t])
  BY <1>1, BetweenIs, Zenon
<1>3. \A w \in Spot : Pos[w][1] \in Int /\ Pos[w][2] \in Int
  BY NodesInHall
<1>x. PICK x \in Int : x = Pos[r][1] - Pos[s][1]
  BY <1>3
<1>y. PICK y \in Int : y = Pos[r][2] - Pos[s][2]
  BY <1>3
<1>u. PICK u \in Int : u = Pos[s][1] - Pos[t][1]
  BY <1>3
<1>v. PICK v \in Int : v = Pos[s][2] - Pos[t][2]
  BY <1>3
<1>4. /\ x = Pos[r][1] - Pos[s][1] /\ y = Pos[r][2] - Pos[s][2]
      /\ u = Pos[s][1] - Pos[t][1] /\ v = Pos[s][2] - Pos[t][2]
  BY <1>x, <1>y, <1>u, <1>v
<1>5. x + u = Pos[r][1] - Pos[t][1] /\ y + v = Pos[r][2] - Pos[t][2]
  BY <1>3, <1>4
<1>6. a * a = x * x + y * y
  BY <1>2, <1>4, Zenon DEF SquaredDistance
<1>7. b * b = u * u + v * v
  BY <1>2, <1>4, Zenon DEF SquaredDistance
<1>8. c * c = (x + u) * (x + u) + (y + v) * (y + v)
  BY <1>2, <1>5, Zenon DEF SquaredDistance
<1>9. c <= a + b
  BY <1>6, <1>7, <1>8, Triangle
<1> QED BY <1>1, <1>9

LEMMA OtherWay == \A s, t \in Spot : Between(s, t) = Between(t, s)
<1> SUFFICES ASSUME NEW s \in Spot, NEW t \in Spot PROVE Between(s, t) = Between(t, s)
  OBVIOUS
<1>1. Pos[s][1] \in Int /\ Pos[s][2] \in Int /\ Pos[t][1] \in Int /\ Pos[t][2] \in Int
  BY NodesInHall
<1>2. SquaredDistance(Pos[s], Pos[t]) = SquaredDistance(Pos[t], Pos[s])
  BY <1>1 DEF SquaredDistance
<1>3. Between(s, t) = Euclid(Pos[s], Pos[t]) /\ Between(t, s) = Euclid(Pos[t], Pos[s])
  BY BetweenIs
<1> QED BY <1>2, <1>3, Zenon DEF Euclid

\* What Sums computes.
LEMMA SumsIs ==
  ASSUME NEW N \in Nat, NEW numbers \in [1..N -> Nat], Len(numbers) = N
  PROVE  /\ Sums(numbers)[0] = 0
         /\ \A n \in 1..N : Sums(numbers)[n] = Sums(numbers)[n - 1] + numbers[n]
         /\ \A n \in 0..N : Sums(numbers)[n] \in Nat
<1> DEFINE step == [n \in 1..N |-> [x \in Nat |-> x + numbers[n]]]
           Value(g, n) == IF n = 0 THEN 0 ELSE g[n - 1] + numbers[n]
           Good(g) == g = [n \in 0..N |-> Value(g, n)]
<1>1. PICK f \in [0..N -> Nat] : Unfolds(f, N, 0, step)
  <2>1. StepsIn(step, N, Nat) /\ 0 \in Nat
    BY DEF StepsIn
  <2> HIDE DEF step
  <2> QED BY <2>1, RecursionTo, Zenon
<1>2. Good(f)
  <2>1. ASSUME NEW n \in 1..N PROVE f[n] = Value(f, n)
    <3>1. n - 1 \in 0..N /\ n # 0
      OBVIOUS
    <3> QED BY <1>1, <3>1 DEF Unfolds
  <2>2. f[0] = Value(f, 0)
    BY <1>1 DEF Unfolds
  <2> HIDE DEF Value
  <2> QED BY <2>1, <2>2
<1> DEFINE sum == CHOOSE g : Good(g)
<1>3. Good(sum)
  <2> HIDE DEF Good
  <2> QED BY <1>2
<1>4. Sums(numbers) = sum
  BY DEF Sums
<1> HIDE DEF sum
<1>5. \A n \in 0..N : sum[n] = Value(sum, n)
  <2> HIDE DEF Value
  <2> QED BY <1>3
<1>6. sum[0] = 0 /\ \A n \in 1..N : sum[n] = sum[n - 1] + numbers[n]
  BY <1>5
<1>7. \A n \in 0..N : sum[n] \in Nat
  <2> DEFINE T == {n \in 0..N : sum[n] \in Nat}
  <2>1. 0 \in T
    BY <1>6
  <2>2. \A n \in 0..(N - 1) : n \in T => n + 1 \in T
    BY <1>6
  <2> HIDE DEF T
  <2>3. \A n \in 0..N : n \in T
    BY <2>1, <2>2, InductionTo
  <2> QED BY <2>3 DEF T
<1> QED BY <1>4, <1>6, <1>7

-----------------------------------------------------------------------------
(* The graph *)

Arc == [from : Spot, to : Spot, weight : Nat]

\* One arc from a node to another, no shorter than it looks.
OneArcEach(arcs) ==
    \A i, j \in DOMAIN arcs : arcs[i].from = arcs[j].from /\ arcs[i].to = arcs[j].to => i = j
LongEnough(arcs) == \A i \in DOMAIN arcs : Between(arcs[i].from, arcs[i].to) <= arcs[i].weight
GraphOK(arcs) == arcs \in Seq(Arc) /\ OneArcEach(arcs) /\ LongEnough(arcs)

LEMMA ArcIs ==
  ASSUME NEW arcs, GraphOK(arcs), NEW i \in DOMAIN arcs
  PROVE  /\ arcs[i] \in Arc /\ arcs[i].from \in Spot /\ arcs[i].to \in Spot /\ arcs[i].weight \in Nat
         /\ Between(arcs[i].from, arcs[i].to) <= arcs[i].weight
<1>1. arcs[i] \in Arc
  <2>1. arcs \in Seq(Arc)
    BY DEF GraphOK
  <2> QED BY <2>1
<1>2. Between(arcs[i].from, arcs[i].to) <= arcs[i].weight
  BY DEF GraphOK, LongEnough
<1> QED BY <1>1, <1>2 DEF Arc

LEMMA AddEdgeKeeps ==
  ASSUME NEW arcs, GraphOK(arcs), NEW from \in Spot, NEW to \in Spot, NEW weight \in Nat,
         Between(from, to) <= weight
  PROVE  GraphOK(AddEdge(arcs, from, to, weight))
<1> DEFINE known == {i \in DOMAIN arcs : arcs[i].from = from /\ arcs[i].to = to}
           arc == [from |-> from, to |-> to, weight |-> weight]
<1>a. arc \in Arc /\ arc.from = from /\ arc.to = to /\ arc.weight = weight
  BY DEF Arc
<1>0. PICK a : a = arc /\ a \in Arc /\ a.from = from /\ a.to = to /\ a.weight = weight
  <2> HIDE DEF arc
  <2> QED BY <1>a
<1>1. arcs \in Seq(Arc) /\ DOMAIN arcs = 1..Len(arcs) /\ Len(arcs) \in Nat
  BY DEF GraphOK
<1>2. CASE known = {}
  <2>1. AddEdge(arcs, from, to, weight) = Append(arcs, a)
    BY <1>2, <1>0 DEF AddEdge
  <2> DEFINE b == Append(arcs, a)
  <2>2. b \in Seq(Arc) /\ DOMAIN b = 1..(Len(arcs) + 1) /\ b[Len(arcs) + 1] = a
        /\ \A i \in DOMAIN arcs : b[i] = arcs[i]
    BY <1>0, <1>1
  <2> HIDE DEF b
  <2>3. OneArcEach(b)
    <3> SUFFICES ASSUME NEW i \in DOMAIN b, NEW j \in DOMAIN b, b[i].from = b[j].from, b[i].to = b[j].to
                 PROVE  i = j
      BY Zenon DEF OneArcEach
    <3>1. CASE i \in DOMAIN arcs /\ j \in DOMAIN arcs
      BY <3>1, <2>2 DEF GraphOK, OneArcEach
    <3>2. CASE i = Len(arcs) + 1 /\ j \in DOMAIN arcs
      BY <3>2, <2>2, <1>0, <1>2
    <3>3. CASE j = Len(arcs) + 1 /\ i \in DOMAIN arcs
      BY <3>3, <2>2, <1>0, <1>2
    <3>4. CASE i = Len(arcs) + 1 /\ j = Len(arcs) + 1
      BY <3>4
    <3> QED BY <3>1, <3>2, <3>3, <3>4, <2>2, <1>1
  <2>4. LongEnough(b)
    <3> SUFFICES ASSUME NEW i \in DOMAIN b PROVE Between(b[i].from, b[i].to) <= b[i].weight
      BY Zenon DEF LongEnough
    <3>1. CASE i \in DOMAIN arcs
      BY <3>1, <2>2 DEF GraphOK, LongEnough
    <3>2. CASE i = Len(arcs) + 1
      BY <3>2, <2>2, <1>0, Zenon
    <3> QED BY <3>1, <3>2, <2>2, <1>1
  <2> QED BY <2>1, <2>2, <2>3, <2>4 DEF GraphOK, b
<1>3. CASE known # {}
  <2> DEFINE b == [i \in DOMAIN arcs |-> IF i \in known THEN a ELSE arcs[i]]
  <2>1. AddEdge(arcs, from, to, weight) = b
    BY <1>3, <1>0 DEF AddEdge
  <2>2. DOMAIN b = DOMAIN arcs /\ \A i \in DOMAIN arcs : /\ b[i].from = arcs[i].from /\ b[i].to = arcs[i].to
                                 /\ \/ b[i].weight = arcs[i].weight
                                    \/ b[i].weight = weight /\ b[i].from = from /\ b[i].to = to
    BY <1>0
  <2>3. b \in Seq(Arc)
    BY <1>0, <1>1
  <2> HIDE DEF b, known, arc
  <2>4. OneArcEach(b)
    <3>1. OneArcEach(arcs)
      BY DEF GraphOK
    <3> SUFFICES ASSUME NEW i \in DOMAIN b, NEW j \in DOMAIN b, b[i].from = b[j].from, b[i].to = b[j].to
                 PROVE  i = j
      BY Zenon DEF OneArcEach
    <3>2. /\ i \in DOMAIN arcs /\ j \in DOMAIN arcs
          /\ arcs[i].from = arcs[j].from /\ arcs[i].to = arcs[j].to
      BY <2>2, Zenon
    <3> QED BY <3>1, <3>2, Zenon DEF OneArcEach
  <2>5. LongEnough(b)
    <3>1. LongEnough(arcs)
      BY DEF GraphOK
    <3> SUFFICES ASSUME NEW i \in DOMAIN b PROVE Between(b[i].from, b[i].to) <= b[i].weight
      BY Zenon DEF LongEnough
    <3>2. Between(arcs[i].from, arcs[i].to) <= arcs[i].weight
      BY <3>1, <2>2, Zenon DEF LongEnough
    <3> QED BY <3>2, <2>2, Zenon
  <2> QED BY <2>1, <2>3, <2>4, <2>5, Zenon DEF GraphOK
<1> QED BY <1>2, <1>3

LEMMA AddRowKeeps ==
  ASSUME NEW arcs, GraphOK(arcs), NEW row \in EdgeRow, {row.from, row.to} \subseteq Spot
  PROVE  GraphOK(AddRow(arcs, row))
<1> DEFINE weight == IF row.distance = 0 THEN Between(row.from, row.to) ELSE row.distance
<1>1. row.from \in Spot /\ row.to \in Spot /\ row.distance \in Nat
  BY DEF EdgeRow
<1>2. Between(row.from, row.to) \in Nat /\ Between(row.to, row.from) \in Nat
  BY <1>1, BetweenIs
<1>3. Between(row.from, row.to) = Between(row.to, row.from)
  BY <1>1, NoShortCut, BetweenIs, OtherWay
<1>4. weight \in Nat /\ Between(row.from, row.to) <= weight
  BY <1>1, <1>2 DEF EdgeRow
<1>5. PICK w \in Nat : w = weight /\ Between(row.from, row.to) <= w /\ Between(row.to, row.from) <= w
  <2>1. Between(row.to, row.from) <= weight
    BY <1>3, <1>4, Zenon
  <2> HIDE DEF weight
  <2> QED BY <1>4, <2>1
<1> DEFINE there == AddEdge(arcs, row.from, row.to, w)
<1>6. GraphOK(there)
  BY <1>1, <1>5, AddEdgeKeeps
<1>7. GraphOK(AddEdge(there, row.to, row.from, w))
  <2> HIDE DEF there
  <2> QED BY <1>1, <1>5, <1>6, AddEdgeKeeps
<1>8. AddRow(arcs, row) = IF row.both THEN AddEdge(there, row.to, row.from, w) ELSE there
  BY <1>5 DEF AddRow
<1> HIDE DEF there
<1> QED BY <1>6, <1>7, <1>8

\* Whatever the rows, the graph built is one.
LEMMA GraphIsOK ==
  ASSUME NEW edges \in Seq(EdgeRow), NEW a \in BOOLEAN
  PROVE  GraphOK(BuildGraph(edges, a))
<1> DEFINE N == Len(edges)
           G == {g \in Seq(Arc) : GraphOK(g)}
           To(x, n) == IF OnMap(edges[n], a) THEN AddRow(x, edges[n]) ELSE x
           step == [n \in 1..N |-> [x \in G |-> To(x, n)]]
           Value(g, n) == IF n = 0 THEN <<>> ELSE IF OnMap(edges[n], a) THEN AddRow(g[n - 1], edges[n]) ELSE g[n - 1]
           Good(g) == g = [n \in 0..N |-> Value(g, n)]
<1>0. N \in Nat /\ \A n \in 1..N : edges[n] \in EdgeRow
  OBVIOUS
<1>1. StepsIn(step, N, G)
  <2> SUFFICES ASSUME NEW n \in 1..N, NEW x \in G PROVE To(x, n) \in G
    BY DEF StepsIn
  <2>1. CASE OnMap(edges[n], a)
    <3>1. GraphOK(AddRow(x, edges[n]))
      BY <1>0, <2>1, AddRowKeeps DEF OnMap
    <3> QED BY <3>1, <2>1 DEF GraphOK
  <2>2. CASE ~OnMap(edges[n], a)
    BY <2>2
  <2> QED BY <2>1, <2>2
<1>2. <<>> \in G
  BY DEF GraphOK, OneArcEach, LongEnough
<1>3. PICK f \in [0..N -> G] : Unfolds(f, N, <<>>, step)
  <2> HIDE DEF step, G, N
  <2> QED BY <1>0, <1>1, <1>2, RecursionTo, Zenon
<1> HIDE DEF N
<1>4. Good(f)
  <2>1. ASSUME NEW n \in 1..N PROVE f[n] = Value(f, n)
    <3>1. n - 1 \in 0..N /\ n # 0
      BY <1>0
    <3>2. f[n] = step[n][f[n - 1]] /\ f[n - 1] \in G
      BY <1>3, <3>1 DEF Unfolds
    <3>3. f[n] = To(f[n - 1], n)
      <4> HIDE DEF G, To
      <4> QED BY <3>2
    <3> QED BY <3>1, <3>3, Zenon
  <2>2. f[0] = Value(f, 0)
    BY <1>3, <1>0 DEF Unfolds
  <2> HIDE DEF Value, G
  <2> QED BY <2>1, <2>2, <1>0
<1> DEFINE made == CHOOSE g : Good(g)
<1>5. Good(made)
  <2> HIDE DEF Good
  <2> QED BY <1>4
<1>6. BuildGraph(edges, a) = made[N]
  BY DEF BuildGraph, N
<1> HIDE DEF made
<1>7. \A n \in 0..N : made[n] = Value(made, n)
  <2> HIDE DEF Value
  <2> QED BY <1>5
<1> DEFINE T == {n \in 0..N : made[n] \in G}
<1>8. 0 \in T
  <2>1. 0 \in 0..N
    BY <1>0
  <2>2. made[0] = <<>>
    BY <2>1, <1>7
  <2> HIDE DEF G
  <2> QED BY <2>1, <2>2, <1>2
<1>9. ASSUME NEW n \in 0..(N - 1), n \in T PROVE n + 1 \in T
  <2>1. n + 1 \in 0..N /\ n + 1 \in 1..N /\ n + 1 - 1 = n /\ n + 1 # 0
    BY <1>0
  <2>2. made[n + 1] = To(made[n], n + 1)
    <3>1. made[n + 1] = Value(made, n + 1)
      <4> HIDE DEF Value
      <4> QED BY <2>1, <1>7
    <3> HIDE DEF G
    <3> QED BY <2>1, <3>1
  <2>3. step[n + 1][made[n]] \in G
    <3> HIDE DEF step, G
    <3> QED BY <1>1, <1>9, <2>1 DEF StepsIn
  <2>4. To(made[n], n + 1) \in G
    <3> HIDE DEF To, G
    <3> QED BY <2>1, <2>3, <1>9
  <2> HIDE DEF G, To
  <2> QED BY <2>1, <2>2, <2>4
<1>10. N \in T
  <2> HIDE DEF T
  <2>1. \A n \in 0..N : n \in T
    BY <1>0, <1>8, <1>9, InductionTo
  <2> QED BY <2>1, <1>0
<1> QED BY <1>6, <1>10

-----------------------------------------------------------------------------
(* The ways there are *)

\* The ways of no more than so many arcs, as WaysTo finds them.
WaysFit(ways, arcs, goal, N) ==
    /\ ways[0] = {<<goal, 0>>}
    /\ \A k \in 1..N : ways[k] = Longer(arcs, ways[k - 1])
    /\ \A k \in 0..N : ways[k] \in SUBSET (Spot \X Nat)

LEMMA LongerIsWays ==
  ASSUME NEW arcs, GraphOK(arcs), NEW ways \in SUBSET (Spot \X Nat)
  PROVE  Longer(arcs, ways) \in SUBSET (Spot \X Nat)
<1>1. ASSUME NEW i \in DOMAIN arcs, NEW way \in ways
      PROVE  <<arcs[i].from, arcs[i].weight + way[2]>> \in Spot \X Nat
  <2>1. arcs[i] \in Arc
    BY DEF GraphOK
  <2>2. arcs[i].from \in Spot /\ arcs[i].weight \in Nat /\ way[2] \in Nat
    BY <2>1 DEF Arc
  <2> QED BY <2>2
<1> QED BY <1>1 DEF Longer

LEMMA WaysAre ==
  ASSUME NEW arcs, GraphOK(arcs), NEW goal \in Spot, NEW N \in Nat, N = Cardinality(Spot)
  PROVE  \E ways : WaysFit(ways, arcs, goal, N) /\ WaysTo(arcs, goal) = ways[N]
<1> DEFINE W == SUBSET (Spot \X Nat)
           step == [n \in 1..N |-> [x \in W |-> Longer(arcs, x)]]
           Value(g, n) == IF n = 0 THEN {<<goal, 0>>} ELSE Longer(arcs, g[n - 1])
           Good(g) == g = [n \in 0..N |-> Value(g, n)]
<1>1. PICK f \in [0..N -> W] : Unfolds(f, N, {<<goal, 0>>}, step)
  <2>1. StepsIn(step, N, W)
    BY LongerIsWays DEF StepsIn
  <2>2. {<<goal, 0>>} \in W
    OBVIOUS
  <2> HIDE DEF step, W
  <2> QED BY <2>1, <2>2, RecursionTo, Zenon
<1>2. Good(f)
  <2>1. ASSUME NEW n \in 1..N PROVE f[n] = Value(f, n)
    <3>1. n - 1 \in 0..N /\ n # 0
      OBVIOUS
    <3>2. f[n] = step[n][f[n - 1]] /\ f[n - 1] \in W
      BY <1>1, <3>1 DEF Unfolds
    <3> HIDE DEF W
    <3> QED BY <3>1, <3>2
  <2>2. f[0] = Value(f, 0)
    BY <1>1 DEF Unfolds
  <2> HIDE DEF Value, W
  <2> QED BY <2>1, <2>2
<1> DEFINE ways == CHOOSE g : Good(g)
<1>3. Good(ways)
  <2> HIDE DEF Good
  <2> QED BY <1>2
<1>4. WaysTo(arcs, goal) = ways[N]
  BY DEF WaysTo
<1> HIDE DEF ways
<1>5. \A n \in 0..N : ways[n] = Value(ways, n)
  <2> HIDE DEF Value
  <2> QED BY <1>3
<1>6. ways[0] = {<<goal, 0>>} /\ \A n \in 1..N : ways[n] = Longer(arcs, ways[n - 1])
  BY <1>5
<1>7. \A n \in 0..N : ways[n] \in W
  <2> DEFINE T == {n \in 0..N : ways[n] \in W}
  <2>1. 0 \in T
    BY <1>6
  <2>2. ASSUME NEW n \in 0..(N - 1), n \in T PROVE n + 1 \in T
    <3>1. ways[n + 1] = Longer(arcs, ways[n]) /\ n + 1 \in 0..N
      BY <1>6
    <3>2. Longer(arcs, ways[n]) \in W
      BY <2>2, LongerIsWays
    <3> QED BY <3>1, <3>2
  <2> HIDE DEF T
  <2>3. \A n \in 0..N : n \in T
    BY <2>1, <2>2, InductionTo
  <2> QED BY <2>3 DEF T
<1>8. WaysFit(ways, arcs, goal, N)
  BY <1>6, <1>7 DEF WaysFit
<1> QED BY <1>4, <1>8

\* What holds at the goal, and at the start of an arc if it holds at its end, holds of
\* all ways.
LEMMA WaysKeep ==
  ASSUME NEW arcs, GraphOK(arcs), NEW goal \in Spot, NEW W, <<goal, 0>> \in W,
         \A i \in DOMAIN arcs, way \in Spot \X Nat :
           way \in W /\ way[1] = arcs[i].to => <<arcs[i].from, arcs[i].weight + way[2]>> \in W
  PROVE  WaysTo(arcs, goal) \subseteq W
<1>1. PICK N \in Nat : N = Cardinality(Spot)
  BY FS_CardinalityType, RoutingAssumption, Zenon
<1>2. PICK ways : WaysFit(ways, arcs, goal, N) /\ WaysTo(arcs, goal) = ways[N]
  BY <1>1, WaysAre
<1> DEFINE T == {n \in 0..N : ways[n] \subseteq W}
<1>3. 0 \in T
  BY <1>2 DEF WaysFit
<1>4. ASSUME NEW n \in 0..(N - 1), n \in T PROVE n + 1 \in T
  <2>1. n + 1 \in 0..N /\ ways[n + 1] = Longer(arcs, ways[n]) /\ ways[n] \subseteq Spot \X Nat /\ ways[n] \subseteq W
    BY <1>2, <1>4 DEF WaysFit
  <2>2. Longer(arcs, ways[n]) \subseteq W
    <3> SUFFICES ASSUME NEW x \in Longer(arcs, ways[n]) PROVE x \in W
      OBVIOUS
    <3>1. CASE x \in ways[n]
      BY <3>1, <2>1
    <3>2. CASE x \notin ways[n]
      <4>1. PICK i \in DOMAIN arcs, way \in ways[n] :
              way[1] = arcs[i].to /\ x = <<arcs[i].from, arcs[i].weight + way[2]>>
        BY <3>2 DEF Longer
      <4> QED BY <4>1, <2>1, Zenon
    <3> QED BY <3>1, <3>2
  <2> QED BY <2>1, <2>2
<1>5. N \in T
  <2> HIDE DEF T
  <2> QED BY <1>3, <1>4, InductionTo
<1> QED BY <1>2, <1>5

-----------------------------------------------------------------------------
(* Paths *)

\* How far the nodes of a path are from its first one.
Labels(arcs, path, far) ==
    /\ far[1] = 0
    /\ \A i \in 1..Len(path) : far[i] \in Nat
    /\ \A i \in 1..(Len(path) - 1) :
         \E a \in DOMAIN arcs : /\ arcs[a].from = path[i] /\ arcs[a].to = path[i + 1]
                                /\ far[i + 1] = far[i] + arcs[a].weight

LEMMA WeightIs ==
  ASSUME NEW arcs, GraphOK(arcs), NEW a \in DOMAIN arcs
  PROVE  /\ Weight(arcs, arcs[a].from, arcs[a].to) = arcs[a].weight
         /\ ArcsFrom(arcs, arcs[a].from, arcs[a].to) # {}
<1>1. ArcsFrom(arcs, arcs[a].from, arcs[a].to) = {a}
  BY DEF ArcsFrom, GraphOK, OneArcEach
<1> QED BY <1>1 DEF Weight

LEMMA CostIs ==
  ASSUME NEW arcs, GraphOK(arcs), NEW path \in Seq(Spot), path # <<>>, NEW far, Labels(arcs, path, far)
  PROVE  /\ CostOf(arcs, path) = far[Len(path)]
         /\ \A i \in 1..(Len(path) - 1) : ArcsFrom(arcs, path[i], path[i + 1]) # {}
<1>1. PICK N \in Nat : N = Len(path) - 1
  <2>1. Len(path) \in Nat /\ Len(path) # 0
    OBVIOUS
  <2> QED BY <2>1
<1> DEFINE legs == [i \in 1..N |-> Weight(arcs, path[i], path[i + 1])]
<1>2. ASSUME NEW i \in 1..N
      PROVE  /\ legs[i] \in Nat /\ far[i + 1] = far[i] + legs[i]
             /\ ArcsFrom(arcs, path[i], path[i + 1]) # {}
  <2>1. PICK a \in DOMAIN arcs : /\ arcs[a].from = path[i] /\ arcs[a].to = path[i + 1]
                                 /\ far[i + 1] = far[i] + arcs[a].weight
    BY <1>1 DEF Labels
  <2>2. arcs[a].weight \in Nat
    BY ArcIs
  <2>3. Weight(arcs, path[i], path[i + 1]) = arcs[a].weight /\ ArcsFrom(arcs, path[i], path[i + 1]) # {}
    BY <2>1, WeightIs
  <2> QED BY <2>1, <2>2, <2>3
<1>3. legs \in [1..N -> Nat] /\ Len(legs) = N
  BY <1>2
<1>4. CostOf(arcs, path) = Sums(legs)[N]
  BY <1>1, Zenon DEF CostOf
<1> HIDE DEF legs
<1>5. /\ Sums(legs)[0] = 0
      /\ \A n \in 1..N : Sums(legs)[n] = Sums(legs)[n - 1] + legs[n]
  BY <1>3, SumsIs
<1> DEFINE T == {n \in 0..N : Sums(legs)[n] = far[n + 1]}
<1>6. 0 \in T
  BY <1>5 DEF Labels
<1>7. ASSUME NEW n \in 0..(N - 1), n \in T PROVE n + 1 \in T
  <2>1. n + 1 \in 1..N /\ n + 1 - 1 = n /\ n + 1 \in 0..N
    OBVIOUS
  <2>2. Sums(legs)[n + 1] = Sums(legs)[n] + legs[n + 1]
    BY <2>1, <1>5
  <2>3. far[n + 1 + 1] = far[n + 1] + legs[n + 1]
    BY <2>1, <1>2
  <2>4. Sums(legs)[n] = far[n + 1]
    BY <1>7
  <2>5. Sums(legs)[n + 1] = far[n + 1 + 1]
    BY <2>2, <2>3, <2>4, Zenon
  <2> QED BY <2>1, <2>5
<1>8. N \in T
  <2> HIDE DEF T
  <2>1. \A n \in 0..N : n \in T
    BY <1>6, <1>7, InductionTo
  <2> QED BY <2>1
<1>9. Sums(legs)[N] = far[Len(path)]
  <2>1. N + 1 = Len(path)
    BY <1>1
  <2> QED BY <2>1, <1>8
<1> QED BY <1>1, <1>2, <1>4, <1>9

\* A path of no more nodes than there are is among the ways.
LEMMA PathIsWay ==
  ASSUME NEW arcs, GraphOK(arcs), NEW path \in Seq(Spot), path # <<>>, NEW far, Labels(arcs, path, far),
         NEW goal \in Spot, path[Len(path)] = goal, Len(path) <= Cardinality(Spot)
  PROVE  <<path[1], far[Len(path)]>> \in WaysTo(arcs, goal)
<1>1. PICK N \in Nat : N = Cardinality(Spot)
  BY FS_CardinalityType, RoutingAssumption, Zenon
<1>2. PICK ways : WaysFit(ways, arcs, goal, N) /\ WaysTo(arcs, goal) = ways[N]
  BY <1>1, WaysAre
<1>3. PICK L \in Nat : L = Len(path) /\ L >= 1 /\ L <= N
  BY <1>1
<1>4. \A i \in 1..L : path[i] \in Spot /\ far[i] \in Nat
  BY <1>3 DEF Labels
<1> DEFINE way(j) == <<path[L - j], far[L] - far[L - j]>>
           T == {n \in 0..N : \A j \in 0..(L - 1) : j <= n => way(j) \in ways[n]}
<1>5. 0 \in T
  <2>1. far[L] - far[L - 0] = 0 /\ path[L - 0] = goal
    BY <1>3, <1>4
  <2>2. way(0) \in ways[0]
    BY <2>1, <1>2 DEF WaysFit
  <2> HIDE DEF way
  <2>3. ASSUME NEW j \in 0..(L - 1), j <= 0 PROVE way(j) \in ways[0]
    <3>1. j = 0
      BY <2>3
    <3> QED BY <2>2, <3>1
  <2> QED BY <2>3
<1>6. ASSUME NEW n \in 0..(N - 1), n \in T PROVE n + 1 \in T
  <2>1. n + 1 \in 0..N /\ ways[n + 1] = Longer(arcs, ways[n])
    <3>1. n + 1 \in 1..N /\ n + 1 \in 0..N /\ (n + 1) - 1 = n
      OBVIOUS
    <3>2. \A k \in 1..N : ways[k] = Longer(arcs, ways[k - 1])
      BY <1>2, Zenon DEF WaysFit
    <3>3. ways[n + 1] = Longer(arcs, ways[(n + 1) - 1])
      BY <3>1, <3>2, Zenon
    <3> QED BY <3>1, <3>3, Zenon
  <2> SUFFICES ASSUME NEW j \in 0..(L - 1), j <= n + 1 PROVE way(j) \in Longer(arcs, ways[n])
    BY <2>1
  <2>2. CASE j <= n
    <3>1. way(j) \in ways[n]
      BY <2>2, <1>6
    <3> HIDE DEF way
    <3> QED BY <3>1 DEF Longer
  <2>3. CASE j = n + 1
    <3>1. way(n) \in ways[n]
      <4>1. n \in 0..(L - 1)
        BY <2>3, <1>3
      <4> HIDE DEF way
      <4> QED BY <4>1, <1>6
    <3>2. L - j \in 1..(L - 1) /\ L - j + 1 = L - n /\ L - n \in 1..L
      BY <2>3, <1>3
    <3>3. PICK a \in DOMAIN arcs : /\ arcs[a].from = path[L - j] /\ arcs[a].to = path[L - n]
                                   /\ far[L - n] = far[L - j] + arcs[a].weight
      <4>1. \E a \in DOMAIN arcs : /\ arcs[a].from = path[L - j] /\ arcs[a].to = path[L - j + 1]
                                   /\ far[L - j + 1] = far[L - j] + arcs[a].weight
        BY <3>2, <1>3, Zenon DEF Labels
      <4> QED BY <4>1, <3>2, Zenon
    <3>4. PICK x \in Int, y \in Int, z \in Int, w \in Int :
            x = far[L] /\ y = far[L - n] /\ z = far[L - j] /\ w = arcs[a].weight
      <4>1. far[L] \in Int /\ far[L - n] \in Int /\ far[L - j] \in Int
        BY <1>3, <1>4, <3>2
      <4>2. arcs[a].weight \in Int
        BY ArcIs
      <4> QED BY <4>1, <4>2, Zenon
    <3>5. w + (x - y) = x - z
      <4>1. y = z + w
        BY <3>3, <3>4, Zenon
      <4> QED BY <4>1
    <3>6. way(n)[1] = arcs[a].to /\ way(n)[2] = x - y /\ way(j) = <<arcs[a].from, w + (x - y)>>
      BY <3>3, <3>4, <3>5
    <3> HIDE DEF way
    <3>7. <<arcs[a].from, arcs[a].weight + way(n)[2]>> \in Longer(arcs, ways[n])
      BY <3>1, <3>6 DEF Longer
    <3> QED BY <3>4, <3>6, <3>7, Zenon
  <2> QED BY <2>2, <2>3
<1>7. N \in T
  <2> HIDE DEF T
  <2>1. \A n \in 0..N : n \in T
    BY <1>5, <1>6, InductionTo
  <2> QED BY <2>1
<1>8. L - 1 \in 0..(L - 1) /\ L - 1 <= N /\ L - (L - 1) = 1
  BY <1>3
<1>9. way(L - 1) \in ways[N]
  <2> HIDE DEF way
  <2> QED BY <1>7, <1>8
<1>10. way(L - 1) = <<path[1], far[L]>>
  <2>1. far[1] = 0 /\ far[L] \in Int
    BY <1>3, <1>4 DEF Labels
  <2>2. far[L] - far[1] = far[L]
    BY <2>1
  <2> QED BY <2>2, <1>8, Zenon
<1> QED BY <1>2, <1>3, <1>9, <1>10, Zenon

\* The tree of the nodes explored: all lead back to a root, in fewer turns than
\* there are of them.
Depths(explored, depth) ==
    \A s \in DOMAIN explored :
      /\ depth[s] \in Nat /\ depth[s] < Cardinality(DOMAIN explored)
      /\ explored[s] \in DOMAIN explored \cup {NoSpot}
      /\ explored[s] # NoSpot => depth[s] = depth[explored[s]] + 1

\* From a root to a node.
BranchTo(explored, node, path) ==
    /\ path \in Seq(Spot) /\ path # <<>> /\ path[Len(path)] = node
    /\ \A i \in 1..Len(path) : path[i] \in DOMAIN explored
    /\ explored[path[1]] = NoSpot
    /\ \A i \in 1..(Len(path) - 1) : path[i] = explored[path[i + 1]]
    /\ Len(path) <= Cardinality(DOMAIN explored)

\* What PathTo has after n turns: it goes on, or has reached the root.
Chain(explored, depth, node, n, c) ==
    /\ c \in Seq(Spot \cup {NoSpot}) /\ Len(c) >= 1 /\ c[Len(c)] = node
    /\ \A i \in 1..(Len(c) - 1) : c[i + 1] \in DOMAIN explored /\ c[i] = explored[c[i + 1]]
    /\ \/ c[1] \in DOMAIN explored /\ Len(c) = n + 1 /\ depth[c[1]] + n = depth[node]
       \/ c[1] = NoSpot /\ 2 <= Len(c) /\ Len(c) <= depth[node] + 2

LEMMA BehindKeeps ==
  ASSUME NEW explored, DOMAIN explored \subseteq Spot, NEW depth, Depths(explored, depth),
         NEW node \in DOMAIN explored, NEW n \in Nat, NEW c, Chain(explored, depth, node, n, c)
  PROVE  Chain(explored, depth, node, n + 1, Behind(explored, c))
<1>1. c \in Seq(Spot \cup {NoSpot}) /\ Len(c) \in Nat /\ Len(c) >= 1 /\ c[Len(c)] = node
  BY DEF Chain
<1>2. Head(c) = c[1]
  BY <1>1
<1>3. CASE c[1] = NoSpot
  <2>1. NoSpot \notin DOMAIN explored
    BY RoutingAssumption
  <2>2. Behind(explored, c) = c
    BY <1>2, <1>3 DEF Behind
  <2> QED BY <2>1, <2>2, <1>3 DEF Chain
<1>4. CASE c[1] # NoSpot
  <2>1. c[1] \in DOMAIN explored /\ Len(c) = n + 1 /\ depth[c[1]] + n = depth[node]
    BY <1>4 DEF Chain
  <2>2. PICK x \in Spot \cup {NoSpot} : x = explored[c[1]] /\ x \in DOMAIN explored \cup {NoSpot}
    BY <2>1 DEF Depths
  <2>3. PICK d \in Seq(Spot \cup {NoSpot}) : d = <<x>> \o c
    <3>1. <<x>> \in Seq(Spot \cup {NoSpot})
      OBVIOUS
    <3>2. <<x>> \o c \in Seq(Spot \cup {NoSpot})
      BY <3>1, <1>1
    <3> QED BY <3>2, Zenon
  <2>4. Len(d) = Len(c) + 1 /\ d[1] = x /\ \A i \in 1..Len(c) : d[i + 1] = c[i]
    BY <1>1, <2>3
  <2>5. Behind(explored, c) = d
    BY <1>2, <1>4, <2>2, <2>3 DEF Behind
  <2>6. d[Len(d)] = node
    BY <1>1, <2>4
  <2>7. ASSUME NEW i \in 1..(Len(d) - 1) PROVE d[i + 1] \in DOMAIN explored /\ d[i] = explored[d[i + 1]]
    <3>1. CASE i = 1
      <4>1. d[i + 1] = c[1] /\ d[i] = x
        BY <3>1, <2>4, <1>1
      <4> QED BY <4>1, <2>1, <2>2, Zenon
    <3>2. CASE i # 1
      <4>1. PICK j \in 1..(Len(c) - 1) : i = j + 1
        <5>1. i - 1 \in 1..(Len(c) - 1) /\ i = (i - 1) + 1
          BY <3>2, <2>4, <1>1
        <5> QED BY <5>1
      <4>2. j \in 1..Len(c) /\ j + 1 \in 1..Len(c)
        BY <1>1
      <4>3. d[i] = c[j] /\ d[i + 1] = c[j + 1]
        BY <4>1, <4>2, <2>4
      <4>4. c[j + 1] \in DOMAIN explored /\ c[j] = explored[c[j + 1]]
        BY DEF Chain
      <4> QED BY <4>3, <4>4, Zenon
    <3> QED BY <3>1, <3>2
  <2>8. PICK a \in Nat, b \in Nat : a = depth[c[1]] /\ b = depth[node] /\ a + n = b
    BY <2>1 DEF Depths
  <2>9. CASE x = NoSpot
    <3>1. Len(d) = n + 2 /\ 2 <= Len(d) /\ Len(d) <= b + 2
      BY <2>1, <2>4, <2>8, <1>1
    <3>2. Chain(explored, depth, node, n + 1, d)
      BY <2>4, <2>6, <2>7, <2>8, <2>9, <3>1 DEF Chain
    <3> QED BY <2>5, <3>2
  <2>10. CASE x # NoSpot
    <3>1. x \in DOMAIN explored /\ a = depth[x] + 1 /\ depth[x] \in Nat
      BY <2>10, <2>1, <2>2, <2>8 DEF Depths
    <3>2. depth[x] + (n + 1) = b
      <4>1. PICK y \in Nat : y = depth[x]
        BY <3>1
      <4>2. a = y + 1 /\ a + n = b
        BY <3>1, <4>1, <2>8
      <4>3. y + (n + 1) = b
        BY <4>2
      <4> QED BY <4>1, <4>3
    <3>3. Len(d) = (n + 1) + 1 /\ 1 <= Len(d)
      BY <2>1, <2>4
    <3>4. Chain(explored, depth, node, n + 1, d)
      BY <2>4, <2>6, <2>7, <2>8, <3>1, <3>2, <3>3 DEF Chain
    <3> QED BY <2>5, <3>4
  <2> QED BY <2>9, <2>10
<1> QED BY <1>3, <1>4

LEMMA PathToIs ==
  ASSUME NEW explored, DOMAIN explored \subseteq Spot, NEW depth, Depths(explored, depth),
         NEW node \in DOMAIN explored
  PROVE  BranchTo(explored, node, PathTo(explored, node))
<1>0. PICK N \in Nat : N = Cardinality(Spot) /\ Cardinality(DOMAIN explored) <= N
  BY FS_CardinalityType, FS_Subset, RoutingAssumption
<1> DEFINE Value(g, n) == IF n = 0 THEN <<node>> ELSE Behind(explored, g[n - 1])
           Good(g) == g = [n \in 0..N |-> Value(g, n)]
<1>1. \E f : Good(f)
  <2> DEFINE Fits(f, m) == /\ f = [n \in 0..m |-> f[n]] /\ f[0] = <<node>>
                           /\ \A n \in 1..m : f[n] = Behind(explored, f[n - 1])
             T == {m \in 0..N : \E f : Fits(f, m)}
  <2>1. 0 \in T
    <3> DEFINE f == [n \in 0..0 |-> <<node>>]
    <3>1. Fits(f, 0)
      OBVIOUS
    <3> HIDE DEF Fits, f
    <3> QED BY <3>1
  <2>2. ASSUME NEW m \in 0..(N - 1), m \in T PROVE m + 1 \in T
    <3>1. PICK f : Fits(f, m)
      BY <2>2
    <3> DEFINE g == [n \in 0..(m + 1) |-> IF n = m + 1 THEN Behind(explored, f[m]) ELSE f[n]]
    <3>2. Fits(g, m + 1)
      <4>1. g[0] = <<node>> /\ g = [n \in 0..(m + 1) |-> g[n]]
        BY <3>1
      <4>2. ASSUME NEW n \in 1..(m + 1) PROVE g[n] = Behind(explored, g[n - 1])
        <5>1. CASE n = m + 1
          BY <5>1
        <5>2. CASE n # m + 1
          <6>1. n \in 1..m /\ g[n] = f[n] /\ g[n - 1] = f[n - 1]
            BY <5>2
          <6> QED BY <6>1, <3>1, Zenon
        <5> QED BY <5>1, <5>2
      <4> HIDE DEF g
      <4> QED BY <4>1, <4>2
    <3> HIDE DEF Fits, g
    <3> QED BY <3>2
  <2>3. N \in T
    <3> HIDE DEF T
    <3>1. \A n \in 0..N : n \in T
      BY <2>1, <2>2, InductionTo
    <3> QED BY <3>1
  <2>4. PICK f : Fits(f, N)
    BY <2>3
  <2>5. \A n \in 0..N : f[n] = Value(f, n)
    <3> TAKE n \in 0..N
    <3>1. CASE n = 0
      BY <3>1, <2>4
    <3>2. CASE n # 0
      <4>1. n \in 1..N
        BY <3>2
      <4>2. f[n] = Behind(explored, f[n - 1])
        BY <4>1, <2>4, Zenon
      <4> QED BY <3>2, <4>2, Zenon
    <3> QED BY <3>1, <3>2
  <2>6. Good(f)
    <3>1. f = [n \in 0..N |-> f[n]]
      BY <2>4
    <3> HIDE DEF Value, Fits
    <3> QED BY <3>1, <2>5
  <2> QED BY <2>6
<1> DEFINE path == CHOOSE g : Good(g)
<1>2. Good(path)
  <2> HIDE DEF Good
  <2> QED BY <1>1
<1>3. PathTo(explored, node) = Tail(path[N])
  BY <1>0 DEF PathTo
<1> HIDE DEF path
<1>4. \A n \in 0..N : path[n] = Value(path, n)
  <2> HIDE DEF Value
  <2> QED BY <1>2
<1>5. path[0] = <<node>> /\ \A n \in 1..N : path[n] = Behind(explored, path[n - 1])
  BY <1>4
<1> DEFINE T == {n \in 0..N : Chain(explored, depth, node, n, path[n])}
<1>6. 0 \in T
  <2>1. PICK c : c = <<node>> /\ c \in Seq(Spot \cup {NoSpot}) /\ Len(c) = 1 /\ c[1] = node
    <3>1. <<node>> \in Seq(Spot \cup {NoSpot}) /\ Len(<<node>>) = 1 /\ <<node>>[1] = node
      OBVIOUS
    <3> QED BY <3>1
  <2>2. depth[c[1]] + 0 = depth[node]
    BY <2>1 DEF Depths
  <2>3. Chain(explored, depth, node, 0, c)
    BY <2>1, <2>2 DEF Chain
  <2> QED BY <2>1, <2>3, <1>5
<1>7. ASSUME NEW n \in 0..(N - 1), n \in T PROVE n + 1 \in T
  <2>1. n + 1 \in 0..N /\ path[n + 1] = Behind(explored, path[n]) /\ n \in Nat
    BY <1>5
  <2>2. Chain(explored, depth, node, n + 1, Behind(explored, path[n]))
    BY <1>7, <2>1, BehindKeeps
  <2> QED BY <2>1, <2>2
<1>8. N \in T
  <2> HIDE DEF T
  <2>1. \A n \in 0..N : n \in T
    BY <1>6, <1>7, InductionTo
  <2> QED BY <2>1
<1>9. PICK c : c = path[N] /\ Chain(explored, depth, node, N, c)
  BY <1>8
<1>10. c \in Seq(Spot \cup {NoSpot}) /\ Len(c) \in Nat /\ c[Len(c)] = node
  BY <1>9 DEF Chain
<1>11. PICK b \in Nat, m \in Nat : b = depth[node] /\ m = Cardinality(DOMAIN explored) /\ b < m /\ m <= N
  <2>1. Cardinality(DOMAIN explored) \in Nat
    BY FS_CardinalityType, FS_Subset, RoutingAssumption
  <2> QED BY <1>0, <2>1 DEF Depths
<1>12. c[1] = NoSpot /\ 2 <= Len(c) /\ Len(c) <= b + 2
  <2>1. ~(c[1] \in DOMAIN explored /\ depth[c[1]] + N = b)
    BY <1>11 DEF Depths
  <2> QED BY <2>1, <1>9, <1>11 DEF Chain
<1>13. PICK p : p = Tail(c)
  OBVIOUS
<1>14. /\ p \in Seq(Spot \cup {NoSpot}) /\ Len(p) = Len(c) - 1 /\ \A i \in 1..Len(p) : p[i] = c[i + 1]
  BY <1>10, <1>12, <1>13
<1>15. \A i \in 1..Len(p) : p[i] \in DOMAIN explored /\ explored[p[i]] = c[i]
  BY <1>9, <1>10, <1>14 DEF Chain
<1>16. p \in Seq(Spot)
  <2>1. \A i \in 1..Len(p) : p[i] \in Spot
    BY <1>15
  <2> QED BY <1>14, <2>1
<1>17. p # <<>> /\ p[Len(p)] = node
  BY <1>10, <1>12, <1>14
<1>18. explored[p[1]] = NoSpot
  BY <1>12, <1>14, <1>15, <1>10
<1>19. \A i \in 1..(Len(p) - 1) : p[i] = explored[p[i + 1]]
  BY <1>14, <1>15, <1>10
<1>20. Len(p) <= m
  BY <1>10, <1>11, <1>12, <1>14
<1>21. BranchTo(explored, node, p)
  BY <1>11, <1>15, <1>16, <1>17, <1>18, <1>19, <1>20 DEF BranchTo
<1> QED BY <1>3, <1>9, <1>13, <1>21

-----------------------------------------------------------------------------
(* The search *)

Entries == [f : Nat, rank : Nat, no : Nat, node : Spot, dist : Nat, parent : Spot \cup {NoSpot}]

IsSearch(S) ==
    /\ S = [queue |-> S.queue, count |-> S.count, enqueued |-> S.enqueued,
            explored |-> S.explored, path |-> S.path]
    /\ S.queue \subseteq Entries /\ S.count \in Nat
    /\ DOMAIN S.enqueued \subseteq Spot /\ \A v \in DOMAIN S.enqueued : S.enqueued[v] \in Nat
    /\ DOMAIN S.explored \subseteq Spot

\* How far a node is from the source, by what the search knows.
Dist(source, S, v) == IF v = source THEN 0 ELSE S.enqueued[v]

\* An arc from a node to another, and their distances.
ByArc(arcs, from, to, near, far) ==
    \E i \in DOMAIN arcs : arcs[i].from = from /\ arcs[i].to = to /\ far = near + arcs[i].weight

\* The nodes explored are a tree from the source, without the goal.
Tree(arcs, source, goal, S) ==
    /\ source \in DOMAIN S.explored /\ S.explored[source] = NoSpot
    /\ goal \notin DOMAIN S.explored
    /\ \A v \in DOMAIN S.explored \ {source} :
         /\ v \in DOMAIN S.enqueued /\ S.explored[v] \in DOMAIN S.explored
         /\ ByArc(arcs, S.explored[v], v, Dist(source, S, S.explored[v]), S.enqueued[v])
    /\ \E depth : Depths(S.explored, depth)

\* What an entry of the queue says.
EntryOK(arcs, source, goal, S, e) ==
    /\ e.parent \in DOMAIN S.explored
    /\ e.node \in DOMAIN S.enqueued /\ S.enqueued[e.node] <= e.dist
    /\ e.f = e.dist + Between(e.node, goal)
    /\ ByArc(arcs, e.parent, e.node, Dist(source, S, e.parent), e.dist)

\* Two entries are not numbered the same, nor of the same node at the same distance.
Apart(S) ==
    /\ \A e \in S.queue : e.no <= S.count
    /\ \A e, d \in S.queue : e.no = d.no => e = d
    /\ \A e, d \in S.queue : e.node = d.node /\ e.dist = d.dist => e = d

\* A node that was reached and is not explored is in the queue.
Pending(S) ==
    \A v \in DOMAIN S.enqueued \ DOMAIN S.explored :
      \E e \in S.queue : e.node = v /\ e.dist = S.enqueued[v]

\* The arcs from some nodes have been followed.
Relaxed(arcs, source, S, V) ==
    \A i \in DOMAIN arcs : arcs[i].from \in V =>
      /\ arcs[i].to \in DOMAIN S.enqueued
      /\ S.enqueued[arcs[i].to] <= Dist(source, S, arcs[i].from) + arcs[i].weight

\* What is explored is nearer, by the estimate, than what is in the queue.
Nearest(source, goal, S) ==
    \A v \in DOMAIN S.explored, e \in S.queue : Dist(source, S, v) + Between(v, goal) <= e.f

\* An entry of a node that is explored is out of date.
Stale(source, S) ==
    \A e \in S.queue : e.node \in DOMAIN S.explored /\ e.node # source => S.enqueued[e.node] < e.dist

\* The invariant of the search, but for the arcs of some nodes.
Sound(arcs, source, goal, S, V) ==
    /\ IsSearch(S) /\ S.path = <<>>
    /\ Tree(arcs, source, goal, S) /\ \A e \in S.queue : EntryOK(arcs, source, goal, S, e)
    /\ Apart(S) /\ Pending(S) /\ Nearest(source, goal, S) /\ Stale(source, S)
    /\ Relaxed(arcs, source, S, V)

Going(arcs, source, goal, S) == Sound(arcs, source, goal, S, DOMAIN S.explored)

\* A node that has just been explored, and whose arcs are to be followed.
AtHand(arcs, source, goal, S, v) ==
    /\ Sound(arcs, source, goal, S, DOMAIN S.explored \ {v})
    /\ v \in DOMAIN S.explored
    /\ \A u \in DOMAIN S.explored :
         Dist(source, S, u) + Between(u, goal) <= Dist(source, S, v) + Between(v, goal)

-----------------------------------------------------------------------------

\* The entry popped is the least by its estimate.
LEMMA HeapPopIs ==
  ASSUME NEW Q, Q \subseteq Entries, Q # {}, \A e, d \in Q : e.no = d.no => e = d
  PROVE  HeapPop(Q) \in Q /\ \A e \in Q : HeapPop(Q).f <= e.f
<1>0. \A e \in Q : e.f \in Nat /\ e.rank \in Nat /\ e.no \in Nat
  BY DEF Entries
<1>1. PICK a1 \in Q : \A e \in Q : a1.f <= e.f
  <2> DEFINE K == {e.f : e \in Q}
  <2>1. K \in SUBSET Nat /\ K # {}
    BY <1>0
  <2>2. \E m \in K : \A k \in K : m <= k
    <3> HIDE DEF K
    <3> QED BY <2>1, LeastOf
  <2> QED BY <2>2
<1> DEFINE Q1 == {e \in Q : e.f = a1.f}
<1>2. PICK a2 \in Q1 : \A e \in Q1 : a2.rank <= e.rank
  <2> DEFINE K == {e.rank : e \in Q1}
  <2>1. K \in SUBSET Nat /\ K # {}
    BY <1>0
  <2>2. \E m \in K : \A k \in K : m <= k
    <3> HIDE DEF K
    <3> QED BY <2>1, LeastOf
  <2> QED BY <2>2
<1> DEFINE Q2 == {e \in Q1 : e.rank = a2.rank}
<1>3. PICK a \in Q2 : \A e \in Q2 : a.no <= e.no
  <2> DEFINE K == {e.no : e \in Q2}
  <2>1. K \in SUBSET Nat /\ K # {}
    BY <1>0
  <2>2. \E m \in K : \A k \in K : m <= k
    <3> HIDE DEF K
    <3> QED BY <2>1, LeastOf
  <2> QED BY <2>2
<1>4. a \in Q /\ \A b \in Q \ {a} : Before(a, b)
  <2>1. a \in Q /\ a.f = a1.f /\ a.rank = a2.rank
    OBVIOUS
  <2> SUFFICES ASSUME NEW b \in Q, b # a PROVE Before(a, b)
    BY <2>1
  <2>2. a.f <= b.f
    BY <1>1, <2>1
  <2>3. a.f = b.f => a.rank <= b.rank
    BY <1>2, <2>1
  <2>4. a.f = b.f /\ a.rank = b.rank => a.no <= b.no
    BY <1>3, <2>1
  <2>5. a.no # b.no
    BY <2>1
  <2>6. /\ a.f \in Nat /\ b.f \in Nat /\ a.rank \in Nat /\ b.rank \in Nat
        /\ a.no \in Nat /\ b.no \in Nat
    BY <1>0, <2>1
  <2> HIDE DEF Q1, Q2
  <2> QED BY <2>2, <2>3, <2>4, <2>5, <2>6 DEF Before
<1> DEFINE p == CHOOSE e \in Q : \A b \in Q \ {e} : Before(e, b)
<1>5. p \in Q /\ \A b \in Q \ {p} : Before(p, b)
  BY <1>4, Zenon
<1>6. HeapPop(Q) = p
  BY DEF HeapPop
<1> HIDE DEF p
<1>7. ASSUME NEW e \in Q PROVE p.f <= e.f
  <2>1. CASE e = p
    BY <2>1, <1>0, <1>5
  <2>2. CASE e # p
    <3>1. Before(p, e)
      BY <2>2, <1>5
    <3>2. p.f \in Nat /\ e.f \in Nat
      BY <1>0, <1>5
    <3> QED BY <3>1, <3>2 DEF Before
  <2> QED BY <2>1, <2>2
<1> QED BY <1>5, <1>6, <1>7

-----------------------------------------------------------------------------
(* Following the arcs of a node *)

\* What is pushed, and what is known afterwards.
Expanded(arcs, goal, S, p, E, K) ==
    /\ E.queue = S.queue \cup {Pushed(arcs, goal, S, p, i) : i \in K}
    /\ E.count = S.count + Len(arcs) /\ E.explored = S.explored /\ E.path = S.path
    /\ E = [queue |-> E.queue, count |-> E.count, enqueued |-> E.enqueued,
            explored |-> E.explored, path |-> E.path]
    /\ DOMAIN E.enqueued = DOMAIN S.enqueued \cup {arcs[i].to : i \in K}
    /\ \A i \in K : E.enqueued[arcs[i].to] = p.dist + arcs[i].weight
    /\ \A v \in DOMAIN S.enqueued : (\A i \in K : arcs[i].to # v) => E.enqueued[v] = S.enqueued[v]

LEMMA ExpandIs ==
  ASSUME NEW arcs, GraphOK(arcs), NEW goal \in Spot, NEW S, IsSearch(S), NEW p,
         p.node \in Spot, p.dist \in Nat
  PROVE  Expanded(arcs, goal, S, p, Expand(arcs, goal, S, p), Shorter(arcs, S, p))
<1> DEFINE K == Shorter(arcs, S, p)
           En(i) == Pushed(arcs, goal, S, p, i)
           pushed == {En(i) : i \in K}
           D == DOMAIN S.enqueued \cup {e.node : e \in pushed}
           known == [s \in D |-> IF \E e \in pushed : e.node = s
                                 THEN (CHOOSE e \in pushed : e.node = s).dist ELSE S.enqueued[s]]
           E == Expand(arcs, goal, S, p)
<1>1. S = [queue |-> S.queue, count |-> S.count, enqueued |-> S.enqueued,
           explored |-> S.explored, path |-> S.path]
  BY DEF IsSearch
<1>2. E = [S EXCEPT !.queue = S.queue \cup pushed, !.count = S.count + Len(arcs), !.enqueued = known]
  BY Zenon DEF Expand
<1>3. /\ E.queue = S.queue \cup pushed /\ E.count = S.count + Len(arcs) /\ E.enqueued = known
      /\ E.explored = S.explored /\ E.path = S.path
      /\ E = [queue |-> E.queue, count |-> E.count, enqueued |-> E.enqueued,
              explored |-> E.explored, path |-> E.path]
  <2> HIDE DEF E, pushed, known
  <2> QED BY <1>1, <1>2
<1>4. \A i \in K : i \in DOMAIN arcs /\ arcs[i].from = p.node
  BY DEF Shorter
<1>5. \A i \in K : En(i).node = arcs[i].to /\ En(i).dist = p.dist + arcs[i].weight
  BY DEF Pushed
<1>6. ASSUME NEW i \in K, NEW e \in pushed, e.node = arcs[i].to PROVE e.dist = p.dist + arcs[i].weight
  <2>1. PICK j \in K : e = En(j)
    BY Zenon
  <2>2. arcs[j].to = arcs[i].to /\ arcs[j].from = arcs[i].from /\ i \in DOMAIN arcs /\ j \in DOMAIN arcs
    BY <2>1, <1>4, <1>5, <1>6, Zenon
  <2>3. i = j
    BY <2>2, Zenon DEF GraphOK, OneArcEach
  <2> QED BY <2>1, <2>3, <1>5, Zenon
<1>7. {e.node : e \in pushed} = {arcs[i].to : i \in K}
  <2> HIDE DEF K, En
  <2> QED BY <1>5
<1>8. ASSUME NEW i \in K PROVE known[arcs[i].to] = p.dist + arcs[i].weight
  <2>1. En(i) \in pushed /\ En(i).node = arcs[i].to
    BY <1>5
  <2>2. arcs[i].to \in D
    BY <2>1, Zenon
  <2> DEFINE c == CHOOSE e \in pushed : e.node = arcs[i].to
  <2>3. c \in pushed /\ c.node = arcs[i].to
    BY <2>1, Zenon
  <2>4. known[arcs[i].to] = c.dist
    BY <2>1, <2>2, Zenon
  <2> HIDE DEF c, known, pushed
  <2> QED BY <2>3, <2>4, <1>6, Zenon
<1>9. ASSUME NEW v \in DOMAIN S.enqueued, \A i \in K : arcs[i].to # v PROVE known[v] = S.enqueued[v]
  <2>1. ~ \E e \in pushed : e.node = v
    <3> HIDE DEF K, En
    <3> QED BY <1>5, <1>9
  <2> HIDE DEF pushed
  <2> QED BY <2>1
<1>10. DOMAIN E.enqueued = D
  BY <1>3, Zenon
<1> HIDE DEF E, D, known
<1>11. /\ DOMAIN E.enqueued = DOMAIN S.enqueued \cup {arcs[i].to : i \in K}
       /\ \A i \in K : E.enqueued[arcs[i].to] = p.dist + arcs[i].weight
       /\ \A v \in DOMAIN S.enqueued : (\A i \in K : arcs[i].to # v) => E.enqueued[v] = S.enqueued[v]
  <2>1. D = DOMAIN S.enqueued \cup {arcs[i].to : i \in K}
    BY <1>7, Zenon DEF D
  <2> HIDE DEF K, pushed
  <2> QED BY <2>1, <1>3, <1>8, <1>9, <1>10, Zenon
<1>12. E.queue = S.queue \cup {Pushed(arcs, goal, S, p, i) : i \in K}
  BY <1>3, Zenon DEF pushed
<1> HIDE DEF K
<1>13. Expanded(arcs, goal, S, p, E, K)
  BY <1>3, <1>11, <1>12, Zenon DEF Expanded
<1> QED BY <1>13, Zenon DEF E, K

\* What Sound says, of one node or entry at a time.
LEMMA SoundIs ==
  ASSUME NEW arcs, NEW source, NEW goal, NEW S, NEW V, Sound(arcs, source, goal, S, V)
  PROVE  /\ IsSearch(S) /\ S.path = <<>> /\ Tree(arcs, source, goal, S) /\ Apart(S) /\ Pending(S)
         /\ Nearest(source, goal, S) /\ Stale(source, S) /\ Relaxed(arcs, source, S, V)
         /\ \A e \in S.queue : EntryOK(arcs, source, goal, S, e)
BY DEF Sound

LEMMA DistIs ==
  ASSUME NEW arcs, NEW source \in Spot, NEW goal, NEW S, NEW V, Sound(arcs, source, goal, S, V),
         NEW u \in DOMAIN S.explored
  PROVE  /\ u \in Spot /\ Dist(source, S, u) \in Nat
         /\ u # source => u \in DOMAIN S.enqueued /\ Dist(source, S, u) = S.enqueued[u]
<1>1. IsSearch(S) /\ Tree(arcs, source, goal, S)
  BY SoundIs
<1>2. u \in Spot
  BY <1>1 DEF IsSearch
<1>3. u # source => u \in DOMAIN S.enqueued
  BY <1>1 DEF Tree
<1>4. u # source => S.enqueued[u] \in Nat
  BY <1>1, <1>3 DEF IsSearch
<1> QED BY <1>2, <1>3, <1>4 DEF Dist

LEMMA EntryIs ==
  ASSUME NEW arcs, GraphOK(arcs), NEW goal \in Spot, NEW S, NEW p, p.node \in Spot, p.dist \in Nat,
         S.count \in Nat, NEW i \in Shorter(arcs, S, p), NEW e, e = Pushed(arcs, goal, S, p, i)
  PROVE  /\ e \in Entries /\ e.no = S.count + i /\ e.node = arcs[i].to /\ e.parent = p.node
         /\ e.dist = p.dist + arcs[i].weight /\ e.f = e.dist + Between(e.node, goal)
         /\ i \in DOMAIN arcs /\ arcs[i].from = p.node /\ i \in Nat /\ i >= 1 /\ i <= Len(arcs)
         /\ ~NotShorter(S, arcs[i].to, p.dist + arcs[i].weight)
<1>1. i \in DOMAIN arcs /\ arcs[i].from = p.node /\ ~NotShorter(S, arcs[i].to, p.dist + arcs[i].weight)
  BY DEF Shorter
<1>2. i \in 1..Len(arcs) /\ Len(arcs) \in Nat
  BY <1>1 DEF GraphOK
<1>3. arcs[i].to \in Spot /\ arcs[i].weight \in Nat
  BY <1>1, ArcIs
<1>4. PICK t \in Spot : t = arcs[i].to
  BY <1>3
<1>5. PICK d \in Nat : d = p.dist + arcs[i].weight
  BY <1>3
<1>6. PICK b \in Nat : b = Between(t, goal)
  BY BetweenIs
<1>7. PICK r \in Nat : r = IF t = goal THEN 0 ELSE TransitRank(t)
  BY DEF TransitRank
<1>8. PICK n \in Nat : n = S.count + i
  BY <1>2
<1>9. PICK u \in Spot : u = p.node
  OBVIOUS
<1>10. e = [f |-> d + b, rank |-> r, no |-> n, node |-> t, dist |-> d, parent |-> u]
  BY <1>4, <1>5, <1>6, <1>7, <1>8, <1>9 DEF Pushed
<1>11. e \in Entries
  BY <1>10 DEF Entries
<1>12. e.no = n /\ e.node = t /\ e.parent = u /\ e.dist = d /\ e.f = d + b
  BY <1>10
<1> QED BY <1>1, <1>2, <1>4, <1>5, <1>6, <1>8, <1>9, <1>11, <1>12

\* No arc from the node at hand is a shorter way to an explored node.
LEMMA ExploredStays ==
  ASSUME NEW arcs, GraphOK(arcs), NEW source \in Spot, NEW goal \in Spot, NEW S, NEW p,
         AtHand(arcs, source, goal, S, p.node), p.dist = Dist(source, S, p.node),
         NEW i \in Shorter(arcs, S, p), arcs[i].to \in DOMAIN S.explored
  PROVE  arcs[i].to = source
<1> SUFFICES ASSUME arcs[i].to # source PROVE FALSE
  OBVIOUS
<1>1. Sound(arcs, source, goal, S, DOMAIN S.explored \ {p.node}) /\ p.node \in DOMAIN S.explored
  BY DEF AtHand
<1>2. p.node \in Spot /\ p.dist \in Nat
  BY <1>1, DistIs
<1>3. PICK u \in DOMAIN S.explored : u = arcs[i].to
  OBVIOUS
<1>4. u \in Spot /\ u \in DOMAIN S.enqueued /\ Dist(source, S, u) = S.enqueued[u] /\ Dist(source, S, u) \in Nat
  BY <1>1, <1>3, DistIs
<1>5. i \in DOMAIN arcs /\ arcs[i].from = p.node /\ ~NotShorter(S, u, p.dist + arcs[i].weight)
  BY <1>3 DEF Shorter
<1>6. Between(p.node, u) <= arcs[i].weight /\ arcs[i].weight \in Nat
  BY <1>3, <1>5, ArcIs
<1>7. Dist(source, S, u) + Between(u, goal) <= p.dist + Between(p.node, goal)
  BY DEF AtHand
<1>8. Between(p.node, goal) <= Between(p.node, u) + Between(u, goal)
  BY <1>2, <1>4, NoShortCut
<1>9. Between(p.node, u) \in Nat /\ Between(u, goal) \in Nat /\ Between(p.node, goal) \in Nat
  BY <1>2, <1>4, BetweenIs
<1>10. S.enqueued[u] <= p.dist + arcs[i].weight
  BY <1>2, <1>4, <1>6, <1>7, <1>8, <1>9
<1> QED BY <1>4, <1>5, <1>10 DEF NotShorter

\* What Expand does to what is known.
Followed(arcs, source, S, E, p, K) ==
    /\ \A i \in K : /\ arcs[i].to \in DOMAIN E.enqueued
                    /\ E.enqueued[arcs[i].to] = p.dist + arcs[i].weight
    /\ \A u \in DOMAIN E.enqueued : u \in DOMAIN S.enqueued \/ \E i \in K : arcs[i].to = u
    /\ \A u \in DOMAIN S.enqueued : /\ u \in DOMAIN E.enqueued /\ E.enqueued[u] <= S.enqueued[u]
                                    /\ (\A i \in K : arcs[i].to # u) => E.enqueued[u] = S.enqueued[u]
    /\ \A u \in DOMAIN S.explored : Dist(source, E, u) = Dist(source, S, u)
    /\ \A u \in DOMAIN S.explored \ {source} : E.enqueued[u] = S.enqueued[u]
    /\ E.explored = S.explored /\ E.path = S.path

LEMMA ExpandFollows ==
  ASSUME NEW arcs, GraphOK(arcs), NEW source \in Spot, NEW goal \in Spot, NEW S, NEW p,
         AtHand(arcs, source, goal, S, p.node), p.dist = Dist(source, S, p.node)
  PROVE  Followed(arcs, source, S, Expand(arcs, goal, S, p), p, Shorter(arcs, S, p))
<1> DEFINE E == Expand(arcs, goal, S, p)
           K == Shorter(arcs, S, p)
<1>1. Sound(arcs, source, goal, S, DOMAIN S.explored \ {p.node}) /\ p.node \in DOMAIN S.explored
  BY DEF AtHand
<1>2. p.node \in Spot /\ p.dist \in Nat /\ IsSearch(S)
  BY <1>1, DistIs, SoundIs
<1>3. /\ E.explored = S.explored /\ E.path = S.path
      /\ DOMAIN E.enqueued = DOMAIN S.enqueued \cup {arcs[i].to : i \in K}
      /\ \A i \in K : E.enqueued[arcs[i].to] = p.dist + arcs[i].weight
      /\ \A v \in DOMAIN S.enqueued : (\A i \in K : arcs[i].to # v) => E.enqueued[v] = S.enqueued[v]
  <2>1. Expanded(arcs, goal, S, p, E, K)
    BY <1>2, ExpandIs, Zenon
  <2> HIDE DEF E, K
  <2> QED BY <2>1, Zenon DEF Expanded
<1> HIDE DEF E
<1>4. ASSUME NEW i \in K PROVE ~NotShorter(S, arcs[i].to, p.dist + arcs[i].weight) /\ i \in DOMAIN arcs
  BY DEF Shorter
<1>5. \A u \in DOMAIN S.enqueued : S.enqueued[u] \in Nat
  BY <1>2 DEF IsSearch
<1>6. ASSUME NEW u \in DOMAIN S.explored \ {source}, NEW i \in K PROVE arcs[i].to # u
  <2> SUFFICES ASSUME arcs[i].to = u PROVE FALSE
    OBVIOUS
  <2>1. arcs[i].to \in DOMAIN S.explored
    OBVIOUS
  <2>2. arcs[i].to = source
    BY <2>1, ExploredStays
  <2> QED BY <2>2
<1>7. ASSUME NEW u \in DOMAIN S.explored \ {source} PROVE E.enqueued[u] = S.enqueued[u]
  <2>1. u \in DOMAIN S.enqueued
    BY <1>1, DistIs
  <2> HIDE DEF K
  <2> QED BY <2>1, <1>3, <1>6
<1>8. ASSUME NEW u \in DOMAIN S.explored PROVE Dist(source, E, u) = Dist(source, S, u)
  BY <1>7 DEF Dist
<1>9. ASSUME NEW u \in DOMAIN S.enqueued PROVE E.enqueued[u] <= S.enqueued[u]
  <2>1. CASE \A i \in K : arcs[i].to # u
    <3>1. E.enqueued[u] = S.enqueued[u]
      BY <2>1, <1>3, Zenon
    <3> QED BY <3>1, <1>5
  <2>2. CASE \E i \in K : arcs[i].to = u
    <3>1. PICK i \in K : arcs[i].to = u
      BY <2>2, Zenon
    <3>2. E.enqueued[u] = p.dist + arcs[i].weight
      BY <3>1, <1>3, Zenon
    <3>3. ~(S.enqueued[u] <= p.dist + arcs[i].weight)
      BY <3>1, <1>4 DEF NotShorter
    <3>4. arcs[i].weight \in Nat
      BY <1>4, ArcIs
    <3> QED BY <3>2, <3>3, <3>4, <1>2, <1>5
  <2> QED BY <2>1, <2>2
<1> HIDE DEF K
<1>10. \A i \in K : arcs[i].to \in DOMAIN E.enqueued
  BY <1>3
<1>11. \A u \in DOMAIN E.enqueued : u \in DOMAIN S.enqueued \/ \E i \in K : arcs[i].to = u
  BY <1>3
<1>12. \A u \in DOMAIN S.enqueued : u \in DOMAIN E.enqueued
  BY <1>3
<1>13. Followed(arcs, source, S, E, p, K)
  BY <1>3, <1>7, <1>8, <1>9, <1>10, <1>11, <1>12, Zenon DEF Followed
<1> QED BY <1>13, Zenon DEF E, K

LEMMA ExpandKeeps ==
  ASSUME NEW arcs, GraphOK(arcs), NEW source \in Spot, NEW goal \in Spot, NEW S, NEW p,
         AtHand(arcs, source, goal, S, p.node), p.dist = Dist(source, S, p.node)
  PROVE  Going(arcs, source, goal, Expand(arcs, goal, S, p))
<1>1. PICK E : E = Expand(arcs, goal, S, p)
  OBVIOUS
<1>2. PICK K : K = Shorter(arcs, S, p)
  OBVIOUS
<1>3. Followed(arcs, source, S, E, p, K)
  BY <1>1, <1>2, ExpandFollows, Zenon
<1>4. Sound(arcs, source, goal, S, DOMAIN S.explored \ {p.node}) /\ p.node \in DOMAIN S.explored
  BY DEF AtHand
<1>5. p.node \in Spot /\ p.dist \in Nat /\ IsSearch(S)
  BY <1>4, DistIs, SoundIs
<1>6. /\ E.queue = S.queue \cup {Pushed(arcs, goal, S, p, i) : i \in K}
      /\ E.count = S.count + Len(arcs) /\ E.explored = S.explored /\ E.path = S.path
      /\ E = [queue |-> E.queue, count |-> E.count, enqueued |-> E.enqueued,
              explored |-> E.explored, path |-> E.path]
      /\ DOMAIN E.enqueued = DOMAIN S.enqueued \cup {arcs[i].to : i \in K}
      /\ \A i \in K : E.enqueued[arcs[i].to] = p.dist + arcs[i].weight
  <2>1. Expanded(arcs, goal, S, p, E, K)
    BY <1>1, <1>2, <1>5, ExpandIs, Zenon
  <2> QED BY <2>1, Zenon DEF Expanded
<1>7. S.count \in Nat /\ Len(arcs) \in Nat /\ S.queue \subseteq Entries /\ DOMAIN S.explored \subseteq Spot
  BY <1>5 DEF IsSearch, GraphOK
<1>8. ASSUME NEW i \in K, NEW e, e = Pushed(arcs, goal, S, p, i)
      PROVE  /\ e \in Entries /\ e.no = S.count + i /\ e.node = arcs[i].to /\ e.parent = p.node
             /\ e.dist = p.dist + arcs[i].weight /\ e.f = e.dist + Between(e.node, goal)
             /\ i \in DOMAIN arcs /\ arcs[i].from = p.node /\ i \in Nat /\ i >= 1 /\ i <= Len(arcs)
             /\ ~NotShorter(S, arcs[i].to, p.dist + arcs[i].weight)
  <2>1. i \in Shorter(arcs, S, p)
    BY <1>2
  <2>2. p.node \in Spot /\ p.dist \in Nat /\ S.count \in Nat
    BY <1>5, <1>7
  <2> QED BY <2>1, <2>2, <1>8, EntryIs
<1>9. \A e \in E.queue : e \in S.queue \/ \E i \in K : e = Pushed(arcs, goal, S, p, i)
  BY <1>6, Zenon
<1>10. \A u \in DOMAIN S.enqueued : S.enqueued[u] \in Nat /\ u \in Spot
  BY <1>5 DEF IsSearch
<1>11. \A i \in K : arcs[i].to \in Spot /\ arcs[i].weight \in Nat /\ i \in DOMAIN arcs
  BY <1>8, ArcIs, Zenon
<1>12. IsSearch(E)
  <2>1. ASSUME NEW e \in E.queue PROVE e \in Entries
    BY <1>7, <1>8, <1>9
  <2>2. ASSUME NEW u \in DOMAIN E.enqueued PROVE E.enqueued[u] \in Nat /\ u \in Spot
    <3>1. CASE \E i \in K : arcs[i].to = u
      <4>1. PICK i \in K : arcs[i].to = u
        BY <3>1
      <4>2. E.enqueued[u] = p.dist + arcs[i].weight
        BY <4>1, <1>6
      <4> QED BY <4>1, <4>2, <1>5, <1>11
    <3>2. CASE ~ \E i \in K : arcs[i].to = u
      <4>1. u \in DOMAIN S.enqueued
        BY <3>2, <1>6
      <4>2. E.enqueued[u] = S.enqueued[u]
        BY <3>2, <4>1, <1>3, Zenon DEF Followed
      <4> QED BY <4>1, <4>2, <1>10
    <3> QED BY <3>1, <3>2
  <2>3. E.count \in Nat
    BY <1>6, <1>7
  <2>4. DOMAIN E.explored \subseteq Spot
    BY <1>6, <1>7
  <2>5. E.queue \subseteq Entries /\ DOMAIN E.enqueued \subseteq Spot
        /\ \A u \in DOMAIN E.enqueued : E.enqueued[u] \in Nat
    BY <2>1, <2>2
  <2> QED BY <2>3, <2>4, <2>5, <1>6, Zenon DEF IsSearch
<1>13. Tree(arcs, source, goal, S) /\ Apart(S) /\ Pending(S) /\ Nearest(source, goal, S)
       /\ Stale(source, S) /\ Relaxed(arcs, source, S, DOMAIN S.explored \ {p.node})
       /\ \A e \in S.queue : EntryOK(arcs, source, goal, S, e)
  BY <1>4, SoundIs
<1>14. Tree(arcs, source, goal, E)
  <2>1. ASSUME NEW u \in DOMAIN E.explored \ {source}
        PROVE  /\ u \in DOMAIN E.enqueued /\ E.explored[u] \in DOMAIN E.explored
               /\ ByArc(arcs, E.explored[u], u, Dist(source, E, E.explored[u]), E.enqueued[u])
    <3>1. u \in DOMAIN S.explored \ {source} /\ E.explored[u] = S.explored[u]
      BY <1>6
    <3>2. /\ u \in DOMAIN S.enqueued /\ S.explored[u] \in DOMAIN S.explored
          /\ ByArc(arcs, S.explored[u], u, Dist(source, S, S.explored[u]), S.enqueued[u])
      BY <3>1, <1>13 DEF Tree
    <3>3. u \in DOMAIN E.enqueued /\ E.enqueued[u] = S.enqueued[u]
          /\ Dist(source, E, S.explored[u]) = Dist(source, S, S.explored[u])
      BY <3>1, <3>2, <1>3, Zenon DEF Followed
    <3> QED BY <3>1, <3>2, <3>3, <1>6
  <2>2. /\ source \in DOMAIN E.explored /\ E.explored[source] = NoSpot
        /\ goal \notin DOMAIN E.explored /\ \E depth : Depths(E.explored, depth)
    BY <1>13, <1>6, Zenon DEF Tree
  <2> QED BY <2>1, <2>2, Zenon DEF Tree
<1>15. ASSUME NEW e \in E.queue PROVE EntryOK(arcs, source, goal, E, e)
  <2>1. CASE e \in S.queue
    <3>1. /\ e.parent \in DOMAIN S.explored
          /\ e.node \in DOMAIN S.enqueued /\ S.enqueued[e.node] <= e.dist
          /\ e.f = e.dist + Between(e.node, goal)
          /\ ByArc(arcs, e.parent, e.node, Dist(source, S, e.parent), e.dist)
      BY <2>1, <1>13 DEF EntryOK
    <3>2. e.parent \in DOMAIN E.explored /\ e.node \in DOMAIN E.enqueued
          /\ E.enqueued[e.node] <= S.enqueued[e.node]
          /\ Dist(source, E, e.parent) = Dist(source, S, e.parent)
      BY <3>1, <1>3, <1>6, Zenon DEF Followed
    <3>3. E.enqueued[e.node] \in Nat /\ S.enqueued[e.node] \in Nat /\ e.dist \in Nat
      BY <2>1, <3>1, <3>2, <1>7, <1>10, <1>12 DEF IsSearch, Entries
    <3>4. E.enqueued[e.node] <= e.dist
      BY <3>1, <3>2, <3>3
    <3>5. ByArc(arcs, e.parent, e.node, Dist(source, E, e.parent), e.dist)
      BY <3>1, <3>2
    <3> QED BY <3>1, <3>2, <3>4, <3>5, Zenon DEF EntryOK
  <2>2. ASSUME NEW i \in K, e = Pushed(arcs, goal, S, p, i) PROVE EntryOK(arcs, source, goal, E, e)
    <3>1. /\ e \in Entries /\ e.node = arcs[i].to /\ e.parent = p.node /\ i \in DOMAIN arcs
          /\ e.dist = p.dist + arcs[i].weight /\ e.f = e.dist + Between(e.node, goal) /\ arcs[i].from = p.node
      BY <1>8, <2>2, Zenon
    <3>2. e.node \in DOMAIN E.enqueued /\ E.enqueued[e.node] = e.dist
      BY <3>1, <1>3, Zenon DEF Followed
    <3>3. e.dist \in Nat
      BY <3>1 DEF Entries
    <3>4. E.enqueued[e.node] <= e.dist
      BY <3>2, <3>3
    <3>5. e.parent \in DOMAIN E.explored
      BY <3>1, <1>4, <1>6
    <3>6. Dist(source, E, e.parent) = p.dist
      BY <3>1, <1>3, <1>4, Zenon DEF Followed
    <3>7. ByArc(arcs, e.parent, e.node, Dist(source, E, e.parent), e.dist)
      BY <3>1, <3>6, Zenon DEF ByArc
    <3> QED BY <3>1, <3>2, <3>4, <3>5, <3>7, Zenon DEF EntryOK
  <2> QED BY <2>1, <2>2, <1>9
<1>16. Apart(E)
  <2>1. ASSUME NEW e \in E.queue PROVE e.no <= E.count
    <3>1. CASE e \in S.queue
      <4>1. e.no \in Nat /\ e.no <= S.count
        BY <3>1, <1>7, <1>13 DEF Entries, Apart
      <4> QED BY <4>1, <1>6, <1>7
    <3>2. ASSUME NEW i \in K, e = Pushed(arcs, goal, S, p, i) PROVE e.no <= E.count
      <4>1. e.no = S.count + i /\ i \in Nat /\ i <= Len(arcs)
        BY <1>8, <3>2, Zenon
      <4> QED BY <4>1, <1>6, <1>7
    <3> QED BY <3>1, <3>2, <1>9
  <2>2. ASSUME NEW e \in S.queue, NEW d, NEW i \in K, d = Pushed(arcs, goal, S, p, i)
        PROVE  e.no # d.no /\ ~(e.node = d.node /\ e.dist = d.dist)
    <3>1. /\ d.no = S.count + i /\ i \in Nat /\ i >= 1 /\ d.node = arcs[i].to
          /\ d.dist = p.dist + arcs[i].weight /\ ~NotShorter(S, arcs[i].to, p.dist + arcs[i].weight)
      BY <1>8, <2>2, Zenon
    <3>2. e.no \in Nat /\ e.no <= S.count
      BY <1>7, <1>13 DEF Entries, Apart
    <3>3. e.no # d.no
      BY <3>1, <3>2, <1>7
    <3>4. e.node \in DOMAIN S.enqueued /\ S.enqueued[e.node] <= e.dist
      BY <1>13 DEF EntryOK
    <3>5. ~(e.node = d.node /\ e.dist = d.dist)
      BY <3>1, <3>4, Zenon DEF NotShorter
    <3> QED BY <3>3, <3>5
  <2>3. ASSUME NEW i \in K, NEW j \in K, NEW e, NEW d,
               e = Pushed(arcs, goal, S, p, i), d = Pushed(arcs, goal, S, p, j),
               e.no = d.no \/ e.node = d.node
        PROVE  e = d
    <3>1. e.no = S.count + i /\ i \in Nat /\ e.node = arcs[i].to /\ arcs[i].from = p.node /\ i \in DOMAIN arcs
      BY <1>8, <2>3, Zenon
    <3>2. d.no = S.count + j /\ j \in Nat /\ d.node = arcs[j].to /\ arcs[j].from = p.node /\ j \in DOMAIN arcs
      BY <1>8, <2>3, Zenon
    <3>3. i = j
      <4>1. CASE e.no = d.no
        <5>1. S.count + i = S.count + j
          BY <4>1, <3>1, <3>2, Zenon
        <5>2. i \in Nat /\ j \in Nat
          BY <3>1, <3>2, Zenon
        <5> QED BY <5>1, <5>2, <1>7
      <4>2. CASE e.node = d.node
        BY <4>2, <3>1, <3>2, Zenon DEF GraphOK, OneArcEach
      <4> QED BY <4>1, <4>2, <2>3
    <3> QED BY <3>3, <2>3
  <2>4. ASSUME NEW e \in E.queue, NEW d \in E.queue, e.no = d.no \/ (e.node = d.node /\ e.dist = d.dist)
        PROVE  e = d
    <3>1. CASE e \in S.queue /\ d \in S.queue
      BY <3>1, <2>4, <1>13 DEF Apart
    <3>2. CASE e \in S.queue /\ d \notin S.queue
      BY <3>2, <2>4, <2>2, <1>9, Zenon
    <3>3. CASE e \notin S.queue /\ d \in S.queue
      BY <3>3, <2>4, <2>2, <1>9, Zenon
    <3>4. CASE e \notin S.queue /\ d \notin S.queue
      <4>1. PICK i \in K : e = Pushed(arcs, goal, S, p, i)
        BY <3>4, <1>9, Zenon
      <4>2. PICK j \in K : d = Pushed(arcs, goal, S, p, j)
        BY <3>4, <1>9, Zenon
      <4>3. e.no = d.no \/ e.node = d.node
        BY <2>4, Zenon
      <4> QED BY <4>1, <4>2, <4>3, <2>3
    <3> QED BY <3>1, <3>2, <3>3, <3>4
  <2> QED BY <2>1, <2>4, Zenon DEF Apart
<1>17. Pending(E)
  <2> SUFFICES ASSUME NEW u \in DOMAIN E.enqueued \ DOMAIN E.explored
               PROVE  \E e \in E.queue : e.node = u /\ e.dist = E.enqueued[u]
    BY DEF Pending
  <2>1. CASE \E i \in K : arcs[i].to = u
    <3>1. PICK i \in K : arcs[i].to = u
      BY <2>1
    <3>2. PICK e : e = Pushed(arcs, goal, S, p, i)
      OBVIOUS
    <3>3. e \in E.queue
      BY <3>2, <1>6
    <3>4. e.node = u /\ e.dist = p.dist + arcs[i].weight
      BY <3>1, <3>2, <1>8, Zenon
    <3>5. E.enqueued[u] = p.dist + arcs[i].weight
      BY <3>1, <1>6
    <3> QED BY <3>3, <3>4, <3>5
  <2>2. CASE ~ \E i \in K : arcs[i].to = u
    <3>1. u \in DOMAIN S.enqueued
      BY <2>2, <1>6
    <3>2. E.enqueued[u] = S.enqueued[u]
      BY <2>2, <3>1, <1>3, Zenon DEF Followed
    <3>3. PICK e \in S.queue : e.node = u /\ e.dist = S.enqueued[u]
      BY <3>1, <1>6, <1>13 DEF Pending
    <3>4. e \in E.queue
      BY <1>6
    <3> QED BY <3>2, <3>3, <3>4
  <2> QED BY <2>1, <2>2
<1>18. Nearest(source, goal, E)
  <2> SUFFICES ASSUME NEW u \in DOMAIN E.explored, NEW e \in E.queue
               PROVE  Dist(source, E, u) + Between(u, goal) <= e.f
    BY DEF Nearest
  <2>1. u \in DOMAIN S.explored /\ Dist(source, E, u) = Dist(source, S, u)
    BY <1>3, <1>6, Zenon DEF Followed
  <2>2. CASE e \in S.queue
    BY <2>1, <2>2, <1>13 DEF Nearest
  <2>3. ASSUME NEW i \in K, e = Pushed(arcs, goal, S, p, i)
        PROVE  Dist(source, E, u) + Between(u, goal) <= e.f
    <3>1. /\ e.node = arcs[i].to /\ i \in DOMAIN arcs /\ arcs[i].from = p.node
          /\ e.dist = p.dist + arcs[i].weight /\ e.f = e.dist + Between(e.node, goal)
      BY <1>8, <2>3, Zenon
    <3>2. PICK t \in Spot : t = arcs[i].to
      BY <1>11
    <3>3. Between(p.node, t) <= arcs[i].weight /\ arcs[i].weight \in Nat
      BY <3>1, <3>2, ArcIs
    <3>4. Dist(source, S, u) + Between(u, goal) <= p.dist + Between(p.node, goal)
      BY <2>1 DEF AtHand
    <3>5. Between(p.node, goal) <= Between(p.node, t) + Between(t, goal)
      BY <1>5, NoShortCut
    <3>6. u \in Spot /\ Dist(source, S, u) \in Nat
      BY <2>1, <1>4, DistIs
    <3>7. /\ Between(p.node, t) \in Nat /\ Between(t, goal) \in Nat /\ Between(p.node, goal) \in Nat
          /\ Between(u, goal) \in Nat
      BY <3>6, <1>5, BetweenIs
    <3>8. e.f = (p.dist + arcs[i].weight) + Between(t, goal)
      BY <3>1, <3>2
    <3> QED BY <2>1, <3>3, <3>4, <3>5, <3>6, <3>7, <3>8, <1>5
  <2> QED BY <2>2, <2>3, <1>9
<1>19. Stale(source, E)
  <2> SUFFICES ASSUME NEW e \in E.queue, e.node \in DOMAIN E.explored, e.node # source
               PROVE  E.enqueued[e.node] < e.dist
    BY DEF Stale
  <2>1. CASE e \in S.queue
    <3>1. S.enqueued[e.node] < e.dist
      BY <2>1, <1>6, <1>13 DEF Stale
    <3>2. E.enqueued[e.node] = S.enqueued[e.node]
      <4>1. e.node \in DOMAIN S.explored \ {source}
        BY <1>6
      <4> QED BY <4>1, <1>3, Zenon DEF Followed
    <3> QED BY <3>1, <3>2
  <2>2. ASSUME NEW i \in K, e = Pushed(arcs, goal, S, p, i) PROVE FALSE
    <3>1. e.node = arcs[i].to
      BY <1>8, <2>2, Zenon
    <3>2. arcs[i].to \in DOMAIN S.explored /\ i \in Shorter(arcs, S, p)
      BY <3>1, <1>2, <1>6
    <3>3. arcs[i].to = source
      BY <3>2, ExploredStays
    <3> QED BY <3>1, <3>3
  <2> QED BY <2>1, <2>2, <1>9
<1>20. Relaxed(arcs, source, E, DOMAIN E.explored)
  <2> SUFFICES ASSUME NEW i \in DOMAIN arcs, arcs[i].from \in DOMAIN E.explored
               PROVE  /\ arcs[i].to \in DOMAIN E.enqueued
                      /\ E.enqueued[arcs[i].to] <= Dist(source, E, arcs[i].from) + arcs[i].weight
    BY DEF Relaxed
  <2>1. arcs[i].from \in DOMAIN S.explored /\ Dist(source, E, arcs[i].from) = Dist(source, S, arcs[i].from)
    BY <1>3, <1>6, Zenon DEF Followed
  <2>2. arcs[i].weight \in Nat /\ Dist(source, S, arcs[i].from) \in Nat
    BY <2>1, <1>4, ArcIs, DistIs
  <2>3. CASE i \in K
    <3>1. arcs[i].from = p.node
      BY <2>3, <1>2 DEF Shorter
    <3>2. E.enqueued[arcs[i].to] = p.dist + arcs[i].weight /\ arcs[i].to \in DOMAIN E.enqueued
      BY <2>3, <1>3, Zenon DEF Followed
    <3> QED BY <3>1, <3>2, <2>1, <2>2
  <2>4. CASE i \notin K
    <3>1. /\ arcs[i].to \in DOMAIN S.enqueued
          /\ S.enqueued[arcs[i].to] <= Dist(source, S, arcs[i].from) + arcs[i].weight
      <4>1. CASE arcs[i].from = p.node
        <5>1. NotShorter(S, arcs[i].to, p.dist + arcs[i].weight)
          BY <2>4, <4>1, <1>2 DEF Shorter
        <5> QED BY <5>1, <4>1 DEF NotShorter
      <4>2. CASE arcs[i].from # p.node
        BY <4>2, <2>1, <1>13 DEF Relaxed
      <4> QED BY <4>1, <4>2
    <3>2. arcs[i].to \in DOMAIN E.enqueued /\ E.enqueued[arcs[i].to] <= S.enqueued[arcs[i].to]
      BY <3>1, <1>3, Zenon DEF Followed
    <3>3. S.enqueued[arcs[i].to] \in Nat /\ E.enqueued[arcs[i].to] \in Nat
      BY <3>1, <3>2, <1>10, <1>12 DEF IsSearch
    <3> QED BY <3>1, <3>2, <3>3, <2>1, <2>2
  <2> QED BY <2>3, <2>4
<1>21. E.path = <<>>
  BY <1>4, <1>6, SoundIs
<1>22. Going(arcs, source, goal, E)
  BY <1>12, <1>14, <1>15, <1>16, <1>17, <1>18, <1>19, <1>20, <1>21, Zenon DEF Going, Sound
<1> QED BY <1>1, <1>22

\* The search without an entry.
Without(S, e) == [S EXCEPT !.queue = S.queue \ {e}]

LEMMA WithoutIs ==
  ASSUME NEW S, IsSearch(S), NEW e, NEW R, R = Without(S, e)
  PROVE  /\ R.queue = S.queue \ {e} /\ R.count = S.count /\ R.enqueued = S.enqueued
         /\ R.explored = S.explored /\ R.path = S.path /\ IsSearch(R)
         /\ \A source, u : Dist(source, R, u) = Dist(source, S, u)
<1>2. /\ R.queue = S.queue \ {e} /\ R.count = S.count /\ R.enqueued = S.enqueued
      /\ R.explored = S.explored /\ R.path = S.path
      /\ R = [queue |-> R.queue, count |-> R.count, enqueued |-> R.enqueued,
              explored |-> R.explored, path |-> R.path]
  BY DEF Without, IsSearch
<1>3. IsSearch(R)
  <2>1. /\ R.queue \subseteq Entries /\ R.count \in Nat
        /\ DOMAIN R.enqueued \subseteq Spot /\ DOMAIN R.explored \subseteq Spot
        /\ \A v \in DOMAIN R.enqueued : R.enqueued[v] \in Nat
    BY <1>2 DEF IsSearch
  <2> QED BY <2>1, <1>2, Zenon DEF IsSearch
<1>4. \A source, u : Dist(source, R, u) = Dist(source, S, u)
  BY <1>2 DEF Dist
<1> QED BY <1>2, <1>3, <1>4

\* An entry of a node that has been explored is of no use.
LEMMA DoneKeeps ==
  ASSUME NEW arcs, GraphOK(arcs), NEW source \in Spot, NEW goal \in Spot, NEW S,
         Going(arcs, source, goal, S), NEW e \in S.queue, Done(S, e)
  PROVE  Going(arcs, source, goal, Without(S, e))
<1>1. PICK R : R = Without(S, e)
  OBVIOUS
<1>2. Sound(arcs, source, goal, S, DOMAIN S.explored)
  BY DEF Going
<1>3. /\ IsSearch(S) /\ S.path = <<>> /\ Tree(arcs, source, goal, S) /\ Apart(S) /\ Pending(S)
      /\ Nearest(source, goal, S) /\ Stale(source, S) /\ Relaxed(arcs, source, S, DOMAIN S.explored)
      /\ \A d \in S.queue : EntryOK(arcs, source, goal, S, d)
  BY <1>2, SoundIs, Zenon
<1>4. /\ R.queue = S.queue \ {e} /\ R.count = S.count /\ R.enqueued = S.enqueued
      /\ R.explored = S.explored /\ R.path = S.path /\ IsSearch(R)
      /\ \A s, u : Dist(s, R, u) = Dist(s, S, u)
  <2>1. IsSearch(S)
    BY <1>3
  <2> QED BY <2>1, <1>1, WithoutIs
<1>5. Tree(arcs, source, goal, R)
  BY <1>3, <1>4, Zenon DEF Tree
<1>6. \A d \in R.queue : EntryOK(arcs, source, goal, R, d)
  <2> SUFFICES ASSUME NEW d \in R.queue PROVE EntryOK(arcs, source, goal, R, d)
    OBVIOUS
  <2>1. d \in S.queue
    BY <1>4
  <2> QED BY <2>1, <1>3, <1>4, Zenon DEF EntryOK
<1>7. Apart(R)
  BY <1>3, <1>4 DEF Apart
<1>8. Pending(R)
  <2> SUFFICES ASSUME NEW u \in DOMAIN S.enqueued \ DOMAIN S.explored
               PROVE  \E d \in R.queue : d.node = u /\ d.dist = R.enqueued[u]
    BY <1>4 DEF Pending
  <2>1. PICK d \in S.queue : d.node = u /\ d.dist = S.enqueued[u]
    BY <1>3 DEF Pending
  <2>2. d # e
    BY <2>1 DEF Done
  <2> QED BY <2>1, <2>2, <1>4
<1>9. Nearest(source, goal, R)
  BY <1>3, <1>4 DEF Nearest
<1>10. Stale(source, R)
  BY <1>3, <1>4 DEF Stale
<1>11. Relaxed(arcs, source, R, DOMAIN R.explored)
  BY <1>3, <1>4, Zenon DEF Relaxed
<1>12. Going(arcs, source, goal, R)
  BY <1>3, <1>4, <1>5, <1>6, <1>7, <1>8, <1>9, <1>10, <1>11, Zenon DEF Going, Sound
<1> QED BY <1>1, <1>12

\* The search with one more node explored.
Explored(S, e) == [Without(S, e) EXCEPT !.explored = Put(S.explored, e.node, e.parent)]

LEMMA ExploredIs ==
  ASSUME NEW S, IsSearch(S), NEW e, e.node \in Spot, NEW R, R = Explored(S, e)
  PROVE  /\ R.queue = S.queue \ {e} /\ R.count = S.count /\ R.enqueued = S.enqueued
         /\ R.path = S.path /\ IsSearch(R)
         /\ DOMAIN R.explored = DOMAIN S.explored \cup {e.node} /\ R.explored[e.node] = e.parent
         /\ \A u \in DOMAIN S.explored : u # e.node => R.explored[u] = S.explored[u]
         /\ \A source, u : Dist(source, R, u) = Dist(source, S, u)
<1>2. PICK P : P = Put(S.explored, e.node, e.parent)
  OBVIOUS
<1>3. /\ R.queue = S.queue \ {e} /\ R.count = S.count /\ R.enqueued = S.enqueued
      /\ R.explored = P /\ R.path = S.path
      /\ R = [queue |-> R.queue, count |-> R.count, enqueued |-> R.enqueued,
              explored |-> R.explored, path |-> R.path]
  BY <1>2 DEF Explored, Without, IsSearch
<1>4. /\ DOMAIN P = DOMAIN S.explored \cup {e.node} /\ P[e.node] = e.parent
      /\ \A u \in DOMAIN S.explored : u # e.node => P[u] = S.explored[u]
  BY <1>2 DEF Put
<1>5. IsSearch(R)
  <2>1. /\ R.queue \subseteq Entries /\ R.count \in Nat
        /\ DOMAIN R.enqueued \subseteq Spot /\ DOMAIN R.explored \subseteq Spot
        /\ \A v \in DOMAIN R.enqueued : R.enqueued[v] \in Nat
    BY <1>3, <1>4 DEF IsSearch
  <2> QED BY <2>1, <1>3, Zenon DEF IsSearch
<1>6. \A source, u : Dist(source, R, u) = Dist(source, S, u)
  BY <1>3 DEF Dist
<1> QED BY <1>3, <1>4, <1>5, <1>6

\* The tree grows by a leaf.
LEMMA DepthsGrow ==
  ASSUME NEW explored, DOMAIN explored \subseteq Spot, NEW node \in Spot \ DOMAIN explored,
         NEW parent \in DOMAIN explored, NEW grown, DOMAIN grown = DOMAIN explored \cup {node},
         grown[node] = parent, \A u \in DOMAIN explored : u # node => grown[u] = explored[u],
         \E depth : Depths(explored, depth)
  PROVE  \E depth : Depths(grown, depth)
<1>1. PICK depth : Depths(explored, depth)
  OBVIOUS
<1>2. PICK n \in Nat : n = Cardinality(DOMAIN explored) /\ n + 1 = Cardinality(DOMAIN grown)
  <2>1. IsFiniteSet(DOMAIN explored)
    BY FS_Subset, RoutingAssumption
  <2> QED BY <2>1, FS_AddElement, FS_CardinalityType
<1> DEFINE more == [u \in DOMAIN grown |-> IF u = node THEN depth[parent] + 1 ELSE depth[u]]
<1>3. \A u \in DOMAIN explored : u # node /\ u # NoSpot
  BY RoutingAssumption
<1>4. \A u \in DOMAIN explored : more[u] = depth[u] /\ depth[u] \in Nat /\ depth[u] < n
  BY <1>1, <1>2, <1>3 DEF Depths
<1>5. more[node] = depth[parent] + 1
  OBVIOUS
<1>6. ASSUME NEW u \in DOMAIN grown
      PROVE  /\ more[u] \in Nat /\ more[u] < n + 1
             /\ grown[u] \in DOMAIN grown \cup {NoSpot}
             /\ grown[u] # NoSpot => more[u] = more[grown[u]] + 1
  <2>1. CASE u = node
    <3>1. more[parent] = depth[parent] /\ depth[parent] \in Nat /\ depth[parent] < n
      BY <1>4
    <3> HIDE DEF more
    <3> QED BY <2>1, <3>1, <1>5, <1>2
  <2>2. CASE u # node
    <3>1. u \in DOMAIN explored /\ grown[u] = explored[u]
      BY <2>2
    <3>2. more[u] = depth[u] /\ depth[u] \in Nat /\ depth[u] < n
      BY <3>1, <1>4
    <3>3. explored[u] \in DOMAIN explored \cup {NoSpot}
          /\ (explored[u] # NoSpot => depth[u] = depth[explored[u]] + 1)
      BY <3>1, <1>1 DEF Depths
    <3>4. explored[u] # NoSpot => more[explored[u]] = depth[explored[u]]
      BY <3>3, <1>4
    <3> HIDE DEF more
    <3> QED BY <3>1, <3>2, <3>3, <3>4, <1>2
  <2> QED BY <2>1, <2>2
<1> HIDE DEF more
<1>7. Depths(grown, more)
  BY <1>2, <1>6 DEF Depths
<1> QED BY <1>7

\* What is popped is the first way found to its node, if the node is not explored.
LEMMA PoppedIs ==
  ASSUME NEW arcs, GraphOK(arcs), NEW source \in Spot, NEW goal \in Spot, NEW S,
         Going(arcs, source, goal, S), NEW e \in S.queue, \A d \in S.queue : e.f <= d.f
  PROVE  /\ e \in Entries /\ EntryOK(arcs, source, goal, S, e)
         /\ e.node \notin DOMAIN S.explored => e.dist = S.enqueued[e.node]
<1>1. Sound(arcs, source, goal, S, DOMAIN S.explored)
  BY DEF Going
<1>2. IsSearch(S) /\ Pending(S) /\ \A d \in S.queue : EntryOK(arcs, source, goal, S, d)
  BY <1>1, SoundIs, Zenon
<1>3. \A d \in S.queue : d \in Entries
  BY <1>2 DEF IsSearch
<1>4. ASSUME e.node \notin DOMAIN S.explored PROVE e.dist = S.enqueued[e.node]
  <2>1. PICK n \in Spot, x \in Nat : n = e.node /\ x = e.dist
    BY <1>3 DEF Entries
  <2>2. n \in DOMAIN S.enqueued /\ S.enqueued[n] <= x /\ e.f = x + Between(n, goal)
    BY <1>2, <2>1 DEF EntryOK
  <2>3. PICK y \in Nat : y = S.enqueued[n]
    BY <1>2, <2>2 DEF IsSearch
  <2>4. PICK d \in S.queue : d.node = n /\ d.dist = y
    BY <1>2, <1>4, <2>1, <2>2, <2>3 DEF Pending
  <2>5. d.f = y + Between(n, goal)
    BY <1>2, <2>4 DEF EntryOK
  <2>6. Between(n, goal) \in Nat
    BY BetweenIs
  <2>7. x + Between(n, goal) <= y + Between(n, goal)
    BY <2>2, <2>5
  <2>8. x <= y
    BY <2>6, <2>7
  <2> QED BY <2>1, <2>2, <2>3, <2>8
<1> QED BY <1>2, <1>3, <1>4

LEMMA ExploreKeeps ==
  ASSUME NEW arcs, GraphOK(arcs), NEW source \in Spot, NEW goal \in Spot, NEW S,
         Going(arcs, source, goal, S), NEW e \in S.queue, \A d \in S.queue : e.f <= d.f,
         e.node # goal, e.node \notin DOMAIN S.explored
  PROVE  AtHand(arcs, source, goal, Explored(S, e), e.node) /\ e.dist = Dist(source, Explored(S, e), e.node)
<1>1. PICK R : R = Explored(S, e)
  OBVIOUS
<1>2. Sound(arcs, source, goal, S, DOMAIN S.explored)
  BY DEF Going
<1>3. /\ IsSearch(S) /\ S.path = <<>> /\ Tree(arcs, source, goal, S) /\ Apart(S) /\ Pending(S)
      /\ Nearest(source, goal, S) /\ Stale(source, S) /\ Relaxed(arcs, source, S, DOMAIN S.explored)
      /\ \A d \in S.queue : EntryOK(arcs, source, goal, S, d)
  BY <1>2, SoundIs, Zenon
<1>4. e \in Entries /\ e.dist = S.enqueued[e.node]
  BY PoppedIs
<1>5. PICK v \in Spot : v = e.node /\ v # goal /\ v \notin DOMAIN S.explored
  BY <1>4 DEF Entries
<1>6. /\ R.queue = S.queue \ {e} /\ R.count = S.count /\ R.enqueued = S.enqueued
      /\ R.path = S.path /\ IsSearch(R)
      /\ DOMAIN R.explored = DOMAIN S.explored \cup {v} /\ R.explored[v] = e.parent
      /\ \A u \in DOMAIN S.explored : u # v => R.explored[u] = S.explored[u]
      /\ \A s, u : Dist(s, R, u) = Dist(s, S, u)
  <2>1. IsSearch(S) /\ e.node \in Spot
    BY <1>3, <1>5
  <2>2. /\ R.queue = S.queue \ {e} /\ R.count = S.count /\ R.enqueued = S.enqueued
        /\ R.path = S.path /\ IsSearch(R)
        /\ DOMAIN R.explored = DOMAIN S.explored \cup {e.node} /\ R.explored[e.node] = e.parent
        /\ \A u \in DOMAIN S.explored : u # e.node => R.explored[u] = S.explored[u]
        /\ \A s, u : Dist(s, R, u) = Dist(s, S, u)
    BY <2>1, <1>1, ExploredIs
  <2> QED BY <2>2, <1>5, Zenon
<1>7. source \in DOMAIN S.explored /\ S.explored[source] = NoSpot /\ source # v
  BY <1>3, <1>5 DEF Tree
<1>8. Dist(source, R, v) = e.dist /\ e.dist \in Nat
  BY <1>4, <1>5, <1>6, <1>7 DEF Dist, Entries
<1>9. /\ e.parent \in DOMAIN S.explored /\ v \in DOMAIN S.enqueued
      /\ e.f = e.dist + Between(v, goal)
      /\ ByArc(arcs, e.parent, v, Dist(source, S, e.parent), e.dist)
  BY <1>3, <1>5, Zenon DEF EntryOK
<1>10. Tree(arcs, source, goal, R)
  <2>1. source \in DOMAIN R.explored /\ R.explored[source] = NoSpot /\ goal \notin DOMAIN R.explored
    BY <1>3, <1>5, <1>6, <1>7 DEF Tree
  <2>2. ASSUME NEW u \in DOMAIN R.explored \ {source}
        PROVE  /\ u \in DOMAIN R.enqueued /\ R.explored[u] \in DOMAIN R.explored
               /\ ByArc(arcs, R.explored[u], u, Dist(source, R, R.explored[u]), R.enqueued[u])
    <3>1. CASE u = v
      <4>1. R.explored[u] = e.parent /\ e.parent \in DOMAIN R.explored /\ R.enqueued[u] = e.dist
            /\ u \in DOMAIN R.enqueued
        BY <3>1, <1>4, <1>5, <1>6, <1>9
      <4> QED BY <3>1, <4>1, <1>6, <1>9, Zenon
    <3>2. CASE u # v
      <4>1. u \in DOMAIN S.explored \ {source} /\ R.explored[u] = S.explored[u]
        BY <3>2, <1>6
      <4>2. /\ u \in DOMAIN S.enqueued /\ S.explored[u] \in DOMAIN S.explored
            /\ ByArc(arcs, S.explored[u], u, Dist(source, S, S.explored[u]), S.enqueued[u])
        BY <4>1, <1>3, Zenon DEF Tree
      <4>3. S.explored[u] \in DOMAIN R.explored
        BY <4>2, <1>6
      <4> QED BY <4>1, <4>2, <4>3, <1>6, Zenon
    <3> QED BY <3>1, <3>2
  <2>3. \E depth : Depths(R.explored, depth)
    <3>1. DOMAIN S.explored \subseteq Spot /\ \E depth : Depths(S.explored, depth)
      BY <1>3, Zenon DEF IsSearch, Tree
    <3>2. v \in Spot \ DOMAIN S.explored
      BY <1>5
    <3> QED BY <3>1, <3>2, <1>6, <1>9, DepthsGrow, Zenon
  <2> QED BY <2>1, <2>2, <2>3, Zenon DEF Tree
<1>11. ASSUME NEW d \in R.queue PROVE EntryOK(arcs, source, goal, R, d)
  <2>1. d \in S.queue
    BY <1>6
  <2>2. EntryOK(arcs, source, goal, S, d)
    BY <2>1, <1>3
  <2>3. d.parent \in DOMAIN R.explored
    BY <2>2, <1>6 DEF EntryOK
  <2> QED BY <2>2, <2>3, <1>6, Zenon DEF EntryOK
<1>12. Apart(R)
  BY <1>3, <1>6 DEF Apart
<1>13. Pending(R)
  <2> SUFFICES ASSUME NEW u \in DOMAIN S.enqueued \ DOMAIN S.explored, u # v
               PROVE  \E d \in R.queue : d.node = u /\ d.dist = R.enqueued[u]
    BY <1>6 DEF Pending
  <2>1. PICK d \in S.queue : d.node = u /\ d.dist = S.enqueued[u]
    BY <1>3 DEF Pending
  <2>2. d # e
    BY <2>1, <1>5
  <2> QED BY <2>1, <2>2, <1>6
<1>14. Nearest(source, goal, R)
  <2> SUFFICES ASSUME NEW u \in DOMAIN R.explored, NEW d \in R.queue
               PROVE  Dist(source, R, u) + Between(u, goal) <= d.f
    BY DEF Nearest
  <2>1. d \in S.queue
    BY <1>6
  <2>2. CASE u = v
    BY <2>1, <2>2, <1>8, <1>9
  <2>3. CASE u # v
    BY <2>1, <2>3, <1>3, <1>6 DEF Nearest
  <2> QED BY <2>2, <2>3
<1>15. Stale(source, R)
  <2> SUFFICES ASSUME NEW d \in R.queue, d.node \in DOMAIN R.explored, d.node # source
               PROVE  R.enqueued[d.node] < d.dist
    BY DEF Stale
  <2>1. d \in S.queue /\ d # e
    BY <1>6
  <2>2. CASE d.node = v
    <3>1. S.enqueued[v] <= d.dist
      BY <2>1, <2>2, <1>3, Zenon DEF EntryOK
    <3>2. d.dist # e.dist
      BY <2>1, <2>2, <1>3, <1>5, Zenon DEF Apart
    <3>3. d.dist \in Nat
      BY <2>1, <1>3 DEF IsSearch, Entries
    <3>4. e.dist = S.enqueued[v]
      BY <1>4, <1>5
    <3>5. S.enqueued[v] < d.dist
      BY <3>1, <3>2, <3>3, <3>4, <1>8
    <3> QED BY <3>5, <2>2, <1>6, Zenon
  <2>3. CASE d.node # v
    <3>1. d.node \in DOMAIN S.explored
      BY <2>3, <1>6
    <3>2. S.enqueued[d.node] < d.dist
      BY <3>1, <2>1, <1>3, Zenon DEF Stale
    <3> QED BY <3>2, <1>6, Zenon
  <2> QED BY <2>2, <2>3
<1>16. Relaxed(arcs, source, R, DOMAIN R.explored \ {v})
  <2>1. DOMAIN R.explored \ {v} = DOMAIN S.explored
    BY <1>5, <1>6
  <2>2. R.enqueued = S.enqueued /\ \A u \in Spot : Dist(source, R, u) = Dist(source, S, u)
    BY <1>6, Zenon
  <2> SUFFICES ASSUME NEW i \in DOMAIN arcs, arcs[i].from \in DOMAIN S.explored
               PROVE  /\ arcs[i].to \in DOMAIN R.enqueued
                      /\ R.enqueued[arcs[i].to] <= Dist(source, R, arcs[i].from) + arcs[i].weight
    BY <2>1, Zenon DEF Relaxed
  <2>3. /\ arcs[i].to \in DOMAIN S.enqueued
        /\ S.enqueued[arcs[i].to] <= Dist(source, S, arcs[i].from) + arcs[i].weight
    BY <1>3, Zenon DEF Relaxed
  <2>4. Dist(source, R, arcs[i].from) = Dist(source, S, arcs[i].from)
    BY <2>2, ArcIs, Zenon
  <2> QED BY <2>2, <2>3, <2>4, Zenon
<1>17. Sound(arcs, source, goal, R, DOMAIN R.explored \ {v})
  BY <1>3, <1>6, <1>10, <1>11, <1>12, <1>13, <1>14, <1>15, <1>16, Zenon DEF Sound
<1>18. ASSUME NEW u \in DOMAIN R.explored
       PROVE  Dist(source, R, u) + Between(u, goal) <= Dist(source, R, v) + Between(v, goal)
  <2>1. CASE u = v
    <3>1. Between(v, goal) \in Nat
      BY BetweenIs
    <3> QED BY <2>1, <3>1, <1>8
  <2>2. CASE u # v
    <3>1. Dist(source, S, u) + Between(u, goal) <= e.f
      BY <2>2, <1>3, <1>6 DEF Nearest
    <3>2. Dist(source, R, u) = Dist(source, S, u) /\ e.f = Dist(source, R, v) + Between(v, goal)
      BY <1>6, <1>8, <1>9, Zenon
    <3> QED BY <3>1, <3>2, Zenon
  <2> QED BY <2>1, <2>2
<1>19. v \in DOMAIN R.explored
  BY <1>6
<1>20. AtHand(arcs, source, goal, R, v)
  BY <1>17, <1>18, <1>19, Zenon DEF AtHand
<1> QED BY <1>1, <1>5, <1>8, <1>20, Zenon

\* There is no way.
NoWay(arcs, source, goal) == \A way \in WaysTo(arcs, goal) : way[1] # source

\* A path that is a shortest way, and what it costs.
Shortest(arcs, source, goal, path, cost) ==
    /\ path \in Seq(Spot) /\ path # <<>> /\ path[1] = source /\ path[Len(path)] = goal
    /\ cost \in Nat /\ CostOf(arcs, path) = cost
    /\ \A i \in 1..(Len(path) - 1) : ArcsFrom(arcs, path[i], path[i + 1]) # {}
    /\ <<source, cost>> \in WaysTo(arcs, goal)
    /\ \A way \in WaysTo(arcs, goal) : way[1] = source => cost <= way[2]

Answered(arcs, source, goal, path) == \E cost : Shortest(arcs, source, goal, path, cost)

LEMMA WaysInNat ==
  ASSUME NEW arcs, GraphOK(arcs), NEW goal \in Spot
  PROVE  WaysTo(arcs, goal) \subseteq Spot \X Nat
<1>1. PICK N \in Nat : N = Cardinality(Spot)
  BY FS_CardinalityType, RoutingAssumption, Zenon
<1>2. PICK ways : WaysFit(ways, arcs, goal, N) /\ WaysTo(arcs, goal) = ways[N]
  BY <1>1, WaysAre
<1> QED BY <1>1, <1>2 DEF WaysFit

\* If nothing is left to be popped, there is no way.
LEMMA NothingLeft ==
  ASSUME NEW arcs, GraphOK(arcs), NEW source \in Spot, NEW goal \in Spot, NEW S,
         Going(arcs, source, goal, S), S.queue = {}
  PROVE  NoWay(arcs, source, goal)
<1>1. Sound(arcs, source, goal, S, DOMAIN S.explored)
  BY DEF Going
<1>2. Tree(arcs, source, goal, S) /\ Pending(S) /\ Relaxed(arcs, source, S, DOMAIN S.explored)
  BY <1>1, SoundIs, Zenon
<1> DEFINE W == {way \in Spot \X Nat : way[1] \notin DOMAIN S.explored}
<1>3. <<goal, 0>> \in W
  BY <1>2 DEF Tree
<1>4. ASSUME NEW i \in DOMAIN arcs, NEW way \in Spot \X Nat, way \in W, way[1] = arcs[i].to
      PROVE  <<arcs[i].from, arcs[i].weight + way[2]>> \in W
  <2>1. arcs[i].from \in Spot /\ arcs[i].weight \in Nat
    BY ArcIs
  <2>2. arcs[i].from \notin DOMAIN S.explored
    <3> SUFFICES ASSUME arcs[i].from \in DOMAIN S.explored PROVE FALSE
      OBVIOUS
    <3>1. arcs[i].to \in DOMAIN S.enqueued
      BY <1>2 DEF Relaxed
    <3>2. arcs[i].to \notin DOMAIN S.explored
      BY <1>4
    <3> QED BY <3>1, <3>2, <1>2 DEF Pending
  <2> QED BY <2>1, <2>2
<1>5. WaysTo(arcs, goal) \subseteq W
  <2> HIDE DEF W
  <2> QED BY <1>3, <1>4, WaysKeep
<1>6. source \in DOMAIN S.explored
  BY <1>2 DEF Tree
<1> QED BY <1>5, <1>6 DEF NoWay

\* No way is shorter than what the entry of the goal says, when that is popped.
LEMMA NoneShorter ==
  ASSUME NEW arcs, GraphOK(arcs), NEW source \in Spot, NEW goal \in Spot, NEW S,
         Going(arcs, source, goal, S), NEW e \in S.queue, \A d \in S.queue : e.f <= d.f,
         e.node = goal, NEW way \in WaysTo(arcs, goal), way[1] = source
  PROVE  e.dist <= way[2]
<1>1. Sound(arcs, source, goal, S, DOMAIN S.explored)
  BY DEF Going
<1>2. /\ IsSearch(S) /\ Tree(arcs, source, goal, S) /\ Pending(S)
      /\ Relaxed(arcs, source, S, DOMAIN S.explored) /\ Nearest(source, goal, S)
      /\ \A d \in S.queue : EntryOK(arcs, source, goal, S, d)
  BY <1>1, SoundIs, Zenon
<1>3. PICK D \in Nat : D = e.dist /\ D = e.f
  <2>1. e \in Entries /\ e.f = e.dist + Between(goal, goal)
    BY <1>2 DEF EntryOK, IsSearch
  <2>2. Between(goal, goal) = 0
    BY BetweenIs
  <2> QED BY <2>1, <2>2 DEF Entries
<1> DEFINE Phi(v) == IF v \in DOMAIN S.explored THEN Dist(source, S, v) ELSE D - Between(v, goal)
           W == {w \in Spot \X Nat : Phi(w[1]) + w[2] >= D}
<1>4. goal \notin DOMAIN S.explored /\ source \in DOMAIN S.explored
  BY <1>2 DEF Tree
<1>5. <<goal, 0>> \in W
  <2>1. Phi(goal) = D
    BY <1>4, BetweenIs
  <2> HIDE DEF Phi
  <2> QED BY <2>1
<1>6. ASSUME NEW i \in DOMAIN arcs
      PROVE  Phi(arcs[i].to) <= Phi(arcs[i].from) + arcs[i].weight /\ Phi(arcs[i].from) \in Int
             /\ Phi(arcs[i].to) \in Int
  <2>1. PICK a \in Spot, b \in Spot, w \in Nat :
               a = arcs[i].from /\ b = arcs[i].to /\ w = arcs[i].weight /\ Between(a, b) <= w
    BY ArcIs
  <2>2. /\ Between(a, b) \in Nat /\ Between(b, goal) \in Nat /\ Between(a, goal) \in Nat
        /\ Between(a, goal) <= Between(a, b) + Between(b, goal)
    BY BetweenIs, NoShortCut
  <2>3. \A u \in DOMAIN S.explored : Dist(source, S, u) \in Nat
    BY <1>1, DistIs
  <2>4. a \in DOMAIN S.explored => b \in DOMAIN S.enqueued /\ S.enqueued[b] <= Dist(source, S, a) + w
    BY <2>1, <1>2 DEF Relaxed
  <2>5. \A u \in DOMAIN S.enqueued : S.enqueued[u] \in Nat
    BY <1>2 DEF IsSearch
  <2>6. CASE a \in DOMAIN S.explored /\ b \in DOMAIN S.explored
    <3>1. Dist(source, S, b) <= Dist(source, S, a) + w
      <4>1. CASE b = source
        <5>1. Dist(source, S, b) = 0
          BY <4>1 DEF Dist
        <5>2. Dist(source, S, a) \in Nat
          BY <2>6, <2>3
        <5> QED BY <5>1, <5>2
      <4>2. CASE b # source
        BY <4>2, <2>4, <2>6 DEF Dist
      <4> QED BY <4>1, <4>2
    <3>2. Phi(a) = Dist(source, S, a) /\ Phi(b) = Dist(source, S, b)
      BY <2>6
    <3> HIDE DEF Phi
    <3> QED BY <3>1, <3>2, <2>1, <2>3, <2>6
  <2>7. CASE a \in DOMAIN S.explored /\ b \notin DOMAIN S.explored
    <3>1. PICK y \in Nat : y = S.enqueued[b] /\ y <= Dist(source, S, a) + w
      BY <2>4, <2>5, <2>7
    <3>2. PICK d \in S.queue : d.node = b /\ d.dist = y
      BY <2>4, <2>7, <3>1, <1>2 DEF Pending
    <3>3. d.f = y + Between(b, goal)
      BY <3>2, <1>2 DEF EntryOK
    <3>4. D <= y + Between(b, goal)
      BY <3>3, <1>3
    <3>5. Phi(a) = Dist(source, S, a) /\ Phi(b) = D - Between(b, goal) /\ Dist(source, S, a) \in Nat
      BY <2>3, <2>7
    <3> HIDE DEF Phi
    <3> QED BY <3>1, <3>4, <3>5, <2>1, <2>2
  <2>8. CASE a \notin DOMAIN S.explored /\ b \in DOMAIN S.explored
    <3>1. Dist(source, S, b) + Between(b, goal) <= D
      BY <2>8, <1>2, <1>3 DEF Nearest
    <3>2. Phi(b) = Dist(source, S, b) /\ Phi(a) = D - Between(a, goal) /\ Dist(source, S, b) \in Nat
      BY <2>3, <2>8
    <3> HIDE DEF Phi
    <3> QED BY <3>1, <3>2, <2>1, <2>2
  <2>9. CASE a \notin DOMAIN S.explored /\ b \notin DOMAIN S.explored
    <3>1. Phi(b) = D - Between(b, goal) /\ Phi(a) = D - Between(a, goal)
      BY <2>9
    <3> HIDE DEF Phi
    <3> QED BY <3>1, <2>1, <2>2
  <2> QED BY <2>6, <2>7, <2>8, <2>9
<1>7. ASSUME NEW i \in DOMAIN arcs, NEW w \in Spot \X Nat, w \in W, w[1] = arcs[i].to
      PROVE  <<arcs[i].from, arcs[i].weight + w[2]>> \in W
  <2>1. arcs[i].from \in Spot /\ arcs[i].weight \in Nat
    BY ArcIs
  <2>2. PICK x \in Int, y \in Int : /\ x = Phi(arcs[i].from) /\ y = Phi(arcs[i].to)
                                    /\ y <= x + arcs[i].weight
    BY <1>6
  <2>3. y + w[2] >= D /\ w[2] \in Nat
    BY <1>7, <2>2
  <2>4. PICK n \in Nat : n = arcs[i].weight + w[2]
    BY <2>1, <2>3
  <2>5. x + n >= D
    BY <2>1, <2>2, <2>3, <2>4
  <2>6. PICK z : z = <<arcs[i].from, n>> /\ z \in Spot \X Nat /\ z[1] = arcs[i].from /\ z[2] = n
    <3>1. /\ <<arcs[i].from, n>> \in Spot \X Nat
          /\ <<arcs[i].from, n>>[1] = arcs[i].from /\ <<arcs[i].from, n>>[2] = n
      BY <2>1
    <3> QED BY <3>1, Zenon
  <2>7. Phi(z[1]) + z[2] >= D
    <3> HIDE DEF Phi
    <3> QED BY <2>2, <2>5, <2>6
  <2>8. z \in W
    <3> HIDE DEF Phi
    <3> QED BY <2>6, <2>7
  <2> QED BY <2>4, <2>6, <2>8
<1>8. WaysTo(arcs, goal) \subseteq W
  <2> HIDE DEF W
  <2> QED BY <1>5, <1>7, WaysKeep
<1>9. way \in Spot \X Nat /\ Phi(source) + way[2] >= D
  BY <1>8
<1>10. Phi(source) = 0
  BY <1>4 DEF Dist
<1> HIDE DEF Phi
<1> QED BY <1>3, <1>9, <1>10

\* The path there is when the goal is popped.
LEMMA GoalPopped ==
  ASSUME NEW arcs, GraphOK(arcs), NEW source \in Spot, NEW goal \in Spot, NEW S,
         Going(arcs, source, goal, S), NEW e \in S.queue, \A d \in S.queue : e.f <= d.f,
         e.node = goal
  PROVE  Shortest(arcs, source, goal, Append(PathTo(S.explored, e.parent), goal), e.dist)
<1>1. Sound(arcs, source, goal, S, DOMAIN S.explored)
  BY DEF Going
<1>2. IsSearch(S) /\ Tree(arcs, source, goal, S) /\ EntryOK(arcs, source, goal, S, e)
  BY <1>1, SoundIs, Zenon
<1>3. PICK D \in Nat : D = e.dist
  BY <1>2 DEF IsSearch, Entries
<1>4. PICK u \in DOMAIN S.explored : u = e.parent /\ ByArc(arcs, u, goal, Dist(source, S, u), D)
  BY <1>2, <1>3 DEF EntryOK
<1>5. DOMAIN S.explored \subseteq Spot
  BY <1>2 DEF IsSearch
<1>6. PICK p : p = PathTo(S.explored, u) /\ BranchTo(S.explored, u, p)
  <2>1. PICK depth : Depths(S.explored, depth)
    BY <1>2 DEF Tree
  <2> QED BY <2>1, <1>5, PathToIs
<1>7. PICK L \in Nat : L = Len(p) /\ L >= 1 /\ p \in Seq(Spot)
  BY <1>6 DEF BranchTo
<1>8. PICK path : path = Append(p, goal) /\ path \in Seq(Spot) /\ Len(path) = L + 1
                  /\ path[L + 1] = goal /\ \A i \in 1..L : path[i] = p[i]
  <2>1. /\ Append(p, goal) \in Seq(Spot) /\ Len(Append(p, goal)) = L + 1
        /\ Append(p, goal)[L + 1] = goal /\ \A i \in 1..L : Append(p, goal)[i] = p[i]
    BY <1>7
  <2> QED BY <2>1, Zenon
<1>9. \A i \in 1..L : p[i] \in DOMAIN S.explored /\ p[i] \in Spot
  BY <1>5, <1>6, <1>7 DEF BranchTo
<1>10. p[1] = source
  <2>1. S.explored[p[1]] = NoSpot /\ p[1] \in DOMAIN S.explored
    BY <1>6, <1>7, <1>9 DEF BranchTo
  <2>2. NoSpot \notin DOMAIN S.explored
    BY <1>5, RoutingAssumption
  <2> QED BY <2>1, <2>2, <1>2 DEF Tree
<1> DEFINE far == [i \in 1..(L + 1) |-> IF i = L + 1 THEN D ELSE Dist(source, S, p[i])]
<1>11. Labels(arcs, path, far)
  <2>1. far[1] = 0
    BY <1>7, <1>10 DEF Dist
  <2>2. \A i \in 1..L : far[i] = Dist(source, S, p[i])
    OBVIOUS
  <2>3. \A i \in 1..L : Dist(source, S, p[i]) \in Nat
    BY <1>1, <1>9, DistIs
  <2>4. far[L + 1] = D
    OBVIOUS
  <2>5. \A i \in 1..(L + 1) : far[i] \in Nat
    <3> HIDE DEF far
    <3>1. \A i \in 1..(L + 1) : i \in 1..L \/ i = L + 1
      OBVIOUS
    <3> QED BY <3>1, <2>2, <2>3, <2>4, Zenon
  <2>6. ASSUME NEW i \in 1..L
        PROVE  \E a \in DOMAIN arcs : /\ arcs[a].from = path[i] /\ arcs[a].to = path[i + 1]
                                      /\ far[i + 1] = far[i] + arcs[a].weight
    <3>1. CASE i = L
      <4>1. p[i] = u
        BY <3>1, <1>6, <1>7 DEF BranchTo
      <4>2. PICK a \in DOMAIN arcs : arcs[a].from = u /\ arcs[a].to = goal
                                     /\ D = Dist(source, S, u) + arcs[a].weight
        BY <1>4 DEF ByArc
      <4>3. path[i] = u /\ path[i + 1] = goal /\ far[i + 1] = D /\ far[i] = Dist(source, S, u)
        BY <3>1, <4>1, <1>8, <2>2
      <4> HIDE DEF far
      <4> QED BY <4>2, <4>3
    <3>2. CASE i # L
      <4>1. i \in 1..(L - 1) /\ i + 1 \in 1..L
        BY <3>2
      <4>2. p[i] = S.explored[p[i + 1]] /\ p[i + 1] \in DOMAIN S.explored /\ p[i] \in DOMAIN S.explored
        BY <4>1, <1>6, <1>7, <1>9 DEF BranchTo
      <4>3. p[i + 1] # source
        <5>1. NoSpot \notin DOMAIN S.explored
          BY <1>5, RoutingAssumption
        <5> QED BY <4>2, <5>1, <1>2 DEF Tree
      <4>4. ByArc(arcs, p[i], p[i + 1], Dist(source, S, p[i]), S.enqueued[p[i + 1]])
        BY <4>2, <4>3, <1>2 DEF Tree
      <4>5. Dist(source, S, p[i + 1]) = S.enqueued[p[i + 1]]
        BY <4>3 DEF Dist
      <4>6. PICK a \in DOMAIN arcs : arcs[a].from = p[i] /\ arcs[a].to = p[i + 1]
                         /\ Dist(source, S, p[i + 1]) = Dist(source, S, p[i]) + arcs[a].weight
        BY <4>4, <4>5 DEF ByArc
      <4>7. /\ path[i] = p[i] /\ path[i + 1] = p[i + 1]
            /\ far[i] = Dist(source, S, p[i]) /\ far[i + 1] = Dist(source, S, p[i + 1])
        BY <4>1, <1>8, <2>2
      <4> HIDE DEF far
      <4> QED BY <4>6, <4>7
    <3> QED BY <3>1, <3>2
  <2> HIDE DEF far
  <2>7. 1..Len(path) = 1..(L + 1) /\ 1..(Len(path) - 1) = 1..L
    BY <1>8
  <2> QED BY <2>1, <2>5, <2>6, <2>7, Zenon DEF Labels
<1>12. path # <<>> /\ path[1] = source /\ path[Len(path)] = goal /\ far[Len(path)] = D
  BY <1>7, <1>8, <1>10
<1> HIDE DEF far
<1>13. /\ CostOf(arcs, path) = D
       /\ \A i \in 1..(Len(path) - 1) : ArcsFrom(arcs, path[i], path[i + 1]) # {}
  <2>1. path \in Seq(Spot) /\ path # <<>>
    BY <1>8, <1>12
  <2>2. /\ CostOf(arcs, path) = far[Len(path)]
        /\ \A i \in 1..(Len(path) - 1) : ArcsFrom(arcs, path[i], path[i + 1]) # {}
    BY <2>1, <1>11, CostIs, Zenon
  <2> QED BY <2>2, <1>12, Zenon
<1>14. Len(path) <= Cardinality(Spot)
  <2>1. goal \in Spot /\ goal \notin DOMAIN S.explored
    BY <1>2 DEF Tree
  <2>2. IsFiniteSet(DOMAIN S.explored) /\ IsFiniteSet(Spot)
    BY <1>5, FS_Subset, RoutingAssumption
  <2>3. /\ Cardinality(DOMAIN S.explored) \in Nat /\ Cardinality(Spot) \in Nat
        /\ Cardinality(DOMAIN S.explored \cup {goal}) = Cardinality(DOMAIN S.explored) + 1
    <3>1. Cardinality(DOMAIN S.explored) \in Nat /\ Cardinality(Spot) \in Nat
      BY <2>2, FS_CardinalityType
    <3>2. Cardinality(DOMAIN S.explored \cup {goal}) = Cardinality(DOMAIN S.explored) + 1
      BY <2>1, <2>2, FS_AddElement
    <3> QED BY <3>1, <3>2
  <2>4. Cardinality(DOMAIN S.explored \cup {goal}) <= Cardinality(Spot)
    <3>1. DOMAIN S.explored \cup {goal} \subseteq Spot
      BY <1>5
    <3> QED BY <3>1, <2>2, FS_Subset
  <2>5. L <= Cardinality(DOMAIN S.explored)
    BY <1>6, <1>7 DEF BranchTo
  <2> QED BY <2>3, <2>4, <2>5, <1>8
<1>15. <<source, D>> \in WaysTo(arcs, goal)
  <2>1. <<path[1], far[Len(path)]>> \in WaysTo(arcs, goal)
    BY <1>8, <1>11, <1>12, <1>14, PathIsWay
  <2> QED BY <2>1, <1>12
<1>16. \A way \in WaysTo(arcs, goal) : way[1] = source => D <= way[2]
  BY <1>3, NoneShorter
<1>17. Shortest(arcs, source, goal, path, D)
  BY <1>8, <1>12, <1>13, <1>15, <1>16, Zenon DEF Shortest
<1> QED BY <1>3, <1>4, <1>6, <1>8, <1>17, Zenon

\* The arcs that the search has not done with: from a node that is not explored, or in
\* the queue.
InQueue(arcs, S, i) == \E e \in S.queue : e.parent = arcs[i].from /\ e.node = arcs[i].to
Left(arcs, S) == {i \in DOMAIN arcs : arcs[i].from \notin DOMAIN S.explored \/ InQueue(arcs, S, i)}

\* An arc is in the queue once.
LEMMA OnceInQueue ==
  ASSUME NEW arcs, GraphOK(arcs), NEW source \in Spot, NEW goal \in Spot, NEW S,
         Going(arcs, source, goal, S), NEW e \in S.queue, NEW d \in S.queue,
         e.parent = d.parent, e.node = d.node
  PROVE  e = d
<1>1. Sound(arcs, source, goal, S, DOMAIN S.explored)
  BY DEF Going
<1>2. Apart(S) /\ EntryOK(arcs, source, goal, S, e) /\ EntryOK(arcs, source, goal, S, d)
  BY <1>1, SoundIs, Zenon
<1>3. PICK i \in DOMAIN arcs : arcs[i].from = e.parent /\ arcs[i].to = e.node
                               /\ e.dist = Dist(source, S, e.parent) + arcs[i].weight
  BY <1>2 DEF EntryOK, ByArc
<1>4. PICK j \in DOMAIN arcs : arcs[j].from = d.parent /\ arcs[j].to = d.node
                               /\ d.dist = Dist(source, S, d.parent) + arcs[j].weight
  BY <1>2 DEF EntryOK, ByArc
<1>5. i = j
  BY <1>3, <1>4, Zenon DEF GraphOK, OneArcEach
<1>6. e.dist = d.dist
  BY <1>3, <1>4, <1>5, Zenon
<1> QED BY <1>2, <1>6, Zenon DEF Apart

\* A turn of the loop at which the goal is not popped, and that makes the arcs left fewer.
LEMMA TurnKeeps ==
  ASSUME NEW arcs, GraphOK(arcs), NEW source \in Spot, NEW goal \in Spot, NEW S,
         Going(arcs, source, goal, S), S.queue # {}, HeapPop(S.queue).node # goal
  PROVE  /\ Going(arcs, source, goal, Pop(arcs, goal, S))
         /\ \E i \in Left(arcs, S) : Left(arcs, Pop(arcs, goal, S)) \subseteq Left(arcs, S) \ {i}
<1>1. Sound(arcs, source, goal, S, DOMAIN S.explored)
  BY DEF Going
<1>2. IsSearch(S) /\ Apart(S)
  BY <1>1, SoundIs, Zenon
<1>3. PICK e \in S.queue : e = HeapPop(S.queue) /\ \A d \in S.queue : e.f <= d.f
  BY <1>2, HeapPopIs DEF IsSearch, Apart
<1>4. e \in Entries /\ EntryOK(arcs, source, goal, S, e)
  BY <1>3, PoppedIs
<1>5. PICK a \in DOMAIN arcs : arcs[a].from = e.parent /\ arcs[a].to = e.node /\ e.parent \in DOMAIN S.explored
  BY <1>4 DEF EntryOK, ByArc
<1>6. a \in Left(arcs, S)
  BY <1>5 DEF Left, InQueue
<1>7. CASE Done(S, e)
  <2>1. PICK R : R = Without(S, e)
    OBVIOUS
  <2>2. Pop(arcs, goal, S) = R
    BY <1>3, <1>7, <2>1, Zenon DEF Pop, Without
  <2>3. Going(arcs, source, goal, R)
    BY <1>7, <2>1, DoneKeeps
  <2>4. R.queue = S.queue \ {e} /\ R.explored = S.explored
    BY <1>2, <2>1, WithoutIs
  <2>5. Left(arcs, R) \subseteq Left(arcs, S)
    BY <2>4 DEF Left, InQueue
  <2>6. a \notin Left(arcs, R)
    <3>1. ~InQueue(arcs, R, a)
      <4> SUFFICES ASSUME NEW d \in R.queue, d.parent = arcs[a].from, d.node = arcs[a].to PROVE FALSE
        BY DEF InQueue
      <4>1. d \in S.queue /\ d # e
        BY <2>4
      <4>2. d = e
        BY <4>1, <1>5, OnceInQueue
      <4> QED BY <4>1, <4>2
    <3> QED BY <3>1, <1>5, <2>4 DEF Left
  <2> QED BY <1>6, <2>2, <2>3, <2>5, <2>6
<1>8. CASE ~Done(S, e)
  <2>1. e.node \notin DOMAIN S.explored
    <3> SUFFICES ASSUME e.node \in DOMAIN S.explored PROVE FALSE
      OBVIOUS
    <3>1. Tree(arcs, source, goal, S) /\ Stale(source, S)
      BY <1>1, SoundIs, Zenon
    <3>2. CASE e.node = source
      <4>1. S.explored[source] = NoSpot
        BY <3>1 DEF Tree
      <4> QED BY <4>1, <3>2, <1>8, Zenon DEF Done
    <3>3. CASE e.node # source
      <4>1. S.enqueued[e.node] < e.dist
        BY <3>1, <3>3, Zenon DEF Stale
      <4> QED BY <4>1, <1>8, Zenon DEF Done
    <3> QED BY <3>2, <3>3
  <2>2. PICK R : R = Explored(S, e)
    OBVIOUS
  <2>3. AtHand(arcs, source, goal, R, e.node) /\ e.dist = Dist(source, R, e.node)
    BY <1>3, <2>1, <2>2, ExploreKeeps
  <2>4. PICK E : E = Expand(arcs, goal, R, e)
    OBVIOUS
  <2>5. Pop(arcs, goal, S) = E
    <3>1. R = [[S EXCEPT !.queue = @ \ {e}] EXCEPT !.explored = Put(@, e.node, e.parent)]
      <4>1. Without(S, e).explored = S.explored
        BY <1>2, WithoutIs
      <4>2. R = [Without(S, e) EXCEPT !.explored = Put(@, e.node, e.parent)]
        BY <4>1, <2>2, Zenon DEF Explored
      <4> QED BY <4>2, Zenon DEF Without
    <3> QED BY <1>3, <1>8, <2>4, <3>1, Zenon DEF Pop
  <2>6. Going(arcs, source, goal, E)
    BY <2>3, <2>4, ExpandKeeps
  <2>7. e.node \in Spot /\ e.dist \in Nat
    BY <1>4 DEF Entries
  <2>8. IsSearch(R) /\ R.queue = S.queue \ {e} /\ DOMAIN R.explored = DOMAIN S.explored \cup {e.node}
    BY <1>2, <2>2, <2>7, ExploredIs
  <2>9. PICK K : K = Shorter(arcs, R, e)
    OBVIOUS
  <2>10. Expanded(arcs, goal, R, e, E, K)
    BY <2>4, <2>7, <2>8, <2>9, ExpandIs, Zenon
  <2>11. E.queue = (S.queue \ {e}) \cup {Pushed(arcs, goal, R, e, i) : i \in K}
         /\ DOMAIN E.explored = DOMAIN S.explored \cup {e.node}
    BY <2>8, <2>10, Zenon DEF Expanded
  <2>12. ASSUME NEW i \in K PROVE Pushed(arcs, goal, R, e, i).parent = e.node
    BY DEF Pushed
  <2>13. ASSUME NEW d \in E.queue PROVE (d \in S.queue /\ d # e) \/ d.parent = e.node
    BY <2>11, <2>12
  <2>14. ASSUME NEW i \in Left(arcs, E) PROVE i \in Left(arcs, S)
    <3>1. i \in DOMAIN arcs /\ (arcs[i].from \notin DOMAIN E.explored \/ InQueue(arcs, E, i))
      BY DEF Left
    <3>2. CASE arcs[i].from \notin DOMAIN E.explored
      BY <3>1, <3>2, <2>11 DEF Left
    <3>3. CASE InQueue(arcs, E, i)
      <4>1. PICK d \in E.queue : d.parent = arcs[i].from /\ d.node = arcs[i].to
        BY <3>3 DEF InQueue
      <4>2. CASE d \in S.queue
        BY <4>1, <4>2, <3>1 DEF Left, InQueue
      <4>3. CASE d.parent = e.node
        BY <4>1, <4>3, <3>1, <2>1 DEF Left
      <4> QED BY <4>2, <4>3, <2>13
    <3> QED BY <3>1, <3>2, <3>3
  <2>15. a \notin Left(arcs, E)
    <3>1. arcs[a].from \in DOMAIN E.explored
      BY <1>5, <2>11
    <3>2. ~InQueue(arcs, E, a)
      <4> SUFFICES ASSUME NEW d \in E.queue, d.parent = arcs[a].from, d.node = arcs[a].to PROVE FALSE
        BY DEF InQueue
      <4>1. d.parent # e.node
        BY <1>5, <2>1
      <4>2. d \in S.queue /\ d # e
        BY <4>1, <2>13
      <4>3. d = e
        BY <4>2, <1>5, OnceInQueue
      <4> QED BY <4>2, <4>3
    <3> QED BY <3>1, <3>2 DEF Left
  <2> QED BY <1>6, <2>5, <2>6, <2>14, <2>15
<1> QED BY <1>7, <1>8

\* The first turn, at which the source is popped.
LEMMA StartIs ==
  ASSUME NEW arcs, GraphOK(arcs), NEW source \in Spot, NEW goal \in Spot, source # goal
  PROVE  Going(arcs, source, goal, Pop(arcs, goal, StartAt(source)))
<1>1. PICK e : e = [f |-> 0, rank |-> 0, no |-> 0, node |-> source, dist |-> 0, parent |-> NoSpot]
  OBVIOUS
<1>2. PICK S : S = StartAt(source)
  OBVIOUS
<1>3. S = [queue |-> {e}, count |-> 0, enqueued |-> <<>>, explored |-> <<>>, path |-> <<>>]
  BY <1>1, <1>2 DEF StartAt
<1>4. HeapPop(S.queue) = e
  <2>1. HeapPop({e}) \in {e}
    <3>1. \E x \in {e} : \A b \in {e} \ {x} : Before(x, b)
      OBVIOUS
    <3> QED BY <3>1, Zenon DEF HeapPop
  <2> QED BY <2>1, <1>3
<1>5. IsSearch(S)
  <2>1. e \in Entries
    BY <1>1 DEF Entries
  <2> QED BY <2>1, <1>3 DEF IsSearch
<1>6. PICK R : R = Explored(S, e)
  OBVIOUS
<1>7. /\ R.queue = {} /\ R.enqueued = <<>> /\ R.count = 0 /\ R.path = <<>> /\ IsSearch(R)
      /\ DOMAIN R.explored = {source} /\ R.explored[source] = NoSpot
  <2>1. e.node = source /\ e.parent = NoSpot /\ e.node \in Spot
    BY <1>1
  <2>2. /\ R.queue = S.queue \ {e} /\ R.count = S.count /\ R.enqueued = S.enqueued
        /\ R.path = S.path /\ IsSearch(R)
        /\ DOMAIN R.explored = DOMAIN S.explored \cup {e.node} /\ R.explored[e.node] = e.parent
    BY <2>1, <1>5, <1>6, ExploredIs
  <2> QED BY <2>1, <2>2, <1>3
<1>8. Tree(arcs, source, goal, R)
  <2>1. \E depth : Depths(R.explored, depth)
    <3> DEFINE depth == [u \in {source} |-> 0]
    <3>1. Cardinality({source}) = 1
      BY FS_Singleton
    <3>2. Depths(R.explored, depth)
      BY <3>1, <1>7 DEF Depths
    <3> QED BY <3>2
  <2> QED BY <2>1, <1>7 DEF Tree
<1>9. Sound(arcs, source, goal, R, DOMAIN R.explored \ {source})
  <2>1. DOMAIN R.explored \ {source} = {} /\ DOMAIN R.enqueued = {}
    BY <1>7
  <2>2. Relaxed(arcs, source, R, DOMAIN R.explored \ {source})
    BY <2>1 DEF Relaxed
  <2>3. Apart(R) /\ Pending(R) /\ Nearest(source, goal, R) /\ Stale(source, R)
    BY <2>1, <1>7 DEF Apart, Pending, Nearest, Stale
  <2>4. \A d \in R.queue : EntryOK(arcs, source, goal, R, d)
    BY <1>7
  <2> QED BY <2>2, <2>3, <2>4, <1>7, <1>8, Zenon DEF Sound
<1>10. AtHand(arcs, source, goal, R, e.node) /\ e.dist = Dist(source, R, e.node)
  <2>1. e.node = source /\ e.dist = 0 /\ Dist(source, R, source) = 0
    BY <1>1 DEF Dist
  <2>2. Between(source, goal) \in Nat
    BY BetweenIs
  <2>3. AtHand(arcs, source, goal, R, source)
    BY <1>7, <1>9, <2>1, <2>2 DEF AtHand
  <2> QED BY <2>1, <2>3
<1>11. Going(arcs, source, goal, Expand(arcs, goal, R, e))
  BY <1>10, ExpandKeeps
<1>12. Pop(arcs, goal, S) = Expand(arcs, goal, R, e)
  <2>1. ~Done(S, e)
    BY <1>3 DEF Done
  <2>2. e.node # goal
    BY <1>1
  <2>3. R = [[S EXCEPT !.queue = @ \ {e}] EXCEPT !.explored = Put(@, e.node, e.parent)]
    <3>1. Without(S, e).explored = S.explored
      BY <1>5, WithoutIs
    <3>2. R = [Without(S, e) EXCEPT !.explored = Put(@, e.node, e.parent)]
      BY <3>1, <1>6, Zenon DEF Explored
    <3> QED BY <3>2, Zenon DEF Without
  <2> QED BY <1>4, <2>1, <2>2, <2>3, Zenon DEF Pop
<1> QED BY <1>2, <1>11, <1>12

\* From a node to itself.
LEMMA PathFromNowhere == PathTo(<<>>, NoSpot) = <<>>
<1>0. PICK N \in Nat : N = Cardinality(Spot)
  BY FS_CardinalityType, RoutingAssumption, Zenon
<1> DEFINE Value(g, n) == IF n = 0 THEN <<NoSpot>> ELSE Behind(<<>>, g[n - 1])
           Good(g) == g = [n \in 0..N |-> Value(g, n)]
<1>1. Behind(<<>>, <<NoSpot>>) = <<NoSpot>>
  BY DEF Behind
<1>2. \E f : Good(f)
  <2> DEFINE f == [n \in 0..N |-> <<NoSpot>>]
  <2>1. \A n \in 0..N : Value(f, n) = <<NoSpot>>
    <3> TAKE n \in 0..N
    <3>1. CASE n = 0
      BY <3>1
    <3>2. CASE n # 0
      <4>1. n - 1 \in 0..N
        BY <3>2
      <4>2. f[n - 1] = <<NoSpot>>
        BY <4>1
      <4> QED BY <3>2, <4>2, <1>1
    <3> QED BY <3>1, <3>2
  <2>2. Good(f)
    <3> HIDE DEF Value
    <3> QED BY <2>1
  <2> HIDE DEF f, Good
  <2> QED BY <2>2
<1> DEFINE path == CHOOSE g : Good(g)
<1>3. Good(path)
  <2> HIDE DEF Good
  <2> QED BY <1>2
<1>4. PathTo(<<>>, NoSpot) = Tail(path[N])
  BY <1>0 DEF PathTo
<1> HIDE DEF path
<1>5. \A n \in 0..N : path[n] = Value(path, n)
  <2> HIDE DEF Value
  <2> QED BY <1>3
<1> DEFINE T == {n \in 0..N : path[n] = <<NoSpot>>}
<1>6. 0 \in T
  BY <1>5
<1>7. ASSUME NEW n \in 0..(N - 1), n \in T PROVE n + 1 \in T
  <2>1. path[n] = <<NoSpot>> /\ n + 1 \in 0..N /\ n + 1 # 0 /\ (n + 1) - 1 = n
    BY <1>7
  <2>2. path[n + 1] = Value(path, n + 1)
    BY <2>1, <1>5, Zenon
  <2>3. path[n + 1] = Behind(<<>>, path[n])
    BY <2>1, <2>2, Zenon
  <2> QED BY <2>1, <2>3, <1>1
<1>8. N \in T
  <2> HIDE DEF T
  <2>1. \A n \in 0..N : n \in T
    BY <1>6, <1>7, InductionTo
  <2> QED BY <2>1
<1>9. path[N] = <<NoSpot>>
  BY <1>8
<1>10. Tail(<<NoSpot>>) = <<>>
  OBVIOUS
<1> QED BY <1>4, <1>9, <1>10, Zenon

LEMMA StayIs ==
  ASSUME NEW arcs, GraphOK(arcs), NEW goal \in Spot
  PROVE  Shortest(arcs, goal, goal, Pop(arcs, goal, StartAt(goal)).path, 0)
         /\ Pop(arcs, goal, StartAt(goal)).path # <<>>
<1>1. PICK e : e = [f |-> 0, rank |-> 0, no |-> 0, node |-> goal, dist |-> 0, parent |-> NoSpot]
  OBVIOUS
<1>2. PICK S : S = StartAt(goal)
  OBVIOUS
<1>3. S = [queue |-> {e}, count |-> 0, enqueued |-> <<>>, explored |-> <<>>, path |-> <<>>]
  BY <1>1, <1>2 DEF StartAt
<1>4. HeapPop(S.queue) = e
  <2>1. HeapPop({e}) \in {e}
    <3>1. \E x \in {e} : \A b \in {e} \ {x} : Before(x, b)
      OBVIOUS
    <3> QED BY <3>1, Zenon DEF HeapPop
  <2> QED BY <2>1, <1>3
<1>5. PathTo(S.explored, e.parent) = <<>>
  BY <1>1, <1>3, PathFromNowhere
<1>6. Pop(arcs, goal, S).path = <<goal>>
  <2>1. e.node = goal
    BY <1>1
  <2>2. Pop(arcs, goal, S) = [[S EXCEPT !.queue = @ \ {e}] EXCEPT
                                !.path = Append(PathTo(S.explored, e.parent), goal)]
    BY <1>4, <2>1, Zenon DEF Pop
  <2>3. Pop(arcs, goal, S) = [[S EXCEPT !.queue = @ \ {e}] EXCEPT !.path = Append(<<>>, goal)]
    BY <2>2, <1>5, Zenon
  <2> QED BY <2>3, <1>3
<1>7. PICK path : path = <<goal>> /\ path \in Seq(Spot) /\ Len(path) = 1 /\ path[1] = goal /\ path # <<>>
  <2>1. <<goal>> \in Seq(Spot) /\ Len(<<goal>>) = 1 /\ <<goal>>[1] = goal /\ <<goal>> # <<>>
    OBVIOUS
  <2> QED BY <2>1, Zenon
<1> DEFINE far == [i \in 1..1 |-> 0]
<1>8. Labels(arcs, path, far) /\ far[Len(path)] = 0
  BY <1>7 DEF Labels
<1> HIDE DEF far
<1>9. /\ CostOf(arcs, path) = 0
      /\ \A i \in 1..(Len(path) - 1) : ArcsFrom(arcs, path[i], path[i + 1]) # {}
  <2>1. /\ CostOf(arcs, path) = far[Len(path)]
        /\ \A i \in 1..(Len(path) - 1) : ArcsFrom(arcs, path[i], path[i + 1]) # {}
    <3>1. path \in Seq(Spot) /\ path # <<>>
      BY <1>7
    <3>2. Labels(arcs, path, far)
      BY <1>8
    <3> QED BY <3>1, <3>2, CostIs, Zenon
  <2> QED BY <2>1, <1>8, Zenon
<1>10. <<goal, 0>> \in WaysTo(arcs, goal)
  <2>1. Len(path) <= Cardinality(Spot)
    <3>1. Cardinality({goal}) = 1 /\ {goal} \subseteq Spot
      BY FS_Singleton
    <3>2. Cardinality({goal}) <= Cardinality(Spot)
      BY <3>1, FS_Subset, RoutingAssumption
    <3> QED BY <3>1, <3>2, <1>7
  <2>2. path[Len(path)] = goal
    BY <1>7
  <2>3. <<path[1], far[Len(path)]>> \in WaysTo(arcs, goal)
    <3>1. path \in Seq(Spot) /\ path # <<>>
      BY <1>7
    <3>2. Labels(arcs, path, far)
      BY <1>8
    <3> QED BY <2>1, <2>2, <3>1, <3>2, PathIsWay, Zenon
  <2> QED BY <2>3, <1>7, <1>8
<1>11. \A way \in WaysTo(arcs, goal) : way[1] = goal => 0 <= way[2]
  BY WaysInNat
<1>12. path[Len(path)] = goal /\ 0 \in Nat
  BY <1>7
<1>13. Shortest(arcs, goal, goal, path, 0)
  BY <1>7, <1>9, <1>10, <1>11, <1>12, Zenon DEF Shortest
<1> QED BY <1>2, <1>6, <1>7, <1>13, Zenon

-----------------------------------------------------------------------------
(* The loop *)

\* Where the search is after n turns.
Turned(arcs, source, goal, n, S) ==
    \/ n = 0 /\ S = StartAt(source)
    \/ S.path # <<>> /\ Answered(arcs, source, goal, S.path)
    \/ /\ Going(arcs, source, goal, S)
       /\ S.queue = {} \/ Cardinality(Left(arcs, S)) + n <= Len(arcs) + 1

AfterTurn(arcs, goal, S) == IF Ended(S) THEN S ELSE Pop(arcs, goal, S)

LEMMA LeftIs ==
  ASSUME NEW arcs, GraphOK(arcs), NEW S
  PROVE  /\ IsFiniteSet(Left(arcs, S)) /\ Cardinality(Left(arcs, S)) \in Nat
         /\ Cardinality(Left(arcs, S)) <= Len(arcs)
<1>1. DOMAIN arcs = 1..Len(arcs) /\ Len(arcs) \in Nat
  BY DEF GraphOK
<1>2. IsFiniteSet(1..Len(arcs)) /\ Cardinality(1..Len(arcs)) = Len(arcs)
  <2>1. PICK L \in Nat : L = Len(arcs)
    BY <1>1
  <2>2. IsFiniteSet(1..L) /\ Cardinality(1..L) = IF 1 > L THEN 0 ELSE L - 1 + 1
    BY FS_Interval
  <2> QED BY <2>1, <2>2
<1>3. Left(arcs, S) \subseteq 1..Len(arcs)
  BY <1>1 DEF Left
<1>4. IsFiniteSet(Left(arcs, S)) /\ Cardinality(Left(arcs, S)) <= Cardinality(1..Len(arcs))
  BY <1>2, <1>3, FS_Subset
<1> QED BY <1>2, <1>4, FS_CardinalityType

LEMMA TurnIs ==
  ASSUME NEW arcs, GraphOK(arcs), NEW source \in Spot, NEW goal \in Spot, NEW n \in Nat, NEW S,
         Turned(arcs, source, goal, n, S)
  PROVE  Turned(arcs, source, goal, n + 1, AfterTurn(arcs, goal, S))
<1>0. Len(arcs) \in Nat
  BY DEF GraphOK
<1>1. CASE n = 0 /\ S = StartAt(source)
  <2>1. AfterTurn(arcs, goal, S) = Pop(arcs, goal, S)
    <3>1. S.queue # {} /\ S.path = <<>>
      BY <1>1 DEF StartAt
    <3> QED BY <3>1 DEF AfterTurn, Ended
  <2>2. CASE source = goal
    <3>1. Shortest(arcs, goal, goal, Pop(arcs, goal, S).path, 0) /\ Pop(arcs, goal, S).path # <<>>
      BY <1>1, <2>2, StayIs, Zenon
    <3> QED BY <2>1, <2>2, <3>1, Zenon DEF Turned, Answered
  <2>3. CASE source # goal
    <3>1. Going(arcs, source, goal, Pop(arcs, goal, S))
      BY <1>1, <2>3, StartIs, Zenon
    <3>2. Cardinality(Left(arcs, Pop(arcs, goal, S))) + (n + 1) <= Len(arcs) + 1
      <4>1. PICK c \in Nat : c = Cardinality(Left(arcs, Pop(arcs, goal, S))) /\ c <= Len(arcs)
        BY LeftIs
      <4> QED BY <4>1, <1>0, <1>1
    <3> QED BY <2>1, <3>1, <3>2, Zenon DEF Turned
  <2> QED BY <2>2, <2>3
<1>2. CASE S.path # <<>> /\ Answered(arcs, source, goal, S.path)
  BY <1>2, Zenon DEF AfterTurn, Ended, Turned
<1>3. CASE Going(arcs, source, goal, S) /\ S.queue = {}
  BY <1>3, Zenon DEF AfterTurn, Ended, Turned
<1>4. CASE /\ Going(arcs, source, goal, S) /\ S.queue # {}
           /\ Cardinality(Left(arcs, S)) + n <= Len(arcs) + 1
  <2>1. Sound(arcs, source, goal, S, DOMAIN S.explored)
    BY <1>4 DEF Going
  <2>2. S.path = <<>> /\ IsSearch(S) /\ Apart(S)
    BY <2>1, SoundIs, Zenon
  <2>3. AfterTurn(arcs, goal, S) = Pop(arcs, goal, S)
    BY <1>4, <2>2 DEF AfterTurn, Ended
  <2>4. CASE HeapPop(S.queue).node = goal
    <3>1. PICK e \in S.queue : e = HeapPop(S.queue) /\ \A d \in S.queue : e.f <= d.f
      BY <1>4, <2>2, HeapPopIs DEF IsSearch, Apart
    <3>2. PICK p : p = Append(PathTo(S.explored, e.parent), goal)
      OBVIOUS
    <3>3. Shortest(arcs, source, goal, p, e.dist)
      BY <1>4, <2>4, <3>1, <3>2, GoalPopped
    <3>4. Pop(arcs, goal, S) = [[S EXCEPT !.queue = @ \ {e}] EXCEPT !.path = p]
      BY <2>4, <3>1, <3>2, Zenon DEF Pop
    <3>5. Pop(arcs, goal, S).path = p
      BY <2>2, <3>4 DEF IsSearch
    <3>6. p # <<>>
      BY <3>3, Zenon DEF Shortest
    <3> QED BY <2>3, <3>3, <3>5, <3>6, Zenon DEF Turned, Answered
  <2>5. CASE HeapPop(S.queue).node # goal
    <3>1. PICK R : R = Pop(arcs, goal, S) /\ Going(arcs, source, goal, R)
                   /\ \E i \in Left(arcs, S) : Left(arcs, R) \subseteq Left(arcs, S) \ {i}
      BY <1>4, <2>5, TurnKeeps, Zenon
    <3>2. PICK i \in Left(arcs, S) : Left(arcs, R) \subseteq Left(arcs, S) \ {i}
      BY <3>1, Zenon
    <3>3. PICK A : A = Left(arcs, S) \ {i}
      OBVIOUS
    <3>4. IsFiniteSet(A) /\ Cardinality(A) = Cardinality(Left(arcs, S)) - 1
      BY <3>3, LeftIs, FS_RemoveElement
    <3>5. Cardinality(Left(arcs, R)) <= Cardinality(A)
      BY <3>2, <3>3, <3>4, FS_Subset
    <3>6. PICK c \in Nat, d \in Nat : c = Cardinality(Left(arcs, R)) /\ d = Cardinality(Left(arcs, S))
      BY LeftIs
    <3>7. c <= d - 1 /\ d + n <= Len(arcs) + 1
      BY <1>4, <3>4, <3>5, <3>6
    <3>8. c + (n + 1) <= Len(arcs) + 1
      BY <3>6, <3>7, <1>0
    <3>9. Cardinality(Left(arcs, R)) + (n + 1) <= Len(arcs) + 1
      BY <3>6, <3>8, Zenon
    <3> QED BY <2>3, <3>1, <3>9, Zenon DEF Turned
  <2> QED BY <2>4, <2>5
<1> QED BY <1>1, <1>2, <1>3, <1>4, Zenon DEF Turned

\* What the search answers: a shortest way, or nothing if there is none.
LEMMA AstarIs ==
  ASSUME NEW arcs, GraphOK(arcs), NEW source \in Spot, NEW goal \in Spot
  PROVE  IF AstarPath(arcs, source, goal) = <<>> THEN NoWay(arcs, source, goal)
         ELSE Answered(arcs, source, goal, AstarPath(arcs, source, goal))
<1>0. PICK N \in Nat : N = Len(arcs) + 1
  BY DEF GraphOK
<1> DEFINE Value(g, n) == IF n = 0 THEN StartAt(source)
                          ELSE IF Ended(g[n - 1]) THEN g[n - 1] ELSE Pop(arcs, goal, g[n - 1])
           Good(g) == g = [n \in 0..N |-> Value(g, n)]
<1>1. \E f : Good(f)
  <2> DEFINE Fits(f, m) == /\ f = [n \in 0..m |-> f[n]] /\ f[0] = StartAt(source)
                           /\ \A n \in 1..m : f[n] = AfterTurn(arcs, goal, f[n - 1])
             T == {m \in 0..N : \E f : Fits(f, m)}
  <2>1. 0 \in T
    <3> DEFINE f == [n \in 0..0 |-> StartAt(source)]
    <3>1. Fits(f, 0)
      OBVIOUS
    <3> HIDE DEF Fits, f
    <3> QED BY <3>1
  <2>2. ASSUME NEW m \in 0..(N - 1), m \in T PROVE m + 1 \in T
    <3>1. PICK f : Fits(f, m)
      BY <2>2
    <3> DEFINE g == [n \in 0..(m + 1) |-> IF n = m + 1 THEN AfterTurn(arcs, goal, f[m]) ELSE f[n]]
    <3>2. Fits(g, m + 1)
      <4>1. g[0] = StartAt(source) /\ g = [n \in 0..(m + 1) |-> g[n]]
        BY <3>1
      <4>2. ASSUME NEW n \in 1..(m + 1) PROVE g[n] = AfterTurn(arcs, goal, g[n - 1])
        <5>1. CASE n = m + 1
          BY <5>1
        <5>2. CASE n # m + 1
          <6>1. n \in 1..m /\ g[n] = f[n] /\ g[n - 1] = f[n - 1]
            BY <5>2
          <6> QED BY <6>1, <3>1, Zenon
        <5> QED BY <5>1, <5>2
      <4> HIDE DEF g
      <4> QED BY <4>1, <4>2
    <3> HIDE DEF Fits, g
    <3> QED BY <3>2
  <2>3. N \in T
    <3> HIDE DEF T
    <3>1. \A n \in 0..N : n \in T
      BY <2>1, <2>2, InductionTo
    <3> QED BY <3>1
  <2>4. PICK f : Fits(f, N)
    BY <2>3
  <2>5. \A n \in 0..N : f[n] = Value(f, n)
    <3> TAKE n \in 0..N
    <3>1. CASE n = 0
      BY <3>1, <2>4
    <3>2. CASE n # 0
      <4>1. n \in 1..N
        BY <3>2
      <4>2. f[n] = AfterTurn(arcs, goal, f[n - 1])
        BY <4>1, <2>4, Zenon
      <4> QED BY <3>2, <4>2, Zenon DEF AfterTurn
    <3> QED BY <3>1, <3>2
  <2>6. Good(f)
    <3>1. f = [n \in 0..N |-> f[n]]
      BY <2>4
    <3> HIDE DEF Value, Fits
    <3> QED BY <3>1, <2>5
  <2> HIDE DEF Good
  <2> QED BY <2>6
<1> DEFINE search == CHOOSE g : Good(g)
<1>2. Good(search)
  <2> HIDE DEF Good
  <2> QED BY <1>1
<1>3. AstarPath(arcs, source, goal) = search[N].path
  BY <1>0, Zenon DEF AstarPath
<1> HIDE DEF search
<1>4. \A n \in 0..N : search[n] = Value(search, n)
  <2> HIDE DEF Value
  <2> QED BY <1>2
<1> DEFINE T == {n \in 0..N : Turned(arcs, source, goal, n, search[n])}
<1>5. 0 \in T
  <2>1. search[0] = StartAt(source)
    BY <1>4
  <2> QED BY <2>1 DEF Turned
<1>6. ASSUME NEW n \in 0..(N - 1), n \in T PROVE n + 1 \in T
  <2>1. n + 1 \in 0..N /\ n + 1 # 0 /\ (n + 1) - 1 = n /\ n \in Nat
    OBVIOUS
  <2>2. search[n + 1] = Value(search, n + 1)
    BY <2>1, <1>4, Zenon
  <2>3. search[n + 1] = AfterTurn(arcs, goal, search[n])
    BY <2>1, <2>2, Zenon DEF AfterTurn
  <2>4. Turned(arcs, source, goal, n + 1, AfterTurn(arcs, goal, search[n]))
    BY <1>6, <2>1, TurnIs
  <2> QED BY <2>1, <2>3, <2>4
<1>7. N \in T
  <2> HIDE DEF T
  <2>1. \A n \in 0..N : n \in T
    BY <1>5, <1>6, InductionTo
  <2> QED BY <2>1
<1>8. PICK S : S = search[N] /\ Turned(arcs, source, goal, N, S)
  BY <1>7
<1>9. CASE S.path # <<>> /\ Answered(arcs, source, goal, S.path)
  BY <1>3, <1>8, <1>9
<1>10. CASE /\ Going(arcs, source, goal, S)
            /\ S.queue = {} \/ Cardinality(Left(arcs, S)) + N <= Len(arcs) + 1
  <2>1. Sound(arcs, source, goal, S, DOMAIN S.explored)
    BY <1>10 DEF Going
  <2>2. S.path = <<>> /\ \A e \in S.queue : EntryOK(arcs, source, goal, S, e)
    BY <2>1, SoundIs, Zenon
  <2>3. S.queue = {}
    <3> SUFFICES ASSUME S.queue # {} PROVE FALSE
      OBVIOUS
    <3>1. PICK c \in Nat : c = Cardinality(Left(arcs, S))
      BY LeftIs
    <3>2. c = 0
      BY <3>1, <1>0, <1>10
    <3>3. Left(arcs, S) = {}
      BY <3>1, <3>2, LeftIs, FS_EmptySet
    <3>4. PICK e \in S.queue : EntryOK(arcs, source, goal, S, e)
      BY <2>2
    <3>5. PICK i \in DOMAIN arcs : arcs[i].from = e.parent /\ arcs[i].to = e.node
      BY <3>4 DEF EntryOK, ByArc
    <3>6. i \in Left(arcs, S)
      BY <3>5 DEF Left, InQueue
    <3> QED BY <3>3, <3>6
  <2>4. NoWay(arcs, source, goal)
    BY <1>10, <2>3, NothingLeft
  <2> QED BY <1>3, <1>8, <2>2, <2>4
<1>11. N # 0
  BY <1>0 DEF GraphOK
<1> QED BY <1>8, <1>9, <1>10, <1>11 DEF Turned

-----------------------------------------------------------------------------
(* Lines and their steps *)

\* A sequence of points of the hall.
LineOK(points) ==
    /\ points \in Seq(Point) /\ Len(points) >= 1
    /\ \A i \in 1..Len(points) : InHall(points[i])

GoOn == [turn : {"straight"}, distance : Nat, arrive : {FALSE}]
TurnOff == [turn : {"left", "right"}, distance : {-1}, arrive : {FALSE}]
GoStep == GoOn \cup TurnOff
Step == GoStep \cup {ArriveStep}

\* How far along a line its points are.
CumHolds(points, far) ==
    /\ DOMAIN far = 1..Len(points) /\ far[1] = 0
    /\ \A i \in 1..Len(points) : far[i] \in Nat
    /\ \A i \in 1..(Len(points) - 1) :
         far[i + 1] = far[i] + Euclid(points[i], points[i + 1])

LEMMA CumIs ==
  ASSUME NEW points, LineOK(points)
  PROVE  CumHolds(points, CumOf(points)) /\ PolyLength(points) = CumOf(points)[Len(points)]
<1>0. PICK N \in Nat : Len(points) = N + 1 /\ N = Len(points) - 1
  <2>1. Len(points) - 1 \in Nat /\ Len(points) = (Len(points) - 1) + 1
    BY DEF LineOK
  <2> QED BY <2>1
<1> DEFINE legs == [i \in 1..N |-> Euclid(points[i], points[i + 1])]
<1>1. ASSUME NEW i \in 1..N PROVE legs[i] \in Nat
  <2>1. i \in 1..Len(points) /\ i + 1 \in 1..Len(points)
    BY <1>0
  <2>2. InHall(points[i]) /\ InHall(points[i + 1])
    BY <2>1 DEF LineOK
  <2> QED BY <2>2, EuclidIs, RoutingAssumption
<1>2. legs \in [1..N -> Nat] /\ Len(legs) = N
  BY <1>1
<1>3. CumOf(points) = [i \in DOMAIN points |-> Sums(legs)[i - 1]]
  BY <1>0, Zenon DEF CumOf
<1>4. \A i \in 1..N : legs[i] = Euclid(points[i], points[i + 1])
  OBVIOUS
<1> HIDE DEF legs
<1>5. /\ Sums(legs)[0] = 0
      /\ \A n \in 1..N : Sums(legs)[n] = Sums(legs)[n - 1] + legs[n]
      /\ \A n \in 0..N : Sums(legs)[n] \in Nat
  BY <1>2, SumsIs
<1>6. DOMAIN points = 1..(N + 1)
  BY <1>0 DEF LineOK
<1>7. PICK far : far = CumOf(points)
  OBVIOUS
<1>8. DOMAIN far = 1..(N + 1) /\ \A i \in 1..(N + 1) : far[i] = Sums(legs)[i - 1]
  BY <1>3, <1>6, <1>7
<1>9. far[1] = 0
  BY <1>5, <1>8
<1>10. ASSUME NEW i \in 1..(N + 1) PROVE far[i] \in Nat
  <2>1. i - 1 \in 0..N /\ far[i] = Sums(legs)[i - 1]
    BY <1>8
  <2> QED BY <2>1, <1>5, Zenon
<1>11. ASSUME NEW i \in 1..N PROVE far[i + 1] = far[i] + Euclid(points[i], points[i + 1])
  <2>1. far[i + 1] = Sums(legs)[i] /\ far[i] = Sums(legs)[i - 1]
    BY <1>8
  <2> QED BY <2>1, <1>4, <1>5
<1>12. CumHolds(points, far)
  BY <1>0, <1>8, <1>9, <1>10, <1>11, Zenon DEF CumHolds
<1> QED BY <1>7, <1>12, Zenon DEF PolyLength

\* One more number does not change the sums of those before.
LEMMA SumsGrow ==
  ASSUME NEW N \in Nat, NEW few \in [1..N -> Nat], Len(few) = N,
         NEW more \in [1..(N + 1) -> Nat], Len(more) = N + 1, \A i \in 1..N : more[i] = few[i]
  PROVE  Sums(more)[N + 1] = Sums(few)[N] + more[N + 1]
<1>1. /\ Sums(few)[0] = 0
      /\ \A n \in 1..N : Sums(few)[n] = Sums(few)[n - 1] + few[n]
  BY SumsIs
<1>2. /\ Sums(more)[0] = 0
      /\ \A n \in 1..(N + 1) : Sums(more)[n] = Sums(more)[n - 1] + more[n]
  <2>1. N + 1 \in Nat
    OBVIOUS
  <2> QED BY <2>1, SumsIs
<1> DEFINE T == {n \in 0..N : Sums(more)[n] = Sums(few)[n]}
<1>3. 0 \in T
  BY <1>1, <1>2
<1>4. ASSUME NEW n \in 0..(N - 1), n \in T PROVE n + 1 \in T
  <2>1. n + 1 \in 1..N /\ n + 1 \in 1..(N + 1) /\ (n + 1) - 1 = n
    OBVIOUS
  <2>2. Sums(few)[n + 1] = Sums(few)[n] + few[n + 1] /\ Sums(more)[n + 1] = Sums(more)[n] + more[n + 1]
    BY <2>1, <1>1, <1>2
  <2>3. Sums(more)[n] = Sums(few)[n] /\ more[n + 1] = few[n + 1]
    BY <1>4, <2>1
  <2>4. Sums(more)[n + 1] = Sums(few)[n + 1]
    BY <2>2, <2>3, Zenon
  <2> QED BY <2>1, <2>4
<1>5. N \in T
  <2> HIDE DEF T
  <2>1. \A n \in 0..N : n \in T
    BY <1>3, <1>4, InductionTo
  <2> QED BY <2>1
<1>6. N + 1 \in 1..(N + 1) /\ (N + 1) - 1 = N
  OBVIOUS
<1>7. Sums(more)[N + 1] = Sums(more)[N] + more[N + 1]
  BY <1>2, <1>6
<1> QED BY <1>5, <1>7

\* How far a step leads straight on.
Ahead(st) == IF st.turn = "straight" THEN st.distance ELSE 0

LEMMA AheadIs == \A st \in Step : Ahead(st) \in Nat
<1> SUFFICES ASSUME NEW st \in Step PROVE Ahead(st) \in Nat
  OBVIOUS
<1>1. CASE st \in GoOn
  BY <1>1 DEF GoOn, Ahead
<1>2. CASE st \in TurnOff
  <2>1. st.turn # "straight"
    BY <1>2 DEF TurnOff
  <2> QED BY <2>1 DEF Ahead
<1>3. CASE st = ArriveStep
  BY <1>3 DEF ArriveStep, Ahead
<1> QED BY <1>1, <1>2, <1>3 DEF Step, GoStep

LEMMA StraightIs ==
  ASSUME NEW run \in Nat
  PROVE  StraightStep(run) \in GoStep /\ Ahead(StraightStep(run)) = run
<1>1. StraightStep(run) \in GoOn
  BY DEF StraightStep, GoOn
<1>2. StraightStep(run).turn = "straight" /\ StraightStep(run).distance = run
  BY DEF StraightStep
<1> QED BY <1>1, <1>2 DEF GoStep, Ahead

LEMMA CornerIs ==
  ASSUME NEW turn \in {"left", "right"}
  PROVE  TurnStep(turn) \in GoStep /\ Ahead(TurnStep(turn)) = 0
<1>1. TurnStep(turn) \in TurnOff
  BY DEF TurnStep, TurnOff
<1>2. TurnStep(turn).turn # "straight"
  BY DEF TurnStep
<1> QED BY <1>1, <1>2 DEF GoStep, Ahead

LEMMA StraightsOf ==
  ASSUME NEW made \in Seq(Step)
  PROVE  /\ Straights(made) = Sums([i \in 1..Len(made) |-> Ahead(made[i])])[Len(made)]
         /\ [i \in 1..Len(made) |-> Ahead(made[i])] \in [1..Len(made) -> Nat]
         /\ Straights(made) \in Nat
<1>1. Len(made) \in Nat /\ DOMAIN made = 1..Len(made) /\ \A i \in 1..Len(made) : made[i] \in Step
  OBVIOUS
<1> DEFINE few == [i \in 1..Len(made) |-> Ahead(made[i])]
<1>2. few = [i \in DOMAIN made |-> IF made[i].turn = "straight" THEN made[i].distance ELSE 0]
  BY <1>1 DEF Ahead
<1>3. few \in [1..Len(made) -> Nat] /\ Len(few) = Len(made)
  BY <1>1, AheadIs
<1>4. Straights(made) = Sums(few)[Len(made)]
  BY <1>2, Zenon DEF Straights
<1> HIDE DEF few
<1>5. Sums(few)[Len(made)] \in Nat
  <2>1. \A n \in 0..Len(made) : Sums(few)[n] \in Nat
    BY <1>1, <1>3, SumsIs
  <2> QED BY <2>1, <1>1
<1> QED BY <1>3, <1>4, <1>5 DEF few

LEMMA NoStraights == Straights(<<>>) = 0
<1>1. <<>> \in Seq(Step) /\ Len(<<>>) = 0
  OBVIOUS
<1> DEFINE few == [i \in 1..Len(<<>>) |-> Ahead(<<>>[i])]
<1>2. Straights(<<>>) = Sums(few)[0]
  BY <1>1, StraightsOf
<1>3. few \in [1..0 -> Nat] /\ Len(few) = 0
  <2>1. few \in [1..Len(<<>>) -> Nat]
    BY <1>1, StraightsOf
  <2>2. Len(few) = 0
    OBVIOUS
  <2> QED BY <2>1, <2>2, <1>1
<1> HIDE DEF few
<1>4. Sums(few)[0] = 0
  <2>1. 0 \in Nat
    OBVIOUS
  <2> QED BY <1>3, <2>1, SumsIs, Zenon
<1> QED BY <1>2, <1>4

LEMMA StraightsAppend ==
  ASSUME NEW made \in Seq(Step), NEW st \in Step
  PROVE  Straights(Append(made, st)) = Straights(made) + Ahead(st)
<1>1. PICK N \in Nat : N = Len(made)
  OBVIOUS
<1>2. PICK all : all = Append(made, st) /\ all \in Seq(Step) /\ Len(all) = N + 1
                 /\ all[N + 1] = st /\ \A i \in 1..N : all[i] = made[i]
  <2>1. /\ Append(made, st) \in Seq(Step) /\ Len(Append(made, st)) = N + 1
        /\ Append(made, st)[N + 1] = st /\ \A i \in 1..N : Append(made, st)[i] = made[i]
    BY <1>1
  <2> QED BY <2>1, Zenon
<1> DEFINE few == [i \in 1..N |-> Ahead(made[i])]
           more == [i \in 1..(N + 1) |-> Ahead(all[i])]
<1>3. Straights(made) = Sums(few)[N] /\ few \in [1..N -> Nat]
  BY <1>1, StraightsOf
<1>4. Straights(all) = Sums(more)[N + 1] /\ more \in [1..(N + 1) -> Nat]
  BY <1>2, StraightsOf
<1>5. Len(few) = N /\ Len(more) = N + 1
  OBVIOUS
<1>6. \A i \in 1..N : more[i] = few[i]
  BY <1>2
<1>7. more[N + 1] = Ahead(st)
  BY <1>2
<1> HIDE DEF few, more
<1>8. Sums(more)[N + 1] = Sums(few)[N] + more[N + 1]
  BY <1>3, <1>4, <1>5, <1>6, SumsGrow
<1> QED BY <1>2, <1>3, <1>4, <1>7, <1>8

-----------------------------------------------------------------------------

Made == [run : Nat, steps : Seq(GoStep)]

LEMMA TurnIs2 == \A d, e : Turn(d, e) \in {"none", "left", "right"}
BY DEF Turn

\* What a leg adds.
LEMMA AddLegIs ==
  ASSUME NEW points, LineOK(points), NEW n \in 1..(Len(points) - 1), NEW made \in Made
  PROVE  /\ AddLeg(points, made, n) \in Made
         /\ Straights(AddLeg(points, made, n).steps) + AddLeg(points, made, n).run
              = Straights(made.steps) + made.run + Euclid(points[n], points[n + 1])
<1>1. InHall(points[n]) /\ InHall(points[n + 1])
  BY DEF LineOK
<1>2. PICK d \in Nat : d = Euclid(points[n], points[n + 1])
  BY <1>1, EuclidIs, RoutingAssumption
<1>3. PICK run \in Nat : run = made.run + d
  BY DEF Made
<1>4. PICK turn \in {"none", "left", "right"} :
        turn = IF n + 1 < Len(points) THEN Turn(Headings(points)[n], Headings(points)[n + 1]) ELSE "none"
  BY TurnIs2
<1>5. made.steps \in Seq(GoStep) /\ made.run \in Nat /\ made = [run |-> made.run, steps |-> made.steps]
  BY DEF Made
<1>6. made.steps \in Seq(Step)
  BY <1>5 DEF Step
<1>7. PICK x \in Nat : x = Straights(made.steps)
  BY <1>6, StraightsOf
<1>8. CASE turn = "none"
  <2>1. AddLeg(points, made, n) = [made EXCEPT !.run = run]
    BY <1>2, <1>3, <1>4, <1>8, Zenon DEF AddLeg
  <2>2. AddLeg(points, made, n) = [run |-> run, steps |-> made.steps]
    BY <2>1, <1>5
  <2> QED BY <2>2, <1>2, <1>3, <1>5, <1>7 DEF Made
<1>9. CASE turn # "none"
  <2>1. AddLeg(points, made, n) = [run |-> 0, steps |-> made.steps \o <<StraightStep(run), TurnStep(turn)>>]
    BY <1>2, <1>3, <1>4, <1>9, Zenon DEF AddLeg
  <2>2. PICK a \in GoStep, b \in GoStep : a = StraightStep(run) /\ b = TurnStep(turn) /\ Ahead(a) = run /\ Ahead(b) = 0
    <3>1. turn \in {"left", "right"}
      BY <1>9
    <3>2. StraightStep(run) \in GoStep /\ Ahead(StraightStep(run)) = run
      BY StraightIs
    <3>3. TurnStep(turn) \in GoStep /\ Ahead(TurnStep(turn)) = 0
      BY <3>1, CornerIs
    <3> QED BY <3>2, <3>3, Zenon
  <2>3. PICK more \in Seq(GoStep) : more = Append(made.steps, a)
    <3>1. Append(made.steps, a) \in Seq(GoStep)
      BY <1>5
    <3> QED BY <3>1, Zenon
  <2>4. PICK much \in Seq(GoStep) : much = Append(more, b)
    <3>1. Append(more, b) \in Seq(GoStep)
      OBVIOUS
    <3> QED BY <3>1, Zenon
  <2>5. made.steps \o <<a, b>> = much
    BY <1>5, <2>3, <2>4
  <2>6. Straights(more) = x + run
    BY <1>6, <1>7, <2>2, <2>3, StraightsAppend DEF Step
  <2>7. more \in Seq(Step) /\ b \in Step
    BY DEF Step
  <2>8. Straights(much) = Straights(more) + Ahead(b)
    BY <2>7, <2>4, StraightsAppend
  <2>9. AddLeg(points, made, n) = [run |-> 0, steps |-> much]
    BY <2>1, <2>2, <2>5, Zenon
  <2>10. Straights(much) + 0 = x + made.run + d
    BY <2>2, <2>6, <2>8, <1>3, <1>5
  <2> QED BY <2>9, <2>10, <1>2, <1>7 DEF Made
<1> QED BY <1>8, <1>9

\* The steps made lead as far as the legs, but for what is not turned into a step yet.
LegsHold(points, heading, far, made) ==
    \A n \in 0..(Len(points) - 1) :
      made[n] \in Made /\ Straights(made[n].steps) + made[n].run = far[n + 1]

LEMMA LegsAre ==
  ASSUME NEW points, LineOK(points), NEW heading, NEW far, CumHolds(points, far)
  PROVE  LegsHold(points, heading, far, LegsMade(points, heading))
<1>0. PICK N \in Nat : N = Len(points) - 1
  BY DEF LineOK
<1> DEFINE first == [run |-> 0, steps |-> FirstTurn(points, heading)]
           step == [n \in 1..N |-> [x \in Made |-> AddLeg(points, x, n)]]
           Value(g, n) == IF n = 0 THEN first ELSE AddLeg(points, g[n - 1], n)
           Good(g) == g = [n \in 0..N |-> Value(g, n)]
<1>1. FirstTurn(points, heading) \in Seq(GoStep) /\ Straights(FirstTurn(points, heading)) = 0
  <2>1. CASE FirstTurn(points, heading) = <<>>
    BY <2>1, NoStraights
  <2>2. CASE FirstTurn(points, heading) # <<>>
    <3>1. PICK turn \in {"left", "right"} : FirstTurn(points, heading) = <<TurnStep(turn)>>
      <4>1. /\ FirstTurn(points, heading) = <<TurnStep(Turn(heading, Headings(points)[1]))>>
            /\ Turn(heading, Headings(points)[1]) # "none"
        BY <2>2 DEF FirstTurn
      <4> QED BY <4>1, TurnIs2
    <3>2. PICK a \in GoStep : a = TurnStep(turn) /\ Ahead(a) = 0
      <4>1. TurnStep(turn) \in GoStep /\ Ahead(TurnStep(turn)) = 0
        BY CornerIs
      <4> QED BY <4>1, Zenon
    <3>3. <<a>> \in Seq(GoStep) /\ <<a>> = Append(<<>>, a) /\ <<>> \in Seq(Step) /\ a \in Step
      BY DEF Step
    <3>4. Straights(Append(<<>>, a)) = Straights(<<>>) + Ahead(a)
      BY <3>3, StraightsAppend
    <3> QED BY <3>1, <3>2, <3>3, <3>4, NoStraights
  <2> QED BY <2>1, <2>2
<1>2. first \in Made
  BY <1>1 DEF Made
<1>3. StepsIn(step, N, Made)
  <2>1. \A n \in 1..N, x \in Made : AddLeg(points, x, n) \in Made
    BY <1>0, AddLegIs
  <2> QED BY <2>1 DEF StepsIn
<1> HIDE DEF first
<1>4. PICK f \in [0..N -> Made] : Unfolds(f, N, first, step)
  <2> HIDE DEF step
  <2> QED BY <1>2, <1>3, RecursionTo
<1>5. Good(f)
  <2>1. \A n \in 0..N : f[n] = Value(f, n)
    <3> TAKE n \in 0..N
    <3>1. CASE n = 0
      BY <3>1, <1>4 DEF Unfolds
    <3>2. CASE n # 0
      <4>1. n \in 1..N /\ f[n - 1] \in Made
        BY <3>2, <1>4
      <4>2. f[n] = step[n][f[n - 1]]
        BY <4>1, <1>4, Zenon DEF Unfolds
      <4> QED BY <4>1, <4>2, <3>2
    <3> QED BY <3>1, <3>2
  <2> HIDE DEF Value, step
  <2> QED BY <2>1, <1>4
<1> DEFINE made == CHOOSE g : Good(g)
<1>6. Good(made)
  <2> HIDE DEF Good
  <2> QED BY <1>5
<1>7. LegsMade(points, heading) = made
  BY <1>0, Zenon DEF LegsMade, first
<1> HIDE DEF made
<1>8. \A n \in 0..N : made[n] = Value(made, n)
  <2> HIDE DEF Value
  <2> QED BY <1>6
<1>9. made[0] = first /\ \A n \in 1..N : made[n] = AddLeg(points, made[n - 1], n)
  BY <1>8
<1> DEFINE T == {n \in 0..N : made[n] \in Made /\ Straights(made[n].steps) + made[n].run = far[n + 1]}
<1>10. 0 \in T
  <2>1. far[0 + 1] = 0
    BY DEF CumHolds
  <2>2. Straights(first.steps) + first.run = 0
    BY <1>1 DEF first
  <2> QED BY <2>1, <2>2, <1>2, <1>9
<1>11. ASSUME NEW n \in 0..(N - 1), n \in T PROVE n + 1 \in T
  <2>1. n + 1 \in 1..N /\ n + 1 \in 1..(Len(points) - 1) /\ (n + 1) - 1 = n
    BY <1>0
  <2>2. PICK x \in Made : x = made[n] /\ Straights(x.steps) + x.run = far[n + 1]
    BY <1>11
  <2>3. PICK y : y = AddLeg(points, x, n + 1)
    OBVIOUS
  <2>4. made[n + 1] = y
    BY <2>1, <2>2, <2>3, <1>9, Zenon
  <2>5. y \in Made /\ Straights(y.steps) + y.run
              = Straights(x.steps) + x.run + Euclid(points[n + 1], points[(n + 1) + 1])
    BY <2>1, <2>3, AddLegIs, Zenon
  <2>6. far[(n + 1) + 1] = far[n + 1] + Euclid(points[n + 1], points[(n + 1) + 1])
    BY <2>1, Zenon DEF CumHolds
  <2>7. Straights(y.steps) + y.run = far[(n + 1) + 1]
    BY <2>2, <2>5, <2>6, Zenon
  <2> QED BY <2>1, <2>4, <2>5, <2>7
<1>12. \A n \in 0..N : n \in T
  <2> HIDE DEF T
  <2> QED BY <1>10, <1>11, InductionTo
<1> QED BY <1>0, <1>7, <1>12 DEF LegsHold

\* The steps of a line.
StepsFit(points, made) ==
    /\ made \in Seq(Step) /\ Len(made) >= 1
    /\ Straights(made) = PolyLength(points)
    /\ \A i \in DOMAIN made : made[i].arrive <=> i = Len(made)

LEMMA StepsAre ==
  ASSUME NEW points, LineOK(points), NEW heading
  PROVE  StepsFit(points, BuildSteps(points, heading))
<1>1. PICK far : far = CumOf(points) /\ CumHolds(points, far) /\ PolyLength(points) = far[Len(points)]
  BY CumIs
<1>2. PICK M \in Nat : M = Len(points) /\ M >= 1
  BY DEF LineOK
<1>3. PICK go \in Seq(GoStep) : BuildSteps(points, heading) = Append(go, ArriveStep)
                                /\ Straights(go) = far[M]
  <2>1. CASE M = 1
    <3>1. BuildSteps(points, heading) = <<ArriveStep>>
      BY <2>1, <1>2 DEF BuildSteps
    <3>2. far[M] = 0
      BY <2>1, <1>1 DEF CumHolds
    <3>3. <<>> \in Seq(GoStep) /\ Append(<<>>, ArriveStep) = <<ArriveStep>>
      OBVIOUS
    <3>4. Straights(<<>>) = far[M]
      BY <3>2, NoStraights
    <3> QED BY <3>1, <3>3, <3>4, Zenon
  <2>2. CASE M # 1
    <3>1. M - 1 \in 0..(Len(points) - 1) /\ (M - 1) + 1 = M
      BY <1>2
    <3>2. PICK x \in Made : x = LegsMade(points, heading)[M - 1] /\ Straights(x.steps) + x.run = far[M]
      <4>1. LegsHold(points, heading, far, LegsMade(points, heading))
        BY <1>1, LegsAre
      <4>2. LegsMade(points, heading)[M - 1] \in Made
            /\ Straights(LegsMade(points, heading)[M - 1].steps) + LegsMade(points, heading)[M - 1].run
                 = far[(M - 1) + 1]
        BY <4>1, <3>1, Zenon DEF LegsHold
      <4> QED BY <4>2, <3>1
    <3>3. x.steps \in Seq(GoStep) /\ x.steps \in Seq(Step) /\ x.run \in Nat
      BY DEF Made, Step
    <3>4. Straights(x.steps) \in Nat
      BY <3>3, StraightsOf
    <3>5. BuildSteps(points, heading)
            = Append(IF x.run > 0 THEN Append(x.steps, StraightStep(x.run)) ELSE x.steps, ArriveStep)
      BY <2>2, <1>2, <3>2 DEF BuildSteps
    <3>6. CASE x.run > 0
      <4>1. PICK a \in GoStep : a = StraightStep(x.run) /\ Ahead(a) = x.run
        <5>1. StraightStep(x.run) \in GoStep /\ Ahead(StraightStep(x.run)) = x.run
          BY <3>3, StraightIs
        <5> QED BY <5>1, Zenon
      <4>2. PICK more \in Seq(GoStep) : more = Append(x.steps, a)
        <5>1. Append(x.steps, a) \in Seq(GoStep)
          BY <3>3
        <5> QED BY <5>1, Zenon
      <4>3. Straights(more) = Straights(x.steps) + Ahead(a)
        BY <3>3, <4>2, StraightsAppend DEF Step
      <4>4. Straights(more) = far[M]
        BY <4>1, <4>3, <3>2
      <4> QED BY <3>5, <3>6, <4>1, <4>2, <4>4, Zenon
    <3>7. CASE ~(x.run > 0)
      <4>1. Straights(x.steps) = far[M]
        BY <3>2, <3>3, <3>4, <3>7
      <4> QED BY <3>3, <3>5, <3>7, <4>1, Zenon
    <3> QED BY <3>6, <3>7
  <2> QED BY <2>1, <2>2
<1>4. PICK made : made = Append(go, ArriveStep)
  OBVIOUS
<1>5. PICK L \in Nat : L = Len(go)
  OBVIOUS
<1>6. Len(made) = L + 1 /\ made[L + 1] = ArriveStep /\ \A i \in 1..L : made[i] = go[i]
  BY <1>4, <1>5
<1>7. go \in Seq(Step) /\ ArriveStep \in Step /\ made \in Seq(Step)
  BY <1>4 DEF Step
<1>8. Straights(made) = Straights(go) + Ahead(ArriveStep)
  BY <1>4, <1>7, StraightsAppend
<1>9. Ahead(ArriveStep) = 0 /\ ArriveStep.arrive = TRUE
  BY DEF Ahead, ArriveStep
<1>10. Straights(go) \in Nat
  BY <1>7, StraightsOf
<1>11. Straights(made) = PolyLength(points)
  BY <1>1, <1>2, <1>3, <1>8, <1>9, <1>10
<1>12. ASSUME NEW i \in DOMAIN made PROVE made[i].arrive <=> i = Len(made)
  <2>1. i \in 1..(L + 1)
    BY <1>6, <1>7
  <2>2. CASE i = L + 1
    BY <2>2, <1>6, <1>9
  <2>3. CASE i # L + 1
    <3>1. i \in 1..L /\ made[i] = go[i]
      BY <2>1, <2>3, <1>6
    <3>2. go[i] \in GoStep
      BY <3>1, <1>5
    <3>3. go[i].arrive = FALSE
      BY <3>2 DEF GoStep, GoOn, TurnOff
    <3> QED BY <2>3, <3>1, <3>3, <1>6
  <2> QED BY <2>2, <2>3
<1>13. Len(made) >= 1
  BY <1>6
<1>14. StepsFit(points, made)
  BY <1>7, <1>11, <1>12, <1>13, Zenon DEF StepsFit
<1> QED BY <1>3, <1>4, <1>14, Zenon

-----------------------------------------------------------------------------
(* The request *)

PlaceOK(place) ==
    /\ place.from \in Spot
    /\ \/ place.to = NoSpot /\ place.du = 0
       \/ place.to \in Spot /\ place.du \in 0..Between(place.from, place.to)

LEMMA PlacesAre ==
  ASSUME NEW arcs, GraphOK(arcs), NEW place \in Places(arcs)
  PROVE  PlaceOK(place)
<1>1. CASE arcs = <<>>
  <2>1. place \in [from : Spot, to : {NoSpot}, du : {0}]
    BY <1>1 DEF Places
  <2> QED BY <2>1 DEF PlaceOK
<1>2. CASE arcs # <<>>
  <2>1. PICK arc \in ToSet(arcs) :
          place \in [from : {arc.from}, to : {arc.to}, du : {d \in 0..Between(arc.from, arc.to) : d % Spacing = 0}]
    BY <1>2 DEF Places
  <2>2. PICK i \in DOMAIN arcs : arc = arcs[i]
    BY DEF ToSet
  <2>3. arc.from \in Spot /\ arc.to \in Spot
    BY <2>2, ArcIs
  <2>4. place.from = arc.from /\ place.to = arc.to /\ place.du \in 0..Between(arc.from, arc.to)
    BY <2>1
  <2> QED BY <2>3, <2>4 DEF PlaceOK
<1> QED BY <1>1, <1>2

HallPoint == {p \in Point : InHall(p)}

\* Where the graph is entered or left.
EndOK(c) == /\ c.node \in Spot /\ c.entry \in Nat
            /\ c.foot = NoFoot \/ c.foot \in HallPoint
EndsOK(ends) == \E k \in {1, 2} : DOMAIN ends = 1..k /\ \A i \in 1..k : EndOK(ends[i])

LEMMA OnNodeIs ==
  ASSUME NEW s \in Spot
  PROVE  EndOK(OnNode(s)) /\ EndsOK(<<OnNode(s)>>)
<1>1. EndOK(OnNode(s))
  BY DEF EndOK, OnNode
<1>2. DOMAIN <<OnNode(s)>> = 1..1 /\ \A i \in 1..1 : EndOK(<<OnNode(s)>>[i])
  BY <1>1
<1> QED BY <1>1, <1>2 DEF EndsOK

LEMMA EndsAre ==
  ASSUME NEW place, PlaceOK(place)
  PROVE  EndsOK(SnapToEdge(place))
<1>0. place.from \in Spot /\ Eps \in Nat /\ (place.to = NoSpot \/ place.to \in Spot)
  BY RoutingAssumption DEF PlaceOK
<1>1. CASE place.to = NoSpot \/ place.du <= Eps
  BY <1>0, <1>1, OnNodeIs DEF SnapToEdge
<1>2. CASE ~(place.to = NoSpot \/ place.du <= Eps)
  <2>1. place.to \in Spot /\ place.du \in 0..Between(place.from, place.to)
    BY <1>2 DEF PlaceOK
  <2>2. PICK b \in Nat : b = Between(place.from, place.to) /\ b = Euclid(Pos[place.from], Pos[place.to])
    BY <1>0, <2>1, BetweenIs
  <2>3. PICK u \in Nat, v \in Nat : u = place.du /\ v = b - u
    <3>1. place.du \in Nat /\ b - place.du \in Nat
      BY <2>1, <2>2
    <3> QED BY <3>1
  <2>4. PICK foot : foot = Along(Pos[place.from], Pos[place.to], u) /\ foot \in HallPoint
    <3>1. InHall(Pos[place.from]) /\ InHall(Pos[place.to])
      BY <1>0, <2>1, NodesInHall
    <3>2. InHall(Along(Pos[place.from], Pos[place.to], u))
      BY <2>1, <2>2, <2>3, <3>1, AlongInHall
    <3> QED BY <3>2 DEF HallPoint, InHall
  <2>5. CASE v <= Eps
    <3>1. SnapToEdge(place) = <<OnNode(place.to)>>
      BY <1>2, <2>2, <2>3, <2>5 DEF SnapToEdge
    <3> QED BY <3>1, <2>1, OnNodeIs
  <2>6. CASE ~(v <= Eps)
    <3>1. PICK a, c : a = OnEdge(place.from, u, foot) /\ c = OnEdge(place.to, v, foot)
      OBVIOUS
    <3>2. SnapToEdge(place) = <<a, c>>
      BY <1>2, <2>2, <2>3, <2>4, <2>6, <3>1 DEF SnapToEdge
    <3>3. EndOK(a) /\ EndOK(c)
      BY <1>0, <2>1, <2>4, <3>1 DEF EndOK, OnEdge
    <3>4. DOMAIN <<a, c>> = 1..2 /\ \A i \in 1..2 : EndOK(<<a, c>>[i])
      BY <3>3
    <3> QED BY <3>2, <3>4 DEF EndsOK
  <2> QED BY <2>5, <2>6
<1> QED BY <1>1, <1>2

\* What was asked of: the graph, a place of it and a goal that is one or a node.
AskedOK(request) ==
    /\ GraphOK(request.arcs) /\ PlaceOK(request.from)
    /\ \/ PlaceOK(request.to)
       \/ request.to.du = -1 /\ request.to.from \in Spot

LEMMA GoalsAre ==
  ASSUME NEW request, AskedOK(request)
  PROVE  EndsOK(Goals(request.to))
<1>1. CASE PlaceOK(request.to)
  <2>1. request.to.du \in Nat
    <3>1. CASE request.to.du = 0
      BY <3>1
    <3>2. CASE request.to.du \in 0..Between(request.to.from, request.to.to)
      BY <3>2
    <3> QED BY <3>1, <3>2, <1>1 DEF PlaceOK
  <2>2. Goals(request.to) = SnapToEdge(request.to)
    BY <2>1 DEF Goals
  <2> QED BY <1>1, <2>2, EndsAre
<1>2. CASE request.to.du = -1 /\ request.to.from \in Spot
  <2>1. Goals(request.to) = <<OnNode(request.to.from)>>
    BY <1>2 DEF Goals
  <2> QED BY <1>2, <2>1, OnNodeIs
<1> QED BY <1>1, <1>2 DEF AskedOK

\* A way from one end to the other, or none.
CandidateHolds(arcs, s, g, c) ==
    /\ c.start = s.foot /\ c.goal = g.foot
    /\ c.path = <<>> => NoWay(arcs, s.node, g.node)
    /\ c.path # <<>> => \E cost \in Nat : /\ Shortest(arcs, s.node, g.node, c.path, cost)
                                          /\ c.total = s.entry + cost + g.entry

LEMMA CandidateIs ==
  ASSUME NEW arcs, GraphOK(arcs), NEW s, EndOK(s), NEW g, EndOK(g)
  PROVE  CandidateHolds(arcs, s, g, Candidate(arcs, s, g))
<1>1. s.node \in Spot /\ g.node \in Spot
  BY DEF EndOK
<1>2. PICK path : path = AstarPath(arcs, s.node, g.node)
  OBVIOUS
<1>3. IF path = <<>> THEN NoWay(arcs, s.node, g.node) ELSE Answered(arcs, s.node, g.node, path)
  BY <1>1, <1>2, AstarIs
<1>4. PICK c : c = Candidate(arcs, s, g)
  OBVIOUS
<1>5. c = [path |-> path, start |-> s.foot, goal |-> g.foot,
           total |-> IF path = <<>> THEN 0 ELSE s.entry + CostOf(arcs, path) + g.entry]
  BY <1>2, <1>4, Zenon DEF Candidate
<1>6. c.path = path /\ c.start = s.foot /\ c.goal = g.foot
      /\ c.total = IF path = <<>> THEN 0 ELSE s.entry + CostOf(arcs, path) + g.entry
  BY <1>5
<1>7. ASSUME path # <<>>
      PROVE  \E cost \in Nat : /\ Shortest(arcs, s.node, g.node, path, cost)
                               /\ c.total = s.entry + cost + g.entry
  <2>1. PICK cost : Shortest(arcs, s.node, g.node, path, cost)
    BY <1>3, <1>7 DEF Answered
  <2>2. cost \in Nat /\ CostOf(arcs, path) = cost
    BY <2>1, Zenon DEF Shortest
  <2> QED BY <2>1, <2>2, <1>6, <1>7, Zenon
<1>8. CandidateHolds(arcs, s, g, c)
  BY <1>3, <1>6, <1>7, Zenon DEF CandidateHolds
<1> QED BY <1>4, <1>8

\* The pairs of ends, and what there is between them.
LEMMA CandidatesAre ==
  ASSUME NEW arcs, GraphOK(arcs), NEW starts, EndsOK(starts), NEW goals, EndsOK(goals)
  PROVE  /\ DOMAIN Candidates(arcs, starts, goals) = (DOMAIN starts) \X (DOMAIN goals)
         /\ \A x \in (DOMAIN starts) \X (DOMAIN goals) :
              /\ x[1] \in Nat /\ x[2] \in Nat /\ EndOK(starts[x[1]]) /\ EndOK(goals[x[2]])
              /\ CandidateHolds(arcs, starts[x[1]], goals[x[2]], Candidates(arcs, starts, goals)[x])
<1>1. DOMAIN Candidates(arcs, starts, goals) = (DOMAIN starts) \X (DOMAIN goals)
  BY DEF Candidates
<1>2. ASSUME NEW x \in (DOMAIN starts) \X (DOMAIN goals)
      PROVE  /\ x[1] \in Nat /\ x[2] \in Nat /\ EndOK(starts[x[1]]) /\ EndOK(goals[x[2]])
             /\ CandidateHolds(arcs, starts[x[1]], goals[x[2]], Candidates(arcs, starts, goals)[x])
  <2>1. x[1] \in DOMAIN starts /\ x[2] \in DOMAIN goals
    OBVIOUS
  <2>2. x[1] \in Nat /\ EndOK(starts[x[1]])
    BY <2>1 DEF EndsOK
  <2>3. x[2] \in Nat /\ EndOK(goals[x[2]])
    BY <2>1 DEF EndsOK
  <2>4. Candidates(arcs, starts, goals)[x] = Candidate(arcs, starts[x[1]], goals[x[2]])
    BY DEF Candidates
  <2> QED BY <2>2, <2>3, <2>4, CandidateIs
<1> QED BY <1>1, <1>2

\* The best of them is one that no other is shorter than.
LEMMA BestIs ==
  ASSUME NEW candidates, Found(candidates) # {},
         \A x \in Found(candidates) : x[1] \in Nat /\ x[2] \in Nat /\ candidates[x].total \in Nat
                                      /\ x = <<x[1], x[2]>>
  PROVE  \E x \in Found(candidates) : /\ Best(candidates) = candidates[x]
                                      /\ \A y \in Found(candidates) : candidates[x].total <= candidates[y].total
<1>1. PICK F : F = Found(candidates)
  OBVIOUS
<1>2. PICK a \in F : \A y \in F : candidates[a].total <= candidates[y].total
  <2> DEFINE K == {candidates[y].total : y \in F}
  <2>1. K \in SUBSET Nat /\ K # {}
    BY <1>1
  <2>2. \E m \in K : \A k \in K : m <= k
    <3> HIDE DEF K
    <3> QED BY <2>1, LeastOf
  <2> QED BY <2>2
<1> DEFINE F1 == {y \in F : candidates[y].total = candidates[a].total}
<1>3. PICK b \in F1 : \A y \in F1 : b[1] <= y[1]
  <2> DEFINE K == {y[1] : y \in F1}
  <2>1. K \in SUBSET Nat /\ K # {}
    BY <1>1
  <2>2. \E m \in K : \A k \in K : m <= k
    <3> HIDE DEF K
    <3> QED BY <2>1, LeastOf
  <2> QED BY <2>2
<1> DEFINE F2 == {y \in F1 : y[1] = b[1]}
<1>4. PICK c \in F2 : \A y \in F2 : c[2] <= y[2]
  <2> DEFINE K == {y[2] : y \in F2}
  <2>1. K \in SUBSET Nat /\ K # {}
    BY <1>1
  <2>2. \E m \in K : \A k \in K : m <= k
    <3> HIDE DEF K
    <3> QED BY <2>1, LeastOf
  <2> QED BY <2>2
<1> DEFINE First(x) == \A y \in F \ {x} :
                         \/ candidates[x].total < candidates[y].total
                         \/ candidates[x].total = candidates[y].total /\ Earlier(x, y)
<1>5. First(c)
  <2> SUFFICES ASSUME NEW y \in F, y # c
               PROVE  \/ candidates[c].total < candidates[y].total
                      \/ candidates[c].total = candidates[y].total /\ Earlier(c, y)
    OBVIOUS
  <2>1. c \in F /\ candidates[c].total = candidates[a].total /\ c[1] = b[1]
    OBVIOUS
  <2>2. candidates[c].total <= candidates[y].total
    BY <1>2, <2>1
  <2>3. candidates[c].total = candidates[y].total => c[1] <= y[1]
    BY <1>3, <2>1
  <2>4. candidates[c].total = candidates[y].total /\ c[1] = y[1] => c[2] <= y[2]
    BY <1>4, <2>1
  <2>5. c = <<c[1], c[2]>> /\ y = <<y[1], y[2]>>
    BY <1>1, <2>1
  <2>6. ~(c[1] = y[1] /\ c[2] = y[2])
    BY <2>5
  <2>7. /\ c[1] \in Nat /\ c[2] \in Nat /\ y[1] \in Nat /\ y[2] \in Nat
        /\ candidates[c].total \in Nat /\ candidates[y].total \in Nat
    BY <1>1, <2>1
  <2> HIDE DEF F1, F2
  <2> QED BY <2>2, <2>3, <2>4, <2>6, <2>7 DEF Earlier
<1> DEFINE x == CHOOSE z \in F : First(z)
<1>6. c \in F
  OBVIOUS
<1>7. x \in F /\ First(x)
  <2> HIDE DEF First
  <2> QED BY <1>5, <1>6, Zenon
<1>8. Best(candidates) = candidates[x]
  BY <1>1, Zenon DEF Best
<1> HIDE DEF x
<1>9. ASSUME NEW y \in F PROVE candidates[x].total <= candidates[y].total
  <2>1. candidates[x].total \in Nat /\ candidates[y].total \in Nat
    BY <1>1, <1>7
  <2>2. CASE y = x
    BY <2>1, <2>2
  <2>3. CASE y # x
    BY <2>1, <2>3, <1>7
  <2> QED BY <2>2, <2>3
<1> QED BY <1>1, <1>7, <1>8, <1>9

\* What the ways between two ends add up to.
WayBetween(arcs, s, g, n) ==
    \E way \in WaysTo(arcs, g.node) : way[1] = s.node /\ n = s.entry + way[2] + g.entry

\* The ways of the request are those between its ends.
LEMMA WaysBetween ==
  ASSUME NEW request, NEW arcs, arcs = request.arcs, NEW starts, starts = SnapToEdge(request.from),
         NEW goals, goals = Goals(request.to)
  PROVE  \A n : n \in Ways(request) <=>
           \E i \in DOMAIN starts, j \in DOMAIN goals :
             WayBetween(arcs, starts[i], goals[j], n)
<1> TAKE n
<1> DEFINE U(s, g) == {s.entry + way[2] + g.entry :
                         way \in {w \in WaysTo(arcs, g.node) : w[1] = s.node}}
<1>1. Ways(request) = UNION {U(s, g) : s \in ToSet(starts), g \in ToSet(goals)}
  BY DEF Ways
<1>2. \A s, g : n \in U(s, g) <=> \E way \in WaysTo(arcs, g.node) :
                                   way[1] = s.node /\ n = s.entry + way[2] + g.entry
  OBVIOUS
<1> HIDE DEF U
<1>3. n \in Ways(request) <=> \E s \in ToSet(starts), g \in ToSet(goals) : n \in U(s, g)
  BY <1>1
<1>4. /\ \A s : s \in ToSet(starts) <=> \E i \in DOMAIN starts : s = starts[i]
      /\ \A g : g \in ToSet(goals) <=> \E j \in DOMAIN goals : g = goals[j]
  BY DEF ToSet
<1>5. \A i, j : n \in U(starts[i], goals[j]) <=> WayBetween(arcs, starts[i], goals[j], n)
  <2> TAKE i, j
  <2>1. PICK s, g : s = starts[i] /\ g = goals[j]
    OBVIOUS
  <2>2. n \in U(s, g) <=> \E way \in WaysTo(arcs, g.node) :
                            way[1] = s.node /\ n = s.entry + way[2] + g.entry
    BY <1>2
  <2> QED BY <2>1, <2>2, Zenon DEF WayBetween
<1>6. ASSUME n \in Ways(request)
      PROVE  \E i \in DOMAIN starts, j \in DOMAIN goals : WayBetween(arcs, starts[i], goals[j], n)
  <2>1. PICK s \in ToSet(starts), g \in ToSet(goals) : n \in U(s, g)
    BY <1>3, <1>6
  <2>2. PICK i \in DOMAIN starts : s = starts[i]
    BY <1>4
  <2>3. PICK j \in DOMAIN goals : g = goals[j]
    BY <1>4
  <2>4. WayBetween(arcs, starts[i], goals[j], n)
    BY <1>5, <2>1, <2>2, <2>3
  <2> QED BY <2>4
<1>7. ASSUME NEW i \in DOMAIN starts, NEW j \in DOMAIN goals, WayBetween(arcs, starts[i], goals[j], n)
      PROVE  n \in Ways(request)
  <2>1. starts[i] \in ToSet(starts) /\ goals[j] \in ToSet(goals)
    BY <1>4
  <2>2. n \in U(starts[i], goals[j])
    BY <1>5, <1>7
  <2> QED BY <1>3, <2>1, <2>2
<1> QED BY <1>6, <1>7

\* The points of an answer.
LEMMA WaypointsAre ==
  ASSUME NEW best, best.path \in Seq(Spot), best.path # <<>>,
         best.start = NoFoot \/ best.start \in HallPoint,
         best.goal = NoFoot \/ best.goal \in HallPoint
  PROVE  LineOK(Waypoints(best))
<1>1. PICK a \in Seq(HallPoint) : a = Foot(best.start)
  <2>1. Foot(best.start) \in Seq(HallPoint)
    BY DEF Foot
  <2> QED BY <2>1
<1>2. PICK c \in Seq(HallPoint) : c = Foot(best.goal)
  <2>1. Foot(best.goal) \in Seq(HallPoint)
    BY DEF Foot
  <2> QED BY <2>1
<1>3. PICK b \in Seq(HallPoint) : b = [i \in DOMAIN best.path |-> Pos[best.path[i]]] /\ Len(b) >= 1
  <2>1. PICK L \in Nat : L = Len(best.path) /\ DOMAIN best.path = 1..L /\ L >= 1
    OBVIOUS
  <2>2. \A i \in 1..L : best.path[i] \in Spot
    BY <2>1
  <2>3. \A i \in 1..L : Pos[best.path[i]] \in HallPoint
    BY <2>2, NodesInHall DEF HallPoint, InHall
  <2> DEFINE b == [i \in 1..L |-> Pos[best.path[i]]]
  <2>4. b \in Seq(HallPoint) /\ Len(b) = L
    BY <2>3
  <2> QED BY <2>1, <2>4, Zenon
<1>4. PICK ab \in Seq(HallPoint) : ab = a \o b /\ Len(ab) >= 1
  <2>1. a \o b \in Seq(HallPoint) /\ Len(a \o b) = Len(a) + Len(b) /\ Len(a) \in Nat /\ Len(b) \in Nat
    OBVIOUS
  <2>2. Len(a \o b) >= 1
    BY <1>3, <2>1
  <2> QED BY <2>1, <2>2, Zenon
<1>5. PICK line2 \in Seq(HallPoint) : line2 = ab \o c /\ Len(line2) >= 1
  <2>1. ab \o c \in Seq(HallPoint) /\ Len(ab \o c) = Len(ab) + Len(c) /\ Len(ab) \in Nat /\ Len(c) \in Nat
    OBVIOUS
  <2>2. Len(ab \o c) >= 1
    BY <1>4, <2>1
  <2> QED BY <2>1, <2>2, Zenon
<1>6. Waypoints(best) = line2
  BY <1>1, <1>2, <1>3, <1>4, <1>5, Zenon DEF Waypoints
<1>7. \A i \in 1..Len(line2) : line2[i] \in HallPoint
  OBVIOUS
<1>8. line2 \in Seq(Point)
  BY <1>7 DEF HallPoint
<1> QED BY <1>5, <1>6, <1>7, <1>8 DEF LineOK, HallPoint

-----------------------------------------------------------------------------
(* The answer *)

\* A way that is as short as any, and the steps that lead along it.
ShortestWay(r) ==
    /\ r.total \in Ways(r.asked) /\ \A way \in Ways(r.asked) : r.total <= way
    /\ PathHolds(r) /\ LineOK(r.points) /\ StepsFit(r.points, r.steps)

ReplyOK(r) ==
    \/ r = NoReply
    \/ r.status = 404
    \/ r.status = 422 /\ Ways(r.asked) = {}
    \/ r.status = 200 /\ ShortestWay(r)

\* A candidate with a path is a way between its ends, and the shortest; one
\* without a path says that there is none.
LEMMA CandidateIsShortest ==
  ASSUME NEW arcs, GraphOK(arcs), NEW s, EndOK(s), NEW g, EndOK(g), NEW c,
         CandidateHolds(arcs, s, g, c)
  PROVE  /\ c.path = <<>> => \A n : ~WayBetween(arcs, s, g, n)
         /\ c.path # <<>> => /\ c.total \in Nat /\ WayBetween(arcs, s, g, c.total)
                             /\ \A n : WayBetween(arcs, s, g, n) => c.total <= n
<1>1. ASSUME c.path = <<>> PROVE \A n : ~WayBetween(arcs, s, g, n)
  <2>1. NoWay(arcs, s.node, g.node)
    BY <1>1, Zenon DEF CandidateHolds
  <2> QED BY <2>1, Zenon DEF NoWay, WayBetween
<1>2. ASSUME c.path # <<>>
      PROVE  /\ c.total \in Nat /\ WayBetween(arcs, s, g, c.total)
             /\ \A n : WayBetween(arcs, s, g, n) => c.total <= n
  <2>1. PICK cost \in Nat : Shortest(arcs, s.node, g.node, c.path, cost)
                            /\ c.total = s.entry + cost + g.entry
    BY <1>2, Zenon DEF CandidateHolds
  <2>2. /\ <<s.node, cost>> \in WaysTo(arcs, g.node)
        /\ \A way \in WaysTo(arcs, g.node) : way[1] = s.node => cost <= way[2]
    BY <2>1, Zenon DEF Shortest
  <2>3. s.entry \in Nat /\ g.entry \in Nat /\ g.node \in Spot
    BY DEF EndOK
  <2>4. c.total \in Nat
    BY <2>1, <2>3
  <2>5. WayBetween(arcs, s, g, c.total)
    <3>1. PICK w : w = <<s.node, cost>>
      OBVIOUS
    <3>2. w \in WaysTo(arcs, g.node) /\ w[1] = s.node /\ w[2] = cost
      BY <2>2, <3>1
    <3>3. c.total = s.entry + w[2] + g.entry
      BY <2>1, <3>2
    <3> QED BY <3>2, <3>3, Zenon DEF WayBetween
  <2>6. ASSUME NEW n, WayBetween(arcs, s, g, n) PROVE c.total <= n
    <3>1. PICK way \in WaysTo(arcs, g.node) : way[1] = s.node /\ n = s.entry + way[2] + g.entry
      BY <2>6, Zenon DEF WayBetween
    <3>2. WaysTo(arcs, g.node) \subseteq Spot \X Nat
      BY <2>3, WaysInNat
    <3>3. way[2] \in Nat
      BY <3>1, <3>2
    <3>4. cost <= way[2]
      BY <2>2, <3>1
    <3> QED BY <2>1, <2>3, <3>1, <3>3, <3>4
  <2> QED BY <2>4, <2>5, <2>6
<1> QED BY <1>1, <1>2

\* Of an end and an answer.
LEMMA AnswerIs ==
  ASSUME NEW request, AskedOK(request), NEW heading,
         ~(request.to.du < 0 /\ request.to.from \notin Spot)
  PROVE  ReplyOK(ComputeRoute(request, heading))
<1>1. PICK arcs, starts, goals : /\ arcs = request.arcs /\ starts = SnapToEdge(request.from)
                                 /\ goals = Goals(request.to)
  OBVIOUS
<1>2. GraphOK(arcs) /\ EndsOK(starts) /\ EndsOK(goals)
  BY <1>1, EndsAre, GoalsAre DEF AskedOK
<1>3. PICK cs : cs = Candidates(arcs, starts, goals)
  OBVIOUS
<1>4. /\ DOMAIN cs = (DOMAIN starts) \X (DOMAIN goals)
      /\ \A x \in DOMAIN cs :
           /\ x[1] \in Nat /\ x[2] \in Nat /\ EndOK(starts[x[1]]) /\ EndOK(goals[x[2]])
           /\ CandidateHolds(arcs, starts[x[1]], goals[x[2]], cs[x])
  <2>1. /\ DOMAIN Candidates(arcs, starts, goals) = (DOMAIN starts) \X (DOMAIN goals)
        /\ \A x \in (DOMAIN starts) \X (DOMAIN goals) :
             /\ x[1] \in Nat /\ x[2] \in Nat /\ EndOK(starts[x[1]]) /\ EndOK(goals[x[2]])
             /\ CandidateHolds(arcs, starts[x[1]], goals[x[2]], Candidates(arcs, starts, goals)[x])
    BY <1>2, CandidatesAre, Zenon
  <2> QED BY <1>3, <2>1, Zenon
<1>5. ASSUME NEW x \in DOMAIN cs
      PROVE  /\ x[1] \in DOMAIN starts /\ x[2] \in DOMAIN goals /\ x = <<x[1], x[2]>>
             /\ x[1] \in Nat /\ x[2] \in Nat
  BY <1>4
<1>6. \A n : n \in Ways(request) <=>
        \E i \in DOMAIN starts, j \in DOMAIN goals : WayBetween(arcs, starts[i], goals[j], n)
  BY <1>1, WaysBetween, Zenon
<1>7. ASSUME NEW i \in DOMAIN starts, NEW j \in DOMAIN goals
      PROVE  \E x \in DOMAIN cs : x[1] = i /\ x[2] = j
  <2>1. <<i, j>> \in DOMAIN cs
    BY <1>4
  <2> QED BY <2>1
<1>8. ASSUME NEW x \in DOMAIN cs
      PROVE  LET s == starts[x[1]]
                 g == goals[x[2]]
             IN  /\ cs[x].path = <<>> => \A n : ~WayBetween(arcs, s, g, n)
                 /\ cs[x].path # <<>> => /\ cs[x].total \in Nat /\ WayBetween(arcs, s, g, cs[x].total)
                                         /\ \A n : WayBetween(arcs, s, g, n) => cs[x].total <= n
  <2>1. PICK s, g, c : s = starts[x[1]] /\ g = goals[x[2]] /\ c = cs[x]
    OBVIOUS
  <2>2. EndOK(s) /\ EndOK(g) /\ CandidateHolds(arcs, s, g, c)
    BY <1>4, <2>1
  <2>3. /\ c.path = <<>> => \A n : ~WayBetween(arcs, s, g, n)
        /\ c.path # <<>> => /\ c.total \in Nat /\ WayBetween(arcs, s, g, c.total)
                            /\ \A n : WayBetween(arcs, s, g, n) => c.total <= n
    BY <1>2, <2>2, CandidateIsShortest, Zenon
  <2> QED BY <2>1, <2>3, Zenon
<1>9. CASE Found(cs) = {}
  <2>1. ASSUME NEW n \in Ways(request) PROVE FALSE
    <3>1. PICK i \in DOMAIN starts, j \in DOMAIN goals : WayBetween(arcs, starts[i], goals[j], n)
      BY <1>6
    <3>2. PICK x \in DOMAIN cs : x[1] = i /\ x[2] = j
      BY <1>7
    <3>3. cs[x].path = <<>>
      BY <1>9 DEF Found
    <3> QED BY <1>8, <3>1, <3>2, <3>3
  <2>2. ComputeRoute(request, heading) = [status |-> 422, asked |-> request]
    BY <1>1, <1>3, <1>9, Zenon DEF ComputeRoute
  <2>3. PICK r : r = [status |-> 422, asked |-> request]
    OBVIOUS
  <2>4. r.status = 422 /\ r.asked = request
    BY <2>3
  <2>5. ReplyOK(r)
    BY <2>1, <2>4 DEF ReplyOK
  <2> QED BY <2>2, <2>3, <2>5
<1>10. CASE Found(cs) # {}
  <2>1. \A x \in Found(cs) : x[1] \in Nat /\ x[2] \in Nat /\ cs[x].total \in Nat
                             /\ x = <<x[1], x[2]>>
    BY <1>5, <1>8 DEF Found
  <2>2. PICK x \in Found(cs) : /\ Best(cs) = cs[x]
                               /\ \A y \in Found(cs) : cs[x].total <= cs[y].total
    BY <1>10, <2>1, BestIs
  <2>3. x \in DOMAIN cs /\ cs[x].path # <<>>
    BY DEF Found
  <2>4. PICK s, g, best : s = starts[x[1]] /\ g = goals[x[2]] /\ best = cs[x]
    OBVIOUS
  <2>5. EndOK(s) /\ EndOK(g) /\ CandidateHolds(arcs, s, g, best) /\ best.path # <<>>
    BY <1>4, <2>3, <2>4
  <2>6. best.total \in Nat /\ best.total \in Ways(request)
    <3>1. best.total \in Nat /\ WayBetween(arcs, s, g, best.total)
      BY <1>8, <2>3, <2>4
    <3>2. x[1] \in DOMAIN starts /\ x[2] \in DOMAIN goals
      BY <1>5, <2>3
    <3> QED BY <1>6, <2>4, <3>1, <3>2
  <2>7. ASSUME NEW n \in Ways(request) PROVE best.total <= n
    <3>1. PICK i \in DOMAIN starts, j \in DOMAIN goals : WayBetween(arcs, starts[i], goals[j], n)
      BY <1>6
    <3>2. PICK y \in DOMAIN cs : y[1] = i /\ y[2] = j
      BY <1>7
    <3>3. cs[y].path # <<>>
      BY <1>8, <3>1, <3>2
    <3>4. y \in Found(cs)
      BY <3>3 DEF Found
    <3>5. cs[y].total \in Nat /\ cs[y].total <= n
      BY <1>8, <3>1, <3>2, <3>3
    <3>6. best.total <= cs[y].total
      BY <2>2, <2>4, <3>4
    <3>7. n \in Nat
      <4>1. PICK way \in WaysTo(arcs, goals[j].node) :
              n = starts[i].entry + way[2] + goals[j].entry
        BY <3>1, Zenon DEF WayBetween
      <4>2. EndOK(starts[i]) /\ EndOK(goals[j])
        BY <1>4, <3>2
      <4>3. goals[j].node \in Spot /\ goals[j].entry \in Nat /\ starts[i].entry \in Nat
        BY <4>2, Zenon DEF EndOK
      <4>4. WaysTo(arcs, goals[j].node) \subseteq Spot \X Nat
        BY <1>2, <4>3, WaysInNat
      <4>5. way[2] \in Nat
        BY <4>1, <4>4
      <4> QED BY <4>1, <4>3, <4>5
    <3> QED BY <2>6, <3>5, <3>6, <3>7
  <2>8. PICK cost \in Nat : Shortest(arcs, s.node, g.node, best.path, cost)
                            /\ best.total = s.entry + cost + g.entry
    BY <2>5, Zenon DEF CandidateHolds
  <2>9. PICK points : points = Waypoints(best)
    OBVIOUS
  <2>10. LineOK(points) /\ StepsFit(points, BuildSteps(points, heading))
    <3>1. best.start = s.foot /\ best.goal = g.foot
      BY <2>5, Zenon DEF CandidateHolds
    <3>2. best.start = NoFoot \/ best.start \in HallPoint
      BY <2>5, <3>1, Zenon DEF EndOK
    <3>3. best.goal = NoFoot \/ best.goal \in HallPoint
      BY <2>5, <3>1, Zenon DEF EndOK
    <3>4. best.path \in Seq(Spot) /\ best.path # <<>>
      BY <2>8, Zenon DEF Shortest
    <3>5. LineOK(points)
      BY <2>9, <3>2, <3>3, <3>4, WaypointsAre, Zenon
    <3> QED BY <3>5, StepsAre
  <2>11. PICK r : r = [status |-> 200, asked |-> request, total |-> best.total,
                       path |-> best.path, points |-> points,
                       steps |-> BuildSteps(points, heading)]
    OBVIOUS
  <2>12. /\ r.status = 200 /\ r.asked = request /\ r.total = best.total
         /\ r.path = best.path /\ r.points = points /\ r.steps = BuildSteps(points, heading)
    BY <2>11
  <2>13. PathHolds(r)
    <3>1. /\ \A i \in 1..(Len(best.path) - 1) : ArcsFrom(arcs, best.path[i], best.path[i + 1]) # {}
          /\ CostOf(arcs, best.path) = cost
      BY <2>8, Zenon DEF Shortest
    <3>2. s.entry \in Nat /\ g.entry \in Nat
      BY <2>5, Zenon DEF EndOK
    <3>3. cost <= best.total
      BY <2>8, <3>2
    <3>4. CostOf(arcs, best.path) <= best.total
      BY <3>1, <3>3
    <3> QED BY <1>1, <2>12, <3>1, <3>4, Zenon DEF PathHolds
  <2>14. ShortestWay(r)
    <3>1. best.total \in Ways(request) /\ \A way \in Ways(request) : best.total <= way
      BY <2>6, <2>7
    <3>2. r.total \in Ways(r.asked) /\ \A way \in Ways(r.asked) : r.total <= way
      BY <2>12, <3>1
    <3>3. LineOK(r.points) /\ StepsFit(r.points, r.steps)
      BY <2>10, <2>12
    <3> QED BY <2>13, <3>2, <3>3, Zenon DEF ShortestWay
  <2>15. ReplyOK(r)
    BY <2>12, <2>14, Zenon DEF ReplyOK
  <2>16. ComputeRoute(request, heading) = r
    <3>1. Best(cs) = best
      BY <2>2, <2>4
    <3> QED BY <1>1, <1>3, <1>10, <2>9, <2>11, <3>1, Zenon DEF ComputeRoute
  <2> QED BY <2>15, <2>16
<1> QED BY <1>9, <1>10

LEMMA AnswersHold ==
  ASSUME ReplyOK(answer)
  PROVE  AnswersAreShortest
<1>1. CASE answer = NoReply
  BY <1>1 DEF AnswersAreShortest
<1>2. CASE answer.status = 404
  BY <1>2 DEF AnswersAreShortest
<1>3. CASE answer.status = 422 /\ Ways(answer.asked) = {}
  BY <1>3 DEF AnswersAreShortest
<1>4. CASE answer.status = 200 /\ ShortestWay(answer)
  <2>1. StepsHold(answer)
    BY <1>4 DEF ShortestWay, StepsFit, StepsHold
  <2>2. /\ answer.total \in Ways(answer.asked) /\ \A way \in Ways(answer.asked) : answer.total <= way
        /\ PathHolds(answer) /\ answer.status # 422
    BY <1>4 DEF ShortestWay
  <2> QED BY <2>1, <2>2, Zenon DEF AnswersAreShortest
<1> QED BY <1>1, <1>2, <1>3, <1>4 DEF ReplyOK

-----------------------------------------------------------------------------
(* The visitor: the invariant of the service and the walk *)

\* The service while the visitor has no route; afterwards it is not looked at.
ServiceOK ==
    /\ DOMAIN cache = BOOLEAN
    /\ \A a \in BOOLEAN : cache[a].built \in BOOLEAN /\ GraphOK(cache[a].arcs)
    /\ ReplyOK(answer)
    /\ IF line = <<>> THEN seeds \in Seeds /\ table \in 1..Len(seeds)
                      ELSE seeds = <<>> /\ table = 0

\* The steps of a line that long.
EndsFit(total, set) ==
    \A i \in DOMAIN set :
      /\ set[i].turn \in {"straight", "left", "right", ""}
      /\ set[i].end \in 0..total
      /\ i > 1 => set[i].end >= set[i - 1].end

\* The line and where along it its points are.
Measured == LineOK(line) /\ CumHolds(line, cum) /\ cum \in Seq(Nat) /\ Len(cum) = Len(line)

ProgressOK ==
    /\ lastSegment = None \/ lastSegment \in 1..(Len(line) - 1)
    /\ progress.valid => progress.remaining \in 0..Total

NoLine == /\ line = <<>> /\ cum = <<>> /\ steps = <<>> /\ lastSegment = None
          /\ progress = NoProgress /\ walked = OffLine

WalkOK ==
    /\ lost \in BOOLEAN
    /\ \/ NoLine
       \/ /\ line # <<>> /\ Measured /\ EndsFit(Total, steps) /\ ProgressOK
          /\ walked = OffLine \/ walked \in 0..Total

VisitorInv == ServiceOK /\ WalkOK

\* What it says is what the types of the visitor say, and more.
LEMMA VisitorTyped ==
  ASSUME VisitorInv
  PROVE  VisitorTypeOK /\ AnswersAreShortest
<1>1. AnswersAreShortest
  BY AnswersHold DEF VisitorInv, ServiceOK
<1>2. table \in 0..Len(seeds)
  <2>1. CASE line = <<>>
    <3>1. table \in 1..Len(seeds) /\ seeds \in Seeds
      BY <2>1 DEF VisitorInv, ServiceOK
    <3> QED BY <3>1
  <2>2. CASE line # <<>>
    <3>1. seeds = <<>> /\ table = 0
      BY <2>2 DEF VisitorInv, ServiceOK
    <3> QED BY <3>1
  <2> QED BY <2>1, <2>2
<1>3. \A a \in BOOLEAN : cache[a].built \in BOOLEAN
  BY DEF VisitorInv, ServiceOK
<1>4. answer.status \in {0, 200, 404, 422}
  <2>1. ReplyOK(answer)
    BY DEF VisitorInv, ServiceOK
  <2>2. CASE answer = NoReply
    BY <2>2 DEF NoReply
  <2>3. CASE answer # NoReply
    BY <2>1, <2>3 DEF ReplyOK
  <2> QED BY <2>2, <2>3
<1>5. CASE NoLine
  <2>1. /\ DOMAIN cum = DOMAIN line /\ DOMAIN steps = {} /\ lastSegment \in 0..Len(line)
        /\ ~progress.valid /\ walked = OffLine /\ lost \in BOOLEAN
    BY <1>5 DEF NoLine, NoProgress, None, VisitorInv, WalkOK
  <2> QED BY <1>1, <1>2, <1>3, <1>4, <2>1 DEF VisitorTypeOK
<1>6. CASE ~NoLine
  <2>1. /\ Measured /\ EndsFit(Total, steps) /\ ProgressOK
        /\ walked = OffLine \/ walked \in 0..Total
        /\ lost \in BOOLEAN
    BY <1>6 DEF VisitorInv, WalkOK
  <2>2. DOMAIN cum = DOMAIN line /\ Len(line) \in Nat
    BY <2>1 DEF Measured, LineOK
  <2>3. lastSegment \in 0..Len(line)
    BY <2>1, <2>2 DEF ProgressOK, None
  <2> QED BY <1>1, <1>2, <1>3, <1>4, <2>1, <2>2, <2>3 DEF VisitorTypeOK, EndsFit, ProgressOK
<1> QED BY <1>5, <1>6

-----------------------------------------------------------------------------
(* The service *)

LEMMA GraphHeld ==
  ASSUME VisitorInv, line = <<>>, NEW a \in BOOLEAN
  PROVE  GetGraph(a).built \in BOOLEAN /\ GraphOK(GetGraph(a).arcs)
<1>1. CASE cache[a].built
  <2>1. GetGraph(a) = cache[a]
    BY <1>1 DEF GetGraph
  <2> QED BY <2>1 DEF VisitorInv, ServiceOK
<1>2. CASE ~cache[a].built
  <2>1. PICK g : g = [built |-> TRUE, arcs |-> BuildGraph(seeds[table], a)]
    OBVIOUS
  <2>2. GetGraph(a) = g
    BY <1>2, <2>1 DEF GetGraph
  <2>3. seeds \in Seeds /\ table \in 1..Len(seeds)
    BY DEF VisitorInv, ServiceOK
  <2>4. seeds[table] \in Seq(EdgeRow)
    <3>1. seeds \in Seq(Seq(EdgeRow))
      BY <2>3, RoutingAssumption
    <3> QED BY <2>3, <3>1
  <2>5. GraphOK(BuildGraph(seeds[table], a))
    BY <2>4, GraphIsOK
  <2> QED BY <2>1, <2>2, <2>5
<1> QED BY <1>1, <1>2

\* A request that names a node of another map is turned down, and any other
\* answered.
LEMMA RequestIs ==
  ASSUME NEW request, GraphOK(request.arcs), PlaceOK(request.from), NEW heading,
         \/ PlaceOK(request.to)
         \/ request.to.du = -1 /\ request.to.from \in Spot \cup {Elsewhere}
  PROVE  ReplyOK(ComputeRoute(request, heading))
<1>1. CASE request.to.du < 0 /\ request.to.from \notin Spot
  <2>1. PICK r : r = [status |-> 404, asked |-> request]
    OBVIOUS
  <2>2. ComputeRoute(request, heading) = r
    BY <1>1, <2>1, Zenon DEF ComputeRoute
  <2>3. r.status = 404
    BY <2>1
  <2> QED BY <2>2, <2>3 DEF ReplyOK
<1>2. CASE ~(request.to.du < 0 /\ request.to.from \notin Spot)
  <2>1. AskedOK(request)
    BY <1>2 DEF AskedOK
  <2> QED BY <1>2, <2>1, AnswerIs
<1> QED BY <1>1, <1>2

LEMMA RouteKeeps ==
  ASSUME VisitorInv, line = <<>>, NEW a \in BOOLEAN, NEW h, Route(a, h), UNCHANGED progressVars
  PROVE  VisitorInv'
<1>1. PICK graph : graph = GetGraph(a)
  OBVIOUS
<1>2. graph.built \in BOOLEAN /\ GraphOK(graph.arcs)
  BY <1>1, GraphHeld
<1>3. PICK from \in Places(graph.arcs),
           to \in {p \in Places(graph.arcs) : p.du \in GoalPlaces}
                  \cup {ToNode(s) : s \in Spot \cup {Elsewhere}} :
        answer' = ComputeRoute([arcs |-> graph.arcs, from |-> from, to |-> to], h)
  BY <1>1 DEF Route
<1>4. PICK request : request = [arcs |-> graph.arcs, from |-> from, to |-> to]
  OBVIOUS
<1>5. request.arcs = graph.arcs /\ request.from = from /\ request.to = to
  BY <1>4
<1>6. GraphOK(request.arcs) /\ PlaceOK(request.from)
  BY <1>2, <1>5, PlacesAre
<1>7. PlaceOK(request.to) \/ (request.to.du = -1 /\ request.to.from \in Spot \cup {Elsewhere})
  <2>1. CASE to \in Places(graph.arcs)
    BY <1>2, <1>5, <2>1, PlacesAre
  <2>2. CASE to \in {ToNode(s) : s \in Spot \cup {Elsewhere}}
    BY <1>5, <2>2 DEF ToNode
  <2> QED BY <1>3, <2>1, <2>2
<1>8. ReplyOK(answer')
  <2>1. ReplyOK(ComputeRoute(request, h))
    BY <1>6, <1>7, RequestIs
  <2> QED BY <1>3, <1>4, <2>1
<1>9. cache' = [cache EXCEPT ![a] = graph] /\ UNCHANGED <<seeds, table>>
  BY <1>1 DEF Route
<1>10. /\ DOMAIN cache' = BOOLEAN
       /\ \A b \in BOOLEAN : cache'[b].built \in BOOLEAN /\ GraphOK(cache'[b].arcs)
  <2>1. DOMAIN cache = BOOLEAN /\ \A b \in BOOLEAN : cache[b].built \in BOOLEAN /\ GraphOK(cache[b].arcs)
    BY DEF VisitorInv, ServiceOK
  <2>2. DOMAIN cache' = BOOLEAN /\ \A b \in BOOLEAN : cache'[b] = IF b = a THEN graph ELSE cache[b]
    BY <1>9, <2>1
  <2> QED BY <1>2, <2>1, <2>2
<1>11. ServiceOK'
  BY <1>8, <1>9, <1>10 DEF VisitorInv, ServiceOK, progressVars
<1>12. WalkOK'
  BY DEF VisitorInv, WalkOK, NoLine, Measured, ProgressOK, Total, progressVars
<1> QED BY <1>11, <1>12 DEF VisitorInv

\* What is held before anything is built.
LEMMA NothingBuilt ==
  ASSUME NEW held, held = [a \in BOOLEAN |-> NotBuilt]
  PROVE  /\ DOMAIN held = BOOLEAN
         /\ \A a \in BOOLEAN : held[a].built \in BOOLEAN /\ GraphOK(held[a].arcs)
<1>1. <<>> \in Seq(Arc)
  OBVIOUS
<1>2. GraphOK(<<>>)
  BY <1>1 DEF GraphOK, OneArcEach, LongEnough
<1>3. NotBuilt.built = FALSE /\ NotBuilt.arcs = <<>>
  BY DEF NotBuilt
<1> QED BY <1>2, <1>3

LEMMA VisitorInvInit == VisitorInit => VisitorInv
<1> SUFFICES ASSUME VisitorInit PROVE VisitorInv
  OBVIOUS
<1>1. ReplyOK(answer)
  BY DEF VisitorInit, RoutingInit, ReplyOK
<1>2. line = <<>> /\ seeds \in Seeds /\ table = 1 /\ cache = [a \in BOOLEAN |-> NotBuilt]
  BY DEF VisitorInit, RoutingInit, ProgressInit
<1>3. table \in 1..Len(seeds)
  <2>1. seeds \in Seq(Seq(EdgeRow)) /\ seeds # <<>>
    BY <1>2, RoutingAssumption
  <2>2. Len(seeds) \in Nat /\ Len(seeds) # 0
    BY <2>1
  <2> QED BY <1>2, <2>2
<1>4. ServiceOK
  BY <1>1, <1>2, <1>3, NothingBuilt DEF ServiceOK
<1>5. WalkOK
  BY DEF VisitorInit, ProgressInit, WalkOK, NoLine
<1> QED BY <1>4, <1>5 DEF VisitorInv

LEMMA ServiceKeeps ==
  ASSUME VisitorInv, line = <<>>, SeedAgain \/ Invalidate \/ ReportFailure, UNCHANGED progressVars
  PROVE  VisitorInv'
<1>1. WalkOK'
  BY DEF VisitorInv, WalkOK, NoLine, Measured, ProgressOK, Total, progressVars
<1>2. line' = <<>>
  BY DEF progressVars
<1>3. CASE SeedAgain
  <2>1. table' = table + 1 /\ table < Len(seeds) /\ seeds \in Seeds /\ table \in 1..Len(seeds)
    BY <1>3 DEF SeedAgain, VisitorInv, ServiceOK
  <2>2. Len(seeds) \in Nat
    BY <2>1, RoutingAssumption
  <2>3. table' \in 1..Len(seeds)
    BY <2>1, <2>2
  <2>4. ServiceOK'
    BY <1>2, <1>3, <2>1, <2>3 DEF SeedAgain, VisitorInv, ServiceOK
  <2> QED BY <1>1, <2>4 DEF VisitorInv
<1>4. CASE Invalidate
  <2>1. cache' = [a \in BOOLEAN |-> NotBuilt] /\ UNCHANGED <<seeds, table, answer>>
    BY <1>4 DEF Invalidate
  <2>2. ServiceOK'
    BY <1>2, <2>1, NothingBuilt DEF VisitorInv, ServiceOK
  <2> QED BY <1>1, <2>2 DEF VisitorInv
<1>5. CASE ReportFailure
  <2>1. answer' = NoReply /\ UNCHANGED <<seeds, table, cache>>
    BY <1>5 DEF ReportFailure
  <2>2. ReplyOK(answer')
    BY <2>1 DEF ReplyOK
  <2>3. ServiceOK'
    BY <1>2, <2>1, <2>2 DEF VisitorInv, ServiceOK
  <2> QED BY <1>1, <2>3 DEF VisitorInv
<1> QED BY <1>3, <1>4, <1>5

-----------------------------------------------------------------------------
(* The line and its steps, on the phone *)

LEMMA StepTyped ==
  ASSUME NEW st \in Step
  PROVE  /\ st.turn \in {"straight", "left", "right", ""}
         /\ ~(st.arrive \/ st.distance < 0) => st.distance \in Nat
<1>1. CASE st \in GoOn
  BY <1>1 DEF GoOn
<1>2. CASE st \in TurnOff
  <2>1. st.turn \in {"left", "right"} /\ st.distance = -1
    BY <1>2 DEF TurnOff
  <2>2. st.distance < 0
    BY <2>1
  <2>3. st.turn \in {"straight", "left", "right", ""}
    BY <2>1
  <2> QED BY <2>2, <2>3, Zenon
<1>3. CASE st = ArriveStep
  BY <1>3 DEF ArriveStep
<1> QED BY <1>1, <1>2, <1>3 DEF Step, GoStep

\* How far the straights lead: never back, and never past the end of the line.
LeadHolds(total, told, acc) ==
    /\ \A n \in 0..Len(told) : acc[n] \in 0..total
    /\ \A n \in 1..Len(told) : acc[n - 1] <= acc[n]

LEMMA LeadIs ==
  ASSUME NEW total \in Nat, NEW told \in Seq(Step)
  PROVE  LeadHolds(total, told, Lead(total, told))
<1> DEFINE N == Len(told)
           To(x, n) == IF told[n].arrive \/ told[n].distance < 0 THEN x
                       ELSE Lesser(x + told[n].distance, total)
           step == [n \in 1..N |-> [x \in 0..total |-> To(x, n)]]
           Value(g, n) == IF n = 0 THEN 0
                          ELSE IF told[n].arrive \/ told[n].distance < 0 THEN g[n - 1]
                          ELSE Lesser(g[n - 1] + told[n].distance, total)
           Good(g) == g = [n \in 0..N |-> Value(g, n)]
<1>0. N \in Nat /\ \A n \in 1..N : told[n] \in Step
  OBVIOUS
<1>1. ASSUME NEW n \in 1..N, NEW x \in 0..total PROVE To(x, n) \in 0..total /\ x <= To(x, n)
  <2>1. CASE told[n].arrive \/ told[n].distance < 0
    BY <2>1
  <2>2. CASE ~(told[n].arrive \/ told[n].distance < 0)
    <3>1. told[n].distance \in Nat
      BY <1>0, <2>2, StepTyped
    <3> QED BY <2>2, <3>1 DEF Lesser
  <2> QED BY <2>1, <2>2
<1> HIDE DEF N
<1>2. PICK f \in [0..N -> 0..total] : Unfolds(f, N, 0, step)
  <2>1. StepsIn(step, N, 0..total) /\ 0 \in 0..total
    <3> HIDE DEF To
    <3> QED BY <1>1 DEF StepsIn
  <2> HIDE DEF step
  <2> QED BY <1>0, <2>1, RecursionTo, Zenon
<1>3. Good(f)
  <2>1. ASSUME NEW n \in 1..N PROVE f[n] = Value(f, n)
    <3>1. n - 1 \in 0..N /\ n # 0
      BY <1>0
    <3>2. f[n] = step[n][f[n - 1]] /\ f[n - 1] \in 0..total
      BY <1>2, <3>1 DEF Unfolds
    <3>3. step[n][f[n - 1]] = To(f[n - 1], n)
      BY <3>2
    <3> QED BY <3>1, <3>2, <3>3
  <2>2. f[0] = Value(f, 0)
    BY <1>2 DEF Unfolds
  <2> HIDE DEF Value
  <2> QED BY <1>0, <2>1, <2>2
<1> DEFINE acc == CHOOSE g : Good(g)
<1>4. Good(acc)
  <2> HIDE DEF Good
  <2> QED BY <1>3
<1>5. Lead(total, told) = acc
  BY DEF Lead, N
<1> HIDE DEF acc
<1>6. \A n \in 0..N : acc[n] = Value(acc, n)
  <2> HIDE DEF Value
  <2> QED BY <1>4
<1>7. acc[0] = 0 /\ \A n \in 1..N : acc[n] = To(acc[n - 1], n)
  <2>1. acc[0] = 0
    BY <1>0, <1>6
  <2>2. ASSUME NEW n \in 1..N PROVE acc[n] = To(acc[n - 1], n)
    <3>1. n \in 0..N /\ n # 0
      BY <1>0
    <3> QED BY <1>6, <3>1
  <2> QED BY <2>1, <2>2
<1> HIDE DEF To
<1>8. \A n \in 0..N : acc[n] \in 0..total
  <2> DEFINE T == {n \in 0..N : acc[n] \in 0..total}
  <2>1. 0 \in T
    BY <1>0, <1>7
  <2>2. \A n \in 0..(N - 1) : n \in T => n + 1 \in T
    <3> SUFFICES ASSUME NEW n \in 0..(N - 1), n \in T PROVE n + 1 \in T
      OBVIOUS
    <3>1. n + 1 \in 1..N /\ (n + 1) - 1 = n /\ acc[n] \in 0..total
      BY <1>0
    <3>2. acc[n + 1] = To(acc[n], n + 1)
      BY <1>7, <3>1
    <3>3. To(acc[n], n + 1) \in 0..total
      BY <1>1, <3>1
    <3> QED BY <1>0, <3>1, <3>2, <3>3
  <2> HIDE DEF T
  <2>3. \A n \in 0..N : n \in T
    BY <1>0, <2>1, <2>2, InductionTo
  <2> QED BY <2>3 DEF T
<1>9. ASSUME NEW n \in 1..N PROVE acc[n - 1] <= acc[n]
  <2>1. n - 1 \in 0..N
    BY <1>0
  <2>2. acc[n - 1] \in 0..total /\ acc[n] = To(acc[n - 1], n)
    BY <1>7, <1>8, <2>1
  <2> QED BY <1>1, <2>2
<1>10. LeadHolds(total, told, acc)
  BY <1>8, <1>9 DEF LeadHolds, N
<1> QED BY <1>5, <1>10

\* Where the steps end.
LEMMA EndsFitTheLine ==
  ASSUME NEW total \in Nat, NEW told \in Seq(Step),
         \A i \in DOMAIN told : told[i].arrive <=> i = Len(told)
  PROVE  EndsFit(total, SetSteps(total, told))
<1>1. PICK acc : acc = Lead(total, told) /\ LeadHolds(total, told, acc)
  BY LeadIs
<1>2. PICK N \in Nat : N = Len(told) /\ DOMAIN told = 1..N
  OBVIOUS
<1>3. PICK set : set = SetSteps(total, told)
  OBVIOUS
<1>4. set = [i \in 1..N |-> [turn |-> told[i].turn,
                             end |-> IF told[i].arrive THEN total ELSE acc[i]]]
  BY <1>1, <1>2, <1>3, Zenon DEF SetSteps
<1>5. DOMAIN set = 1..N
  BY <1>4
<1>6. ASSUME NEW i \in 1..N
      PROVE  /\ set[i].turn = told[i].turn
             /\ set[i].end = IF told[i].arrive THEN total ELSE acc[i]
             /\ acc[i] \in 0..total /\ acc[i - 1] \in 0..total /\ acc[i - 1] <= acc[i]
  <2>1. set[i] = [turn |-> told[i].turn, end |-> IF told[i].arrive THEN total ELSE acc[i]]
    BY <1>4
  <2>2. i \in 0..Len(told) /\ i - 1 \in 0..Len(told) /\ i \in 1..Len(told)
    BY <1>2
  <2> QED BY <1>1, <2>1, <2>2 DEF LeadHolds
<1>7. ASSUME NEW i \in DOMAIN set
      PROVE  /\ set[i].turn \in {"straight", "left", "right", ""}
             /\ set[i].end \in 0..total
             /\ i > 1 => set[i].end >= set[i - 1].end
  <2>1. i \in 1..N /\ told[i] \in Step
    BY <1>2, <1>5
  <2>2. told[i].turn \in {"straight", "left", "right", ""}
    BY <2>1, StepTyped
  <2>3. set[i].end \in 0..total
    BY <1>6, <2>1
  <2>4. ASSUME i > 1 PROVE set[i].end >= set[i - 1].end
    <3>1. i - 1 \in 1..N /\ i - 1 # Len(told) /\ i - 1 \in DOMAIN told
      BY <1>2, <2>1, <2>4
    <3>2. ~told[i - 1].arrive
      BY <3>1
    <3>3. set[i - 1].end = acc[i - 1]
      BY <1>6, <3>1, <3>2
    <3> QED BY <1>6, <2>1, <3>3
  <2> QED BY <1>6, <2>1, <2>2, <2>3, <2>4
<1>8. EndsFit(total, set)
  BY <1>7 DEF EndsFit
<1> QED BY <1>3, <1>8

LEMMA SetLineKeeps ==
  ASSUME VisitorInv, SetLine
  PROVE  VisitorInv'
<1>1. answer.status = 200 /\ answer # NoReply
  BY DEF SetLine
<1>2. ShortestWay(answer)
  <2>1. ReplyOK(answer)
    BY DEF VisitorInv, ServiceOK
  <2> QED BY <1>1, <2>1 DEF ReplyOK
<1>3. PICK points : points = answer.points /\ LineOK(points) /\ StepsFit(points, answer.steps)
  BY <1>2 DEF ShortestWay
<1>4. PICK far : far = CumOf(points) /\ CumHolds(points, far) /\ PolyLength(points) = far[Len(points)]
  BY <1>3, CumIs
<1>5. PICK L \in Nat : L = Len(points) /\ L >= 1 /\ DOMAIN points = 1..L
  BY <1>3 DEF LineOK
<1>6. far \in Seq(Nat) /\ Len(far) = L /\ far[L] \in Nat
  <2>1. \A i \in 1..L : far[i] \in Nat
    BY <1>4, <1>5 DEF CumHolds
  <2>2. PICK legs : far = [i \in 1..L |-> legs[i - 1]]
    BY <1>4, <1>5 DEF CumOf
  <2>3. far \in [1..L -> Nat]
    BY <2>1, <2>2
  <2> QED BY <1>5, <2>3
<1>7. line' = points /\ cum' = far /\ steps' = SetSteps(far[L], answer.steps)
  BY <1>3, <1>4, <1>5 DEF SetLine
<1>8. line' # <<>>
  BY <1>5, <1>7
<1>9. Measured'
  BY <1>3, <1>4, <1>5, <1>6, <1>7 DEF Measured
<1>10. Total' = far[L]
  BY <1>6, <1>7 DEF Total, Last
<1>11. EndsFit(Total', steps')
  <2>1. answer.steps \in Seq(Step) /\ \A i \in DOMAIN answer.steps : answer.steps[i].arrive <=> i = Len(answer.steps)
    BY <1>3 DEF StepsFit
  <2>2. EndsFit(far[L], SetSteps(far[L], answer.steps))
    BY <1>6, <2>1, EndsFitTheLine
  <2> QED BY <1>7, <1>10, <2>2
<1>12. /\ lastSegment' = None /\ progress' = NoProgress /\ walked' = 0 /\ lost' = FALSE
       /\ seeds' = <<>> /\ table' = 0 /\ cache' = [a \in BOOLEAN |-> NotBuilt] /\ answer' = NoReply
  BY DEF SetLine
<1>13. ProgressOK' /\ walked' \in 0..Total'
  BY <1>6, <1>10, <1>12 DEF ProgressOK, NoProgress
<1>14. WalkOK'
  BY <1>8, <1>9, <1>11, <1>12, <1>13 DEF WalkOK
<1>15. ServiceOK'
  BY <1>8, <1>12, NothingBuilt DEF ServiceOK, ReplyOK
<1> QED BY <1>14, <1>15 DEF VisitorInv

-----------------------------------------------------------------------------
(* Poses *)

\* How far along the line the ends of a segment are.
LEMMA SegmentIs ==
  ASSUME Measured, NEW s \in 1..(Len(line) - 1)
  PROVE  /\ s \in 1..Len(line) /\ s + 1 \in 1..Len(line)
         /\ InHall(line[s]) /\ InHall(line[s + 1])
         /\ cum[s] \in Nat /\ cum[s + 1] \in Nat
         /\ SegmentLength(s) = Euclid(line[s], line[s + 1])
         /\ SegmentLength(s) \in Nat /\ cum[s + 1] = cum[s] + SegmentLength(s)
<1>1. Len(line) \in Nat
  BY DEF Measured, LineOK
<1>2. s \in 1..Len(line) /\ s + 1 \in 1..Len(line)
  BY <1>1
<1>3. InHall(line[s]) /\ InHall(line[s + 1])
  BY <1>2 DEF Measured, LineOK
<1>4. /\ cum[s] \in Nat /\ cum[s + 1] \in Nat
      /\ cum[s + 1] = cum[s] + Euclid(line[s], line[s + 1])
  BY <1>2 DEF Measured, CumHolds
<1>5. Euclid(line[s], line[s + 1]) \in 0..Reach /\ Reach \in Nat
  BY <1>3, EuclidIs, RoutingAssumption
<1> QED BY <1>2, <1>3, <1>4, <1>5 DEF SegmentLength

\* The points of a line lie one behind the other.
LEMMA CumGrows ==
  ASSUME Measured
  PROVE  /\ Total \in Nat /\ Total = cum[Len(line)] /\ cum[1] = 0
         /\ \A i \in 1..Len(line) : cum[i] \in Nat /\ cum[i] <= Total
<1>1. PICK L \in Nat : L = Len(line) /\ L >= 1 /\ Len(cum) = L
  BY DEF Measured, LineOK
<1>2. Total = cum[L]
  BY <1>1 DEF Total, Last
<1>3. cum[1] = 0 /\ \A i \in 1..L : cum[i] \in Nat
  BY <1>1 DEF Measured, CumHolds
<1>4. \A i \in 1..(L - 1) : cum[i] <= cum[i + 1]
  <2> SUFFICES ASSUME NEW i \in 1..(L - 1) PROVE cum[i] <= cum[i + 1]
    OBVIOUS
  <2> QED BY <1>1, SegmentIs
<1> DEFINE T == {n \in 0..(L - 1) : cum[L - n] <= cum[L]}
<1>5. 0 \in T
  BY <1>1, <1>3
<1>6. \A n \in 0..((L - 1) - 1) : n \in T => n + 1 \in T
  <2> SUFFICES ASSUME NEW n \in 0..((L - 1) - 1), n \in T PROVE n + 1 \in T
    OBVIOUS
  <2>1. PICK i \in 1..(L - 1) : i = L - (n + 1) /\ i + 1 = L - n
    <3>1. L - (n + 1) \in 1..(L - 1) /\ (L - (n + 1)) + 1 = L - n
      OBVIOUS
    <3> QED BY <3>1
  <2>2. cum[i + 1] <= cum[L] /\ cum[i] <= cum[i + 1]
    BY <1>4, <2>1
  <2>3. cum[i] \in Nat /\ cum[i + 1] \in Nat /\ cum[L] \in Nat
    <3>1. i \in 1..L /\ i + 1 \in 1..L /\ L \in 1..L
      BY <1>1
    <3> QED BY <1>3, <3>1
  <2>4. cum[i] <= cum[L]
    BY <2>2, <2>3
  <2> QED BY <2>1, <2>4
<1>7. L - 1 \in Nat
  BY <1>1
<1>8. \A n \in 0..(L - 1) : n \in T
  <2> HIDE DEF T
  <2> QED BY <1>5, <1>6, <1>7, InductionTo
<1>9. \A i \in 1..L : cum[i] <= cum[L]
  <2> SUFFICES ASSUME NEW i \in 1..L PROVE cum[i] <= cum[L]
    OBVIOUS
  <2>1. L - i \in 0..(L - 1) /\ L - (L - i) = i
    OBVIOUS
  <2>2. L - i \in T
    BY <1>8, <2>1
  <2> QED BY <2>1, <2>2
<1>10. L \in 1..L
  BY <1>1
<1> QED BY <1>1, <1>2, <1>3, <1>9, <1>10

LEMMA AlongSegmentIs ==
  ASSUME Measured, NEW s \in 1..(Len(line) - 1), NEW p, InHall(p)
  PROVE  AlongSegment(p, s) \in 0..SegmentLength(s)
<1>1. PICK d \in Nat : d = SegmentLength(s)
  BY SegmentIs
<1>2. InHall(line[s]) /\ InHall(line[s + 1])
  BY SegmentIs
<1>3. CASE d = 0
  BY <1>1, <1>3 DEF AlongSegment
<1>4. CASE d # 0
  <2>1. PICK n \in Int : n = Dot(Minus(p, line[s]), Minus(line[s + 1], line[s]))
    <3>1. Dot(Minus(p, line[s]), Minus(line[s + 1], line[s])) \in Int
      BY <1>2 DEF Dot, Minus, InHall, Point
    <3> QED BY <3>1
  <2>2. PICK q \in Int : q = n \div d
    <3>1. n \div d \in Int
      BY <1>4
    <3> QED BY <3>1
  <2>3. Clamp(q, 0, d) \in 0..d
    BY DEF Clamp
  <2>4. AlongSegment(p, s) = Clamp(q, 0, d)
    BY <1>1, <1>4, <2>1, <2>2 DEF AlongSegment
  <2> QED BY <1>1, <2>3, <2>4
<1> QED BY <1>3, <1>4

LEMMA LateralIs ==
  ASSUME Measured, NEW s \in 1..(Len(line) - 1), NEW p, InHall(p)
  PROVE  Score(p, s) \in Int /\ Score(p, s) + SegmentHysteresis \in Nat
<1>1. InHall(line[s]) /\ InHall(line[s + 1]) /\ SegmentLength(s) = Euclid(line[s], line[s + 1])
  BY SegmentIs
<1>2. AlongSegment(p, s) \in 0..Euclid(line[s], line[s + 1])
  BY <1>1, AlongSegmentIs
<1>3. InHall(Along(line[s], line[s + 1], AlongSegment(p, s)))
  BY <1>1, <1>2, AlongInHall
<1>4. Lateral(p, s) \in Nat
  <2>1. Lateral(p, s) \in 0..Reach
    BY <1>3, EuclidIs DEF Lateral
  <2> QED BY <2>1, RoutingAssumption
<1>5. SegmentHysteresis \in Nat
  BY ProgressAssumption
<1> QED BY <1>4, <1>5 DEF Score

\* There is a nearest segment among those looked at.
LEMMA BestSegmentIs ==
  ASSUME Measured, lastSegment = None \/ lastSegment \in 1..(Len(line) - 1),
         Len(line) >= 2, NEW p, InHall(p)
  PROVE  BestSegment(p) \in 1..(Len(line) - 1)
<1>1. Len(line) \in Nat
  BY DEF Measured, LineOK
<1>2. PICK W : W = Window /\ W \subseteq 1..(Len(line) - 1) /\ W # {}
  <2>1. CASE lastSegment = None
    <3>1. Window = 1..(Len(line) - 1) /\ 1 \in 1..(Len(line) - 1)
      BY <1>1, <2>1 DEF Window
    <3> QED BY <3>1, Zenon
  <2>2. CASE lastSegment # None
    <3>1. Window \subseteq 1..(Len(line) - 1)
      BY <2>2 DEF Window
    <3>2. lastSegment \in 1..(Len(line) - 1) /\ SearchWindow \in Nat
      BY <2>2, ProgressAssumption
    <3>3. lastSegment \in Window
      BY <1>1, <2>2, <3>2 DEF Window
    <3> QED BY <3>1, <3>3
  <2> QED BY <2>1, <2>2
<1>3. \A s \in W : Score(p, s) \in Int /\ s \in Nat
  BY <1>2, LateralIs
<1>4. PICK a \in W : \A r \in W : Score(p, a) <= Score(p, r)
  <2>1. \A s \in W : Score(p, s) + SegmentHysteresis \in Nat
    <3> SUFFICES ASSUME NEW s \in W PROVE Score(p, s) + SegmentHysteresis \in Nat
      OBVIOUS
    <3> QED BY <1>2, LateralIs
  <2> DEFINE H == {Score(p, s) + SegmentHysteresis : s \in W}
  <2>2. H \in SUBSET Nat /\ H # {}
    BY <1>2, <2>1
  <2>3. \E m \in H : \A k \in H : m <= k
    <3> HIDE DEF H
    <3> QED BY <2>2, LeastOf
  <2>4. PICK m \in W : \A r \in W : Score(p, m) + SegmentHysteresis <= Score(p, r) + SegmentHysteresis
    BY <2>3
  <2> QED BY <1>3, <2>4, ProgressAssumption
<1>5. PICK b \in {r \in W : Score(p, r) = Score(p, a)} :
        \A r \in W : Score(p, r) = Score(p, a) => b <= r
  <2> DEFINE K == {r \in W : Score(p, r) = Score(p, a)}
  <2>1. K \in SUBSET Nat /\ K # {}
    BY <1>3
  <2>2. \E m \in K : \A k \in K : m <= k
    <3> HIDE DEF K
    <3> QED BY <2>1, LeastOf
  <2> QED BY <2>2
<1> DEFINE First(s) == \A r \in W : \/ Score(p, s) < Score(p, r)
                                    \/ Score(p, s) = Score(p, r) /\ s <= r
<1>6. b \in W /\ First(b)
  BY <1>3, <1>4, <1>5
<1>7. BestSegment(p) = CHOOSE s \in W : First(s)
  BY <1>2 DEF BestSegment
<1>8. BestSegment(p) \in W
  <2> HIDE DEF First
  <2> QED BY <1>6, <1>7
<1> QED BY <1>2, <1>8

LEMMA PoseKeeps ==
  ASSUME Measured, ProgressOK, NEW p, InHall(p), UpdatePose(p), UNCHANGED <<line, cum>>
  PROVE  ProgressOK'
<1>1. CASE Len(line) < 2
  <2>1. progress' = NoProgress /\ lastSegment' = lastSegment
    BY <1>1 DEF UpdatePose
  <2> QED BY <2>1 DEF ProgressOK, NoProgress
<1>2. CASE ~(Len(line) < 2)
  <2>1. Len(line) \in Nat /\ Len(line) >= 2
    BY <1>2 DEF Measured, LineOK
  <2>2. PICK s \in 1..(Len(line) - 1) : s = BestSegment(p)
    <3>1. BestSegment(p) \in 1..(Len(line) - 1)
      BY <2>1, BestSegmentIs DEF ProgressOK
    <3> QED BY <3>1
  <2>3. PICK far \in 0..SegmentLength(s) : far = AlongSegment(p, s)
    <3>1. AlongSegment(p, s) \in 0..SegmentLength(s)
      BY AlongSegmentIs
    <3> QED BY <3>1
  <2>4. PICK remaining : remaining = Total - cum[s] - far
    OBVIOUS
  <2>5. /\ lastSegment' = s
        /\ progress' = [valid |-> TRUE, remaining |-> remaining, lateral |-> Lateral(p, s),
                        arrived |-> Arrived(remaining)]
    BY <1>2, <2>2, <2>3, <2>4, Zenon DEF UpdatePose
  <2>6. progress'.remaining = remaining
    BY <2>5
  <2>7. remaining \in 0..Total
    <3>1. /\ s + 1 \in 1..Len(line) /\ cum[s] \in Nat /\ cum[s + 1] \in Nat
          /\ SegmentLength(s) \in Nat /\ cum[s + 1] = cum[s] + SegmentLength(s)
      BY SegmentIs
    <3>2. Total \in Nat /\ cum[s + 1] <= Total
      BY <3>1, CumGrows
    <3> QED BY <2>3, <2>4, <3>1, <3>2
  <2>8. Total' = Total
    BY DEF Total
  <2> QED BY <2>2, <2>5, <2>6, <2>7, <2>8 DEF ProgressOK
<1> QED BY <1>1, <1>2

\* A place on the line is in the hall.
LEMMA AtInHall ==
  ASSUME Measured, Len(line) # 1, NEW w \in 0..Total
  PROVE  InHall(At(w))
<1>1. PICK L \in Nat : L = Len(line) /\ L >= 2
  BY DEF Measured, LineOK
<1>2. Total \in Nat /\ Total = cum[L] /\ cum[1] = 0
  BY <1>1, CumGrows
<1> DEFINE K == {i \in 1..(L - 1) : w <= cum[i + 1]}
           On(i) == w <= cum[i + 1] /\ (i = 1 \/ w > cum[i])
<1>3. PICK m \in K : \A k \in K : m <= k
  <2>1. L - 1 \in 1..(L - 1) /\ (L - 1) + 1 = L
    BY <1>1
  <2>2. L - 1 \in K
    BY <1>2, <2>1
  <2>3. K \in SUBSET Nat /\ K # {}
    <3>1. K \subseteq 1..(L - 1)
      OBVIOUS
    <3>2. 1..(L - 1) \subseteq Nat
      OBVIOUS
    <3> HIDE DEF K
    <3> QED BY <2>2, <3>1, <3>2
  <2>4. \E m \in K : \A k \in K : m <= k
    <3> HIDE DEF K
    <3> QED BY <2>3, LeastOf
  <2> QED BY <2>4
<1>4. m \in 1..(L - 1) /\ On(m)
  <2>1. m \in 1..(L - 1) /\ w <= cum[m + 1]
    OBVIOUS
  <2>2. ASSUME m # 1 PROVE w > cum[m]
    <3>1. m - 1 \in 1..(L - 1) /\ (m - 1) + 1 = m /\ m - 1 \notin K
      BY <1>3, <2>1, <2>2
    <3>2. ~(w <= cum[m])
      BY <3>1
    <3>3. cum[m] \in Nat
      BY <1>1, <2>1, SegmentIs
    <3> QED BY <1>2, <3>2, <3>3
  <2> QED BY <2>1, <2>2
<1> DEFINE s == CHOOSE i \in 1..(L - 1) : On(i)
<1>5. s \in 1..(L - 1) /\ On(s)
  <2> HIDE DEF On
  <2> QED BY <1>4, Zenon
<1>6. At(w) = Along(line[s], line[s + 1], w - cum[s])
  BY <1>1, Zenon DEF At
<1> HIDE DEF s
<1>7. /\ InHall(line[s]) /\ InHall(line[s + 1]) /\ cum[s] \in Nat /\ cum[s + 1] \in Nat
      /\ SegmentLength(s) = Euclid(line[s], line[s + 1])
      /\ SegmentLength(s) \in Nat /\ cum[s + 1] = cum[s] + SegmentLength(s)
  BY <1>1, <1>5, SegmentIs
<1>8. w - cum[s] \in 0..Euclid(line[s], line[s + 1])
  <2>1. w >= cum[s]
    <3>1. CASE s = 1
      BY <1>2, <3>1
    <3>2. CASE s # 1
      BY <1>2, <1>5, <1>7, <3>2
    <3> QED BY <3>1, <3>2
  <2> QED BY <1>2, <1>5, <1>7, <2>1
<1>9. InHall(Along(line[s], line[s + 1], w - cum[s]))
  BY <1>7, <1>8, AlongInHall
<1> QED BY <1>6, <1>9

LEMMA PoseOnLineKeeps ==
  ASSUME VisitorInv, NEW w \in 0..Total, PoseOnLine(w)
  PROVE  VisitorInv'
<1>1. line # <<>> /\ UNCHANGED <<routingVars, line, cum, steps>> /\ walked' = w
  BY DEF PoseOnLine
<1>2. Measured /\ EndsFit(Total, steps) /\ ProgressOK /\ lost \in BOOLEAN
  BY <1>1 DEF VisitorInv, WalkOK, NoLine
<1>3. PICK p : p = (IF Len(line) = 1 THEN line[1] ELSE At(w)) /\ InHall(p)
  <2>1. CASE Len(line) = 1
    BY <1>2, <2>1 DEF Measured, LineOK
  <2>2. CASE Len(line) # 1
    BY <1>2, <2>2, AtInHall
  <2> QED BY <2>1, <2>2
<1>4. UpdatePose(p)
  BY <1>3 DEF PoseOnLine
<1>5. ProgressOK'
  BY <1>1, <1>2, <1>3, <1>4, PoseKeeps
<1>6. lost' \in BOOLEAN
  BY <1>2 DEF PoseOnLine
<1>7. Measured' /\ EndsFit(Total, steps)' /\ Total' = Total
  BY <1>1, <1>2 DEF Measured, Total
<1>8. WalkOK'
  BY <1>1, <1>5, <1>6, <1>7 DEF WalkOK
<1>9. ServiceOK'
  BY <1>1 DEF VisitorInv, ServiceOK, routingVars
<1> QED BY <1>8, <1>9 DEF VisitorInv

LEMMA StrayKeeps ==
  ASSUME VisitorInv, NEW s \in Spot, Stray(s)
  PROVE  VisitorInv'
<1>1. /\ line # <<>> /\ UNCHANGED <<routingVars, line, cum, steps>>
      /\ walked' = OffLine /\ lost' = TRUE /\ UpdatePose(Pos[s])
  BY DEF Stray
<1>2. Measured /\ EndsFit(Total, steps) /\ ProgressOK
  BY <1>1 DEF VisitorInv, WalkOK, NoLine
<1>3. ProgressOK'
  BY <1>1, <1>2, NodesInHall, PoseKeeps
<1>4. Measured' /\ EndsFit(Total, steps)'
  BY <1>1, <1>2 DEF Measured, Total
<1>5. WalkOK'
  BY <1>1, <1>3, <1>4 DEF WalkOK
<1>6. ServiceOK'
  BY <1>1 DEF VisitorInv, ServiceOK, routingVars
<1> QED BY <1>5, <1>6 DEF VisitorInv

LEMMA VisitorInvNext == VisitorInv /\ [VisitorNext]_visitorVars => VisitorInv'
<1> SUFFICES ASSUME VisitorInv, [VisitorNext]_visitorVars PROVE VisitorInv'
  OBVIOUS
<1>1. ASSUME NEW a \in BOOLEAN, NEW h, line = <<>>, Route(a, h), UNCHANGED progressVars
      PROVE  VisitorInv'
  BY <1>1, RouteKeeps
<1>2. ASSUME line = <<>>, SeedAgain \/ Invalidate \/ ReportFailure, UNCHANGED progressVars
      PROVE  VisitorInv'
  BY <1>2, ServiceKeeps
<1>3. CASE SetLine
  BY <1>3, SetLineKeeps
<1>4. CASE Walk
  BY <1>4, PoseOnLineKeeps DEF Walk
<1>5. ASSUME NEW s \in Spot, Stray(s) PROVE VisitorInv'
  BY <1>5, StrayKeeps
<1>6. CASE Return
  BY <1>6, PoseOnLineKeeps DEF Return
<1>7. CASE UNCHANGED visitorVars
  <2>1. UNCHANGED <<seeds, table, cache, answer>> /\ UNCHANGED progressVars
    BY <1>7 DEF visitorVars, routingVars
  <2>2. ServiceOK'
    BY <2>1 DEF VisitorInv, ServiceOK, progressVars
  <2>3. WalkOK'
    BY <2>1 DEF VisitorInv, WalkOK, NoLine, Measured, ProgressOK, Total, progressVars
  <2> QED BY <2>2, <2>3 DEF VisitorInv
<1> QED BY <1>1, <1>2, <1>3, <1>4, <1>5, <1>6, <1>7 DEF VisitorNext

-----------------------------------------------------------------------------
(* Guidance and the route *)

NavInv == GuideInv /\ VisitorInv

LEMMA NavInvInit == NavInit => NavInv
<1>1. NavInit => GuideInit /\ VisitorInit
  BY Zenon DEF NavInit
<1> QED BY <1>1, GuideInvInit, VisitorInvInit, Zenon DEF NavInv

LEMMA NavInvNext == NavInv /\ [NavNext]_navVars => NavInv'
<1> SUFFICES ASSUME NavInv, [NavNext]_navVars PROVE NavInv'
  OBVIOUS
<1>1. [GuideNext]_guideVars /\ [VisitorNext]_visitorVars
  BY DEF NavNext, navVars
<1> QED BY <1>1, GuideInvNext, VisitorInvNext DEF NavInv

\* The invariant of both, at every moment.
THEOREM NavInvHolds == LiveSpec => []NavInv
BY NavInvInit, NavInvNext, PTL DEF LiveSpec

\* The state of guidance, of the service and of the walk keeps its types: a step
\* of the route ends on the line and after the one before it, the segment of the
\* visitor is one of the line, and the way left is no longer than the line
\* (NavMinimapWidget.h:494-513, NavRouteProgress.cpp:16-175).
THEOREM NavigationTyped == LiveSpec => []NavTypeOK
<1>1. NavInv => NavTypeOK
  BY VisitorTyped DEF NavInv, GuideInv, NavTypeOK
<1> QED BY <1>1, NavInvHolds, PTL

\* The answers of the service are shortest ways of the graph it holds, whatever
\* the map: the A* search with its straight-line estimate finds one if there is
\* one, and the steps say how long it is (routing.py:206-292, navigation.py:70-90).
THEOREM ServiceAnswersShortest == LiveSpec => []AnswersAreShortest
<1>1. NavInv => AnswersAreShortest
  BY VisitorTyped DEF NavInv
<1> QED BY <1>1, NavInvHolds, PTL
=============================================================================
