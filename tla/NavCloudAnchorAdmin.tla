-------------------------- MODULE NavCloudAnchorAdmin --------------------------
(***************************************************************************)
(* The administrator's app (UNavCloudAnchorAdminSubsystem) that hosts an   *)
(* anchor at a planned point and registers it with the server: scan the    *)
(* place, host at the crosshair, bind the id to the selected point.        *)
(*                                                                         *)
(* A tick polls the host and gathers the scan; the answers of the server   *)
(* are callbacks of the game thread.  A PUT given up after five seconds    *)
(* may still reach the server.  What a point is called, where it is and    *)
(* the lines shown on the screen are left out.                             *)
(***************************************************************************)
EXTENDS CloudPoints

CONSTANT MaxReloads    \* bound on how often the server's address is applied

ASSUME AdminAssumption == MaxReloads \in Nat

VARIABLES
    asked,        \* bPointsRequested
    list,         \* Points: the id of each point that was listed
    selected,     \* the point at SelectedIdx
    reply,        \* a list the server answered that has not come yet
    reloads,      \* addresses applied
    scan,         \* ScanAmount and TransTotal against what registering needs
    pending,      \* PendingPin: the state of the host, "none" if there is no pin
    binding,      \* the bind under way (bBindInFlight)
    wire,         \* PUTs that have not reached the server
    given,        \* the ids Google gave
    server        \* the id of each point in the server's table

listVars == <<asked, list, selected, reply, reloads>>
hostVars == <<scan, pending, binding, wire>>
world == <<given, server>>
adminVars == <<listVars, hostVars, world>>

Scans == {"little", "turned", "enough"}
NoBind == [point |-> NoPoint, cloud |-> NoId, code |-> 0]
Loaded == DOMAIN list

AdminInit ==
    /\ asked = FALSE /\ list = <<>> /\ selected = NoPoint /\ reply = <<>> /\ reloads = 0
    /\ scan = "little" /\ pending = "none" /\ binding = NoBind /\ wire = {}
    /\ given = {} /\ server = [p \in Points |-> NoId]

-----------------------------------------------------------------------------
(* The list of points *)

\* FetchPoints, once; a request that fails is not sent again.
FetchPoints ==
    /\ ~asked
    /\ asked' = TRUE
    /\ reply' \in {<<>>, server}
    /\ UNCHANGED <<list, selected, reloads, hostVars, world>>

\* ApplyPointsJson: the first point without an anchor is selected, else the first.
ApplyPointsJson ==
    /\ reply # <<>>
    /\ list' = reply /\ reply' = <<>>
    /\ LET open == {p \in Points : p \in DOMAIN reply /\ reply[p] = NoId}
       IN selected' = FirstPoint(IF open = {} THEN DOMAIN reply ELSE open)
    /\ UNCHANGED <<asked, reloads, hostVars, world>>

\* OnApplyServerUrl: the list is emptied and asked for again.  What is being
\* hosted or bound goes on, and SelectedIdx stays and points to nothing.
OnApplyServerUrl ==
    /\ reloads < MaxReloads /\ asked /\ reply = <<>>
    /\ reloads' = reloads + 1
    /\ asked' = FALSE /\ list' = <<>>
    /\ UNCHANGED <<selected, reply, hostVars, world>>

SelectedPoint == IF selected \in Loaded THEN selected ELSE NoPoint

\* SelectAdjacent: the next point around the list or the one before; another
\* place, another scan.
SelectAdjacent ==
    /\ Loaded # {}
    /\ LET after == {p \in Loaded : p > selected}
           before == {p \in Loaded : p < selected}
       IN selected' \in {FirstPoint(IF after = {} THEN Loaded ELSE after),
                        LastPoint(IF before = {} THEN Loaded ELSE before)}
    /\ scan' = "little"
    /\ UNCHANGED <<asked, list, reply, reloads, pending, binding, wire, world>>

-----------------------------------------------------------------------------
(* Scan, host, bind *)

\* AccumulateScan, in a tick with nothing under way: walking counts for more
\* than turning, and turning alone is not enough to register.
AccumulateScan ==
    /\ pending = "none" /\ binding = NoBind
    /\ scan' \in {s \in Scans \ {scan} : scan = "little" \/ s = "enough"}
    /\ UNCHANGED <<listVars, pending, binding, wire, world>>

\* RegisterAtCrosshair: the floor was hit, the pin made and the host started.
RegisterAtCrosshair ==
    /\ pending = "none" /\ binding = NoBind
    /\ scan = "enough"
    /\ pending' = "InProgress"
    /\ UNCHANGED <<listVars, scan, binding, wire, world>>

\* ARCore ends the host, and Google has the anchor if it succeeded.
HostEnds ==
    /\ pending = "InProgress"
    /\ \/ /\ pending' = "Error" /\ UNCHANGED given
       \/ /\ pending' = "Success"
          /\ \E c \in Ids \ given : /\ \A d \in Ids \ given : c <= d
                                   /\ given' = given \union {c}
    /\ UNCHANGED <<listVars, scan, binding, wire, server>>

Newest == CHOOSE c \in given : \A d \in given : d <= c

\* BindSelectedPoint: the PUT of the newest id; none without a point.
BindSelectedPoint ==
    IF SelectedPoint = NoPoint THEN UNCHANGED <<binding, wire>>
    ELSE /\ binding' = [point |-> SelectedPoint, cloud |-> Newest, code |-> 0]
         /\ wire' = wire \union {[point |-> SelectedPoint, cloud |-> Newest]}

\* PollPendingHost: the id is bound to the point selected by now.
PollPendingHost ==
    /\ pending \in {"Success", "Error"}
    /\ pending' = "none" /\ scan' = "little"
    /\ IF pending = "Success" THEN BindSelectedPoint ELSE UNCHANGED <<binding, wire>>
    /\ UNCHANGED <<listVars, world>>

UnderWay(m) == binding.point = m.point /\ binding.cloud = m.cloud

\* The server binds the point, or refuses (no such point, the id is bound, an
\* error); its answer finds nobody if the request was given up.
BindArrives(m) ==
    /\ wire' = wire \ {m}
    /\ \E code \in {200, 409} :
        /\ server' = IF code = 200 THEN [server EXCEPT ![m.point] = m.cloud] ELSE server
        /\ binding' = IF UnderWay(m) THEN [binding EXCEPT !.code = code] ELSE binding
    /\ UNCHANGED <<listVars, scan, pending, given>>

\* A PUT that was given up is lost on the way.
BindIsLost(m) ==
    /\ ~UnderWay(m)
    /\ wire' = wire \ {m}
    /\ UNCHANGED <<listVars, scan, pending, binding, world>>

\* The callback of BindSelectedPoint: an answer, or none within the time.
BindEnds ==
    /\ binding # NoBind
    /\ binding' = NoBind
    /\ \E code \in {binding.code, -1} \ {0} :
       list' = IF code = 200 /\ binding.point \in Loaded
                 THEN [list EXCEPT ![binding.point] = binding.cloud] ELSE list
    /\ UNCHANGED <<asked, selected, reply, reloads, scan, pending, wire, world>>

-----------------------------------------------------------------------------
(* Specification *)

\* Somebody else unbinds a point.
UnbindElsewhere ==
    /\ \E p \in Points : server[p] # NoId /\ server' = [server EXCEPT ![p] = NoId]
    /\ UNCHANGED <<listVars, hostVars, given>>

AdminNext ==
    \/ FetchPoints \/ ApplyPointsJson \/ OnApplyServerUrl \/ SelectAdjacent
    \/ AccumulateScan \/ RegisterAtCrosshair \/ HostEnds \/ PollPendingHost \/ BindEnds
    \/ \E m \in wire : BindArrives(m) \/ BindIsLost(m)
    \/ UnbindElsewhere

-----------------------------------------------------------------------------
(* Properties *)

AdminTypeOK ==
    /\ asked \in BOOLEAN /\ reloads \in 0..MaxReloads
    /\ Loaded \subseteq Points /\ \A p \in Loaded : list[p] \in Ids \union {NoId}
    /\ selected \in Points \union {NoPoint}
    /\ DOMAIN reply \subseteq Points
    /\ scan \in Scans /\ pending \in {"none", "InProgress", "Success", "Error"}
    /\ binding \in [point : Points \union {NoPoint}, cloud : Ids \union {NoId},
                    code : {0, 200, 409}]
    /\ wire \subseteq [point : Points, cloud : Ids]
    /\ given \subseteq Ids /\ server \in [Points -> Ids \union {NoId}]

===============================================================================
