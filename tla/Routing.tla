------------------------------- MODULE Routing -------------------------------
(***************************************************************************)
(* The route service of the back end (services/routing.py and              *)
(* routers/navigation.py): the graph of a map, built from the rows of the  *)
(* database and kept per process; snapping a place to its nearest edge;    *)
(* the A* search; and the answer with its waypoints and steps.             *)
(*                                                                         *)
(* The museum lies on a grid on which distances between nodes are whole    *)
(* numbers, so that lengths are compared as the code compares them.  A     *)
(* place is where it projects to: so far along an arc of the graph.        *)
(***************************************************************************)
EXTENDS Integers, Sequences, SequencesExt, Maps

CONSTANTS Spot,     \* the nodes of the map
          Pos,      \* where they are
          Kind,     \* node_type
          NoSpot,   \* no node
          Elsewhere,  \* a node of another map
          Seeds,    \* the sequences of edge tables the database may go through
          Reach,    \* no two points are further apart
          Spacing,  \* bound: places lie this far apart on an edge
          GoalPlaces,  \* bound on how far along an edge a goal given by
                       \* coordinates may lie
          Eps       \* NODE_SNAP_EPS_CM

Square(n) == n * n
SquaredDistance(p, q) == Square(p[1] - q[1]) + Square(p[2] - q[2])

\* math.dist; rounded down if it is not whole.
Root == [n \in 0..Square(Reach) |->
           CHOOSE d \in 0..Reach : Square(d) <= n /\ n < Square(d + 1)]
Euclid(p, q) == Root[SquaredDistance(p, q)]

Length == [st \in Spot \X Spot |-> Euclid(Pos[st[1]], Pos[st[2]])]
Between(s, t) == Length[<<s, t>>]

\* The rows of nav_edges; distance_cm is 0 if there is none.  A way is not
\* entered as shorter than it looks.
EdgeRow == {row \in [from : Spot \cup {Elsewhere}, to : Spot \cup {Elsewhere},
                     distance : Nat, both : BOOLEAN, accessible : BOOLEAN] :
              {row.from, row.to} \subseteq Spot /\ row.distance > 0 =>
                row.distance >= Between(row.from, row.to)}

\* Distances between nodes are whole, and the hall fits in Reach from corner to
\* corner.
ASSUME RoutingAssumption ==
    /\ IsFiniteSet(Spot) /\ {NoSpot, Elsewhere} \cap Spot = {}
    /\ Pos \in [Spot -> Nat \X Nat]
    /\ {Reach, Eps} \subseteq Nat /\ Spacing \in 1..Reach /\ GoalPlaces \subseteq Nat
    /\ \A s, t \in Spot :
         /\ Square(Euclid(Pos[s], Pos[t])) = SquaredDistance(Pos[s], Pos[t])
         /\ Pos[s] = Pos[t] => s = t
    /\ \A s, t, u, v \in Spot :
         Square(Pos[s][1] - Pos[t][1]) + Square(Pos[u][2] - Pos[v][2]) <= Square(Reach)
    /\ Seeds \subseteq Seq(Seq(EdgeRow)) \ {<<>>}

VARIABLES
    seeds,   \* the edge tables the database goes through
    table,   \* the rows of nav_edges now, as an index into seeds
    cache,   \* _graph_cache, by accessible_only
    answer    \* the answer of the latest request, with what was asked

routingVars == <<seeds, table, cache, answer>>

NotBuilt == [built |-> FALSE, arcs |-> <<>>]
NoReply == [status |-> 0]

-----------------------------------------------------------------------------
(* The graph *)

\* DiGraph.add_edge: an arc that is there keeps its place.
AddEdge(arcs, from, to, weight) ==
    LET known == {i \in DOMAIN arcs : arcs[i].from = from /\ arcs[i].to = to}
        arc == [from |-> from, to |-> to, weight |-> weight]
    IN  IF known = {} THEN Append(arcs, arc)
        ELSE [i \in DOMAIN arcs |-> IF i \in known THEN arc ELSE arcs[i]]

\* A row without a distance has that of its nodes.
AddRow(arcs, row) ==
    LET weight == IF row.distance = 0 THEN Between(row.from, row.to)
                                      ELSE row.distance
        there == AddEdge(arcs, row.from, row.to, weight)
    IN  IF row.both THEN AddEdge(there, row.to, row.from, weight) ELSE there

\* build_graph: rows that lead off the map and, for an accessible route,
\* stairs are left out.
OnMap(row, accessibleOnly) ==
    {row.from, row.to} \subseteq Spot /\ (accessibleOnly => row.accessible)

BuildGraph(rows, accessibleOnly) ==
    LET arcs[n \in 0..Len(rows)] ==
          IF n = 0 THEN <<>>
          ELSE IF OnMap(rows[n], accessibleOnly) THEN AddRow(arcs[n - 1], rows[n])
          ELSE arcs[n - 1]
    IN  arcs[Len(rows)]

\* get_graph: built once and kept, whatever becomes of the rows.
GetGraph(accessibleOnly) ==
    IF cache[accessibleOnly].built THEN cache[accessibleOnly]
    ELSE [built |-> TRUE, arcs |-> BuildGraph(seeds[table], accessibleOnly)]

-----------------------------------------------------------------------------
(* Snapping *)

\* The point so far along the line from one node to another.
Along(p, q, far) ==
    IF Euclid(p, q) = 0 THEN p
    ELSE <<p[1] + ((q[1] - p[1]) * far) \div Euclid(p, q),
           p[2] + ((q[2] - p[2]) * far) \div Euclid(p, q)>>

NoFoot == <<>>
OnNode(s) == [node |-> s, entry |-> 0, foot |-> NoFoot]
OnEdge(s, entry, foot) == [node |-> s, entry |-> entry, foot |-> foot]

\* What the nearest edge may be and where on it: _project_to_segment.  In a
\* graph without edges, the nearest node: snap_to_graph.
Places(arcs) ==
    IF arcs = <<>> THEN [from : Spot, to : {NoSpot}, du : {0}]
    ELSE UNION {[from : {arc.from}, to : {arc.to},
                 du : {d \in 0..Between(arc.from, arc.to) : d % Spacing = 0}] :
                  arc \in ToSet(arcs)}

\* snap_to_edge: the candidates to enter the graph at, in their order.
SnapToEdge(place) ==
    LET dv == Between(place.from, place.to) - place.du
        foot == Along(Pos[place.from], Pos[place.to], place.du)
    IN  IF place.to = NoSpot \/ place.du <= Eps THEN <<OnNode(place.from)>>
        ELSE IF dv <= Eps THEN <<OnNode(place.to)>>
        ELSE <<OnEdge(place.from, place.du, foot), OnEdge(place.to, dv, foot)>>

-----------------------------------------------------------------------------
(* The search *)

\* Exhibits and facilities come later among equals.
TransitRank(s) == CASE Kind[s] = "exhibit" -> 2
                    [] Kind[s] = "facility" -> 1
                    [] OTHER -> 0

\* The order of the heap: f, then rank, then the order of insertion.
Before(a, b) ==
    \/ a.f < b.f
    \/ a.f = b.f /\ a.rank < b.rank
    \/ a.f = b.f /\ a.rank = b.rank /\ a.no < b.no

HeapPop(queue) == CHOOSE a \in queue : \A b \in queue \ {a} : Before(a, b)

\* Fault: a node that has been seen is not reached again by a shorter way.
SeenBefore(search, node, cost) == node \in DOMAIN search.enqueued

\* A neighbour is passed over if it is enqueued for no more.
NotShorter(search, node, cost) ==
    /\ node \in DOMAIN search.enqueued
    /\ search.enqueued[node] <= cost

\* The arcs from the node popped that lead to a neighbour by a shorter way.
Shorter(arcs, search, popped) ==
    {i \in DOMAIN arcs : /\ arcs[i].from = popped.node
                         /\ ~NotShorter(search, arcs[i].to, popped.dist + arcs[i].weight)}

\* What is pushed for one of them.  The entries are numbered in the order of
\* insertion, with gaps.
Pushed(arcs, goal, search, popped, i) ==
    LET cost == popped.dist + arcs[i].weight
    IN  [f |-> cost + Between(arcs[i].to, goal),
         rank |-> IF arcs[i].to = goal THEN 0 ELSE TransitRank(arcs[i].to),
         no |-> search.count + i, node |-> arcs[i].to, dist |-> cost,
         parent |-> popped.node]

\* The loop over the neighbours: no two arcs from a node lead to the same one.
Expand(arcs, goal, search, popped) ==
    LET pushed == {Pushed(arcs, goal, search, popped, i) : i \in Shorter(arcs, search, popped)}
    IN  [search EXCEPT
           !.queue = @ \cup pushed, !.count = @ + Len(arcs),
           !.enqueued = [s \in DOMAIN @ \cup {e.node : e \in pushed} |->
                           IF \E e \in pushed : e.node = s
                           THEN (CHOOSE e \in pushed : e.node = s).dist ELSE @[s]]]

\* A node that was popped before: the source, or one popped at less cost.
Done(search, popped) ==
    /\ popped.node \in DOMAIN search.explored
    /\ \/ search.explored[popped.node] = NoSpot
       \/ search.enqueued[popped.node] < popped.dist

\* From a node back to the source.
Behind(explored, path) ==
    IF Head(path) = NoSpot THEN path ELSE <<explored[Head(path)]>> \o path

PathTo(explored, node) ==
    LET path[n \in 0..Cardinality(Spot)] ==
          IF n = 0 THEN <<node>> ELSE Behind(explored, path[n - 1])
    IN  Tail(path[Cardinality(Spot)])

\* One turn of the loop of _astar_path.
Pop(arcs, goal, search) ==
    LET popped == HeapPop(search.queue)
        rest == [search EXCEPT !.queue = @ \ {popped}]
        seen == [rest EXCEPT !.explored = Put(@, popped.node, popped.parent)]
    IN  IF popped.node = goal
        THEN [rest EXCEPT !.path = Append(PathTo(search.explored, popped.parent), goal)]
        ELSE IF Done(search, popped) THEN rest
        ELSE Expand(arcs, goal, seen, popped)

Ended(search) == search.queue = {} \/ search.path # <<>>

StartAt(source) ==
    [queue |-> {[f |-> 0, rank |-> 0, no |-> 0, node |-> source, dist |-> 0, parent |-> NoSpot]},
     count |-> 0, enqueued |-> <<>>, explored |-> <<>>, path |-> <<>>]

\* The loop: an arc is pushed once, so there are no more turns than arcs and one.
\* The path is empty if there is none.
AstarPath(arcs, source, goal) ==
    LET search[n \in 0..(Len(arcs) + 1)] ==
          IF n = 0 THEN StartAt(source)
          ELSE LET before == search[n - 1]
               IN  IF Ended(before) THEN before ELSE Pop(arcs, goal, before)
    IN  search[Len(arcs) + 1].path

\* The sums of the first numbers of a sequence.
Sums(numbers) ==
    LET sum[n \in 0..Len(numbers)] == IF n = 0 THEN 0 ELSE sum[n - 1] + numbers[n]
    IN  sum

ArcsFrom(arcs, from, to) ==
    {i \in DOMAIN arcs : arcs[i].from = from /\ arcs[i].to = to}
Weight(arcs, from, to) == arcs[CHOOSE i \in ArcsFrom(arcs, from, to) : TRUE].weight

\* The weights along a path.
CostOf(arcs, path) ==
    Sums([i \in 1..(Len(path) - 1) |-> Weight(arcs, path[i], path[i + 1])])[Len(path) - 1]

-----------------------------------------------------------------------------
(* Steps *)

Minus(q, p) == <<q[1] - p[1], q[2] - p[2]>>
Dot(d, e) == d[1] * e[1] + d[2] * e[2]
Cross(d, e) == d[1] * e[2] - d[2] * e[1]

\* From one heading to the next: less than 30 degrees is straight on; to
\* turn about is a left turn.
Turn(d, e) ==
    CASE Dot(d, e) > 0 /\ 3 * Square(Cross(d, e)) < Square(Dot(d, e)) -> "none"
      [] Cross(d, e) > 0 \/ (Cross(d, e) = 0 /\ Dot(d, e) < 0) -> "left"
      [] OTHER -> "right"

StraightStep(run) == [turn |-> "straight", distance |-> run, arrive |-> FALSE]
TurnStep(turn) == [turn |-> turn, distance |-> -1, arrive |-> FALSE]
ArriveStep == [turn |-> "", distance |-> -1, arrive |-> TRUE]

NoHeading == <<0, 0>>
Headings(points) ==
    [i \in 1..(Len(points) - 1) |-> Minus(points[i + 1], points[i])]

\* One turn of the loop of build_steps: the leg to a waypoint, and the corner
\* there unless it is the last.
AddLeg(points, made, i) ==
    LET run == made.run + Euclid(points[i], points[i + 1])
        turn == IF i + 1 < Len(points)
                THEN Turn(Headings(points)[i], Headings(points)[i + 1])
                ELSE "none"
    IN  IF turn = "none" THEN [made EXCEPT !.run = run]
        ELSE [run |-> 0,
              steps |-> made.steps \o <<StraightStep(run), TurnStep(turn)>>]

FirstTurn(points, heading) ==
    IF heading = NoHeading \/ Turn(heading, Headings(points)[1]) = "none"
    THEN <<>> ELSE <<TurnStep(Turn(heading, Headings(points)[1]))>>

\* What is made of the first legs.
LegsMade(points, heading) ==
    LET made[n \in 0..(Len(points) - 1)] ==
          IF n = 0 THEN [run |-> 0, steps |-> FirstTurn(points, heading)]
          ELSE AddLeg(points, made[n - 1], n)
    IN  made

BuildSteps(points, heading) ==
    IF Len(points) = 1 THEN <<ArriveStep>>
    ELSE LET made == LegsMade(points, heading)[Len(points) - 1]
         IN  Append(IF made.run > 0
                    THEN Append(made.steps, StraightStep(made.run))
                    ELSE made.steps, ArriveStep)

-----------------------------------------------------------------------------
(* The request *)

\* find_route between two candidates, and what it adds up to.
Candidate(arcs, s, g) ==
    LET path == AstarPath(arcs, s.node, g.node)
    IN  [path |-> path, start |-> s.foot, goal |-> g.foot,
         total |-> IF path = <<>> THEN 0 ELSE s.entry + CostOf(arcs, path) + g.entry]

Candidates(arcs, starts, goals) ==
    [x \in (DOMAIN starts) \X (DOMAIN goals) |-> Candidate(arcs, starts[x[1]], goals[x[2]])]

Earlier(x, y) == x[1] < y[1] \/ (x[1] = y[1] /\ x[2] < y[2])

\* Those with a path, and the first of the shortest of them.
Found(candidates) == {x \in DOMAIN candidates : candidates[x].path # <<>>}

Best(candidates) ==
    candidates[CHOOSE x \in Found(candidates) : \A y \in Found(candidates) \ {x} :
                 \/ candidates[x].total < candidates[y].total
                 \/ candidates[x].total = candidates[y].total /\ Earlier(x, y)]

Foot(foot) == IF foot = NoFoot THEN <<>> ELSE <<foot>>

\* The projections before and behind the nodes of the path.
Waypoints(best) ==
    Foot(best.start) \o [i \in DOMAIN best.path |-> Pos[best.path[i]]]
                     \o Foot(best.goal)

\* The goal: a node, or a place when `to` is given by coordinates.
Goals(to) == IF to.du < 0 THEN <<OnNode(to.from)>> ELSE SnapToEdge(to)
ToNode(s) == [from |-> s, to |-> NoSpot, du |-> -1]

ComputeRoute(asked, heading) ==
    IF asked.to.du < 0 /\ asked.to.from \notin Spot THEN [status |-> 404, asked |-> asked]
    ELSE LET candidates == Candidates(asked.arcs, SnapToEdge(asked.from), Goals(asked.to))
             best == Best(candidates)
         IN  IF Found(candidates) = {} THEN [status |-> 422, asked |-> asked]
             ELSE [status |-> 200, asked |-> asked, total |-> best.total,
                   path |-> best.path, points |-> Waypoints(best),
                   steps |-> BuildSteps(Waypoints(best), heading)]

-----------------------------------------------------------------------------

RoutingInit == /\ seeds \in Seeds /\ table = 1
               /\ cache = [a \in BOOLEAN |-> NotBuilt]
               /\ answer = NoReply

\* POST /navigation/route, or /reroute, which is the same.
Route(accessibleOnly, heading) ==
    /\ answer = NoReply
    /\ LET graph == GetGraph(accessibleOnly)
       IN  /\ cache' = [cache EXCEPT ![accessibleOnly] = graph]
           /\ \E from \in Places(graph.arcs),
                 to \in {p \in Places(graph.arcs) : p.du \in GoalPlaces}
                        \cup {ToNode(s) : s \in Spot \cup {Elsewhere}} :
                answer' = ComputeRoute([arcs |-> graph.arcs, from |-> from, to |-> to], heading)
    /\ UNCHANGED <<seeds, table>>

\* The scripts seed the map anew; nobody tells the service.
SeedAgain ==
    /\ answer = NoReply
    /\ table < Len(seeds)
    /\ table' = table + 1
    /\ UNCHANGED <<seeds, cache, answer>>

\* invalidate, or the process starts again.
Invalidate ==
    /\ answer = NoReply
    /\ cache' = [a \in BOOLEAN |-> NotBuilt]
    /\ UNCHANGED <<seeds, table, answer>>

\* The app is told that there is no route; or the answer is for another
\* client, one that gives coordinates.
ReportFailure ==
    /\ answer # NoReply
    /\ answer.status # 200 \/ answer.asked.to.du >= 0
    /\ answer' = NoReply
    /\ UNCHANGED <<seeds, table, cache>>

-----------------------------------------------------------------------------
(* Properties *)

Smallest(S) == CHOOSE n \in S : \A m \in S : n <= m

\* From where one gets to a node, and at what cost, in no more arcs than there
\* are nodes.
Longer(arcs, ways) ==
    ways \cup UNION {{<<arcs[i].from, arcs[i].weight + way[2]>> :
                        way \in {w \in ways : w[1] = arcs[i].to}} : i \in DOMAIN arcs}

WaysTo(arcs, goal) ==
    LET ways[k \in 0..Cardinality(Spot)] ==
          IF k = 0 THEN {<<goal, 0>>} ELSE Longer(arcs, ways[k - 1])
    IN  ways[Cardinality(Spot)]

\* How long the ways between two places are, through the ends of their edges.
Ways(asked) ==
    UNION {{s.entry + way[2] + g.entry :
              way \in {w \in WaysTo(asked.arcs, g.node) : w[1] = s.node}} :
             s \in ToSet(SnapToEdge(asked.from)), g \in ToSet(Goals(asked.to))}

Straights(steps) ==
    Sums([i \in DOMAIN steps |-> IF steps[i].turn = "straight" THEN steps[i].distance ELSE 0])
      [Len(steps)]

\* How far along a line its points are.
CumOf(points) ==
    LET legs == Sums([i \in 1..(Len(points) - 1) |-> Euclid(points[i], points[i + 1])])
    IN  [i \in DOMAIN points |-> legs[i - 1]]
PolyLength(points) == CumOf(points)[Len(points)]

\* The path is one of the graph, and the arcs it takes are no dearer than
\* what is left of the total.
PathHolds(r) ==
    /\ \A i \in 1..(Len(r.path) - 1) : ArcsFrom(r.asked.arcs, r.path[i], r.path[i + 1]) # {}
    /\ CostOf(r.asked.arcs, r.path) <= r.total

\* The straights of the steps are as long as the line, and only the last step
\* arrives.
StepsHold(r) ==
    /\ Straights(r.steps) = PolyLength(r.points)
    /\ \A i \in DOMAIN r.steps : r.steps[i].arrive <=> i = Len(r.steps)

\* The answer is a shortest way of the graph the service holds from where the
\* visitor is to where he wants to go, and "no path" is said only if there is
\* none (routing.py:206-292, navigation.py:70-90).
AnswersAreShortest ==
    answer # NoReply /\ answer.status \in {200, 422} =>
      IF answer.status = 422 THEN Ways(answer.asked) = {}
      ELSE /\ answer.total \in Ways(answer.asked)
           /\ \A way \in Ways(answer.asked) : answer.total <= way
           /\ PathHolds(answer) /\ StepsHold(answer)

=============================================================================
