-------------------------------- MODULE Roadmap --------------------------------
(***************************************************************************)
(* The roadmap of the planning process (roadmap.rs): a road network in the *)
(* plane, links that are blocked for a while, routes over travel time, and *)
(* the geometry of following a route.                                      *)
(*                                                                         *)
(* Coordinates are integers and links run parallel to an axis, so that     *)
(* every projection of a grid point is a grid point and every length a     *)
(* natural number.  A speed cap is kept as its inverse, the time per unit. *)
(***************************************************************************)
EXTENDS Integers, FiniteSets, SequencesExt

CONSTANTS
  At,              \* At[n]: the place of node n, a sequence of points
  Links,           \* a sequence of records of Link, in the file's order
  BlockedTimeout   \* blocked_link_timeout_s, in cycles

Point == [x : Int, y : Int]
Node  == DOMAIN At
Link  == DOMAIN Links

(* Roadmap::build: no empty network, known and distinct ends, positive     *)
(* speed and length; RoadmapConfig::validate: a positive timeout.          *)
WellFormed ==
  /\ At \in Seq(Point) /\ Node # {} /\ Link # {}
  /\ Links \in Seq([a : Node, b : Node, slowness : Nat \ {0}, oneway : BOOLEAN])
  /\ \A l \in Link :
       /\ At[Links[l].a] # At[Links[l].b]
       /\ \/ At[Links[l].a].x = At[Links[l].b].x
          \/ At[Links[l].a].y = At[Links[l].b].y
  /\ BlockedTimeout \in Nat \ {0}

ASSUME RoadmapAssumption == WellFormed

AtMost(a, b)   == IF a < b THEN a ELSE b
Gap(a, b)      == IF a < b THEN b - a ELSE a - b
Clamp(v, p, q) == IF p <= q THEN (IF v < p THEN p ELSE IF v > q THEN q ELSE v)
                  ELSE (IF v < q THEN q ELSE IF v > p THEN p ELSE v)

Squared(p, q) == (p.x - q.x) * (p.x - q.x) + (p.y - q.y) * (p.y - q.y)
Span(p, q)    == Gap(p.x, q.x) + Gap(p.y, q.y)    \* along an axis
Nearest(p, a, b) == [x |-> Clamp(p.x, a.x, b.x), y |-> Clamp(p.y, a.y, b.y)]

(* The first index at which a sequence of numbers is least.                *)
FirstLeast(s) ==
  CHOOSE i \in DOMAIN s :
    /\ \A j \in DOMAIN s : s[i] <= s[j]
    /\ \A j \in 1 .. i - 1 : s[j] > s[i]

(***************************************************************************)
(* Blocks: cycles left for each link.                                      *)
(***************************************************************************)

NoBlocks == [l \in Link |-> 0]
ReportBlocked(blocked, l) == [blocked EXCEPT ![l] = BlockedTimeout]
IsBlocked(blocked, l) == blocked[l] > 0
Elapse(blocked) == [l \in Link |-> IF blocked[l] = 0 THEN 0 ELSE blocked[l] - 1]

(***************************************************************************)
(* Routing.                                                                *)
(***************************************************************************)

(* The nearest point of the network, blocked links included.               *)
Snap(p) ==
  LET foot == [l \in Link |-> Nearest(p, At[Links[l].a], At[Links[l].b])]
      l    == FirstLeast([k \in Link |-> Squared(p, foot[k])])
  IN  [link |-> l, at |-> foot[l]]

(* Vertices are the nodes, and one each for the snapped ends.              *)
Start  == Len(At) + 1
Finish == Len(At) + 2

(* Links that are open, in both directions unless one-way; and the partial *)
(* links at the ends, which no block excludes.                             *)
Edges(start, finish, open) ==
  LET Edge(u, v, length, l) ==
        [from |-> u, to |-> v, cost |-> length * Links[l].slowness, via |-> l]
      Both(l) == ~Links[l].oneway
      ls == Links[start.link]
      lf == Links[finish.link]
      forward == Span(At[ls.a], start.at) <= Span(At[ls.a], finish.at)
  IN  {Edge(Links[l].a, Links[l].b, Span(At[Links[l].a], At[Links[l].b]), l) : l \in open}
      \cup {Edge(Links[l].b, Links[l].a, Span(At[Links[l].a], At[Links[l].b]), l) :
              l \in {k \in open : Both(k)}}
      \cup {Edge(Start, n, Span(start.at, At[n]), start.link) :
              n \in {ls.b} \cup (IF Both(start.link) THEN {ls.a} ELSE {})}
      \cup {Edge(n, Finish, Span(finish.at, At[n]), finish.link) :
              n \in {lf.a} \cup (IF Both(finish.link) THEN {lf.b} ELSE {})}
      \cup (IF start.link = finish.link /\ (Both(start.link) \/ forward)
            THEN {Edge(Start, Finish, Span(start.at, finish.at), start.link)} ELSE {})

(* Mutant: a way that was found is never improved on. *)
SettleFirst(search, edges) ==
  LET fringe == DOMAIN search.dist \ search.done
      u == CHOOSE v \in fringe : \A w \in fringe : search.dist[v] <= search.dist[w]
      used == {e \in edges : e.from = u /\ e.to \notin DOMAIN search.dist}
      Via(v) == CHOOSE e \in used : e.to = v
      to == {e.to : e \in used}
  IN  IF fringe = {} THEN search
      ELSE [ dist |-> [v \in DOMAIN search.dist \cup to |->
                         IF v \in to THEN search.dist[u] + Via(v).cost ELSE search.dist[v]],
             prev |-> [v \in DOMAIN search.prev \cup to |->
                         IF v \in to THEN Via(v) ELSE search.prev[v]],
             done |-> search.done \cup {u} ]

(* Dijkstra.  `dist` is defined on the vertices reached so far; the next   *)
(* one to settle is the nearest, the first of equals; among parallel edges *)
(* the first of the cheapest counts, and a tie with an earlier way loses.  *)
Settle(search, edges) ==
  LET fringe == DOMAIN search.dist \ search.done
      u == CHOOSE v \in fringe : \A w \in fringe :
             \/ search.dist[v] < search.dist[w]
             \/ search.dist[v] = search.dist[w] /\ v <= w
      out  == {e \in edges : e.from = u}
      best == {e \in out : \A f \in out : f.to = e.to =>
                 e.cost < f.cost \/ (e.cost = f.cost /\ e.via <= f.via)}
      used == {e \in best : e.to \in DOMAIN search.dist =>
                 search.dist[u] + e.cost < search.dist[e.to]}
      Via(v) == CHOOSE e \in used : e.to = v
      to == {e.to : e \in used}
  IN  IF fringe = {} \/ u = Finish THEN search
      ELSE [ dist |-> [v \in DOMAIN search.dist \cup to |->
                         IF v \in to THEN search.dist[u] + Via(v).cost ELSE search.dist[v]],
             prev |-> [v \in DOMAIN search.prev \cup to |->
                         IF v \in to THEN Via(v) ELSE search.prev[v]],
             done |-> search.done \cup {u} ]

Dijkstra(edges) ==
  LET after[n \in 0 .. Finish] ==
        IF n = 0
        THEN [dist |-> [v \in {Start} |-> 0], prev |-> <<>>, done |-> {}]
        ELSE Settle(after[n - 1], edges)
  IN  after[Finish]

(* The vertices of the way, walked back from the finish and, once the      *)
(* start is reached, staying there.                                        *)
WayBack(prev) ==
  LET back[n \in 0 .. Finish] ==
        IF n = 0 THEN Finish
        ELSE IF back[n - 1] = Start THEN Start ELSE prev[back[n - 1]].from
  IN  back

(* A vertex's place and the link that leads to it.                         *)
Visit(start, finish, prev, v) ==
  [ at  |-> IF v = Start THEN start.at ELSE IF v = Finish THEN finish.at ELSE At[v],
    via |-> IF v = Start THEN start.link ELSE prev[v].via ]

(* Coincident places become one.                                           *)
Join(trail, visit) ==
  IF Last(trail).at = visit.at THEN [trail EXCEPT ![Len(trail)] = visit]
  ELSE Append(trail, visit)

(* The route as places and, for each place, the link that leaves it (the   *)
(* incoming one for the last).                                             *)
Polyline(start, finish, prev) ==
  LET back == WayBack(prev)
      visit(n) == Visit(start, finish, prev, back[Finish - n])
      joined[n \in 0 .. Finish] ==
        IF n = 0 THEN <<visit(0)>> ELSE Join(joined[n - 1], visit(n))
      trail == joined[Finish]
  IN  [ at   |-> [i \in DOMAIN trail |-> trail[i].at],
        link |-> [i \in DOMAIN trail |-> trail[IF i = Len(trail) THEN i ELSE i + 1].via] ]

NoRoute == [at |-> <<>>, link |-> <<>>]

RouteSnapped(start, finish, open) ==
  LET search == Dijkstra(Edges(start, finish, open))
  IN  IF Finish \in DOMAIN search.dist THEN Polyline(start, finish, search.prev) ELSE NoRoute

(* Blocks are ignored when they leave no way.                              *)
Route(from, to, blocked) ==
  LET start  == Snap(from)
      finish == Snap(to)
      around == RouteSnapped(start, finish, {l \in Link : ~IsBlocked(blocked, l)})
  IN  IF around = NoRoute /\ \E l \in Link : IsBlocked(blocked, l)
      THEN RouteSnapped(start, finish, Link)
      ELSE around

(***************************************************************************)
(* Following a route.                                                      *)
(***************************************************************************)

(* The arc position of each place of a route.                              *)
Arcs(route) ==
  LET arc[i \in DOMAIN route.at] ==
        IF i = 1 THEN 0 ELSE arc[i - 1] + Span(route.at[i - 1], route.at[i])
  IN  arc

RouteLength(route) == Arcs(route)[Len(route.at)]

TravelTime(route) ==
  FoldFunctionOnSet(+, 0,
    [i \in DOMAIN route.at |->
       IF i = Len(route.at) THEN 0
       ELSE Span(route.at[i], route.at[i + 1]) * Links[route.link[i]].slowness],
    DOMAIN route.at)

(* The nearest point of the route, on the first of equally near segments.  *)
ProjectOntoRoute(route, p) ==
  LET foot == [i \in 1 .. Len(route.at) - 1 |-> Nearest(p, route.at[i], route.at[i + 1])]
      i    == FirstLeast([k \in DOMAIN foot |-> Squared(p, foot[k])])
  IN  IF Len(route.at) < 2
      THEN [segment |-> 1, s |-> 0, off |-> Squared(p, route.at[1])]
      ELSE [ segment |-> i, s |-> Arcs(route)[i] + Span(route.at[i], foot[i]),
             off |-> Squared(p, foot[i]) ]

(* The place at arc position s, with the tangent there and the link of its *)
(* segment; a vertex belongs to the segment that ends there.               *)
GoalAtArc(route, s) ==
  LET arcs == Arcs(route)
      n    == Len(route.at)
      i    == CHOOSE k \in 1 .. n - 1 : s <= arcs[k + 1] /\ \A j \in 1 .. k - 1 : s > arcs[j + 1]
      a    == route.at[i]
      b    == route.at[i + 1]
      Sign(d) == IF d > 0 THEN 1 ELSE IF d < 0 THEN -1 ELSE 0
      h    == [x |-> Sign(b.x - a.x), y |-> Sign(b.y - a.y)]
  IN  IF n < 2
      THEN [ s |-> 0, at |-> route.at[1], heading |-> [x |-> 1, y |-> 0],
             link |-> route.link[1], final |-> TRUE ]
      ELSE [ s |-> s,
             at |-> [x |-> a.x + h.x * (s - arcs[i]), y |-> a.y + h.y * (s - arcs[i])],
             heading |-> h, link |-> route.link[i], final |-> s >= arcs[n] ]

NoArc == -1

(* The hopping leg goal.  It is kept while it is ahead and not yet near;   *)
(* then it goes maxLeg ahead, back to the farthest vertex beyond minLeg,   *)
(* and never past the end.  `vertices` are the arc positions of the places.*)
Farthest(arcs) == CHOOSE a \in arcs : \A b \in arcs : b <= a

(* Mutant: the goal is kept until the robot reaches it. *)
AdvanceGoalArcLate(vertices, end, s, prev, minLeg, maxLeg) ==
  IF prev # NoArc /\ prev > s THEN prev ELSE AtMost(s + maxLeg, end)

(* Mutant: the goal slides with the robot. *)
AdvanceGoalArcSliding(vertices, end, s, prev, minLeg, maxLeg) == AtMost(s + maxLeg, end)

AdvanceGoalArc(vertices, end, s, prev, minLeg, maxLeg) ==
  LET kept   == AtMost(prev, end)
      target == AtMost(s + maxLeg, end)
      window == {a \in vertices : a > s + minLeg /\ a <= target}
  IN  IF prev # NoArc /\ kept >= s /\ (kept - s > minLeg \/ kept >= end) THEN kept
      ELSE IF window # {} THEN Farthest(window)
      ELSE target
=============================================================================
