---------------------------- MODULE RouteFollowing ----------------------------
(***************************************************************************)
(* Steps 5b, 5c, 6 and 6a of the planning loop (main.rs): the route to the *)
(* mission waypoint, its hopping leg goal, the leg-progress watchdog, and  *)
(* the blocks that send the robot another way.  One cycle of the loop is   *)
(* one step; where the robot is by then, what the behavior planner asks    *)
(* for and whether Hybrid A* finds a path are inputs.                      *)
(***************************************************************************)
EXTENDS Roadmap

CONSTANTS
  Places,          \* where the robot may be
  Goals,           \* the mission waypoints, a sequence of points
  LegMin, LegMax,  \* leg_min_m, leg_max_m
  Deviation,       \* deviation_m, squared
  ReplanEvery,     \* the replan interval, in cycles
  BlameFails,      \* ASTAR_BLAME_MIN_FAILS
  BlockAfter,      \* link_block_after_s, in cycles
  FollowDirectly   \* follow_route_directly

Config == INSTANCE Configuration

(* The configuration the constants stand for, a cycle lasting 100 ms.      *)
Configured ==
  [Config!RoadmapDefaults EXCEPT
     !.enabled = TRUE, !.blocked_link_timeout_s = 100 * BlockedTimeout,
     !.link_block_after_s = 100 * BlockAfter, !.leg_min_m = LegMin, !.leg_max_m = LegMax,
     !.deviation_m = Deviation]

ASSUME AcceptedConfig == Config!RoadmapValid(Configured)

ASSUME FollowingAssumption ==
  /\ Places \subseteq Point /\ Goals \in Seq(Point)
  /\ LegMin \in Nat /\ LegMax \in Nat /\ Deviation \in Nat /\ BlockAfter \in Nat
  /\ ReplanEvery \in Nat \ {0} /\ BlameFails \in Nat \ {0}
  /\ FollowDirectly \in BOOLEAN

VARIABLES
  robot,     \* the robot's place
  mission,   \* the current waypoint, or 0 without an active scenario
  blocked,   \* the roadmap's blocks
  active,    \* the ActiveRoute, or NoActive
  fails,     \* astar_fail_streak, counted up to BlameFails
  sincePlan, \* cycles since last_global_plan, up to ReplanEvery
  held       \* history: cycles in one place near the network, with one mission
             \* and outside Recovery, since a link was last reported

vars == <<robot, mission, blocked, active, fails, sincePlan, held>>

(* `best` is the least squared distance to the leg goal, or Farther than   *)
(* any; `age` is the time since it last became less.                       *)
Farther == -1

NoActive ==
  [ route |-> NoRoute, serves |-> 0, goalS |-> NoArc, goalLink |-> 0,
    best |-> Farther, age |-> 0 ]

(* What the behavior planner asks of the cycle: driving states ask for     *)
(* replans, Recovery does too and suspends the blame, the others do not.   *)
Modes == {"drive", "recover", "halt"}

RouteInit ==
  /\ robot \in Places /\ mission = 0 /\ blocked = NoBlocks
  /\ active = NoActive /\ fails = 0 /\ sincePlan = 0 /\ held = 0

(***************************************************************************)
(* Step 5b: a route when there is none, for another waypoint, or when the  *)
(* robot is off it.                                                        *)
(***************************************************************************)

MustReroute(ar, p, m) ==
  \/ ar = NoActive
  \/ ar.serves # m
  \/ ProjectOntoRoute(ar.route, p).off > Deviation

Reroute(p, m) ==
  LET route == Route(p, Goals[m], blocked)
  IN  IF route = NoRoute THEN NoActive
      ELSE [NoActive EXCEPT !.route = route, !.serves = m]

MaintainRoute(p) ==
  IF mission = 0 THEN NoActive
  ELSE IF MustReroute(active, p, mission) THEN Reroute(p, mission)
  ELSE active

(***************************************************************************)
(* Step 5c: the leg goal and the leg-progress watchdog.  A new leg goal    *)
(* starts the watchdog anew, and so does coming closer than ever.          *)
(***************************************************************************)

LegGoal(ar, p) ==
  LET arcs == Arcs(ar.route)
      end  == RouteLength(ar.route)
      s    == ProjectOntoRoute(ar.route, p).s
      vertices == {arcs[i] : i \in DOMAIN arcs \ {1}}
  IN  GoalAtArc(ar.route, AdvanceGoalArc(vertices, end, s, ar.goalS, LegMin, LegMax))

(* Mutant: standing still counts as progress. *)
AdvanceLegAnyway(ar, p) ==
  LET g == LegGoal(ar, p)
      d == Squared(p, g.at)
      gain == ar.goalS # g.s \/ ar.best = Farther \/ d <= ar.best
  IN  [ ar EXCEPT !.goalS = g.s, !.goalLink = g.link, !.best = IF gain THEN d ELSE @,
                  !.age = IF gain THEN 0 ELSE IF @ < BlockAfter THEN @ + 1 ELSE @ ]

(* Mutant: the link of the first leg goal is kept. *)
AdvanceLegFirstLink(ar, p) ==
  LET g == LegGoal(ar, p)
      d == Squared(p, g.at)
      gain == ar.goalS # g.s \/ ar.best = Farther \/ d < ar.best
  IN  [ ar EXCEPT !.goalS = g.s, !.goalLink = IF @ = 0 THEN g.link ELSE @,
                  !.best = IF gain THEN d ELSE @,
                  !.age = IF gain THEN 0 ELSE IF @ < BlockAfter THEN @ + 1 ELSE @ ]

AdvanceLeg(ar, p) ==
  LET g     == LegGoal(ar, p)
      d     == Squared(p, g.at)
      fresh == ar.goalS # g.s
      gain  == fresh \/ ar.best = Farther \/ d < ar.best
  IN  [ ar EXCEPT !.goalS = g.s, !.goalLink = g.link,
                  !.best = IF gain THEN d ELSE @,
                  !.age  = IF gain THEN 0 ELSE IF @ < BlockAfter THEN @ + 1 ELSE @ ]

(***************************************************************************)
(* Steps 6 and 6a.  A replan that fails with a route counts towards blame, *)
(* any other clears the count; following the route directly never counts.  *)
(***************************************************************************)

Fails(due, found, ar) ==
  IF ~due THEN fails
  ELSE IF found \/ ar = NoActive \/ FollowDirectly THEN 0
  ELSE IF fails < BlameFails THEN fails + 1 ELSE fails

Blames(ar, mode, count) ==
  /\ ar # NoActive /\ mode # "recover"
  /\ count >= BlameFails \/ ar.age >= BlockAfter

(* Recovery time is not link time.                                         *)
Pause(ar, mode) == IF mode = "recover" /\ ar # NoActive THEN [ar EXCEPT !.age = 0] ELSE ar

(* The route after steps 5b and 5c of a cycle with the robot at p.         *)
Led(p) ==
  LET kept == MaintainRoute(p) IN IF kept = NoActive THEN NoActive ELSE AdvanceLeg(kept, p)

NearNetwork(p) ==
  \E l \in Link : Squared(p, Nearest(p, At[Links[l].a], At[Links[l].b])) <= Deviation

HeldBound == BlockAfter

(* One cycle with the robot at p.                                          *)
Cycle(p) ==
  \E led \in {Led(p)}, mode \in Modes, found \in BOOLEAN :
    LET since == IF sincePlan < ReplanEvery THEN sincePlan + 1 ELSE sincePlan
        due   == mode # "halt" /\ since >= ReplanEvery
        count == Fails(due, found, led)
        blame == Blames(led, mode, count)
        left  == Elapse(blocked)
        still == p = robot /\ mission # 0 /\ mode # "recover" /\ NearNetwork(p)
    IN  /\ due \/ found
        /\ robot' = p
        /\ sincePlan' = (IF due THEN 0 ELSE since)
        /\ fails' = count
        /\ blocked' = (IF blame THEN ReportBlocked(left, led.goalLink) ELSE left)
        /\ active' = (IF blame THEN NoActive ELSE Pause(led, mode))
        /\ held' = (IF still /\ ~blame THEN AtMost(held + 1, HeldBound + 1) ELSE 0)
        /\ UNCHANGED mission

(* The robot moves one unit at most in a cycle.                            *)
PlanningCycle ==
  \E p \in {q \in Places : Squared(q, robot) <= 1} : Cycle(p)

(* Scenario steps set, advance and end the mission (module Mission).       *)
NewMission ==
  /\ \E m \in 0 .. Len(Goals) : m # mission /\ mission' = m
  /\ held' = 0
  /\ UNCHANGED <<robot, blocked, active, fails, sincePlan>>

RouteNext == PlanningCycle \/ NewMission

RouteSpec == RouteInit /\ [][RouteNext]_vars

(***************************************************************************)
(* Properties.                                                             *)
(***************************************************************************)

(* In a step that keeps the route, and in one that reports a link.         *)
SameRoute ==
  active # NoActive /\ active' # NoActive /\ ~MustReroute(active, robot', mission)
Reported(l) == blocked' # blocked /\ blocked'[l] = BlockedTimeout

(* The ways from the start over a set of edges, of one edge for each       *)
(* vertex at most: pairs of the vertex reached and the time taken.         *)
Ways(edges) ==
  LET ways[n \in 0 .. Finish] ==
        IF n = 0 THEN {<<Start, 0>>}
        ELSE ways[n - 1] \cup
               UNION {{<<e.to, w[2] + e.cost>> : e \in {f \in edges : f.from = w[1]}} :
                        w \in ways[n - 1]}
  IN  ways[Finish]

(* The least travel time to the finish, or Never if no way leads there.    *)
Never == -1

LeastTime(edges) ==
  LET times == {w[2] : w \in {v \in Ways(edges) : v[1] = Finish}}
  IN  IF times = {} THEN Never ELSE Min(times)

(* The link a segment of a route lies on.                                  *)
OnLink(r, l) == Nearest(r, At[Links[l].a], At[Links[l].b]) = r
LinkUnder(p, q) == CHOOSE l \in Link : OnLink(p, l) /\ OnLink(q, l)

(* The time it takes to drive a polyline, as far as each of its places.    *)
Times(at) ==
  LET time[i \in DOMAIN at] ==
        IF i = 1 THEN 0
        ELSE time[i - 1] + Span(at[i - 1], at[i]) * Links[LinkUnder(at[i - 1], at[i])].slowness
  IN  time

TimeOnLinks(route) == Times(route.at)[Len(route.at)]

(* Whenever a route is wanted, the one computed leads from the robot to    *)
(* the waypoint, takes the least time there is around the blocked links,   *)
(* drives a whole blocked link only when every way does, and is missing    *)
(* only when no way leads there at all: stale blocks never strand the      *)
(* robot.  This is what Dijkstra with virtual ends, tie-breaks, the retry  *)
(* and the merging of coincident places must come to.                      *)
QuickestAroundBlocks ==
  active = NoActive =>
    \A m \in DOMAIN Goals :
      LET route  == Route(robot, Goals[m], blocked)
          start  == Snap(robot)
          finish == Snap(Goals[m])
          open   == {l \in Link : ~IsBlocked(blocked, l)}
          around == LeastTime(Edges(start, finish, open))
          least  == IF around # Never THEN around ELSE LeastTime(Edges(start, finish, Link))
          inner  == {LinkUnder(route.at[i], route.at[i + 1]) : i \in 2 .. Len(route.at) - 2}
      IN  IF route = NoRoute THEN least = Never
          ELSE /\ route.at[1] = start.at /\ Last(route.at) = finish.at
               /\ TimeOnLinks(route) = least
               /\ around # Never => inner \subseteq open

(* The link a leg goal is on: both ends of the segment that carries the    *)
(* goal at arc g lie on it, and the robot at p has not left that segment   *)
(* behind.  A route of one place lies on the link of that place.           *)
Carries(route, p, g, l) ==
  LET n    == Len(route.at)
      arcs == Arcs(route)
  IN  \/ n = 1 /\ OnLink(route.at[1], l)
      \/ \E i \in ProjectOntoRoute(route, p).segment .. n - 1 :
           /\ arcs[i] <= g /\ g <= arcs[i + 1]
           /\ OnLink(route.at[i], l) /\ OnLink(route.at[i + 1], l)

(* The last leg of a route that ends at a node, which may have the label   *)
(* of another link of the node (LegsCarryTheirLink).                       *)
OnLastLegToNode(route, g) ==
  LET n == Len(route.at)
  IN  /\ n > 1 /\ g > Arcs(route)[n - 1]
      /\ \E k \in Node : At[k] = route.at[n]

(* A blamed link is the one under the leg goal, ahead of the robot: never  *)
(* one it has driven, never one of a route that was given up, and never    *)
(* one of its labels only, but on the last leg to a node.  It is chosen by *)
(* where the robot is when the streak ends, not when it began.             *)
BlameIsAhead ==
  [][\A l \in Link : Reported(l) =>
       LET led == Led(robot')
       IN  /\ led # NoActive
           /\ \/ OnLastLegToNode(led.route, led.goalS)
              \/ Carries(led.route, robot', led.goalS, l)]_vars

(* On one route the leg goal never retreats, however the robot moves.      *)
LegGoalNeverRetreats == [][SameRoute => active'.goalS >= active.goalS]_vars

(* The leg goal is out of reach of the executors' endgame, or the end.     *)
LegGoalIsAhead ==
  active # NoActive =>
    LET s == ProjectOntoRoute(active.route, robot).s
    IN  active.goalS > s + LegMin \/ active.goalS = RouteLength(active.route)

(* A robot that is held near the network with a mission has a link         *)
(* reported within the watchdog's time, and again and again: neither       *)
(* reroutes nor halts nor new leg goals keep starting the watchdog anew.   *)
(* (Farther from the network than the deviation limit every cycle reroutes *)
(* and the watchdog never fires.)                                          *)
HeldRobotReports == held <= HeldBound

(* RouteWaypoint: each place of a route carries the link "on the segment   *)
(* LEAVING this waypoint".                                                 *)
LegsCarryTheirLink ==
  active # NoActive =>
    \A i \in 1 .. Len(active.route.at) - 1 :
      active.route.link[i] = LinkUnder(active.route.at[i], active.route.at[i + 1])
=============================================================================
