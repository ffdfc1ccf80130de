------------------------------ MODULE HybridAStar ------------------------------
(***************************************************************************)
(* The global planner of the planning process: Hybrid A* over the motion   *)
(* lattice (global_planner/mod.rs), the Reeds-Shepp connection to the goal *)
(* (reeds_shepp.rs) and the smoother (smoother.rs), headings aside.  A     *)
(* behavior is one call of plan_with_corridor followed by smooth_path; an  *)
(* action is one node popped from the open list.                           *)
(*                                                                         *)
(* A node carries the primitives that lead to it in place of the index of  *)
(* its parent.  BinaryHeap leaves the order of equal costs open: any       *)
(* cheapest node may be popped.                                            *)
(***************************************************************************)
EXTENDS MotionLattice, TLC

CONSTANTS
  MaxIterations,     \* max_iterations
  HeadingWeight,     \* the heuristic's weight of a quarter turn
  GoalRadius,        \* 2 * xy_resolution: strictly closer is at the goal
  RsRadius,          \* rs_expansion_radius
  RsAttemptStride,   \* RS_ATTEMPT_STRIDE
  RsStraight,        \* the longest straight of a Reeds-Shepp word tried
  Spacing            \* RESAMPLE_SPACING_M

ASSUME SearchAssumption ==
  /\ MaxIterations \in Nat /\ HeadingWeight \in Nat /\ GoalRadius \in Nat \ {0}
  /\ RsRadius \in Nat /\ RsAttemptStride \in Nat /\ RsStraight \in Nat
  /\ Spacing \in Nat \ {0}

VARIABLES
  world,             \* the problem
  open, closed,      \* the open list; the closed keys, with the cost they were closed at
  rsCountdown, iterations,
  phase,             \* "searching", "found", "failed" or "published"
  raw,               \* the path found: waypoints
  line               \* what the smoother makes of each run: points
vars == <<world, open, closed, rsCountdown, iterations, phase, raw, line>>

Waypoint == [at : Cell, heading : 0 .. 3, dir : {Forward, Backward}]

(***************************************************************************)
(* The search.                                                             *)
(***************************************************************************)

HeadingGap(a, b) == LET d == Gap(a, b) IN Smaller(d, 4 - d)
Heuristic(p) ==
  Travel * Apart(p.at, world.goal.at) + HeadingWeight * HeadingGap(p.heading, world.goal.heading)

(* Mutants: a key without the direction of arrival; a key of cells alone.  *)
DiscretizeAnyDirection(p, dir) == <<p.at, p.heading, Forward>>
DiscretizeCell(p, dir) == <<p.at, 0, Forward>>

(* The closed-set key: where, which way, and in which direction it arrived. *)
Discretize(p, dir) == <<p.at, p.heading, dir>>

Cost(n) == n.g + Heuristic(n.pose)
StartNode(w) == [moves |-> << >>, pose |-> w.start, dir |-> Forward, g |-> 0]
Child(n, m) ==
  LET p == BicycleStep(n.pose, m)
  IN  [moves |-> Append(n.moves, m), pose |-> p, dir |-> m.dir,
       g |-> n.g + StepCost(world, p.at, n.dir, m)]
Children(n) == {Child(n, m) : m \in [steer : Steers, dir : Directions]}

(* The children that are free, inside the corridor and not closed yet.     *)
Successors(n, done) ==
  {c \in Children(n) :
     /\ ~PoseBlocked(world, c.pose.at)
     /\ ~CorridorBlocked(world, c.pose.at)
     /\ Discretize(c.pose, c.dir) \notin done}

(* reconstruct_path: the start gets the direction of the first segment.    *)
ReconstructPath(n) ==
  LET at == Along(world.start, n.moves)
  IN  [i \in 1 .. Len(n.moves) + 1 |->
        [at |-> at[i - 1].at, heading |-> at[i - 1].heading,
         dir |-> IF n.moves = << >> THEN n.dir
                 ELSE n.moves[Larger(i - 1, 1)].dir]]

(***************************************************************************)
(* Reeds-Shepp words: turn, straight, turn in one direction, and turn,     *)
(* opposite turn, turn with the middle one driven the other way.           *)
(***************************************************************************)

Repeat(s, n, d) == [i \in 1 .. n |-> [steer |-> s, dir |-> d]]
CurveStraightCurve(s, t, u, r, v, d) ==
  Repeat(s, t, d) \o Repeat(Straight, u, d) \o Repeat(r, v, d)
CurveCurveCurve(s, t, u, v, d) == Repeat(s, t, d) \o Repeat(-s, u, -d) \o Repeat(s, v, d)
CSC == {CurveStraightCurve(s, t, u, r, v, d) :
          s \in {Left, Right}, r \in {Left, Right}, t \in 0 .. 2, v \in 0 .. 2,
          u \in 0 .. RsStraight, d \in {Forward, Backward}}
CCC == {CurveCurveCurve(s, t, u, v, d) :
          s \in {Left, Right}, t \in 0 .. 2, u \in 0 .. 2, v \in 0 .. 2, d \in {Forward, Backward}}
Words == (CSC \cup CCC) \ {<< >>}

Origin == [at |-> <<0, 0>>, heading |-> 0]
WordsTo == [e \in {EndOf(Origin, s) : s \in Words} |-> {s \in Words : EndOf(Origin, s) = e}]

(* The goal in the frame of a pose.                                        *)
InFrame(p, q) ==
  LET dx == q.at[1] - p.at[1]
      dy == q.at[2] - p.at[2]
      u == Unit(p.heading)
  IN  [at |-> <<dx * u[1] + dy * u[2], dy * u[1] - dx * u[2]>>,
       heading |-> (q.heading - p.heading) % 4]
GenerateCandidates(p, q) ==
  IF InFrame(p, q) \in DOMAIN WordsTo THEN WordsTo[InFrame(p, q)] ELSE {}

(* word_cost counts the junction with the direction of arrival as a cusp.  *)
WordCost(dir, s) ==
  MapThenSumSet(LAMBDA i : TravelCost(s[i])
                  + SwitchingCost(IF i = 1 THEN dir ELSE s[i - 1].dir, s[i]), DOMAIN s)

(* Every sample is free and inside the corridor, and none has less         *)
(* clearance than the tighter end.                                         *)
Admissible(p, s) ==
  LET at == Along(p, s)
      required == Smaller(DistanceAt(world, p.at), DistanceAt(world, world.goal.at))
  IN  /\ ~PoseBlocked(world, p.at)
      /\ \A i \in DOMAIN s :
           /\ ~PoseBlocked(world, at[i].at) /\ ~CorridorBlocked(world, at[i].at)
           /\ DistanceAt(world, at[i].at) >= required

(* The words connect may return: the cheapest of the admissible ones.      *)
Connections(n) ==
  LET good == {s \in GenerateCandidates(n.pose, world.goal) : Admissible(n.pose, s)}
  IN  {s \in good : \A r \in good : WordCost(n.dir, s) <= WordCost(n.dir, r)}

(* The tail without its first waypoint, which is the node's.               *)
Extended(n, s) ==
  LET at == Along(n.pose, s)
  IN  ReconstructPath(n)
        \o [i \in DOMAIN s |-> [at |-> at[i].at, heading |-> at[i].heading, dir |-> s[i].dir]]

(***************************************************************************)
(* One pop.                                                                *)
(***************************************************************************)

Init ==
  /\ world \in Problems
  /\ open = {StartNode(world)} /\ closed = << >>
  /\ rsCountdown = 0 /\ iterations = 0
  /\ phase = "searching" /\ raw = << >> /\ line = << >>

Distance(n) == Apart(n.pose.at, world.goal.at)
AtGoal(n)   == Distance(n) < GoalRadius
IsClosed(n) == Discretize(n.pose, n.dir) \in DOMAIN closed
NearGoal(n) == Distance(n) < RsRadius

Popped(n) ==
  /\ phase = "searching" /\ n \in open /\ \A m \in open : Cost(n) <= Cost(m)
  /\ iterations' = iterations + 1

TimeOut ==
  /\ \E n \in open : Popped(n)
  /\ iterations >= MaxIterations
  /\ phase' = "failed"
  /\ UNCHANGED <<world, open, closed, rsCountdown, raw, line>>

Arrive ==
  \E n \in open :
    /\ Popped(n) /\ iterations < MaxIterations /\ AtGoal(n)
    /\ phase' = "found" /\ raw' = ReconstructPath(n)
    /\ UNCHANGED <<world, open, closed, rsCountdown, line>>

SkipClosed ==
  \E n \in open :
    /\ Popped(n) /\ iterations < MaxIterations /\ ~AtGoal(n) /\ IsClosed(n)
    /\ open' = open \ {n}
    /\ UNCHANGED <<world, closed, rsCountdown, phase, raw, line>>

Close(n) ==
  LET key == Discretize(n.pose, n.dir)
  IN  closed' = [k \in DOMAIN closed \cup {key} |-> IF k = key THEN n.g ELSE closed[k]]

Connect ==
  \E n \in open :
    /\ Popped(n) /\ iterations < MaxIterations /\ ~AtGoal(n) /\ ~IsClosed(n)
    /\ NearGoal(n) /\ rsCountdown = 0
    /\ \E s \in Connections(n) : raw' = Extended(n, s)
    /\ Close(n) /\ rsCountdown' = RsAttemptStride /\ phase' = "found"
    /\ UNCHANGED <<world, open, line>>

CountedDown(n) ==
  IF ~NearGoal(n) THEN rsCountdown
  ELSE IF rsCountdown = 0 THEN RsAttemptStride ELSE rsCountdown - 1

Expand ==
  \E n \in open :
    /\ Popped(n) /\ iterations < MaxIterations /\ ~AtGoal(n) /\ ~IsClosed(n)
    /\ NearGoal(n) /\ rsCountdown = 0 => Connections(n) = {}
    /\ Close(n) /\ rsCountdown' = CountedDown(n)
    /\ open' = (open \ {n}) \cup Successors(n, DOMAIN closed')
    /\ UNCHANGED <<world, phase, raw, line>>

Exhaust ==
  /\ phase = "searching" /\ open = {}
  /\ phase' = "failed"
  /\ UNCHANGED <<world, open, closed, rsCountdown, iterations, raw, line>>

(***************************************************************************)
(* The smoother.  It works on runs of one direction: a run is cut short,   *)
(* resampled, its inner points are moved, it is resampled again, and the   *)
(* line that comes out of it is published unless post_check rejects it.    *)
(***************************************************************************)

(* The last waypoint of a run, which is the first of the next.             *)
Cusps(path) == {i \in 2 .. Len(path) - 1 : path[i].dir # path[i + 1].dir}
DirectionRuns(path) ==
  LET ends == {1, Len(path)} \cup Cusps(path)
  IN  {r \in ends \X ends : r[1] < r[2] /\ \A e \in ends : ~(r[1] < e /\ e < r[2])}

(* The k-th of n steps from p to q, and the cells under the samples of a   *)
(* straight segment.                                                       *)
PointOn(p, q, k, n) ==
  LET Nearest(i) == (2 * (p[i] * n + (q[i] - p[i]) * k) + n) \div (2 * n)
  IN  <<Nearest(1), Nearest(2)>>
Samples(p, q) ==
  LET n == 2 * Larger(1, Apart(p, q)) IN {PointOn(p, q, k, n) : k \in 0 .. n}

Enterable(p) == ~PoseBlocked(world, p) /\ ~CorridorBlocked(world, p)
SegmentAdmissible(p, q, required) ==
  \A c \in Samples(p, q) : Enterable(c) /\ DistanceAt(world, c) >= required

(* Greedy, farthest first: the waypoint after i, and the indices of a run  *)
(* that its shortcut keeps.                                                *)
Hop(path, r, i) ==
  LET chainMin(j) == Min({DistanceAt(world, path[k].at) : k \in i .. j})
      far == {j \in i + 2 .. r[2] : SegmentAdmissible(path[i].at, path[j].at, chainMin(j))}
  IN  IF far = {} THEN i + 1 ELSE Max(far)
Shortcut(path, r) ==
  LET kept[i \in r[1] .. r[2]] ==
        IF i = r[1] THEN {i}
        ELSE kept[i - 1] \cup {j \in {i} : \E k \in kept[i - 1] : Hop(path, r, k) = j}
  IN  kept[r[2]]

(* A point at every unit of the way from p to q, p aside; and of the whole *)
(* way from the first of some points to the last, past those at the        *)
(* indices in on.                                                          *)
UnitSteps(p, q) == LET n == Apart(p, q) IN [k \in 1 .. n |-> PointOn(p, q, k, n)]
WayPast(points, on) ==
  LET upto[i \in 1 .. Len(points)] ==
        IF i = 1 THEN <<points[1]>>
        ELSE LET way == upto[i - 1]
             IN  IF i \in on THEN way \o UnitSteps(way[Len(way)], points[i]) ELSE way
  IN  upto[Len(points)]

(* A point at every Spacing along the way, wherever its corners are, and   *)
(* its end, in place of the point before when that is nearer than half.    *)
Resample(way) ==
  LET n == Len(way) - 1
      emitted == [k \in 1 .. n \div Spacing + 1 |-> way[(k - 1) * Spacing + 1]]
      carried == n % Spacing
  IN  IF 2 * carried < Spacing /\ Len(emitted) > 1
      THEN [emitted EXCEPT ![Len(emitted)] = way[Len(way)]]
      ELSE Append(emitted, way[Len(way)])

(* gradient_smooth, with one point moved at most and by one cell: no move  *)
(* of a point enters what is blocked, or leaves the corridor.              *)
GradientSmooth(points) ==
  {points} \cup
  UNION { { [points EXCEPT ![i] = c] :
              c \in {d \in Cell : Apart(d, points[i]) = 1 /\ Enterable(d)} } :
            i \in 2 .. Len(points) - 1 }

(* Mutant: the line between the moved points is not looked at.             *)
PostCheckNothing(points) == Len(points) > 1
(* post_check, without the curvature.                                      *)
PostCheck(points) ==
  /\ Len(points) > 1
  /\ \A i \in 1 .. Len(points) - 1 : SegmentAdmissible(points[i], points[i + 1], 0)

(* smooth_chain: a run as it was found, and the line of its shortcut.  Any *)
(* line may be too curved: a run stays as it was, or becomes a line that   *)
(* passes, resampled again after its points were moved.                    *)
RawLine(path, r) == [i \in 1 .. r[2] - r[1] + 1 |-> path[r[1] + i - 1].at]
CutLine(path, r) ==
  Resample(WayPast(RawLine(path, r), {i - r[1] + 1 : i \in Shortcut(path, r)}))
Uniform(points) == Resample(WayPast(points, 1 .. Len(points)))
SmoothChain(path, r) ==
  {RawLine(path, r)} \cup
  {points \in {Uniform(moved) : moved \in GradientSmooth(CutLine(path, r))} : PostCheck(points)}

(* One run is smoothed in every way, the others in two.                    *)
SmoothPath ==
  LET runs == DirectionRuns(raw)
  IN  /\ phase = "found" /\ phase' = "published"
      /\ IF runs = {} THEN line' = << >>
         ELSE \E bent \in runs, straight \in SUBSET runs :
              \E points \in SmoothChain(raw, bent) :
                line' = [r \in runs |->
                           IF r = bent THEN points
                           ELSE IF r \in straight /\ PostCheck(Uniform(CutLine(raw, r)))
                                THEN Uniform(CutLine(raw, r)) ELSE RawLine(raw, r)]
      /\ UNCHANGED <<world, open, closed, rsCountdown, iterations, raw>>

Next ==
  TimeOut \/ Arrive \/ SkipClosed \/ Connect \/ Expand \/ Exhaust \/ SmoothPath
Spec == Init /\ [][Next]_vars

(***************************************************************************)
(* Reference: the cheapest cost of every key of a problem, by relaxation   *)
(* over the whole lattice, without a heuristic and without an order.       *)
(***************************************************************************)

(* More than any chain costs that the search has the iterations for.       *)
MostStep ==
  Travel * ReverseFactor + SteerCost + SwitchCost + ProximityCost
    + CorridorCost * Larger(Width, Height)
Infinity == MaxIterations * MostStep + 1

Keys == Cell \X (0 .. 3) \X {Forward, Backward}

(* A primitive may end at p.                                               *)
Free(w, p) ==
  LET exempt == Wedged(w) /\ Apart(p, w.start.at) <= EscapeRadius
  IN  /\ p \in Cell /\ p \notin w.physical /\ (p \notin w.occupied \/ exempt)
      /\ w.reference = {} \/ exempt \/ Offset(w, p) <= Bound(w)

(* The key one primitive before k, the primitive steering s and driven     *)
(* after an arrival in direction d; and those k may be entered from.       *)
Before(k, s, d) ==
  LET p == BicycleStep([at |-> k[1], heading |-> k[2]], [steer |-> s, dir |-> -k[3]])
  IN  <<p.at, p.heading, d>>
Entries(w, k) ==
  {e \in Steers \X Directions :
     k[3] \in Directions /\ Free(w, k[1]) /\ Before(k, e[1], e[2])[1] \in Cell}

(* One round: the cheapest of what a key cost and of going there from one  *)
(* that leads to it.                                                       *)
Relaxed(w, cost) ==
  [k \in Keys |->
    Min({cost[k], Infinity} \cup
        {cost[Before(k, e[1], e[2])] + StepCost(w, k[1], e[2], [steer |-> e[1], dir |-> k[3]]) :
           e \in Entries(w, k)})]

(* Of every key, the least cost of a chain of at most n primitives.        *)
Within(w) ==
  LET start == <<w.start.at, w.start.heading, Forward>>
      best[n \in 0 .. MaxIterations] ==
        IF n = 0 THEN [k \in Keys |-> IF k = start THEN 0 ELSE Infinity]
        ELSE LET cost == best[n - 1]
                 next == Relaxed(w, cost)
             IN  IF next = cost THEN cost ELSE next
  IN  best
Cheapest(w) == Within(w)[MaxIterations]

(* The goal bears on no cost: one table serves every goal of a layout.     *)
Layout(w) == [w EXCEPT !.goal = w.start]
CheapestOf == [l \in {Layout(w) : w \in Problems} |-> Cheapest(l)]

(* A key is closed at the cheapest cost of its pose and direction, so      *)
(* pruning what is closed never loses the better way to go on, at a cusp   *)
(* in particular (global_planner/mod.rs, the comment on the closed set).   *)
SettledAtCheapest == \A k \in DOMAIN closed : closed[k] = CheapestOf[Layout(world)][k]

(* The search gives up only beyond its budget or when no pose at the goal  *)
(* can be driven to: neither the closed set nor an attempted Reeds-Shepp   *)
(* connection costs it a path (plan_with_corridor, reeds_shepp.rs:24).     *)
FailsOnlyForCause ==
  phase = "failed" =>
    \/ iterations > MaxIterations
    \/ \A k \in Keys : Apart(k[1], world.goal.at) < GoalRadius
                         => CheapestOf[Layout(world)][k] = Infinity

(* What was found can be driven: it starts at the robot, every waypoint is *)
(* one primitive on from the last and free, outside the pocket of a wedged *)
(* start by the inflated grid, and it ends at the goal                     *)
(* (plan_with_corridor, sample_word, reconstruct_path).                    *)
FoundPathIsDrivable ==
  phase = "found" =>
    /\ raw[1].at = world.start.at /\ raw[1].heading = world.start.heading
    /\ Apart(raw[Len(raw)].at, world.goal.at) < GoalRadius
    /\ \A i \in 2 .. Len(raw) :
         /\ Free(world, raw[i].at)
         /\ \E s \in Steers :
              BicycleStep([at |-> raw[i - 1].at, heading |-> raw[i - 1].heading],
                          [steer |-> s, dir |-> raw[i].dir])
                = [at |-> raw[i].at, heading |-> raw[i].heading]

(* Smoothing keeps the maneuver and stays clear: the runs it publishes     *)
(* still meet at both ends and every cusp of the path found, a run that is *)
(* not as it was found is free along its whole line, however its points    *)
(* were moved, and no cut comes nearer to an obstacle than the waypoints   *)
(* it replaces (smooth_path, direction_runs, shortcut, post_check).        *)
SmoothingKeepsTheManeuver ==
  phase = "published" /\ Len(raw) > 1 =>
    /\ {1, Len(raw)} \cup Cusps(raw) = UNION {{r[1], r[2]} : r \in DOMAIN line}
    /\ \A r \in DOMAIN line :
         /\ line[r][1] = raw[r[1]].at /\ line[r][Len(line[r])] = raw[r[2]].at
         /\ line[r] = RawLine(raw, r) \/
              \A i \in 1 .. Len(line[r]) - 1 :
                \A p \in Samples(line[r][i], line[r][i + 1]) : Free(world, p)
         /\ LET on == Shortcut(raw, r)
            IN  \A i, j \in on :
                  (i + 1 < j /\ \A k \in on : ~(i < k /\ k < j)) =>
                    \A p \in Samples(raw[i].at, raw[j].at) :
                      \E k \in i .. j : DistanceAt(world, p) >= DistanceAt(world, raw[k].at)
=============================================================================
