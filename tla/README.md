# A TLA+ development for Limo Drive

Limo Drive is an autonomous driving stack for a small Ackermann vehicle: three
processes (`sensperc`, `planning`, `control`) and a scenario manager, connected
by ZeroMQ publish/subscribe channels that carry protobuf messages. This
directory models the part of it that decides *whether and how the vehicle
moves*, checks it with TLC on small instances and proves the central results
with TLAPS for every value of the constants.

## 1. The system

| Component | State it keeps | Operations | Talks to |
|---|---|---|---|
| `control/src/watchdog` | latched e-stop reason, ramp speed, measured speed, age of the last command and of each peer's heartbeat, a flag other threads read | notify command / heartbeat / speed, check, ramp step, trigger, clear | called by the control loop only |
| `control/src/control_loop.rs`, `main.rs` | last actuated command, the watchdog | one cycle: drain CH2, feed heartbeats, classify, check, actuate one command | CH2 in, CH3 out, CH0 heartbeats, the HAL |
| `crates/limo-transport` | socket queues, table of last heartbeats | publish, receive, heartbeat publisher and subscriber threads | all processes |
| `crates/limo-hal` | command and feedback registers | send, emergency stop, receive; a chassis thread copies the registers to and from a serial port | control, chassis firmware |
| `planning/src/behavior` | driving state, goal, stuck counter, recovery, recovery episode | `set_goal`, `clear_goal`, `update` | called by the planning loop |
| `planning/src/arbitrator` | speed commanded last, degraded latch, recovery streak | `arbitrate`, `emergency_stop` | called by the planning loop |
| `planning/src/config.rs` and the config structs | the configuration, fixed at startup | defaults, `validate`, the startup checks of `main` | every part of planning |
| `planning/src/main.rs` | scenario and waypoint index, last inputs and their age, obstacle memories, route, current path, streak counters | the planning loop, ten steps per cycle | CH1, CH3, CH8 in; CH2, CH9, CH10 out |
| `planning/src/roadmap.rs` | links blocked until a time | snap, route, leg goal, report a block | called by the planning loop |
| `planning/src/global_planner` | none between two calls | Hybrid A*, Reeds-Shepp shortcut, smoother, check of a retained path | called by the planning loop |
| `planning/src/local_planner` | speed of the last command, trackers | tracking MPC, pursuit, DWA, relaxed retry, scripted reverse | called by the planning loop |
| `crates/limo-scenario` | the scenario ordered, number of sends | send, re-send, wait for completion | CH8 out, CH9 in |
| `sensperc/src/store`, `slam`, `main.rs` | sensor slots, ring buffers, pose history | reader, SLAM and aggregator threads | HAL, CH3 in, CH1 out |
| `sensperc/src/perception` | tracks with their hits and misses | cluster a scan, associate, coast, drop | called by the aggregator |
| launcher, simulation bridge, `core/` | processes, a simulated vehicle | start and restart, simulate | operating system, CH5-CH7 |

What is hard about it:

* *Timing.* A command passes an age gate, a hold-last rule and a timeout; a
  heartbeat passes two thresholds. The delays add up.
* *Stopping and starting again.* Four causes of a stop, three latched in one
  place, with their own clear rules, and a fourth one (the stop of the behavior
  planner) that arrives as a message that may be lost.
* *Partial failure.* Heartbeats come from another thread than commands; the
  chassis thread repeats whatever it was told last; any process may be
  restarted and forgets its latch.
* *Counting.* Stuck cycles, feasible streaks, attempts, hold timers and the
  recovery of confidence are all counters with resets in several places.
* *Verification of what is sent.* A command is checked from a held pose,
  projected over the latency, for the planner's last speed; the obstacles come
  late and may be missing for some cycles; a robot that is already too close is
  allowed a little less clearance each time.
* *Memory.* Points are remembered for some frames, tracks are coasted in two
  processes, movers are evicted by extrapolation: too little forgets an
  obstacle, too much leaves a phantom.
* *Search.* Cells are closed by position and heading while costs depend on the
  direction of travel; three kinds of blocked poses relax one another.
* *Book-keeping across components.* The waypoint index lives in the loop, the
  goal in the behavior planner, the belief that a scenario runs in the manager.

What makes each component correct:

* watchdog and control loop: nothing old or unsupervised drives the motors; an
  e-stop never speeds up and is never released without cause; it is released
  when the cause is gone; latch, published flag and motors agree.
* arbitrator: what is published is within all limits at once; low confidence
  slows the robot down in time, and the cap is lifted only when earned.
* behavior planner: recovery remembers its attempts, exits only when earned, is
  never terminal, and is entered and left when it should be.
* mission: the index, the goal and the reports agree; completion is not claimed
  early; a mission ends.
* roadmap and route following: routes are the quickest around the blocks, the
  leg goal is ahead of the robot and never falls back, a robot that is held
  reports a link, and a link ahead of it.
* global planner: a state is settled at its cheapest, the search fails only for
  cause, the path found and what smoothing makes of it can be driven.
* local planner and plan commitment: what is sent can be stopped short of every
  obstacle seen; the path serves the goal, and one that cannot be followed is
  given up.
* sensor store and aggregator: the newest scan reaches SLAM and planning, the
  pose history is in order, odometry lags no more than a known bound.
* tracking and obstacle memory: what was seen is covered and remembered, movers
  leave nothing behind, what is gone fades.

## 2. The modules

| Module | Models | Variables and actions |
|---|---|---|
| `Watchdog` | `watchdog/mod.rs` | the struct as a record, each method an operator on it; no variables, so it can be composed in one step |
| `ControlLoop` | `control_loop.rs`, the body of `control/src/main.rs` | `Cycle` is one pass of the main loop; `Publish*`, `Heartbeat`, `Feedback` and `Tick` are what happens between passes |
| `EstopContract` | abstract: what control promises about the speed it commands | drive, ramp, hold |
| `StopChain` | extends `ControlLoop` by planning's two threads, the links, the chassis thread, the vehicle, crash and restart of control | one action per thread, `TimePasses` is a tick |
| `Arbitrator` | `arbitrator/mod.rs` and its call in the planning loop | `Arbitrate`, `EmergencyStop` |
| `Behavior` | `behavior/mod.rs` and its calls in the planning loop | `Update`, `SetGoal`, `ClearGoal`, `Move` (the robot) |
| `DrivingModes` | abstract: what the behavior planner promises to the loop | set and clear goal, stop, resume, proceed, climb the recovery ladder |
| `Mission` | steps 3, 5, 5a and 10 of the planning loop, the scenario manager, CH8 and CH9 | `Receive`, `UpdateBehavior`, `Advance` are one cycle; manager actions run in between; contains `DrivingModes` in place of `Behavior` |
| `Configuration` | the defaults and `validate` of every section of planning's configuration, the startup checks of `main` | operators on records; the planning models assume that what their constants stand for is `Accepted` |
| `Roadmap` | `roadmap.rs`: blocks, snapping, Dijkstra, the route's polyline, the hopping leg goal | operators on values; Dijkstra is a fold |
| `RouteFollowing` | steps 5b, 5c, 6 and 6a of the loop: activation, deviation, watchdog of the leg, blame | one action is one cycle of the loop |
| `Clearance` | the collision checks of `dwa.rs`, `pursuit.rs`, `tracking_mpc.rs`, `local_planner/mod.rs` | operators: required radius, swept distance, wedged allowance |
| `Executors` | pursuit, tracking MPC, DWA, escape from standstill, relaxed retry, scripted reverse, `select_local_plan` | operators: the set of answers of each executor |
| `Driving` | steps 1, 2, 4 and 6 to 8 of the loop, composed with `Executors` and `Arbitrator`, and the vehicle on a lane | `Drive` is one cycle and the motion until the next; `Unfollowed` is the arbitrator in its other modes |
| `Shipped` | the shipped settings as an instance of `Driving` | an assumption about them |
| `MotionLattice` | grid, clearance field, escape zone, corridor, primitives and their costs | operators |
| `HybridAStar` | `plan_with_corridor`, the Reeds-Shepp connection, `smooth_path` | one action per way a popped node ends: arrive, skip, connect, expand, exhaust, time out, publish |
| `Sensing` | reader, SLAM and aggregator threads over the sensor store | one action per load, store, push or pop |
| `Tracker` | clustering of a scan, its gates, the cluster tracker | operators on values |
| `ObstacleView` | detections of the aggregator, a lossy CH1, the memories of points and tracks in planning | a step is a cycle: `Scan` or `Repeat`, with `Receive` or `Miss` |
| `*Proofs` | the theorems of `ControlLoop` and `StopChain`; `Behavior`; `Mission`; `Sensing`; `Roadmap` and `RouteFollowing`; `Arbitrator`, `Executors` and `Driving` (`DrivingProofs`); `HybridAStar`; `Tracker` and `ObstacleView` (`ObstacleViewProofs`) | |
| `MC*` | the instances for TLC | |

How they fit together: `ControlLoop` EXTENDS `Watchdog`; `StopChain` EXTENDS
`ControlLoop`. `ControlLoop` implements `EstopContract` and `Behavior`
implements `DrivingModes`; `Mission` is built on `DrivingModes`, so what it
shows holds of the loop around the detailed planner. `Driving` EXTENDS
`Executors` (over `Clearance`) and `Arbitrator`: an executor's answer is the
arbitrator's request, in the same step. `RouteFollowing` EXTENDS `Roadmap`,
`HybridAStar` EXTENDS `MotionLattice`, `ObstacleView` EXTENDS `Tracker`.
`Behavior`, `RouteFollowing`, `Driving` and `MotionLattice` instantiate
`Configuration`.

### How code became actions

* *Atomicity.* The watchdog, the control loop, the arbitrator and the parts of
  planning are each owned by one thread; a call of `run_cycle`, `arbitrate`,
  `update` or of a planner is one action. What another thread shares with it
  (socket queues, heartbeat table, command and feedback registers, the sensor
  store) is a variable of its own and changes between those actions; in
  `Sensing` each store to a slot, each push or pop of a queue and each load of
  the scan, the pose and the velocity by the aggregator is an action, with one
  coarsening: a pose, its entry in the history and its confidence are stored in
  one. A bundle of the source may lack any of its parts. The planning cycle is
  split in `Mission` where other processes can act in between.
* *Draining.* `Cycle` takes any prefix of the queue: the loop ends when
  `recv` finds nothing, and what arrives during it may or may not be found.
* *Time.* An `Instant` is kept as its age in ticks, saturating above all
  thresholds. `Tick` may not pass `MaxStall` ticks without a control cycle. `dt`
  is a constant in the code (the configured period) and is 1 here. One clock is
  assumed; the age gate of the code compares wall clocks. `Sensing` keeps of a
  scan, a pose and a velocity only how long ago it was true.
* *Numbers.* Speeds, distances and rates are integers in a unit fixed by the
  smallest threshold. Rates of change are per cycle. A confidence is replaced
  by the outcome of the comparison it enters. `Root` rounds down.
* *Behaviour of the external parts.* The vehicle of `StopChain` follows its last
  frame at most `Brake` per tick and stops `FirmwareTimeout` ticks after it
  (`limo_hw.rs`, `emergency_stop`, names the firmware timeout). The robot of
  `Driving` does what the arbitrator sent. ZeroMQ drops a message at the high
  water mark and may lose any message before a connection is up.
* *Space.* `update` of the behavior planner uses the plane only through
  distances, so its world is a line. `Driving` and the executors are on a
  straight lane with obstacles off to the side: an arc is an interval, steering
  and curvature are gone, reverse and cusps are not. `Tracker` unrolls the scan
  to a line of places, one beam each, with the seam of the scan inside; a place
  has a sector and a distance, and `ObstacleView` keeps the nearest return of
  each sector, as `nearest_per_sector` does.
  `MotionLattice` has four headings and quarter turns.
* *What is chosen freely.* In `Driving`: what the behavior planner asks for,
  whether a replan is due and which path A* finds, whether a moving obstacle
  vetoes a candidate, and which of the admissible candidates scores best. In
  `RouteFollowing`: where the robot is, the mode, whether A* finds a path. In
  `HybridAStar`: which of the cheapest nodes is popped, which shortcuts the
  smoother tries, and how far its descent moves a point (one cell at most). The
  line that is cut, and again the line whose points were moved, is resampled
  along its way: `Resample` keeps a point at every `Spacing`, whatever corners lie
  between, and the ends.
* *Histories.* `dataAge`, `sinceVelocity`, `healthyFor`, `goodRun`,
  `cappedFor`, `zeroFor`, `seen`, `feasRun`, `debt`, `calm`, `released`,
  `reached`, `behindTries`, `searched`, `unrecorded`, `drifted` and their like in
  the newer modules record the past for the properties. No guard of a code
  action reads one, with two exceptions that are named: `healthyFor` ends the
  faults of the environment, and `drifted` ends a behavior of `Driving` after
  the finding of the run `stop_ramp` has happened (`FollowDrift` = FALSE), so
  that `StopsClear` says what holds otherwise. `unrecorded` says that
  `prev_cmd_v` is not the speed that was sent: after a stop on an empty path, and
  after a stale cycle, which sends a stop and records the executor's command.

## 3. The runs

Passing:

* `control_loop` (`MCControlLoop`). Requests -1 and 2 with a limit of 1, wheel
  speeds -2, 0 and 2, a queue of two, and thresholds of one and two ticks. Shows
  the freshness bound `CommandTimeout + MaxCommandAge` of planned motion, the
  supervision bound `HeartbeatDead + HeartbeatDegraded`, the latch discipline
  and the implementation of `EstopContract`.
* `stop_chain` (`MCStopChain`). Shows that the vehicle stands still `StopBound`
  ticks after planning's last velocity, whatever dies, hangs or is lost, and
  that no e-stop outlives its cause by more than `RecoveryBound` ticks. The instance
  also EXTENDS `Shipped`, whose assumption TLC evaluates (below). Both
  bounds are formulas over the constants: the first counts the age gate, the
  timeout, a stall, the firmware timeout, and for each unit of top speed the
  ramp, a crash and a restart that reads an old speed and starts another ramp
  (`TicksPerSpeed`); the second counts control periods and the braking from top
  speed, rounded up. A firmware timeout of three leaves room for a crash and a
  restart before it, and the readings have both signs.
* `behavior` (`MCBehavior`). A track of four positions, one goal, two rounds
  before the hold, all time limits two updates. Episode memory, earned exits,
  three liveness properties and the implementation of `DrivingModes`.
* `mission` (`MCMission`). A sequence and a patrol of two waypoints and an empty
  scenario; two managers or stop orders, two sends each, a queue of two.
* `route` (`MCRoute`). A square of four links, one of them one-way and one slow;
  a robot on it, inside it and off it; a waypoint at a node and one in the middle
  of a link. A route takes the least time of all ways around the blocks that
  hold (of all ways, if none is left); the leg goal stays a leg ahead of the robot
  or at the end, and never retreats; a robot that is held reports a link within
  `HeldBound` cycles; the link is the one under the leg goal, on a part of the
  route it has not passed (`BlameIsAhead`, by the geometry of the network and not
  by the labels of the route, the last leg to a node excepted).
* `sensing` (`MCSensing`). With poses and without, a queue of two scans, a CH3
  socket of two messages, lags up to six ticks, two ticks to an aggregator cycle. The newest scan is
  in the slot or the queue until SLAM has it; a scan is in the published
  detections within a cycle; the history is ordered under two writers; the
  odometry in a WorldState lags at most `LagBound`, which counts the whole
  socket: one message is read per cycle, two are sent.
* `driving` (`MCDriving`, about two minutes). A lane with a wall at each end and
  a pinch, a wall that comes into view late, goals on both sides of the start,
  one place for a cusp. `StopsClear` is the central property: after every
  command, full braking ends short of the physical footprint of everything the
  world holds. It is about mode `Traditional`; in the other two the robot is not
  followed, because what E2E asks for is checked by nothing here. `PathIsCurrent` says that a path searched for serves the present
  goal and that none outlives the pursuit's refusals. The arbitrator's properties
  are checked in the composition, for requests on, inside and beyond every limit
  in the other two modes.
* `search` (`MCHybridAStar`). A grid of four by four with six layouts: open, a
  wall with a gap, a dead end to be left in reverse, a robot wedged in inflation
  below its corridor, a corridor past an obstacle, a start that is walled in; 27
  goals each, and resampling at every second cell. A closed key was closed at the least cost of any chain of
  primitives that arrives there, in whatever direction; the search fails only if
  no chain reaches the goal or the bound on iterations is hit; the path is free
  of obstacles and inside the corridor; smoothing keeps ends, cusps and
  directions and moves nothing onto an obstacle.
* `tracking` (`MCObstacleView`, about two minutes). Seven places, a post across
  the seam, a wall, a walker of two beams that halts and goes, scans that lack
  nothing, an edge, the post or everything, lost messages and repeated scans. The
  places are in three sectors and at several distances. `NearestIsCovered` says that of
  every sector of a scan planning is told of, a return at least as near as any of it
  has an obstacle in view, whichever of clusters, tracks and sampled points owns it.

Runs that TLC refutes, each for a statement of the repository:

* `link_labels`: a goal on a node whose snap chose another link of the node gets
  a last leg labelled with a link it does not lie on (`roadmap.rs:457` against
  `roadmap.rs:95-101`). The wrong label is also the link that is reported blocked
  when the robot is held on that leg (`main.rs:817`, against `main.rs:1717`): the
  obstructed link stays open and another is closed. That leg is the exception in
  `BlameIsAhead`.
* `scan_pose`: without a source of poses only the odometry fallback fills the
  pose history, and it stops once SLAM has matched; later scans are projected
  with a pose of the startup (`sensperc/src/main.rs:349` against
  `store/mod.rs:59`).
* `stop_ramp`: a stop on an empty path is not recorded as the last command, so a
  later ramp begins at a speed the robot no longer has, without a look at the
  obstacles (`local_planner/mod.rs:375` against `local_planner/mod.rs:304`).

### Why the bounds are enough

The thresholds are in the order of the shipped configuration and every counter
can pass its limit by at least one. Two queued commands are enough for an old
one behind a new one, and one command undrained behind a drained prefix. A ramp
of two steps is the shortest with a first, a middle and a last speed. Two
reverse rounds give a first round, an escalated round, the hold and a retry from
the hold. Two sessions are enough for a manager that meets the mission of an
earlier one; two sends for a re-send that arrives late. On the network the slow
link makes the longer way the quicker one, and blocking any link leaves another
way or none. A lane of twenty with speeds up to three has room for full speed, a
stop, a cusp and a back-up. A late wall shows itself where the robot can still
stop for it, from the speed it has and the one last commanded: no planner could
do better. Three frames of lost returns exceed the obstacle memory of two. The four
layouts with obstacles make each of the zone, the edge and the corridor decide.

`Horizon`, `QueueCap`, `MaxStall`, `AttemptCap`, `Sessions`, `MaxSends`,
`AgeMax`, `SlamStall`, `MaxRepeat` and the worlds listed in the `MC` modules are
the bounds of the models; the proofs hold for all their values. Two bounds are
narrower than the code: the smoother's descent moves one point of a run by one
cell (its checks judge each segment alone, so what a longer descent could do to
a segment, one step can), and `post_check`'s verdict on curvature is left open.

### Assumptions on the configuration

Each planning model assumes what `Accepted` checks, with its constants in place
of the fields, and `Driving` checks that the defaults are accepted. No property
of `Driving` assumes more, except that the theorem about `StopsClear` has the
hypothesis `StoppingSettings(limit)`, which nothing in the code validates: the
obstacle memory holds more than `limit` frames, the planner brakes like the
arbitrator, the footprint is no more than the margin behind and margins do not
shrink with speed, a robot does not pass an obstacle within one latency, and each
executor's check reaches far enough for every age the pose may have after up to
`limit` missed WorldStates (`ChecksReach`). The theorem is about the behaviors in
which no more than `limit` are missed in a row before the staleness stop holds the
robot (`SeenWithin`). The shipped settings meet `StoppingSettings(0)`, and not
`StoppingSettings(1)`: after a miss the MPC's margin is 5 mm short. Both are the
`ASSUME` of `Shipped`, which instantiates `Driving` with the shipped settings in
units of 5 mm and cycles of 100 ms, with the latency of a cycle and a half rounded
down and up, and which TLC evaluates at the start of run `stop_chain`. The instance `MCDriving` meets it for
all the misses that the staleness stop lets pass.

`WorldsLeaveRoom` is about the world: the robot starts clear of what is there, and
an obstacle either closes the lane or leaves room beside it, because the allowance of a wedged robot is measured at the
projected pose (`main.rs:1180`, against "the CURRENT pose" in `pursuit.rs:706`), so
that one which does neither may be approached by the distance of a latency.
`StoppingSettings` is sufficient, not necessary: with `StaleCycles` = 2 and `Depth` = 3
the instance does not meet it for two misses, as the MPC's margin covers one,
although TLC finds no violation there.

### Fairness

`ControlLoop`, `StopChain`, `Driving`, `RouteFollowing`, `Sensing`,
`HybridAStar` and `ObstacleView` state no fairness: what has to happen in them
has a deadline in cycles or ticks, stated as an invariant over history counters.
`Behavior` assumes `WF(UpdateStep)` and `Mission` `WF(PlanningCycle)`: the
planning loop has no blocking call and runs the step in every cycle. Nothing is
assumed of the robot's motion, of perception, of a manager or of a message.
The liveness properties state their own premises (`seen = "stuck"` for good, a
goal reached again and again).

## 4. The theorems

`ControlLoopProofs`, under `WatchdogAssumption` and `ControlLoopAssumption`
(naturals, a positive ramp step, a positive stall, a horizon above the sums of
thresholds), proves the type invariant and every property of the run
`control_loop`. The properties are not inductive alone: freshness needs to know
how old the last accepted command was when the latch was last open. The
inductive invariant adds three facts: an unlatched watchdog passed its check at
most `sinceCycle` ticks ago (`CheckedRecently`); a velocity in force is within
the limit and was at most an age gate old when it fed the watchdog
(`PlannedWithinLimits`); the heartbeat table is ahead of the watchdog's own
observation by less than PeerHealth's threshold (`ObservationLag`). Lemmas say
what each method of the watchdog preserves; one lemma collects what a whole
check leaves behind, and each way of actuating is a case. The action properties
and the implementation of `EstopContract` follow from the invariant step by
step.

`DrivingProofs` first takes the arbitrator: under `ArbitratorAssumption` (what the
two `validate` functions accept) it proves the arbitrator's type invariant, `EnvelopeHolds`,
`DegradedSlowsDown` and `CapLiftsAfterGoodRun`. The invariant says that the
published speed is the one the rate limiter starts from, and that after n cycles
under the cap the speed is at most `MaxSpeed - n * MaxDecel` or within the cap
already; the count of good cycles bounds the streak.

`MissionProofs`, under `MissionAssumption`, proves for any set of scenarios, any
lengths, patrols, queue and number of managers that the index, the goal and the
completion agree (`GoalIsCurrentWaypoint`, `CompleteMeansAllReached`,
`DrivesOnlyToGoal`, the type invariant). Completion needs a strengthening that
relates the set of waypoints reached to the index while the mission is under
way, and keeps a patrol's index inside its list.

`RoadmapProofs` covers `Roadmap` and `RouteFollowing`, under the assumptions of
both modules. Two theorems have a hypothesis on the network. `LinksApart`, for
`RoutesAreQuickest`: links meet or cross, none runs along another, as in the
instance; otherwise two links lie under one leg of a route, and the cost the
property gives that leg is ambiguous. `WaysExist`, for `HeldRobotIsHeard`: from
everywhere the robot may be a way leads to every waypoint; without a route there
is no link to report.

* `SearchFindsTheQuickest`: the fold of the code's Dijkstra, with its virtual
  ends, its ties and its early stop, returns the least time over *all* ways of
  the edges it is given. Its invariant (`Searching`, `Relaxed`) says that
  settled vertices are no farther than the others, that distances are those of
  the edges taken, and that no edge out of a settled vertex is shorter;
  predecessors lead back to the start (`Ranked`), so the way found exists.
* `RoutesAreQuickest` carries it to the published route, whose first and last
  leg are parts of links: a polyline trimmed at its ends keeps the time of the
  edges it runs along. `RoutesLead`: a route leads from the place nearest to the
  robot to the one nearest to the waypoint. `BlocksStrandNobody`: blocks never
  leave it without one.
* `LegGoalStaysAhead`, `LegGoalHoldsGround` and `LegGoalAdvances` are about the
  hopping leg goal. `OnlyLinksAheadAreBlamed` says of the link reported that
  both ends of the segment under the leg goal lie on it and that the robot has not
  passed that segment, by the geometry of the network: labels are right on all
  segments but the last one to a node (`RouteIsLabelled`, from the links of the edges
  that Dijkstra's way takes), and the leg goal is ahead of the robot.
  `HeldRobotIsHeard` rests on `HeldIsWatched`: the route and the leg goal of a
  held robot stay, its distance cannot become less, and the leg's watchdog has
  counted every cycle it was held.

Functions defined by recursion are reasoned about without induction over data:
a lemma (`Iteration`) shows that an iterate exists for every number of steps,
and the least counterexample of a claim about it gives the induction.

`BehaviorProofs`, under `BehaviorAssumption` and the accepted configuration,
proves the type invariant with the bounds of every counter, `DebtIsRemembered`,
`ExitIsEarned`, the refinement `KeepsModes`, and from the latter that driving is
backed by a goal. The inductive invariant adds that Recovery has its
book-keeping, that driving states have a goal, that a closed episode measures
nothing, and that in Recovery the streak counts no more feasible plans than were
seen.

`SensingProofs`, under `SensingAssumption`, proves all four invariants of the run.
That no scan is lost rests on where the newest one is while SLAM drains the queue
(`NewestQueued`), that it is published in time on the cycle that is due
(`ScanPending`), and the lag of odometry (`LagInv`) on the place of each message
in the socket, on what the SLAM thread carries, and on slots that age as fast as
what they hold. `OdometryLagIsBounded` has one hypothesis, `StallsEndInTime`:
SLAM keeps a scan no longer than a message waits in a full socket. Otherwise the
pose that SLAM stores is the oldest thing around, and the bound is SLAM's.

`ControlLoopProofs` also covers `StopChain`, under `StopChainAssumption` (a
positive brake, a vehicle at least as fast as the kinematic limit, readings of
every speed it can have). `VehicleStopsInTime` needs an account of time: `StopInv`
says how old a queued velocity can be, how recently a planned one was accepted,
that a ramp sheds speed, and, once no planned velocity can be in force, how long
each part can still keep the vehicle moving (`MotionEnds`): only a speed read
from the vehicle can then seed a ramp, and each step of a ramp pays for the
longest round of crash, restart, timeout and step that the rest can go through.
`RecoversAlways` has the hypothesis `RecoverySettings`, true of the shipped
configuration, without which a healthy system would keep stopping itself: a
stall is no longer than the age gate, a queue holds something, a missed tick is
not a lost peer, and a vehicle at rest reads as stopped. Its invariant says from
which tick on the beat is seen, the queue holds velocities only, every cycle is
fed (`IsFed`), an explicit stop has halted the vehicle (`Halts`), and a latch only
waits for the next cycle (`Releases`). The proof showed that the bound had to
count the braking rounded up; `RecoveryBound` does.

`DrivingProofs` goes on with the executors: for all thresholds, obstacles and
paths, whatever executor answers, its speed is one the planner may command in
that direction (`AnswersStayInRange`), executor by executor up to
`SelectLocalPlan`. `PathStaysCurrent` (`PathIsCurrent`) holds for all
goals, cusps, worlds and thresholds; its invariant counts the tries on the path
that is kept against the streak, which may run ahead of them. `DriveInv` joins
the type invariant of the loop with the arbitrator's own inductive invariant:
the composed loop takes only steps the arbitrator's invariant allows, so that
`EnvelopeHolds`, `DegradedSlowsDown` and `CapLiftsAfterGoodRun` carry over.

`StopsAreClear` is about `StopsClear`, the central safety property: for all lanes,
worlds, late obstacles, goals, cusps and requests, in every setting that meets
`StoppingSettings(limit)` and every behavior that misses no more than `limit`
WorldStates in a row while it drives, the shipped settings with limit 0 among them.
`StopsClear` is not inductive: it speaks of the vehicle's speed,
the planner goes on from its own last command, which a stale cycle or the
arbitrator's rate limit sets apart from it, and both are checked from a pose that
was held. The inductive invariant `StopInv` says that every obstacle that closes
the lane is on the side the robot stops before it (`StopsBefore`), from the
vehicle's speed, from the planner's last command, and from the pose last
received; and that the distance the robot is ahead of the projected pose is one
that `Lags` lists for the number of missed messages (`AgeOf`). The steps are

* *what an answer rests on* (`AnswersAreGrounded`): whichever executor answers, a
  speed towards an obstacle is a cycle of the ramp from the last command, or was
  verified by one of five checks (`Verified`): of pursuit and the MPC ahead, of a
  sample, of the escape from standstill, of pursuit in reverse, and of the scan
  behind the scripted reverse. One lemma each says how far such a check reaches: `PursuitReaches`
  shows that the floor under the wedged allowance keeps a robot that is too
  close from coming closer;
* *what the age leaves of it* (`CommandIsCovered`): of a command verified from a
  pose `n` cycles old enough is left, after the cycles since, to stop;
* *what the arbitrator makes of it* (`GraduatedMoves`, `MoveStopsBefore`): the rate
  limiter lies between the last speed and the request, or brakes in full, and a
  robot that stops short of an obstacle still does after either;
* *what comes in* (`InputsKeepStops`, `LagsGrow`): a message renews the pose, a miss
  ages it, an obstacle appears where the robot can still stop for it.

The braking distance is a closed form in the model (`StopReach`), so that one step
of braking is arithmetic (`n` cycles less one) instead of recursion over speeds.

`HybridAStarProofs`, under `LatticeAssumption` and `SearchAssumption`, holds for
every set of planning problems (start, goal, obstacles), every budget and every
set of costs. The reference it compares with is the `Relaxed` function: the
cheapest chain of at most `n` primitives, relaxed round by round.

* `FoundPathsAreDrivable` (`FoundPathIsDrivable`): the closed and the offered
  nodes form chains of free poses from the start, and a Reeds-Shepp word, found
  in the frame of a node and laid from there, ends at the goal. That is
  geometry of the lattice: turning a relative pose back undoes the turn, and a
  word laid from a turned pose is the turned word.
* `FailuresHaveACause` (`FailsOnlyForCause`): giving up with budget left means
  that no chain of primitives reaches the goal. The invariant is the frontier:
  whatever a closed key leads to is closed or offered. With nothing offered the
  closed keys are closed under driving, and the least round of relaxation that
  reaches an unclosed key gives the contradiction.
* `KeysSettleAtTheCheapest` (`SettledAtCheapest`): a key is closed at the cost of
  its cheapest chain. It has the hypothesis `Consistent` (what the heuristic can
  drop over one primitive is no more than what that primitive costs beyond its
  length). The code does not check this; its constants have it: the heuristic
  weighs heading with 0.3 per radian, 0.3 * tan(0.48) = 0.16 over a full-lock
  primitive, against a steering cost of 0.5 * 0.48 = 0.24. The instance TLC
  checks has it too (4 against 6). The invariants `Settled` and `GivesUpRightly`
  were themselves model-checked before the proof.
* `SmoothingIsFaithful` (`SmoothingKeepsTheManeuver`): what a run becomes is one
  of its smoothed chains (`Smoothed`). A hop never ends beyond a waypoint that
  is kept, so two neighbours in a cut are the ends of one hop, whose segment
  was admitted at the least clearance of what it skips; resampling may drop the
  corners of a cut and keeps its ends; the descent moves inner points only, and
  the last look, after the second resampling, passes a line that is free, in the
  reference's own terms.

`ObstacleViewProofs`, under `TrackerAssumption` and `ViewAssumption`, holds for
every world that moves (`Things`), every shape of clusters, gate, smoothing and
speed, and any misses, repetitions, depth and hold of the memories.

* `NearestIsAlwaysCovered` (`NearestIsCovered`) needs no memory, it is about
  one scan: clusters do not overlap, so the list of measurements has each compact
  one; each measurement is taken by a track or starts one, and that track is at
  its center and at least half its extent; of the returns in no compact cluster
  the nearest of each sector is a point of the newest frame, unless a mover is where
  it is; the nearest return of a sector is one or the other. Sums over a cluster and
  the greedy association are recursive functions: that they exist is the lemma
  `Iteration`, by a least counterexample.
* `PhantomsAlwaysFade` (`PhantomsFade`) has the invariant `Fading`, one conjunct
  for each memory: for how long there has been nothing bounds the misses of a
  track, the repetitions of the scan, the place of a frame in the memory and the
  age of what planning received. The proof showed that an earlier bound was too
  small: with few misses and no hold, what planning sees is decided by the frames
  alone, which stay for `MaxRepeat + Depth` cycles when the last scan with returns
  is repeated. `FadeBound` is now the larger of the two; `Fading` was
  model-checked on instances of both kinds before the proof.
* `MoversNeverLeaveAFence` (`MoversLeaveNoFence`) gives every remembered point
  an age: its place in the memory and the repetitions of its scan. A point on no
  post was on the walker then, as long as the stride has not changed since
  (`SeenThen`), and extrapolating the track that far back covers it. The attempt
  to prove an earlier form failed for a reason: the code extrapolates by the age
  of the receipt, a repeated scan is older than that, and the slack has to cover
  what the mover does in between. `Known` now says so: the track, with the
  slack, covers the walker where it is and where it was while a scan may have
  been repeated.

Only model-checked:

* `PostsAreRemembered` of `ObstacleView`: whether it holds depends on how misses,
  hold, depth, gate and the speeds of what moves relate, which the code leaves
  to its configuration. A track that has lost its mover may coast onto a post,
  and then the post's points are taken for the mover's ghost.
* The liveness properties (outside this prover) and the three refuted
  statements.

## 5. Not modelled

* Startup and shutdown beyond the configuration checks of planning.
  `deceleration_rate` of control is not validated by the code; the models assume
  it positive.
* Angular velocity in control (the linear part decides stopping), odometry,
  CH3's content beyond the e-stop flag and the velocity.
* Steering and curvature of the executors, moving obstacles in their rollouts
  (a veto may happen to any candidate), scores, the unused `SimpleMpc`, headings
  of smoothed paths.
* The mode that follows the route without A*, speed tapering, the fallback to
  CH3 odometry before the first WorldState, the scenario's speed limit.
* Scan matching, the occupancy grid and camera detection of sensperc: numerical
  estimation. The device parsers, the simulation and its drivers, the launcher
  beyond its restarts, the Python tools, `core/`: environment, pure I/O or not
  part of the running system. `control/src/tracker` is built and never called.

### Observed and left as it is

Control and transport:

* Two thresholds in series make the silence after which a dead planner stops the
  vehicle longer (500 ms + 1000 ms as shipped) than `config/control.yaml:34`
  says of `heartbeat_dead_ms`. `DrivesOnlyWithPlanningAlive` is the bound that
  does hold, and it is proved.
* The clear rule of an explicit stop promises that the vehicle has stopped
  (`watchdog/mod.rs:15-17`); when chassis reads fail the reading is old
  (`limo_hw.rs:404-407`).
* The doc of `update_degraded` says that the K-th good cycle is still capped
  (`arbitrator/mod.rs:271`), the code frees it in that cycle (`279-282`); the
  comment in `Publisher::bind` says that the oldest messages are dropped when a
  queue is full, a ZeroMQ publisher drops the new ones (the models do the same).

Mission, behavior and configuration:

* The filter for re-sends compares the number of waypoints and swallows another
  scenario of the same length while one is driven (`main.rs:462`).
* The episode's clock of *continuous* Following is not reset by the early
  returns of `update`.
* With the shipped `world_state_stale_ms` of 300 and a memory of three frames at
  10 Hz one cycle may plan in an empty world before the staleness stop. Already
  after one miss the margin of the MPC no longer covers the age of the pose, by
  5 mm (`StoppingSettings(1)`).
* The rollouts look at the obstacles after their first substep, so the pose they
  start from is not checked (`DrivenDistance`; `dwa.rs:872-893`, `694-708`,
  `tracking_mpc.rs:556-571`).
* At startup the planner's speed and deceleration are compared with the
  arbitrator's, its acceleration and curvature are not.
* `recovery_margin_scale` and `margin_low_speed_scale` have no upper bound in
  `validate`, so a relaxed radius may exceed the usual one, and `robot_radius`
  may be below the footprint.

Planning:

* The streaks that drop a path count on empty and short paths too and are not
  reset when the path is replaced. The escape from standstill checks no braking
  beyond its profile. When A* fails, the path of a former goal is kept. The
  streak of blame is not reset by a reroute (`main.rs:1079-1090`).
* A Reeds-Shepp connection at the start node leaves `path[0].dir` forward while
  the tail may be reverse: a spurious cusp, against
  `global_planner/mod.rs:324-328`; the smoother passes it on as a run of one
  waypoint. `RS_ATTEMPT_STRIDE` attempts every sixth expansion, its comment says
  every fifth. The heuristic adds a weight on the heading while the goal region
  accepts any: consistent, and not admissible as the comment says. A primitive
  is checked at its end only, a retained path every 5 cm. A position slightly
  below the origin falls into cell 0.

Perception:

* The comment on `OBSTACLE_SECTORS` says that sampled wall points always merge into
  a continuous inflated barrier (`sensperc/src/main.rs:581-584`), from a range limit
  of 3 m, where a sector spans 0.26 m, and an inflation of 0.3 m. The limit is 8 m
  (line 575), where a sector spans 0.70 m, and `planning.yaml:230` has a robot radius
  of 0.24 m: far from a wall, the points kept of it leave gaps. `NearestIsCovered`
  is about the nearest return of each sector and does not say that there are none.
* The published extent of a track is an average of old and new, so a growing
  cluster is under-reported by up to half its growth while its returns leave the
  points (against `planning/src/main.rs:332-335`). A one-scan dropout of a
  tracked post while a mover is within the gate lets the post's track jump to
  the mover (against `main.rs:534`). A track is dropped at `max_misses + 1`. An
  object across the seam with fewer than `min_pts` returns on one side loses
  that side before the seams are merged. `PhantomsFade` counts new scans, not
  time.

## 6. Plan

Done, in this order: watchdog, control loop, stop chain and arbitrator, which
decide whether the vehicle stops; behavior planner and mission; roadmap and
route following; the sensor store; executors, plan commitment and obstacle
inputs composed with the arbitrator; the search and the smoother; tracking and
obstacle memory; the configuration.

Left: a proof of `PostsAreRemembered`; `Driving` with `Behavior` in place of its free
choices; moving obstacles on the lane; the mode that follows the route directly.
