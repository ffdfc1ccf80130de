------------------------------- MODULE Driving -------------------------------
(***************************************************************************)
(* The planning loop as it drives (planning/src/main.rs, steps 1 to 9): a  *)
(* cycle takes the newest WorldState or holds the last one, remembers the  *)
(* obstacles of the last frames, keeps or replaces the global path, lets   *)
(* an executor choose a command, drops a path pursuit cannot follow, and   *)
(* sends the command through the arbitrator to a vehicle that follows it.  *)
(*                                                                         *)
(* In mode "Traditional" the arbitrator's command moves the robot along    *)
(* the lane.  In the other modes the commands are any Inputs, as in        *)
(* Arbitrator, and the robot is not followed.  The behavior planner may    *)
(* choose any speed and recovery phase its inputs allow, and A* finds one  *)
(* of the paths over at most one cusp or fails.                            *)
(***************************************************************************)
EXTENDS Executors, Arbitrator

CONSTANTS
  Start,             \* where the robot starts
  Goals, Cusps,      \* mission goals, and places a path may turn at
  DesiredSpeeds,     \* what the behavior planner asks for while driving
  Worlds,            \* sets of static obstacles to start among
  LateObstacles,     \* obstacles that may be seen later
  Depth,             \* frames of the obstacle memory
  StaleCycles,       \* cycles without a WorldState before the E-stop
  EscapeRadius, TrueFootprint,   \* start_escape_radius, TRUE_FOOTPRINT_CLEARANCE_M
  DirectApproach, Pull,          \* GOAL_DIRECT_APPROACH_M, how far inside the goal it aims
  BehindDrop, BlockedDrop, BlockedDropLength,  \* the streaks that drop a path
  FollowDrift        \* go on after an unrecorded ramp

ASSUME DrivingAssumption ==
  /\ Start \in Int /\ Goals \subseteq Int /\ Cusps \subseteq Int
  /\ DesiredSpeeds \subseteq Nat
  /\ Worlds \subseteq SUBSET Obstacle /\ LateObstacles \subseteq Obstacle
  /\ Depth \in Nat \ {0} /\ StaleCycles \in Nat
  /\ EscapeRadius \in Nat /\ TrueFootprint \in Nat /\ DirectApproach \in Nat /\ Pull \in Nat
  /\ BehindDrop \in Nat \ {0} /\ BlockedDrop \in Nat \ {0} /\ BlockedDropLength \in Nat
  /\ FollowDrift \in BOOLEAN

(* A stop at full braking from speed v: how far the robot still goes, in n *)
(* cycles at the speeds v - MaxDecel, v - 2 * MaxDecel, ...                *)
StopReach(v) ==
  LET n == Size(v) \div MaxDecel
  IN  n * Size(v) - MaxDecel * ((n * (n + 1)) \div 2)

Config == INSTANCE Configuration

(* The configuration the constants stand for, a cycle lasting 100 ms.      *)
SafetyConfig ==
  [ max_speed |-> MaxSpeed, max_acceleration |-> MaxAccel, max_deceleration |-> MaxDecel,
    max_angular_speed |-> MaxAngular, max_curvature |-> MaxCurvature ]

DwaConfig ==
  [Config!DwaDefaults EXCEPT
     !.max_speed = DwaSpeed, !.max_acceleration = DwaAccel, !.max_deceleration = DwaDecel,
     !.sim_time = 100 * Horizon, !.robot_radius = RobotRadius,
     !.recovery_margin_scale = 100 * RecoveryScale,
     !.margin_low_speed_scale = 100 * LowScale, !.high_speed_margin_gain = HighGain]

PursuitConfig ==
  [Config!PursuitDefaults EXCEPT !.reverse_speed_cap = ReverseCap, !.v_turn_min = Crawl]

TrackingMpcConfig ==
  [Config!TrackingMpcDefaults EXCEPT
     !.horizon_steps = MpcSteps, !.phase1_s = 100 * MpcPhase, !.finish_m = Finish]

Configured ==
  [Config!Defaults EXCEPT
     !.arbitrator = [@ EXCEPT !.safety = SafetyConfig, !.degraded_speed_cap = DegradedCap,
                              !.confidence_recovery_cycles = RecoveryCycles],
     !.fault_tolerance = [@ EXCEPT !.world_state_stale_ms = 100 * StaleCycles],
     !.global_planner  = [@ EXCEPT !.start_escape_radius = EscapeRadius],
     !.local_planner   = [@ EXCEPT !.dwa = DwaConfig, !.pursuit = PursuitConfig,
                                   !.tracking_mpc = TrackingMpcConfig,
                                   !.actuation_delay_s = 100 * Delay]]

(* The process starts with the constants, and would with its defaults: in  *)
(* particular the planner is no faster and brakes no harder than the       *)
(* arbitrator lets it.                                                     *)
ASSUME StartsUp == Config!Accepted(Configured) /\ Config!Accepted(Config!Defaults)

VARIABLES
  x,                 \* the robot on the lane
  statics,           \* the obstacles there are to see
  last_world,        \* the pose and speed of the last WorldState
  missed,            \* cycles since then
  goal,
  current_path_goal, \* the goal the path was planned for, if any
  global_path,
  prev_cmd_v,        \* LocalPlanner.prev_cmd_v; None reads as standing still
  target_behind_streak, blocked_streak,
  behindTries,       \* history: TargetBehind answers in a row on the path, of those tried
  searched,          \* history: this cycle's A* found a path
  unrecorded,        \* history: the last command is not in prev_cmd_v
  drifted            \* history: a ramp has started from an unrecorded speed

worldVars == <<x, statics, last_world, missed>>
pathVars  == <<goal, current_path_goal, global_path, searched>>
execVars  == <<prev_cmd_v, target_behind_streak, blocked_streak, behindTries,
               unrecorded, drifted>>
driveVars == <<worldVars, pathVars, execVars>>

StopDistance(v, o) == SweptDistance(x, Sign(v) * StopReach(v), o)

(* Misses are counted until both the memory is empty and the input stale.  *)
MissLimit == Larger(Depth, StaleCycles + 1)

(* The types: the planner's last command and the speed it is told of stay  *)
(* within its own limits for each direction, a path has at most two runs,  *)
(* and the streaks end.                                                    *)
DrivingTypeOK ==
  /\ x \in Int /\ statics \subseteq Obstacle
  /\ last_world \in State /\ last_world.v \in Commanded
  /\ missed \in 0 .. MissLimit
  /\ goal \in Goals /\ current_path_goal \subseteq Goals
  /\ global_path \in Seq(Run) /\ Len(global_path) <= 2
  /\ prev_cmd_v \in Commanded
  /\ target_behind_streak \in 0 .. BehindDrop
  /\ blocked_streak \in 0 .. BlockedDrop
  /\ behindTries \in 0 .. BehindDrop
  /\ searched \in BOOLEAN /\ unrecorded \in BOOLEAN /\ drifted \in BOOLEAN

DrivingInit ==
  /\ Init
  /\ x = Start /\ statics \in Worlds
  /\ last_world = [x |-> Start, v |-> 0] /\ missed = MissLimit
  /\ goal \in Goals /\ current_path_goal = {}
  /\ global_path = <<>> /\ searched = FALSE
  /\ prev_cmd_v = 0 /\ target_behind_streak = 0 /\ blocked_streak = 0
  /\ behindTries = 0 /\ unrecorded = FALSE /\ drifted = FALSE

(***************************************************************************)
(* Steps 1 to 4: the inputs.  A fresh frame may show an obstacle for the   *)
(* first time, one the robot can still stop for.                           *)
(***************************************************************************)
Appears(o) ==
  \A v \in {prev_linear} \cup (IF unrecorded THEN {} ELSE {prev_cmd_v}) :
    StopDistance(v, o) >= Footprint

Receive ==
  /\ last_world' = [x |-> x, v |-> prev_linear]
  /\ missed' = 0
  /\ \/ UNCHANGED statics
     \/ \E o \in LateObstacles \ statics : Appears(o) /\ statics' = statics \cup {o}

Miss ==
  /\ missed' = CountTo(MissLimit, missed)
  /\ UNCHANGED <<last_world, statics>>

Stale == missed' > StaleCycles

(* What the memory holds: a miss pushes an empty frame. *)
Obstacles == IF missed' < Depth THEN statics' ELSE {}

(***************************************************************************)
(* Step 6: the global path.                                                *)
(***************************************************************************)

(* The grid: obstacles inflated by the collision radius, except near a     *)
(* robot that stands inside the inflation and not inside an obstacle.      *)
Inflated(p, obstacles)   == \E o \in obstacles : NetDistance(p, o) <= RobotRadius
Overlapped(p, obstacles) == \E o \in obstacles : NetDistance(p, o) < TrueFootprint

EscapeZone(from, obstacles) == Inflated(from, obstacles) /\ ~Overlapped(from, obstacles)

PoseBlocked(p, from, obstacles) ==
  IF EscapeZone(from, obstacles) /\ Size(p - from) <= EscapeRadius
  THEN Overlapped(p, obstacles) ELSE Inflated(p, obstacles)

SegmentFree(a, b, from, obstacles) ==
  \A p \in Smaller(a, b) .. Larger(a, b) : ~PoseBlocked(p, from, obstacles)

(* active_run_truncation_index: a finished run is dropped at the cusp.     *)
Truncated(path, s) == IF AtCusp(s, path) THEN Tail(path) ELSE path

(* The path as the cycle takes it up, from the robot on.                   *)
CurrentPath(s) == Truncated(global_path, s)

(* path_remains_valid_with_escape, for the path as it lies from the robot. *)
RemainsValid(path, from, obstacles) ==
  /\ path # <<>>
  /\ SegmentFree(from, path[1].to, from, obstacles)
  /\ Len(path) > 1 => SegmentFree(path[1].to, path[2].to, from, obstacles)

RunTo(from, to) == [to |-> to, dir |-> IF to < from THEN "rev" ELSE "fwd"]

(* What A* and the smoother may answer. *)
Candidates(from, to, obstacles) ==
  { path \in {<<RunTo(from, to)>>}
               \cup { <<RunTo(from, c), RunTo(c, to)>> : c \in Cusps \ {from, to} } :
      /\ Len(path) > 1 => path[1].dir # path[2].dir
      /\ RemainsValid(path, from, obstacles) }

(* Mutant: a path that is still free is kept, whatever it leads to. *)
RetainableFree(path, from, obstacles) == RemainsValid(path, from, obstacles)

(* current_ok: what hysteresis may keep. *)
Retainable(path, from, obstacles) ==
  /\ RemainsValid(path, from, obstacles)
  /\ current_path_goal = {goal'}
  /\ path[Len(path)].to = goal'

(* path_replace_decision: what may not be kept is replaced, for the rest   *)
(* it depends on the costs.                                                *)
PathReplaceDecision(currentOk) == IF currentOk THEN BOOLEAN ELSE {TRUE}

(* What becomes of the path: kept as it is, valid or not, when no replan   *)
(* is due or the search fails; else replaced by what the search found, or  *)
(* kept by hysteresis.                                                     *)
Plans(path, from, obstacles) ==
  LET found == IF Stale THEN {} ELSE Candidates(from, goal', obstacles)
  IN  {[path |-> path, goal |-> current_path_goal, searched |-> FALSE]}
      \cup {[path |-> p, goal |-> {goal'}, searched |-> TRUE] : p \in found}
      \cup { [path |-> path, goal |-> current_path_goal, searched |-> TRUE] :
               p \in {q \in found : FALSE \in PathReplaceDecision(Retainable(path, from, obstacles))} }

(* direct_approach_path: within reach of the goal an empty path is a point *)
(* inside the goal's tolerance.                                            *)
ExecPath(path, phase, s) ==
  LET d == Size(goal' - s.x)
  IN  IF path = <<>> /\ phase = "None" /\ d <= DirectApproach
      THEN << [to |-> goal' - Sign(goal' - s.x) * Smaller(Pull, d), dir |-> "point"] >>
      ELSE path

(***************************************************************************)
(* Step 7: the command, and what the pursuit attempt does to the path.     *)
(***************************************************************************)

(* The phases and speeds the behavior planner may answer; stale inputs put *)
(* it into EmergencyStop.  It backs up only while the rear is clear.       *)
Choices(s, obstacles) ==
  IF Stale THEN { [phase |-> "None", desired |-> 0] }
  ELSE { c \in [ phase   : {"None", "ForwardRetry", "Reverse", "Hold"},
                 desired : DesiredSpeeds \cup {0, Crawl} ] :
           /\ c.phase = "None" => c.desired # Crawl
           /\ c.phase = "Hold" => c.desired = 0
           /\ c.phase \in {"ForwardRetry", "Reverse"} => c.desired = Crawl
           /\ c.phase = "Reverse" => RearClear(s, obstacles) }

(* The length of a path from the robot, for the exemption of short ones.   *)
PathLength(path, from) ==
  IF path = <<>> THEN 0
  ELSE Size(path[1].to - from) + IF Len(path) > 1 THEN Size(path[2].to - path[1].to) ELSE 0

(* The streaks after the cycle, and whether they drop the path: a cycle    *)
(* that tried nothing says nothing.                                        *)
Streaks(attempt, path, from) ==
  LET behind  == IF attempt = "TargetBehind" THEN CountTo(BehindDrop, target_behind_streak)
                 ELSE IF attempt = "NotTried" THEN target_behind_streak ELSE 0
      blocked == IF attempt = "Blocked" THEN CountTo(BlockedDrop, blocked_streak)
                 ELSE IF attempt = "NotTried" THEN blocked_streak ELSE 0
  IN  [ behind  |-> behind, blocked |-> blocked,
        drop    |-> \/ attempt = "TargetBehind" /\ behind = BehindDrop /\ path # <<>>
                    \/ /\ attempt = "Blocked" /\ blocked = BlockedDrop
                       /\ PathLength(path, from) >= BlockedDropLength ]

(* The path, the streaks and their history after the attempt.              *)
Commit(plan, attempt, from) ==
  LET streaks == Streaks(attempt, plan.path, from)
      same    == plan.path # <<>> /\ plan.path = CurrentPath(last_world')
  IN  /\ global_path' = IF streaks.drop THEN <<>> ELSE plan.path
      /\ current_path_goal' = plan.goal
      /\ searched' = plan.searched
      /\ target_behind_streak' = IF streaks.drop THEN 0 ELSE streaks.behind
      /\ blocked_streak' = IF streaks.drop THEN 0 ELSE streaks.blocked
      /\ behindTries' =
           IF streaks.drop \/ plan.path = <<>> THEN 0
           ELSE LET tries == IF same THEN behindTries ELSE 0
                IN  IF attempt = "TargetBehind" THEN CountTo(BehindDrop, tries)
                    ELSE IF attempt = "NotTried" THEN tries ELSE 0

(***************************************************************************)
(* Step 8, and what the vehicle makes of it.                               *)
(***************************************************************************)

Send(cmd) ==
  IF Stale THEN EmergencyStop
  ELSE Graduated([linear |-> cmd.linear, angular |-> 0, confidence |-> cmd.confidence])

(* The speed the next command starts from: an empty path's stop leaves the *)
(* speed of the command before it, and a stale cycle's stop the speed the  *)
(* executor would have commanded.                                          *)
Record(answer) ==
  /\ prev_cmd_v' = answer.prev
  /\ unrecorded' = (answer.prev # IF Stale THEN 0 ELSE answer.cmd.linear)
  /\ drifted' = (drifted \/ (unrecorded /\ answer.cmd.ramp))

(* A planning cycle, and the motion until the next.                        *)
Drive ==
  /\ mode = "Traditional" /\ (FollowDrift \/ ~drifted)
  /\ Receive \/ Miss
  /\ goal' \in Goals
  /\ \E obstacles \in {Obstacles}, s \in {last_world'} :
     \E choice \in Choices(s, obstacles),
        plan \in Plans(CurrentPath(s), s.x, obstacles) :
     \E answer \in SelectLocalPlan(choice.phase, Projected(s),
                                   ExecPath(plan.path, choice.phase, s),
                                   choice.desired, prev_cmd_v, obstacles) :
       /\ Commit(plan, answer.cmd.attempt, s.x)
       /\ Send(answer.cmd)
       /\ Record(answer)
  /\ x' = x + prev_linear'

(* The run ends where a ramp from a speed never commanded begins.          *)
Halt == drifted /\ ~FollowDrift /\ UNCHANGED <<arbVars, driveVars>>

(* Any commands, with the robot out of the picture. *)
Unfollowed == mode # "Traditional" /\ Next /\ UNCHANGED driveVars

DrivingNext == Drive \/ Halt \/ Unfollowed

DrivingSpec == DrivingInit /\ [][DrivingNext]_<<arbVars, driveVars>>
-----------------------------------------------------------------------------
(***************************************************************************)
(* When what the executors check is enough to stop.                        *)
(***************************************************************************)

(* What the rate limiter may command after v. *)
NextSpeeds(v) ==
  { w \in Commanded : /\ w - v <= IF v < 0 THEN MaxDecel ELSE MaxAccel
                      /\ v - w <= IF v > 0 THEN MaxDecel ELSE MaxAccel }

(* How old the pose is that a command is verified from, n cycles after it  *)
(* was taken: the speed then, the speed now, and how far the robot is      *)
(* ahead of the pose projected over the latency.                           *)
Lags[n \in 0 .. StaleCycles] ==
  IF n = 0
  THEN { [then |-> v, now |-> v, ahead |-> -Delay * v] : v \in Commanded }
  ELSE UNION { { [then |-> l.then, now |-> w, ahead |-> l.ahead + w] :
                   w \in NextSpeeds(l.now) } : l \in Lags[n - 1] }

(* Clear up to `reach` from the projected pose, the robot may command the  *)
(* speed u in direction sign, be moved by what the arbitrator makes of it, *)
(* and still stop from u.                                                  *)
Covers(l, sign, u, reach) ==
  \A w \in NextSpeeds(l.now) :
    sign * w <= u => sign * (l.ahead + w) + StopReach(u) <= reach

(* What the MPC's rollout covers, at the margin it keeps at any speed.     *)
MpcReach(u) == u + StopReach(u) + SpeedScaledRadius(0, RobotRadius) - Footprint

(* Each executor's check reaches far enough, from a pose of that age: ahead*)
(* pursuit and the MPC, the sampler, the escape from standstill; behind    *)
(* pursuit, and the scripted reverse, which is not projected.              *)
ChecksReach(l) ==
  /\ \A u \in 1 .. DwaSpeed :
       /\ l.then >= 0 => Covers(l, 1, u, Smaller(ArcReach(u), MpcReach(u)))
       /\ u <= l.then + DwaAccel => Covers(l, 1, u, ArcReach(u))
       /\ l.then = 0 /\ u <= DwaAccel => Covers(l, 1, u, Horizon * u)
  /\ \A u \in {-v : v \in {w \in Commanded : w < 0}} :
       l.then <= 0 => Covers(l, -1, u, ArcReach(u))
  /\ Covers([l EXCEPT !.ahead = @ + Delay * l.then], -1, ReverseSpeed, ReverseDistance)

(* The settings under which the checks are enough while no more than       *)
(* `limit` WorldStates in a row are missed: the memory holds what was seen *)
(* so long, the planner brakes like the arbitrator, the margins do not     *)
(* shrink with the speed, the projected pose does not jump over an obstacle*)
(* the robot can stop for, and the checks reach far enough.                *)
StoppingSettings(limit) ==
  /\ DwaDecel = MaxDecel /\ limit < Depth
  /\ Footprint > 0 /\ Footprint <= RearRadius /\ LowScale <= 10
  /\ \A v \in Commanded : Delay * Size(v) < Footprint + StopReach(v)
  /\ \A n \in 0 .. limit : \A l \in Lags[n] : ChecksReach(l)

(* The robot starts clear, and an obstacle closes the lane or leaves room. *)
WorldsLeaveRoom ==
  /\ \A world \in Worlds : \A o \in world : NetDistance(Start, o) >= Footprint
  /\ \A o \in LateObstacles \cup UNION Worlds : o.off = 0 \/ o.off >= Footprint + o.radius

(* No more than `limit` WorldStates in a row are missed while the planner  *)
(* drives; the staleness stop holds the robot before the first one.        *)
SeenWithin(limit) == missed <= limit \/ missed > StaleCycles
-----------------------------------------------------------------------------
(***************************************************************************)
(* Properties.                                                             *)
(***************************************************************************)

(* The safety contract of the executors, kept through the arbitrator: in   *)
(* every cycle a full stop along the lane, at the arbitrator's braking,    *)
(* ends without the footprint touching an obstacle, although commands are  *)
(* verified from a held and projected pose, for the planner's own last     *)
(* speed and not the vehicle's, and a robot already too close is allowed   *)
(* to lose clearance.  Not claimed after a ramp from an unrecorded speed,  *)
(* nor where the robot is not followed.                                    *)
StopClears(v) == \A o \in statics : StopDistance(v, o) >= Footprint

StopsClear == mode = "Traditional" /\ ~drifted => StopClears(prev_linear)

(* The same without the exception: "a command is emitted only if its       *)
(* truthful execution (including braking to a stop along the commanded     *)
(* arc) stays outside the required margins of every obstacle"              *)
(* (pursuit.rs, PursuitPlanner::compute).                                  *)
EveryStopClears == StopClears(prev_linear)

(* A path is not followed against the evidence: after a search that found  *)
(* one the path leads to the present goal, and a path that lay behind the  *)
(* robot in BehindDrop tries, with untried cycles between, is gone.        *)
PathIsCurrent ==
  /\ searched /\ global_path # <<>> => global_path[Len(global_path)].to = goal
  /\ behindTries < BehindDrop
=============================================================================
