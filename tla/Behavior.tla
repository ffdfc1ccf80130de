------------------------------- MODULE Behavior -------------------------------
(***************************************************************************)
(* The behavior planner (planning/src/behavior/mod.rs): the driving state  *)
(* machine with its stuck detector, the phased self-recovery and the       *)
(* recovery episode that spans several recoveries.                         *)
(*                                                                         *)
(* The struct is the record `bp`; each `&mut self` helper of update is an  *)
(* operator from the record before to the record after, and update is one  *)
(* action.  The planning loop calls set_goal and clear_goal between        *)
(* updates and the robot moves between updates.                            *)
(*                                                                         *)
(* The world is a line: positions, distances and the reverse targets are   *)
(* integers on it.  An update is one unit of time (`dt` is the fixed loop  *)
(* period) and the crawl covers one unit of distance in it.                *)
(***************************************************************************)
EXTENDS Integers

CONSTANTS
  Track,            \* positions of the robot
  Goals,            \* goals the planning loop may set
  Inputs,           \* what an update may be told, see Input
  GoalTolerance, ApproachDistance,
  StuckCycles,      \* stuck_cycles_before_recovery
  RetryTime,        \* RECOVERY_FORWARD_RETRY_S
  ReverseMin, ReverseMax,      \* recovery_reverse_min_m, _max_m
  ReverseFloor, ReverseSlack,  \* recovery_reverse_max_s, REVERSE_TIME_SLACK_S
  MaxAttempts,      \* recovery_max_attempts
  ExitCycles,       \* recovery_exit_feasible_cycles
  ExitDistance,     \* RECOVERY_EXIT_DISTANCE_M
  ProgressReset,    \* recovery_progress_reset_m
  FollowingClear,   \* EPISODE_FOLLOWING_CLEAR_S
  HoldRetry,        \* hold_retry_period_s
  AttemptCap        \* bound of the model: attempts are counted up to here

(* BehaviorInput without the pose.  Localization is "lost" below 0.3 and   *)
(* "good" from 0.5 on; an obstacle is "close" below the stop distance and  *)
(* "clear" beyond 1.5 times it; `plan` is classify_plan's verdict on the   *)
(* plan of the cycle before; rearClear is the swept rear check.            *)
Input ==
  [ stop : BOOLEAN, localization : {"lost", "poor", "good"},
    obstacle : {"close", "near", "clear"}, stationary : BOOLEAN,
    plan : {"infeasible", "neither", "feasible"}, rearClear : BOOLEAN ]

Config == INSTANCE Configuration

(* The configuration the constants stand for.                              *)
Configured ==
  [Config!BehaviorDefaults EXCEPT
     !.goal_tolerance = GoalTolerance, !.approach_distance = ApproachDistance,
     !.stuck_cycles_before_recovery = StuckCycles, !.recovery_reverse_max_s = ReverseFloor,
     !.recovery_max_attempts = MaxAttempts, !.recovery_reverse_min_m = ReverseMin,
     !.recovery_reverse_max_m = ReverseMax, !.recovery_exit_feasible_cycles = ExitCycles,
     !.recovery_progress_reset_m = ProgressReset, !.hold_retry_period_s = HoldRetry]

ASSUME AcceptedConfig == Config!BehaviorValid(Configured)

(* The types, and a cap past which one more attempt changes nothing.       *)
ASSUME BehaviorAssumption ==
  /\ Track \subseteq Int
  /\ Goals \subseteq [at : Int, tolerance : Nat] /\ Inputs \subseteq Input
  /\ GoalTolerance \in Nat /\ ApproachDistance \in Nat
  /\ StuckCycles \in Nat /\ ExitCycles \in Nat /\ HoldRetry \in Nat /\ MaxAttempts \in Nat
  /\ RetryTime \in Nat \ {0, 1} /\ FollowingClear \in Nat \ {0}
  /\ ReverseMin \in Nat /\ ReverseMax \in Nat
  /\ ReverseFloor \in Nat /\ ReverseSlack \in Nat
  /\ ExitDistance \in Nat /\ ProgressReset \in Nat
  /\ AttemptCap \in Nat /\ AttemptCap >= MaxAttempts
  /\ (AttemptCap + 1) * ReverseMin >= ReverseMax

DrivingState ==
  { "Idle", "Following", "Approaching", "GoalReached", "ObstacleAvoidance",
    "Recovery", "Degraded", "EmergencyStop" }

RecoveryPhase == {"ForwardRetry", "Reverse", "Hold"}

NoGoal == [at |-> 0, tolerance |-> -1]

Distance(a, b) == IF a < b THEN b - a ELSE a - b
AtMost(a, b)   == IF a < b THEN a ELSE b
AtLeast(a, b)  == IF a > b THEN a ELSE b

(***************************************************************************)
(* The struct.                                                             *)
(***************************************************************************)

(* RecoveryStatus; phase "None" stands for no book-keeping. *)
RecoveryStatus ==
  [ phase : RecoveryPhase \cup {"None"}, phaseElapsed : Nat, entry : Int,
    reverseStart : Int, feasibleStreak : Nat, holdElapsed : Nat, holdRetry : BOOLEAN ]

NewRecovery(x) ==
  [ phase |-> "ForwardRetry", phaseElapsed |-> 0, entry |-> x, reverseStart |-> x,
    feasibleStreak |-> 0, holdElapsed |-> 0, holdRetry |-> FALSE ]

NoRecovery == [NewRecovery(0) EXCEPT !.phase = "None"]

(* RecoveryEpisode; `open` is whether there is one. *)
RecoveryEpisode ==
  [open : BOOLEAN, origin : Int, attempts : 0 .. AttemptCap, followingTime : Nat]

NewEpisode(x) == [open |-> TRUE, origin |-> x, attempts |-> 0, followingTime |-> 0]
NoEpisode     == [NewEpisode(0) EXCEPT !.open = FALSE]

BehaviorPlanner ==
  [ state : DrivingState, goal : Goals \cup {NoGoal}, stuckCount : Nat,
    recovery : RecoveryStatus, episode : RecoveryEpisode ]

NewPlanner ==
  [ state |-> "Idle", goal |-> NoGoal, stuckCount |-> 0,
    recovery |-> NoRecovery, episode |-> NoEpisode ]

HasGoal(b) == b.goal # NoGoal

ArrivalTolerance(goal) == IF goal.tolerance > 0 THEN goal.tolerance ELSE GoalTolerance

(* Mutant: follow, goal or not. *)
ResumedFollowing(b) == "Following"

(* The state to go on with after a stop or a recovery. *)
Resumed(b) == IF HasGoal(b) THEN "Following" ELSE "Idle"

(* The committed distance and the time allowance of the round's reverse:   *)
(* the distance grows with the attempts of the episode.                    *)
ReverseTarget(b) ==
  AtMost(((IF b.episode.open THEN b.episode.attempts ELSE 0) + 1) * ReverseMin, ReverseMax)

ReverseAllowance(b) == AtLeast(ReverseTarget(b) + ReverseSlack, ReverseFloor)

VARIABLES
  bp,        \* the BehaviorPlanner
  x,         \* where the robot is
  seen,      \* history: the last update's plan verdict, see Verdict
  feasRun,   \* history: consecutive updates with a feasible plan
  debt,      \* history: reverse rounds finished since real progress
  calm,      \* history: updates since the robot was last in Recovery
  released   \* history: the current reverse burst may be broken off

behaviorVars == <<bp, x, seen, feasRun, debt, calm, released>>

(***************************************************************************)
(* The steps of update, in the order of the code.                          *)
(***************************************************************************)

(* Emergency stop and lost localization return early: the episode is not   *)
(* looked at.                                                              *)
Overridden(b, state) ==
  [b EXCEPT !.state = state, !.stuckCount = 0, !.recovery = NoRecovery]

(* Mutant: an obstacle in front ends the counting. *)
IsStuckFollowingOnly(b, in) ==
  b.state = "Following" /\ in.stationary /\ in.plan = "infeasible"

IsStuck(b, in) ==
  b.state \in {"Following", "ObstacleAvoidance"} /\ in.stationary /\ in.plan = "infeasible"

(* Mutant: the detector is not rearmed. *)
EnterRecoveryKeepingCount(b) ==
  [b EXCEPT !.state = "Recovery", !.stuckCount = @ + 1, !.recovery = NewRecovery(x),
            !.episode = IF @.open THEN [@ EXCEPT !.followingTime = 0] ELSE NewEpisode(x)]

(* The episode is created at the first entry and reused at a later one. *)
EnterRecovery(b) ==
  [b EXCEPT !.state = "Recovery", !.stuckCount = 0, !.recovery = NewRecovery(x),
            !.episode = IF @.open THEN [@ EXCEPT !.followingTime = 0] ELSE NewEpisode(x)]

DetectStuck(b, in) ==
  IF IsStuck(b, in)
  THEN IF b.stuckCount + 1 >= StuckCycles THEN EnterRecovery(b)
       ELSE [b EXCEPT !.stuckCount = @ + 1]
  ELSE IF b.state # "Recovery" THEN [b EXCEPT !.stuckCount = 0] ELSE b

(* The episode ends on net progress or after a stretch of Following. *)
MadeProgress(b) == b.episode.open /\ Distance(x, b.episode.origin) > ProgressReset

KeepEpisode(b) ==
  IF ~b.episode.open THEN b
  ELSE IF MadeProgress(b) THEN [b EXCEPT !.episode = NoEpisode]
  ELSE IF b.state # "Following" THEN [b EXCEPT !.episode.followingTime = 0]
  ELSE IF b.episode.followingTime + 1 >= FollowingClear THEN [b EXCEPT !.episode = NoEpisode]
  ELSE [b EXCEPT !.episode.followingTime = @ + 1]

(***************************************************************************)
(* update_recovery.                                                        *)
(***************************************************************************)

(* Mutant: leaving Recovery ends the episode. *)
ExitRecoveryForgetting(b) ==
  [b EXCEPT !.state = Resumed(b), !.recovery = NoRecovery, !.stuckCount = 0,
            !.episode = NoEpisode]

ExitRecovery(b) ==
  [b EXCEPT !.state = Resumed(b), !.recovery = NoRecovery, !.stuckCount = 0]

Displaced(b) == Distance(x, b.recovery.entry) > ExitDistance

(* Mutant: a reverse is broken off by feasible plans at any time. *)
CommittedNever(b, in) == FALSE

(* A reverse is not broken off before it has covered its distance. *)
Committed(b, in) ==
  /\ b.recovery.phase = "Reverse" /\ in.rearClear
  /\ Distance(x, b.recovery.reverseStart) < ReverseTarget(b)

(* Mutant: feasible plans count with a clear rear only. *)
StreakWithClearRear(b, in) ==
  IF Committed(b, in) \/ in.plan # "feasible" \/ ~in.rearClear
  THEN 0 ELSE b.recovery.feasibleStreak + 1

Streak(b, in) ==
  IF Committed(b, in) \/ in.plan # "feasible" THEN 0 ELSE b.recovery.feasibleStreak + 1

StartReverse(rec) == [rec EXCEPT !.phase = "Reverse", !.reverseStart = x]
StartHold(rec)    == [rec EXCEPT !.phase = "Hold", !.holdElapsed = 0]

(* Phase A: when it is over, reverse; only a retry launched from a hold    *)
(* looks at the rear first and otherwise holds again.                      *)
ForwardRetry(b, in) ==
  LET rec  == b.recovery
      over == [rec EXCEPT !.phaseElapsed = 0, !.holdRetry = FALSE]
  IN  IF rec.phaseElapsed + 1 < RetryTime
      THEN [b EXCEPT !.recovery.phaseElapsed = @ + 1]
      ELSE [b EXCEPT !.recovery =
              IF rec.holdRetry /\ ~in.rearClear THEN StartHold(over) ELSE StartReverse(over)]

(* Phase B: ends when the rear is blocked or the time is up; the round     *)
(* counts on the episode.                                                  *)
RoundOver(b, in) ==
  ~in.rearClear \/ b.recovery.phaseElapsed + 1 >= ReverseAllowance(b)

CountRound(episode) ==
  [ (IF episode.open THEN episode ELSE NewEpisode(x)) EXCEPT
      !.attempts = AtMost(@ + 1, AttemptCap) ]

Reverse(b, in) ==
  LET over == [b.recovery EXCEPT !.phaseElapsed = 0, !.reverseStart = b.recovery.entry]
      next == CountRound(b.episode)
  IN  IF ~RoundOver(b, in) THEN [b EXCEPT !.recovery.phaseElapsed = @ + 1]
      ELSE [b EXCEPT !.episode = next,
                     !.recovery = IF next.attempts >= MaxAttempts THEN StartHold(over)
                                  ELSE [over EXCEPT !.phase = "ForwardRetry"]]

(* Mutant: the abort is final. *)
HoldForever(b) == b

Hold(b) ==
  IF b.recovery.holdElapsed + 1 < HoldRetry
  THEN [b EXCEPT !.recovery.holdElapsed = @ + 1]
  ELSE [b EXCEPT !.recovery = [@ EXCEPT !.phase = "ForwardRetry", !.phaseElapsed = 0,
                                        !.holdElapsed = 0, !.holdRetry = TRUE]]

UpdateRecovery(b, in) ==
  LET streak  == Streak(b, in)
      counted == [b EXCEPT !.recovery.feasibleStreak = streak]
  IN  IF b.recovery.phase = "None" THEN [b EXCEPT !.state = Resumed(b)]
      ELSE IF Displaced(b) \/ streak >= ExitCycles THEN ExitRecovery(b)
      ELSE CASE b.recovery.phase = "ForwardRetry" -> ForwardRetry(counted, in)
             [] b.recovery.phase = "Reverse"      -> Reverse(counted, in)
             [] b.recovery.phase = "Hold"         -> Hold(counted)

(***************************************************************************)
(* The transitions of update.                                              *)
(***************************************************************************)

GoalDistance(b) == Distance(x, b.goal.at)
Arrived(b)      == GoalDistance(b) < ArrivalTolerance(b.goal)

NextState(b, in) ==
  CASE b.state = "EmergencyStop" -> Resumed(b)
    [] b.state = "Degraded" -> IF in.localization = "good" THEN Resumed(b) ELSE "Degraded"
    [] b.state = "Idle" -> Resumed(b)
    [] b.state = "Following" ->
         IF ~HasGoal(b) THEN "Idle"
         ELSE IF Arrived(b) THEN "GoalReached"
         ELSE IF GoalDistance(b) < ApproachDistance THEN "Approaching"
         ELSE IF in.obstacle = "close" THEN "ObstacleAvoidance"
         ELSE "Following"
    [] b.state = "Approaching" ->
         IF HasGoal(b) /\ Arrived(b) THEN "GoalReached" ELSE "Approaching"
    [] b.state = "GoalReached" -> "GoalReached"
    [] b.state = "ObstacleAvoidance" ->
         IF in.obstacle = "clear" THEN "Following" ELSE "ObstacleAvoidance"

Transition(b, in) ==
  IF b.state = "Recovery" THEN UpdateRecovery(b, in) ELSE [b EXCEPT !.state = NextState(b, in)]

Interrupted(in) == in.stop \/ in.localization = "lost"

Updated(b, in) ==
  IF in.stop THEN Overridden(b, "EmergencyStop")
  ELSE IF in.localization = "lost" THEN Overridden(b, "Degraded")
  ELSE Transition(KeepEpisode(DetectStuck(b, in)), in)

(***************************************************************************)
(* The actions.                                                            *)
(***************************************************************************)

SetGoal(goal) ==
  /\ bp' = [bp EXCEPT !.goal = goal, !.state = "Following"]
  /\ UNCHANGED <<x, seen, feasRun, debt, calm, released>>

ClearGoal ==
  /\ bp' = NewPlanner
  /\ debt' = 0
  /\ UNCHANGED <<x, seen, feasRun, calm, released>>

(* What the history keeps of an update. *)
Verdict(in) ==
  IF Interrupted(in) THEN "interrupted"
  ELSE IF in.plan = "infeasible" /\ in.stationary THEN "stuck"
  ELSE IF in.plan = "feasible" THEN "free" ELSE "other"

Reversing(b) == b.state = "Recovery" /\ b.recovery.phase = "Reverse"

RoundFinished == Reversing(bp) /\ bp'.state = "Recovery" /\ bp'.recovery.phase # "Reverse"

Update(in) ==
  /\ bp' = Updated(bp, in)
  /\ seen' = Verdict(in)
  /\ feasRun' = IF seen' = "free" THEN AtMost(feasRun + 1, ExitCycles) ELSE 0
  /\ calm' = IF bp'.state = "Recovery" THEN 0 ELSE AtMost(calm + 1, FollowingClear)
  /\ debt' = IF calm' = FollowingClear \/ (MadeProgress(bp) /\ ~Interrupted(in))
             THEN IF RoundFinished THEN 1 ELSE 0
             ELSE IF RoundFinished THEN AtMost(debt + 1, AttemptCap) ELSE debt
  /\ released' = /\ Reversing(bp)
                 /\ \/ released \/ ~in.rearClear
                    \/ Distance(x, bp.recovery.reverseStart) >= ReverseTarget(KeepEpisode(bp))
  /\ UNCHANGED x

Move ==
  /\ x' \in Track /\ Distance(x, x') = 1
  /\ UNCHANGED <<bp, seen, feasRun, debt, calm, released>>

BehaviorInit ==
  /\ bp = NewPlanner
  /\ x \in Track
  /\ seen = "other" /\ feasRun = 0 /\ debt = 0 /\ calm = 0 /\ released = FALSE

NewGoal    == \E goal \in Goals : SetGoal(goal)
UpdateStep == \E in \in Inputs : Update(in)

BehaviorNext == NewGoal \/ ClearGoal \/ UpdateStep \/ Move

(* The planning loop calls update in every cycle. *)
BehaviorSpec == BehaviorInit /\ [][BehaviorNext]_behaviorVars /\ WF_behaviorVars(UpdateStep)
-----------------------------------------------------------------------------
(***************************************************************************)
(* Properties.                                                             *)
(***************************************************************************)

(* Every counter stays below the limit at which update acts on it, also    *)
(* when a new goal or a stop interrupts the counting.                      *)
BehaviorTypeOK ==
  /\ bp \in BehaviorPlanner
  /\ bp.stuckCount < StuckCycles
  /\ bp.recovery.phaseElapsed < AtLeast(RetryTime, AtLeast(ReverseMax + ReverseSlack, ReverseFloor))
  /\ bp.recovery.feasibleStreak < ExitCycles
  /\ bp.recovery.holdElapsed < HoldRetry
  /\ bp.episode.followingTime < FollowingClear
  /\ x \in Track /\ seen \in {"interrupted", "stuck", "free", "other"}
  /\ feasRun \in 0 .. ExitCycles /\ debt \in 0 .. AttemptCap /\ calm \in 0 .. FollowingClear
  /\ released \in BOOLEAN

(* "Exiting Recovery alone must NOT reset attempts": the episode remembers *)
(* every reverse round finished without real progress, over exits, stops,  *)
(* degraded stretches and new goals, until FollowingClear updates have     *)
(* gone by without a recovery.                                             *)
DebtIsRemembered == debt <= (IF bp.episode.open THEN bp.episode.attempts ELSE 0)

(* Recovery's own exit is earned: by displacement, or by ExitCycles        *)
(* consecutive feasible plans, and out of a reverse burst only when the    *)
(* burst has covered its committed distance or the rear was blocked.       *)
ExitIsEarned ==
  [][ bp.state = "Recovery" /\ bp'.state = "Following" /\ bp'.recovery = NoRecovery =>
        \/ Displaced(bp)
        \/ /\ feasRun' = ExitCycles
           /\ bp.recovery.phase = "Reverse" => released' ]_behaviorVars

(* A hold is "never a permanently terminal state", even when nothing ever  *)
(* becomes feasible.                                                       *)
Holding == bp.state = "Recovery" /\ bp.recovery.phase = "Hold"
HoldIsNotTerminal == Holding ~> ~Holding

(* A robot that stays stuck does not stay in a driving state: detection    *)
(* survives the flapping between Following and ObstacleAvoidance and a     *)
(* stream of new goals.                                                    *)
StuckRobotIsNoticed ==
  <>[](seen = "stuck") => []<>(bp.state \notin {"Following", "ObstacleAvoidance"})

(* A robot whose plan stays feasible does not stay in Recovery, whatever   *)
(* phase it was in.                                                        *)
FreeRobotLeavesRecovery ==
  <>[](seen = "free") => <>[](bp.state # "Recovery")

(* The behavior planner implements DrivingModes. *)
ModeOf(b) ==
  CASE b.state = "Idle" -> "idle"
    [] b.state = "Following" -> "drive"
    [] b.state = "Approaching" -> "approach"
    [] b.state = "ObstacleAvoidance" -> "avoid"
    [] b.state = "GoalReached" -> "reached"
    [] b.state \in {"Degraded", "EmergencyStop"} -> "stopped"
    [] b.state = "Recovery" ->
         (CASE b.recovery.phase = "ForwardRetry" -> "retry"
            [] b.recovery.phase = "Reverse"      -> "reverse"
            [] b.recovery.phase = "Hold"         -> "hold")

Modes == INSTANCE DrivingModes WITH mode <- ModeOf(bp), hasGoal <- HasGoal(bp)

(* Step simulation: what the planning loop relies on holds whatever the    *)
(* perception reports and whenever the goal is changed.                    *)
KeepsModes == Modes!Promise
=============================================================================
