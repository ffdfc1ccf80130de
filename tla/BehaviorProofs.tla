---------------------------- MODULE BehaviorProofs ----------------------------
(***************************************************************************)
(* Proofs about Behavior for every track, set of goals, set of inputs and  *)
(* accepted configuration: the limits of its counters, what the episode    *)
(* remembers, how Recovery is left, and that the planner implements        *)
(* DrivingModes.                                                           *)
(*                                                                         *)
(* The inductive invariant adds to the properties that Recovery always has *)
(* its book-keeping, that driving states have a goal, that a closed        *)
(* episode measures nothing and an open one no longer a stretch of         *)
(* Following than there was, and that in Recovery the streak counts no     *)
(* more feasible plans than were seen (a streak left over from before a    *)
(* new goal may, until the next recovery starts from zero).                *)
(*                                                                         *)
(* An update is taken apart in the order of the code: stuck detector and   *)
(* episode give the Prepared record, from which the transition Exits,      *)
(* Climbs a rung or Drives, unless the update Interrupts.                  *)
(***************************************************************************)
EXTENDS Behavior, TLAPS

(* No phase of a recovery lasts longer than its limit. *)
PhaseLimit == AtLeast(RetryTime, AtLeast(ReverseMax + ReverseSlack, ReverseFloor))

(* What update relies on in the record, whatever it is told next. *)
CountersBounded(b) ==
  /\ b.stuckCount < StuckCycles
  /\ b.recovery.phaseElapsed < PhaseLimit
  /\ b.recovery.feasibleStreak < ExitCycles
  /\ b.recovery.holdElapsed < HoldRetry
  /\ b.episode.followingTime < FollowingClear

(* What the states rely on: Recovery on its book-keeping, driving on a     *)
(* goal.                                                                   *)
ModesBacked(b) ==
  /\ b.state = "Recovery" => b.recovery.phase # "None"
  /\ b.state \in {"Following", "Approaching", "GoalReached", "ObstacleAvoidance", "Recovery"}
       => HasGoal(b)
  /\ ~b.episode.open => b.episode.followingTime = 0

Sound(b) == b \in BehaviorPlanner /\ CountersBounded(b) /\ ModesBacked(b)

(* The rounds the record knows of. *)
Attempts(b) == IF b.episode.open THEN b.episode.attempts ELSE 0

HistoryTypeOK ==
  /\ x \in Track /\ seen \in {"interrupted", "stuck", "free", "other"}
  /\ feasRun \in 0 .. ExitCycles /\ debt \in 0 .. AttemptCap /\ calm \in 0 .. FollowingClear
  /\ released \in BOOLEAN

IInv ==
  /\ Sound(bp)
  /\ HistoryTypeOK
  /\ debt <= Attempts(bp)
  /\ bp.episode.followingTime <= calm
  /\ bp.state = "Recovery" => bp.recovery.feasibleStreak <= feasRun

-----------------------------------------------------------------------------
(* Lemmas about the helpers of update.                                     *)

(* The startup check makes every limit positive. *)
LEMMA AcceptedIsPositive ==
  /\ StuckCycles > 0 /\ MaxAttempts > 0 /\ ReverseMin > 0 /\ ExitCycles > 0
  /\ HoldRetry > 0 /\ ReverseMax >= ReverseMin
BY AcceptedConfig DEF Config!BehaviorValid, Configured, Config!BehaviorDefaults, Config!Positive

(* The constants as the step lemmas use them. *)
LEMMA Limits ==
  /\ StuckCycles \in Nat \ {0} /\ ExitCycles \in Nat \ {0} /\ HoldRetry \in Nat \ {0}
  /\ MaxAttempts \in Nat \ {0} /\ AttemptCap \in Nat \ {0} /\ ReverseMin \in Nat \ {0}
  /\ PhaseLimit \in Nat /\ PhaseLimit >= RetryTime /\ RetryTime \in Nat \ {0, 1}
  /\ PhaseLimit >= ReverseMax + ReverseSlack /\ PhaseLimit >= ReverseFloor
  /\ FollowingClear \in Nat \ {0} /\ ExitDistance \in Nat /\ ProgressReset \in Nat
BY AcceptedIsPositive, BehaviorAssumption DEF BehaviorAssumption, PhaseLimit, AtLeast

(* The goal a set_goal brings is a goal. *)
LEMMA GoalIsSet == NoGoal \notin Goals
BY BehaviorAssumption DEF BehaviorAssumption, NoGoal

(* Distances are natural numbers, and no distance from oneself. *)
LEMMA DistanceType ==
  ASSUME NEW a \in Int, NEW c \in Int
  PROVE  Distance(a, c) \in Nat /\ Distance(a, a) = 0
BY DEF Distance

(* The book-keeping a recovery starts with, and the cleared one. *)
LEMMA RecoveryValues ==
  ASSUME NEW y \in Int
  PROVE  /\ NewRecovery(y) \in RecoveryStatus
         /\ NewRecovery(y).phase = "ForwardRetry" /\ NewRecovery(y).phaseElapsed = 0
         /\ NewRecovery(y).feasibleStreak = 0 /\ NewRecovery(y).holdElapsed = 0
         /\ NewRecovery(y).entry = y /\ NewRecovery(y).holdRetry = FALSE
         /\ NoRecovery \in RecoveryStatus /\ NoRecovery.phase = "None"
         /\ NoRecovery.phaseElapsed = 0 /\ NoRecovery.feasibleStreak = 0
         /\ NoRecovery.holdElapsed = 0
<1> DEFINE R(z) == [phase |-> "ForwardRetry", phaseElapsed |-> 0, entry |-> z, reverseStart |-> z,
                    feasibleStreak |-> 0, holdElapsed |-> 0, holdRetry |-> FALSE]
<1>1. ASSUME NEW z \in Int
      PROVE  R(z) \in [phase : RecoveryPhase \cup {"None"}, phaseElapsed : Nat, entry : Int,
                       reverseStart : Int, feasibleStreak : Nat, holdElapsed : Nat,
                       holdRetry : BOOLEAN]
  <2>1. "ForwardRetry" \in RecoveryPhase \cup {"None"} /\ 0 \in Nat /\ FALSE \in BOOLEAN
    BY DEF RecoveryPhase
  <2> QED BY <1>1, <2>1, Zenon
<1>2. \A z \in Int : NewRecovery(z) \in RecoveryStatus
  BY <1>1, Zenon DEF NewRecovery, RecoveryStatus
<1>3. /\ NewRecovery(y).phase = "ForwardRetry" /\ NewRecovery(y).phaseElapsed = 0
      /\ NewRecovery(y).feasibleStreak = 0 /\ NewRecovery(y).holdElapsed = 0
      /\ NewRecovery(y).entry = y /\ NewRecovery(y).holdRetry = FALSE
      /\ NewRecovery(0).phaseElapsed = 0 /\ NewRecovery(0).feasibleStreak = 0
      /\ NewRecovery(0).holdElapsed = 0
  BY DEF NewRecovery
<1> DEFINE r0 == NewRecovery(0)
<1>4. r0 \in RecoveryStatus
  BY <1>2, 0 \in Int
<1> HIDE DEF r0
<1>5. /\ [r0 EXCEPT !.phase = "None"] \in RecoveryStatus
      /\ [r0 EXCEPT !.phase = "None"].phase = "None"
      /\ [r0 EXCEPT !.phase = "None"].phaseElapsed = r0.phaseElapsed
      /\ [r0 EXCEPT !.phase = "None"].feasibleStreak = r0.feasibleStreak
      /\ [r0 EXCEPT !.phase = "None"].holdElapsed = r0.holdElapsed
  BY <1>4 DEF RecoveryStatus
<1>6. NoRecovery = [r0 EXCEPT !.phase = "None"]
  BY Zenon DEF NoRecovery, r0
<1> QED BY <1>2, <1>3, <1>5, <1>6 DEF r0

(* The same of the episode. *)
LEMMA EpisodeValues ==
  ASSUME NEW y \in Int
  PROVE  /\ NewEpisode(y) \in RecoveryEpisode
         /\ NewEpisode(y).open = TRUE /\ NewEpisode(y).attempts = 0
         /\ NewEpisode(y).followingTime = 0 /\ NewEpisode(y).origin = y
         /\ NoEpisode \in RecoveryEpisode /\ NoEpisode.open = FALSE
         /\ NoEpisode.attempts = 0 /\ NoEpisode.followingTime = 0
<1> DEFINE E(z) == [open |-> TRUE, origin |-> z, attempts |-> 0, followingTime |-> 0]
<1>1. 0 \in 0 .. AttemptCap /\ 0 \in Nat /\ 0 \in Int /\ TRUE \in BOOLEAN
  BY Limits
<1>2. \A z \in Int : NewEpisode(z) \in RecoveryEpisode
  BY <1>1, Zenon DEF NewEpisode, RecoveryEpisode
<1>3. /\ NewEpisode(y).open = TRUE /\ NewEpisode(y).attempts = 0
      /\ NewEpisode(y).followingTime = 0 /\ NewEpisode(y).origin = y
      /\ NewEpisode(0).attempts = 0 /\ NewEpisode(0).followingTime = 0
  BY DEF NewEpisode
<1> DEFINE e0 == NewEpisode(0)
<1>4. e0 \in RecoveryEpisode
  BY <1>1, <1>2
<1> HIDE DEF e0
<1>5. /\ [e0 EXCEPT !.open = FALSE] \in RecoveryEpisode
      /\ [e0 EXCEPT !.open = FALSE].open = FALSE
      /\ [e0 EXCEPT !.open = FALSE].attempts = e0.attempts
      /\ [e0 EXCEPT !.open = FALSE].followingTime = e0.followingTime
  BY <1>4 DEF RecoveryEpisode
<1>6. NoEpisode = [e0 EXCEPT !.open = FALSE]
  BY Zenon DEF NoEpisode, e0
<1> QED BY <1>2, <1>3, <1>5, <1>6 DEF e0

(* The cleared book-keeping stands for counters at zero. *)
LEMMA ClearedValues ==
  /\ NoRecovery \in RecoveryStatus /\ NoRecovery.phase = "None"
  /\ NoRecovery.phaseElapsed = 0 /\ NoRecovery.feasibleStreak = 0
  /\ NoRecovery.holdElapsed = 0
  /\ NoEpisode \in RecoveryEpisode /\ NoEpisode.open = FALSE
  /\ NoEpisode.attempts = 0 /\ NoEpisode.followingTime = 0
BY RecoveryValues, EpisodeValues, 0 \in Int

(* A stop and lost localization keep the goal and the episode. *)
LEMMA OverriddenFields ==
  ASSUME NEW b \in BehaviorPlanner, NEW s \in DrivingState
  PROVE  LET o == Overridden(b, s) IN
           /\ o \in BehaviorPlanner /\ o.state = s /\ o.stuckCount = 0
           /\ o.recovery = NoRecovery /\ o.episode = b.episode /\ o.goal = b.goal
BY ClearedValues DEF Overridden, BehaviorPlanner

(* The stuck detector enters Recovery from driving only and otherwise      *)
(* changes nothing but its count.                                          *)
Entered(b, d, in) ==
  /\ b.state \in {"Following", "ObstacleAvoidance"} /\ in.plan = "infeasible"
  /\ d.state = "Recovery" /\ d.recovery = NewRecovery(x)
  /\ d.episode = IF b.episode.open THEN [b.episode EXCEPT !.followingTime = 0] ELSE NewEpisode(x)

(* It keeps the goal, and its count below the limit. *)
LEMMA DetectStuckFields ==
  ASSUME NEW b \in BehaviorPlanner, b.stuckCount < StuckCycles, NEW in \in Input, x \in Int
  PROVE  LET d == DetectStuck(b, in) IN
           /\ d \in BehaviorPlanner /\ d.goal = b.goal /\ d.stuckCount < StuckCycles
           /\ \/ Entered(b, d, in)
              \/ d.state = b.state /\ d.recovery = b.recovery /\ d.episode = b.episode
<1> DEFINE e  == [b.episode EXCEPT !.followingTime = 0]
           e2 == IF b.episode.open THEN e ELSE NewEpisode(x)
<1>1. b.episode \in RecoveryEpisode /\ b.recovery \in RecoveryStatus /\ b.stuckCount \in Nat
      /\ b.state \in DrivingState
  BY DEF BehaviorPlanner
<1>2. e \in RecoveryEpisode
  BY <1>1 DEF RecoveryEpisode
<1>3. e2 \in RecoveryEpisode
  BY <1>2, EpisodeValues
<1>4. NewRecovery(x) \in RecoveryStatus
  BY RecoveryValues
<1>5. CASE IsStuck(b, in) /\ b.stuckCount + 1 >= StuckCycles
  <2>1. DetectStuck(b, in) = EnterRecovery(b)
    BY <1>5 DEF DetectStuck
  <2>2. EnterRecovery(b) =
          [b EXCEPT !.state = "Recovery", !.stuckCount = 0, !.recovery = NewRecovery(x),
                    !.episode = e2]
    BY DEF EnterRecovery
  <2> HIDE DEF e, e2
  <2> DEFINE r2 == NewRecovery(x)
             d  == [b EXCEPT !.state = "Recovery", !.stuckCount = 0, !.recovery = r2,
                             !.episode = e2]
  <2>3. r2 \in RecoveryStatus /\ e2 \in RecoveryEpisode
    BY <1>3, <1>4
  <2> HIDE DEF r2
  <2>4. /\ d \in BehaviorPlanner /\ d.goal = b.goal /\ d.stuckCount = 0
        /\ d.state = "Recovery" /\ d.recovery = r2 /\ d.episode = e2
    BY <2>3 DEF BehaviorPlanner, DrivingState
  <2>5. EnterRecovery(b) = d
    BY <2>2, Zenon DEF r2
  <2> HIDE DEF d
  <2>6. /\ EnterRecovery(b) \in BehaviorPlanner /\ EnterRecovery(b).goal = b.goal
        /\ EnterRecovery(b).stuckCount = 0 /\ EnterRecovery(b).state = "Recovery"
        /\ EnterRecovery(b).recovery = NewRecovery(x) /\ EnterRecovery(b).episode = e2
    BY <2>4, <2>5 DEF r2
  <2> QED BY <2>1, <2>6, <1>5, Limits DEF Entered, IsStuck, e, e2
<1>6. CASE IsStuck(b, in) /\ ~(b.stuckCount + 1 >= StuckCycles)
  <2>1. DetectStuck(b, in) = [b EXCEPT !.stuckCount = @ + 1]
    BY <1>6 DEF DetectStuck
  <2> QED BY <2>1, <1>1, <1>6, Limits DEF BehaviorPlanner
<1>7. CASE ~IsStuck(b, in)
  <2>1. DetectStuck(b, in) = b \/ DetectStuck(b, in) = [b EXCEPT !.stuckCount = 0]
    BY <1>7 DEF DetectStuck
  <2> QED BY <2>1, <1>1, Limits DEF BehaviorPlanner
<1> QED BY <1>5, <1>6, <1>7

(* The episode is closed for progress or for a stretch of Following, and   *)
(* otherwise keeps its attempts and measures Following only.               *)
EpisodeKept(b, k) ==
  /\ k.episode.open = b.episode.open /\ k.episode.attempts = b.episode.attempts
  /\ k.episode.followingTime < FollowingClear
  /\ k.episode.followingTime <= b.episode.followingTime + 1
  /\ b.state # "Following" => k.episode.followingTime = 0
  /\ ~k.episode.open => k.episode.followingTime = 0

(* It touches nothing but the episode. *)
LEMMA KeepEpisodeFields ==
  ASSUME NEW b \in BehaviorPlanner, x \in Int, b.episode.followingTime < FollowingClear,
         ~b.episode.open => b.episode.followingTime = 0
  PROVE  LET k == KeepEpisode(b) IN
           /\ k \in BehaviorPlanner /\ k.state = b.state /\ k.goal = b.goal
           /\ k.stuckCount = b.stuckCount /\ k.recovery = b.recovery
           /\ \/ /\ k.episode = NoEpisode
                 /\ \/ MadeProgress(b)
                    \/ b.state = "Following" /\ b.episode.followingTime + 1 >= FollowingClear
              \/ ~MadeProgress(b) /\ EpisodeKept(b, k)
<1> DEFINE k == KeepEpisode(b)
           Closed == [b EXCEPT !.episode = NoEpisode]
<1>1. /\ b.episode \in RecoveryEpisode
      /\ b.episode.open \in BOOLEAN /\ b.episode.followingTime \in Nat
  BY DEF BehaviorPlanner, RecoveryEpisode
<1>2. NoEpisode \in RecoveryEpisode
  BY ClearedValues
<1>3. /\ Closed \in BehaviorPlanner /\ Closed.state = b.state /\ Closed.goal = b.goal
      /\ Closed.stuckCount = b.stuckCount /\ Closed.recovery = b.recovery
      /\ Closed.episode = NoEpisode
  BY <1>2 DEF BehaviorPlanner
<1> HIDE DEF Closed
<1>4. CASE ~b.episode.open
  <2>1. k = b /\ ~MadeProgress(b)
    BY <1>4 DEF KeepEpisode, MadeProgress
  <2> QED BY <2>1, <1>1, <1>4, Limits DEF EpisodeKept
<1>5. CASE b.episode.open /\ MadeProgress(b)
  <2>1. k = Closed
    BY <1>5 DEF KeepEpisode, Closed
  <2> QED BY <2>1, <1>3, <1>5
<1>6. CASE b.episode.open /\ ~MadeProgress(b) /\ b.state # "Following"
  <2>1. k = [b EXCEPT !.episode.followingTime = 0]
    BY <1>6 DEF KeepEpisode
  <2>2. /\ k \in BehaviorPlanner /\ k.state = b.state /\ k.goal = b.goal
        /\ k.stuckCount = b.stuckCount /\ k.recovery = b.recovery
        /\ k.episode.open = b.episode.open /\ k.episode.attempts = b.episode.attempts
        /\ k.episode.followingTime = 0
    BY <2>1 DEF BehaviorPlanner, RecoveryEpisode
  <2> HIDE DEF k
  <2> QED BY <2>2, <1>1, <1>6, Limits DEF EpisodeKept, k
<1>7. CASE b.episode.open /\ ~MadeProgress(b) /\ b.state = "Following"
  <2>1. CASE b.episode.followingTime + 1 >= FollowingClear
    <3>1. k = Closed
      BY <1>7, <2>1 DEF KeepEpisode, Closed
    <3> QED BY <3>1, <1>3, <1>7, <2>1
  <2>2. CASE ~(b.episode.followingTime + 1 >= FollowingClear)
    <3>1. k = [b EXCEPT !.episode.followingTime = @ + 1]
      BY <1>7, <2>2 DEF KeepEpisode
    <3>2. /\ k \in BehaviorPlanner /\ k.state = b.state /\ k.goal = b.goal
          /\ k.stuckCount = b.stuckCount /\ k.recovery = b.recovery
          /\ k.episode.open = b.episode.open /\ k.episode.attempts = b.episode.attempts
          /\ k.episode.followingTime = b.episode.followingTime + 1
      BY <3>1, <1>1 DEF BehaviorPlanner, RecoveryEpisode
    <3> HIDE DEF k
    <3> QED BY <3>2, <1>1, <1>7, <2>2, Limits DEF EpisodeKept, k
  <2> QED BY <2>1, <2>2
<1> QED BY <1>1, <1>4, <1>5, <1>6, <1>7

(* The record as the phases see it: the streak is counted already. *)
Counted(b, streak) == [b EXCEPT !.recovery.feasibleStreak = streak]

(* Counting the streak leaves the rest of the record alone. *)
LEMMA CountedFields ==
  ASSUME NEW b \in BehaviorPlanner, NEW s \in Nat
  PROVE  LET c == Counted(b, s) IN
           /\ c \in BehaviorPlanner /\ c.state = b.state /\ c.goal = b.goal
           /\ c.stuckCount = b.stuckCount /\ c.episode = b.episode
           /\ c.recovery.feasibleStreak = s /\ c.recovery.phase = b.recovery.phase
           /\ c.recovery.phaseElapsed = b.recovery.phaseElapsed
           /\ c.recovery.holdElapsed = b.recovery.holdElapsed
           /\ c.recovery.entry = b.recovery.entry
BY DEF Counted, BehaviorPlanner, RecoveryStatus

(* A step of the ladder: what the three phases have in common. *)
Laddered(c, u) ==
  /\ u \in BehaviorPlanner /\ u.state = c.state /\ u.goal = c.goal
  /\ u.stuckCount = c.stuckCount
  /\ u.recovery.feasibleStreak = c.recovery.feasibleStreak
  /\ u.recovery.phaseElapsed < PhaseLimit /\ u.recovery.holdElapsed < HoldRetry
  /\ u.recovery.phase \in RecoveryPhase

(* The limits the phases act on. *)
PhaseBounds(c) ==
  c.recovery.phaseElapsed < PhaseLimit /\ c.recovery.holdElapsed < HoldRetry

(* The forward retry never touches the episode, and goes on for another    *)
(* update when it has only begun.                                          *)
LEMMA ForwardRetryFields ==
  ASSUME NEW c \in BehaviorPlanner, NEW in \in Input, x \in Int, PhaseBounds(c),
         c.recovery.phase = "ForwardRetry"
  PROVE  /\ Laddered(c, ForwardRetry(c, in))
         /\ ForwardRetry(c, in).episode = c.episode
         /\ c.recovery.phaseElapsed = 0 => ForwardRetry(c, in).recovery.phase = "ForwardRetry"
<1> DEFINE u    == ForwardRetry(c, in)
           over == [c.recovery EXCEPT !.phaseElapsed = 0, !.holdRetry = FALSE]
           r2   == IF c.recovery.holdRetry /\ ~in.rearClear
                   THEN StartHold(over) ELSE StartReverse(over)
<1>1. c.recovery \in RecoveryStatus /\ c.recovery.phaseElapsed \in Nat
  BY DEF BehaviorPlanner, RecoveryStatus
<1>2. /\ over \in RecoveryStatus /\ over.phaseElapsed = 0
      /\ over.feasibleStreak = c.recovery.feasibleStreak
      /\ over.holdElapsed = c.recovery.holdElapsed
  BY <1>1 DEF RecoveryStatus
<1> HIDE DEF over
<1>3. /\ StartHold(over) \in RecoveryStatus /\ StartHold(over).phaseElapsed = 0
      /\ StartHold(over).feasibleStreak = over.feasibleStreak
      /\ StartHold(over).holdElapsed = 0 /\ StartHold(over).phase = "Hold"
  BY <1>2 DEF StartHold, RecoveryStatus, RecoveryPhase
<1>4. /\ StartReverse(over) \in RecoveryStatus /\ StartReverse(over).phaseElapsed = 0
      /\ StartReverse(over).feasibleStreak = over.feasibleStreak
      /\ StartReverse(over).holdElapsed = over.holdElapsed
      /\ StartReverse(over).phase = "Reverse"
  BY <1>2 DEF StartReverse, RecoveryStatus, RecoveryPhase
<1>5. CASE c.recovery.phaseElapsed + 1 < RetryTime
  <2>1. u = [c EXCEPT !.recovery.phaseElapsed = @ + 1]
    BY <1>5 DEF ForwardRetry
  <2>2. /\ u \in BehaviorPlanner /\ u.state = c.state /\ u.goal = c.goal
        /\ u.stuckCount = c.stuckCount /\ u.episode = c.episode
        /\ u.recovery.feasibleStreak = c.recovery.feasibleStreak
        /\ u.recovery.phaseElapsed = c.recovery.phaseElapsed + 1
        /\ u.recovery.holdElapsed = c.recovery.holdElapsed
        /\ u.recovery.phase = c.recovery.phase
    BY <2>1, <1>1 DEF BehaviorPlanner, RecoveryStatus
  <2> HIDE DEF u
  <2> QED BY <2>2, <1>1, <1>5, Limits DEF Laddered, PhaseBounds, RecoveryPhase, u
<1>6. CASE ~(c.recovery.phaseElapsed + 1 < RetryTime)
  <2>1. u = [c EXCEPT !.recovery = r2]
    BY <1>6 DEF ForwardRetry, over
  <2>2. /\ r2 \in RecoveryStatus /\ r2.phaseElapsed = 0 /\ r2.holdElapsed < HoldRetry
        /\ r2.feasibleStreak = c.recovery.feasibleStreak /\ r2.phase \in RecoveryPhase
    BY <1>2, <1>3, <1>4, Limits DEF PhaseBounds, RecoveryPhase
  <2> HIDE DEF r2
  <2>3. /\ u \in BehaviorPlanner /\ u.state = c.state /\ u.goal = c.goal
        /\ u.stuckCount = c.stuckCount /\ u.episode = c.episode /\ u.recovery = r2
    BY <2>1, <2>2 DEF BehaviorPlanner
  <2> HIDE DEF u
  <2> QED BY <2>2, <2>3, <1>1, <1>6, Limits DEF Laddered, u
<1> QED BY <1>5, <1>6

(* A reverse is allowed no more time than its longest distance takes. *)
LEMMA ReverseAllowanceBounded ==
  ASSUME NEW b \in BehaviorPlanner
  PROVE  /\ ReverseTarget(b) \in Nat /\ ReverseAllowance(b) \in Nat
         /\ ReverseAllowance(b) <= PhaseLimit
<1> DEFINE n == (IF b.episode.open THEN b.episode.attempts ELSE 0) + 1
           d == n * ReverseMin
<1>1. b.episode.attempts \in 0 .. AttemptCap
  BY DEF BehaviorPlanner, RecoveryEpisode
<1>2. n \in Nat
  BY <1>1, Limits
<1> HIDE DEF n
<1>3. d \in Nat
  BY <1>2, Limits
<1>4. ReverseTarget(b) = AtMost(d, ReverseMax)
  BY DEF ReverseTarget, n
<1> HIDE DEF d
<1> QED
  BY <1>3, <1>4, Limits, BehaviorAssumption
  DEF ReverseAllowance, AtMost, AtLeast, BehaviorAssumption

(* A counted round opens an episode if there is none, and adds one attempt *)
(* up to the cap.                                                          *)
LEMMA CountRoundFields ==
  ASSUME NEW e \in RecoveryEpisode, x \in Int
  PROVE  /\ CountRound(e) \in RecoveryEpisode /\ CountRound(e).open
         /\ CountRound(e).attempts =
              AtMost((IF e.open THEN e.attempts ELSE 0) + 1, AttemptCap)
         /\ CountRound(e).followingTime = IF e.open THEN e.followingTime ELSE 0
<1> DEFINE f == IF e.open THEN e ELSE NewEpisode(x)
<1>1. /\ f \in RecoveryEpisode /\ f.open
      /\ f.attempts = IF e.open THEN e.attempts ELSE 0
      /\ f.followingTime = IF e.open THEN e.followingTime ELSE 0
  BY EpisodeValues
<1>2. CountRound(e) = [f EXCEPT !.attempts = AtMost(@ + 1, AttemptCap)]
  BY DEF CountRound
<1> HIDE DEF f
<1>3. f.attempts \in 0 .. AttemptCap /\ f.attempts \in Nat
  BY <1>1, Limits DEF RecoveryEpisode
<1>4. AtMost(f.attempts + 1, AttemptCap) \in 0 .. AttemptCap
  BY <1>3, Limits DEF AtMost
<1> QED BY <1>1, <1>2, <1>3, <1>4 DEF RecoveryEpisode

(* The reverse counts its round on the episode exactly when it is left. *)
LEMMA ReverseFields ==
  ASSUME NEW c \in BehaviorPlanner, NEW in \in Input, x \in Int, PhaseBounds(c),
         c.recovery.phase = "Reverse"
  PROVE  /\ Laddered(c, Reverse(c, in))
         /\ Reverse(c, in).episode = IF Reverse(c, in).recovery.phase = "Reverse"
                                     THEN c.episode ELSE CountRound(c.episode)
<1> DEFINE u    == Reverse(c, in)
           over == [c.recovery EXCEPT !.phaseElapsed = 0, !.reverseStart = c.recovery.entry]
           next == CountRound(c.episode)
           r2   == IF next.attempts >= MaxAttempts THEN StartHold(over)
                   ELSE [over EXCEPT !.phase = "ForwardRetry"]
<1>1. /\ c.recovery \in RecoveryStatus /\ c.recovery.phaseElapsed \in Nat
      /\ c.recovery.entry \in Int /\ c.episode \in RecoveryEpisode
  BY DEF BehaviorPlanner, RecoveryStatus
<1>2. /\ over \in RecoveryStatus /\ over.phaseElapsed = 0
      /\ over.feasibleStreak = c.recovery.feasibleStreak
      /\ over.holdElapsed = c.recovery.holdElapsed
  BY <1>1 DEF RecoveryStatus
<1> HIDE DEF over
<1>3. /\ StartHold(over) \in RecoveryStatus /\ StartHold(over).phaseElapsed = 0
      /\ StartHold(over).feasibleStreak = over.feasibleStreak
      /\ StartHold(over).holdElapsed = 0 /\ StartHold(over).phase = "Hold"
  BY <1>2 DEF StartHold, RecoveryStatus, RecoveryPhase
<1>4. /\ [over EXCEPT !.phase = "ForwardRetry"] \in RecoveryStatus
      /\ [over EXCEPT !.phase = "ForwardRetry"].phaseElapsed = 0
      /\ [over EXCEPT !.phase = "ForwardRetry"].feasibleStreak = over.feasibleStreak
      /\ [over EXCEPT !.phase = "ForwardRetry"].holdElapsed = over.holdElapsed
      /\ [over EXCEPT !.phase = "ForwardRetry"].phase = "ForwardRetry"
  BY <1>2 DEF RecoveryStatus, RecoveryPhase
<1>5. CASE ~RoundOver(c, in)
  <2>1. u = [c EXCEPT !.recovery.phaseElapsed = @ + 1]
    BY <1>5 DEF Reverse
  <2>2. /\ u \in BehaviorPlanner /\ u.state = c.state /\ u.goal = c.goal
        /\ u.stuckCount = c.stuckCount /\ u.episode = c.episode
        /\ u.recovery.feasibleStreak = c.recovery.feasibleStreak
        /\ u.recovery.phaseElapsed = c.recovery.phaseElapsed + 1
        /\ u.recovery.holdElapsed = c.recovery.holdElapsed
        /\ u.recovery.phase = c.recovery.phase
    BY <2>1, <1>1 DEF BehaviorPlanner, RecoveryStatus
  <2>3. c.recovery.phaseElapsed + 1 < PhaseLimit
    BY <1>1, <1>5, ReverseAllowanceBounded, Limits DEF RoundOver
  <2> HIDE DEF u
  <2> QED BY <2>2, <2>3, <1>1 DEF Laddered, PhaseBounds, RecoveryPhase, u
<1>6. CASE RoundOver(c, in)
  <2>1. u = [c EXCEPT !.episode = next, !.recovery = r2]
    BY <1>6 DEF Reverse, over
  <2>2. /\ r2 \in RecoveryStatus /\ r2.phaseElapsed = 0 /\ r2.holdElapsed < HoldRetry
        /\ r2.feasibleStreak = c.recovery.feasibleStreak /\ r2.phase \in RecoveryPhase
        /\ r2.phase # "Reverse"
    BY <1>2, <1>3, <1>4, Limits DEF PhaseBounds, RecoveryPhase
  <2>3. next \in RecoveryEpisode
    BY <1>1, CountRoundFields
  <2> HIDE DEF r2, next
  <2>4. /\ u \in BehaviorPlanner /\ u.state = c.state /\ u.goal = c.goal
        /\ u.stuckCount = c.stuckCount /\ u.episode = next /\ u.recovery = r2
    BY <2>1, <2>2, <2>3 DEF BehaviorPlanner
  <2> HIDE DEF u
  <2> QED BY <2>2, <2>4, Limits DEF Laddered, u, next
<1> QED BY <1>5, <1>6

(* A hold is left for a forward retry only. *)
LEMMA HoldFields ==
  ASSUME NEW c \in BehaviorPlanner, PhaseBounds(c), c.recovery.phase = "Hold"
  PROVE  /\ Laddered(c, Hold(c)) /\ Hold(c).episode = c.episode
         /\ Hold(c).recovery.phase \in {"Hold", "ForwardRetry"}
<1> DEFINE u  == Hold(c)
           r2 == [c.recovery EXCEPT !.phase = "ForwardRetry", !.phaseElapsed = 0,
                                    !.holdElapsed = 0, !.holdRetry = TRUE]
<1>1. /\ c.recovery \in RecoveryStatus /\ c.recovery.holdElapsed \in Nat
      /\ c.recovery.phaseElapsed \in Nat
  BY DEF BehaviorPlanner, RecoveryStatus
<1>2. /\ r2 \in RecoveryStatus /\ r2.phaseElapsed = 0 /\ r2.holdElapsed = 0
      /\ r2.feasibleStreak = c.recovery.feasibleStreak /\ r2.phase = "ForwardRetry"
  BY <1>1 DEF RecoveryStatus, RecoveryPhase
<1> HIDE DEF r2
<1>3. CASE c.recovery.holdElapsed + 1 < HoldRetry
  <2>1. u = [c EXCEPT !.recovery.holdElapsed = @ + 1]
    BY <1>3 DEF Hold
  <2>2. /\ u \in BehaviorPlanner /\ u.state = c.state /\ u.goal = c.goal
        /\ u.stuckCount = c.stuckCount /\ u.episode = c.episode
        /\ u.recovery.feasibleStreak = c.recovery.feasibleStreak
        /\ u.recovery.holdElapsed = c.recovery.holdElapsed + 1
        /\ u.recovery.phaseElapsed = c.recovery.phaseElapsed
        /\ u.recovery.phase = c.recovery.phase
    BY <2>1, <1>1 DEF BehaviorPlanner, RecoveryStatus
  <2> HIDE DEF u
  <2> QED BY <2>2, <1>1, <1>3 DEF Laddered, PhaseBounds, RecoveryPhase, u
<1>4. CASE ~(c.recovery.holdElapsed + 1 < HoldRetry)
  <2>1. u = [c EXCEPT !.recovery = r2]
    BY <1>4 DEF Hold, r2
  <2>2. /\ u \in BehaviorPlanner /\ u.state = c.state /\ u.goal = c.goal
        /\ u.stuckCount = c.stuckCount /\ u.episode = c.episode /\ u.recovery = r2
    BY <2>1, <1>2 DEF BehaviorPlanner
  <2> HIDE DEF u
  <2> QED BY <2>2, <1>2, Limits DEF Laddered, RecoveryPhase, u
<1> QED BY <1>3, <1>4

(* A plan that is not feasible, or a committed reverse, ends the streak. *)
LEMMA StreakFields ==
  ASSUME NEW b \in BehaviorPlanner, NEW in \in Input
  PROVE  /\ Streak(b, in) \in Nat
         /\ \/ Streak(b, in) = 0
            \/ /\ Streak(b, in) = b.recovery.feasibleStreak + 1
               /\ ~Committed(b, in) /\ in.plan = "feasible"
<1>1. b.recovery.feasibleStreak \in Nat
  BY DEF BehaviorPlanner, RecoveryStatus
<1> QED BY <1>1 DEF Streak

(* The exit keeps the goal and the episode. *)
LEMMA ExitRecoveryFields ==
  ASSUME NEW b \in BehaviorPlanner
  PROVE  LET u == ExitRecovery(b) IN
           /\ u \in BehaviorPlanner /\ u.state = Resumed(b) /\ u.goal = b.goal
           /\ u.stuckCount = 0 /\ u.recovery = NoRecovery /\ u.episode = b.episode
<1>1. NoRecovery \in RecoveryStatus /\ Resumed(b) \in DrivingState
  BY ClearedValues DEF Resumed, DrivingState
<1> DEFINE s == Resumed(b)
           r == NoRecovery
<1>2. ExitRecovery(b) = [b EXCEPT !.state = s, !.recovery = r, !.stuckCount = 0]
  BY DEF ExitRecovery
<1>3. s \in DrivingState /\ r \in RecoveryStatus
  BY <1>1
<1> HIDE DEF s, r
<1>4. LET u == [b EXCEPT !.state = s, !.recovery = r, !.stuckCount = 0] IN
        /\ u \in BehaviorPlanner /\ u.state = s /\ u.goal = b.goal
        /\ u.stuckCount = 0 /\ u.recovery = r /\ u.episode = b.episode
  BY <1>3 DEF BehaviorPlanner
<1> QED BY <1>2, <1>4 DEF s, r

(* An update in Recovery that does not leave it: the streak is counted and *)
(* the phase may move one rung.                                            *)
Climbed(b, u, in) ==
  /\ Laddered(Counted(b, Streak(b, in)), u)
  /\ Streak(b, in) < ExitCycles
  /\ b.recovery.phase = "Hold" => u.recovery.phase \in {"Hold", "ForwardRetry"}
  /\ b.recovery.phase = "ForwardRetry" /\ b.recovery.phaseElapsed = 0
       => u.recovery.phase = "ForwardRetry"
  /\ u.episode = IF b.recovery.phase = "Reverse" /\ u.recovery.phase # "Reverse"
                 THEN CountRound(b.episode) ELSE b.episode

(* An update in Recovery leaves it or climbs, and leaves it only when      *)
(* displaced or when the streak is long enough.                            *)
LEMMA UpdateRecoveryFields ==
  ASSUME NEW b \in BehaviorPlanner, NEW in \in Input, x \in Int, PhaseBounds(b),
         b.recovery.phase # "None"
  PROVE  \/ /\ UpdateRecovery(b, in) = ExitRecovery(b)
            /\ Displaced(b) \/ Streak(b, in) >= ExitCycles
         \/ Climbed(b, UpdateRecovery(b, in), in) /\ ~Displaced(b)
<1> DEFINE s == Streak(b, in)
           c == Counted(b, s)
           u == UpdateRecovery(b, in)
<1>1. s \in Nat
  BY StreakFields
<1>2. CASE Displaced(b) \/ s >= ExitCycles
  BY <1>2 DEF UpdateRecovery
<1>3. CASE ~Displaced(b) /\ ~(s >= ExitCycles)
  <2>1. s < ExitCycles
    BY <1>1, <1>3, Limits
  <2>2. b.recovery.phase \in {"ForwardRetry", "Reverse", "Hold"}
    BY DEF BehaviorPlanner, RecoveryStatus, RecoveryPhase
  <2>3. /\ c \in BehaviorPlanner /\ c.episode = b.episode
        /\ c.recovery.phase = b.recovery.phase
        /\ c.recovery.phaseElapsed = b.recovery.phaseElapsed
        /\ c.recovery.holdElapsed = b.recovery.holdElapsed
    BY <1>1, CountedFields
  <2> HIDE DEF c, s, u
  <2>4. PhaseBounds(c)
    BY <2>3 DEF PhaseBounds
  <2>5. CASE b.recovery.phase = "ForwardRetry"
    <3>1. u = ForwardRetry(c, in)
      BY <1>3, <2>5 DEF UpdateRecovery, Counted, u, c, s
    <3>2. /\ Laddered(c, u) /\ u.episode = c.episode
          /\ c.recovery.phaseElapsed = 0 => u.recovery.phase = "ForwardRetry"
      BY <3>1, <2>3, <2>4, <2>5, ForwardRetryFields
    <3> QED BY <3>2, <2>1, <2>3, <2>5, <1>3 DEF Climbed, c, s, u
  <2>6. CASE b.recovery.phase = "Reverse"
    <3>1. u = Reverse(c, in)
      BY <1>3, <2>6 DEF UpdateRecovery, Counted, u, c, s
    <3>2. /\ Laddered(c, u)
          /\ u.episode = IF u.recovery.phase = "Reverse" THEN c.episode ELSE CountRound(c.episode)
      BY <3>1, <2>3, <2>4, <2>6, ReverseFields
    <3> QED BY <3>2, <2>1, <2>3, <2>6, <1>3 DEF Climbed, c, s, u
  <2>7. CASE b.recovery.phase = "Hold"
    <3>1. u = Hold(c)
      BY <1>3, <2>7 DEF UpdateRecovery, Counted, u, c, s
    <3>2. /\ Laddered(c, u) /\ u.episode = c.episode
          /\ u.recovery.phase \in {"Hold", "ForwardRetry"}
      BY <3>1, <2>3, <2>4, <2>7, HoldFields
    <3> QED BY <3>2, <2>1, <2>3, <2>7, <1>3 DEF Climbed, c, s, u
  <2> QED BY <2>2, <2>5, <2>6, <2>7
<1> QED BY <1>2, <1>3

(* The stuck detector and the episode come before the transition.          *)
Prepared(b, in) == KeepEpisode(DetectStuck(b, in))

(* The update in which the stuck detector enters Recovery. *)
JustEntered(b, k, in) ==
  /\ b.state \in {"Following", "ObstacleAvoidance"} /\ in.plan = "infeasible"
  /\ k.state = "Recovery" /\ k.recovery = NewRecovery(x)

(* Attempts are lost with the episode only, and it ends only for progress  *)
(* or for a stretch of Following.                                          *)
AttemptsKept(b, k) ==
  \/ /\ k.episode = NoEpisode
     /\ \/ MadeProgress(b)
        \/ k.state = "Following" /\ b.episode.followingTime + 1 >= FollowingClear
  \/ /\ ~MadeProgress(b) /\ Attempts(k) = Attempts(b)
     /\ k.episode.followingTime < FollowingClear
     /\ k.episode.followingTime <= b.episode.followingTime + 1
     /\ k.state # "Following" => k.episode.followingTime = 0
     /\ ~k.episode.open => k.episode.followingTime = 0

(* Detector and episode change no more than they are there for. *)
LEMMA PreparedFields ==
  ASSUME NEW b, Sound(b), NEW in \in Input, x \in Int
  PROVE  LET k == Prepared(b, in) IN
           /\ k \in BehaviorPlanner /\ k.goal = b.goal /\ k.stuckCount < StuckCycles
           /\ JustEntered(b, k, in) \/ (k.state = b.state /\ k.recovery = b.recovery)
           /\ AttemptsKept(b, k)
<1> DEFINE d == DetectStuck(b, in)
           k == Prepared(b, in)
<1>1. /\ b \in BehaviorPlanner /\ b.stuckCount < StuckCycles
      /\ b.episode.followingTime < FollowingClear /\ b.episode \in RecoveryEpisode
      /\ ~b.episode.open => b.episode.followingTime = 0
      /\ b.episode.followingTime \in Nat /\ b.episode.origin \in Int
  BY DEF Sound, CountersBounded, ModesBacked, BehaviorPlanner, RecoveryEpisode
<1>2. /\ d \in BehaviorPlanner /\ d.goal = b.goal /\ d.stuckCount < StuckCycles
      /\ \/ Entered(b, d, in)
         \/ d.state = b.state /\ d.recovery = b.recovery /\ d.episode = b.episode
  BY <1>1, DetectStuckFields
<1> HIDE DEF d
<1> DEFINE e == [b.episode EXCEPT !.followingTime = 0]
<1>3. /\ e.open = b.episode.open /\ e.attempts = b.episode.attempts
      /\ e.origin = b.episode.origin /\ e.followingTime = 0
  BY <1>1 DEF RecoveryEpisode
<1> HIDE DEF e
<1>4. Entered(b, d, in) => d.episode = IF b.episode.open THEN e ELSE NewEpisode(x)
  BY DEF Entered, e
<1>5. /\ MadeProgress(d) <=> MadeProgress(b)
      /\ Attempts(d) = Attempts(b)
      /\ d.episode.followingTime \in Nat
      /\ d.episode.followingTime <= b.episode.followingTime
      /\ ~d.episode.open => d.episode.followingTime = 0
      /\ d.episode.followingTime < FollowingClear
  <2>1. CASE Entered(b, d, in) /\ ~b.episode.open
    <3>1. d.episode = NewEpisode(x)
      BY <1>4, <2>1
    <3>2. Distance(x, x) = 0
      BY DistanceType
    <3>3. /\ d.episode.open = TRUE /\ d.episode.attempts = 0 /\ d.episode.origin = x
          /\ d.episode.followingTime = 0
      BY <3>1, EpisodeValues
    <3>4. ~MadeProgress(d) /\ ~MadeProgress(b)
      BY <3>2, <3>3, <2>1, Limits DEF MadeProgress
    <3>5. Attempts(d) = 0 /\ Attempts(b) = 0
      BY <3>3, <2>1 DEF Attempts
    <3> QED BY <3>3, <3>4, <3>5, <1>1, Limits
  <2>2. CASE Entered(b, d, in) /\ b.episode.open
    <3>1. d.episode = e
      BY <1>4, <2>2
    <3> QED BY <3>1, <1>1, <1>3, <2>2, Limits DEF MadeProgress, Attempts
  <2>3. CASE d.episode = b.episode
    BY <2>3, <1>1 DEF MadeProgress, Attempts
  <2> QED BY <1>2, <2>1, <2>2, <2>3
<1>6. k = KeepEpisode(d)
  BY DEF Prepared, d
<1>7. /\ k \in BehaviorPlanner /\ k.state = d.state /\ k.goal = d.goal
      /\ k.stuckCount = d.stuckCount /\ k.recovery = d.recovery
      /\ \/ /\ k.episode = NoEpisode
            /\ \/ MadeProgress(d)
               \/ d.state = "Following" /\ d.episode.followingTime + 1 >= FollowingClear
         \/ ~MadeProgress(d) /\ EpisodeKept(d, k)
  BY <1>2, <1>5, <1>6, KeepEpisodeFields
<1> HIDE DEF k
<1>8. JustEntered(b, k, in) \/ (k.state = b.state /\ k.recovery = b.recovery)
  BY <1>2, <1>7 DEF Entered, JustEntered
<1>9. AttemptsKept(b, k)
  <2>1. CASE k.episode = NoEpisode /\ MadeProgress(d)
    BY <2>1, <1>5 DEF AttemptsKept
  <2>2. CASE k.episode = NoEpisode /\ d.state = "Following"
             /\ d.episode.followingTime + 1 >= FollowingClear
    <3>1. d.episode.followingTime <= b.episode.followingTime
      BY <1>5
    <3>2. b.episode.followingTime + 1 >= FollowingClear
      BY <3>1, <2>2, <1>1, <1>5, Limits
    <3> QED BY <3>2, <2>2, <1>7 DEF AttemptsKept
  <2>3. CASE ~MadeProgress(d) /\ EpisodeKept(d, k)
    <3>1. Attempts(k) = Attempts(d)
      BY <2>3 DEF EpisodeKept, Attempts
    <3>2. k.episode.followingTime \in Nat
      BY <1>7 DEF BehaviorPlanner, RecoveryEpisode
    <3>3. k.episode.followingTime <= b.episode.followingTime + 1
      BY <3>2, <2>3, <1>1, <1>5 DEF EpisodeKept
    <3> QED BY <3>1, <3>3, <2>3, <1>5, <1>7 DEF AttemptsKept, EpisodeKept
  <2> QED BY <1>7, <2>1, <2>2, <2>3
<1> QED BY <1>2, <1>7, <1>8, <1>9 DEF k

(* The states with transitions of their own: none of them enters Recovery, *)
(* and none goes on driving without a goal.                                *)
LEMMA NextStateFields ==
  ASSUME NEW b \in BehaviorPlanner, ModesBacked(b), NEW in \in Input, b.state # "Recovery"
  PROVE  /\ NextState(b, in) \in DrivingState \ {"Recovery", "EmergencyStop"}
         /\ NextState(b, in) \in {"Following", "Approaching", "GoalReached", "ObstacleAvoidance"}
              => HasGoal(b)
         /\ \/ NextState(b, in) = b.state
            \/ b.state = "Following"
                 /\ NextState(b, in) \in {"Approaching", "ObstacleAvoidance", "GoalReached"}
            \/ b.state = "Approaching" /\ NextState(b, in) = "GoalReached"
            \/ b.state \in {"Idle", "EmergencyStop", "Degraded"} /\ NextState(b, in) = Resumed(b)
            \/ b.state = "ObstacleAvoidance" /\ NextState(b, in) = "Following"
<1>1. b.state \in DrivingState \ {"Recovery"}
  BY DEF BehaviorPlanner
<1> DEFINE n == NextState(b, in)
<1>2. CASE b.state = "EmergencyStop"
  <2>1. n = Resumed(b)
    BY <1>2 DEF NextState
  <2> QED BY <2>1, <1>2 DEF Resumed, DrivingState
<1>3. CASE b.state = "Degraded"
  <2>1. n \in {Resumed(b), "Degraded"}
    BY <1>3 DEF NextState
  <2> QED BY <2>1, <1>3 DEF Resumed, DrivingState
<1>4. CASE b.state = "Idle"
  <2>1. n = Resumed(b)
    BY <1>4 DEF NextState
  <2> QED BY <2>1, <1>4 DEF Resumed, DrivingState
<1>5. CASE b.state = "Following"
  <2>1. HasGoal(b)
    BY <1>5 DEF ModesBacked
  <2>2. n \in {"GoalReached", "Approaching", "ObstacleAvoidance", "Following"}
    BY <1>5, <2>1 DEF NextState
  <2> QED BY <2>1, <2>2, <1>5 DEF DrivingState
<1>6. CASE b.state = "Approaching"
  <2>1. n \in {"GoalReached", "Approaching"} /\ HasGoal(b)
    BY <1>6 DEF NextState, ModesBacked
  <2> QED BY <2>1, <1>6 DEF DrivingState
<1>7. CASE b.state = "GoalReached"
  <2>1. n = "GoalReached" /\ HasGoal(b)
    BY <1>7 DEF NextState, ModesBacked
  <2> QED BY <2>1, <1>7 DEF DrivingState
<1>8. CASE b.state = "ObstacleAvoidance"
  <2>1. n \in {"Following", "ObstacleAvoidance"} /\ HasGoal(b)
    BY <1>8 DEF NextState, ModesBacked
  <2> QED BY <2>1, <1>8 DEF DrivingState
<1> QED BY <1>1, <1>2, <1>3, <1>4, <1>5, <1>6, <1>7, <1>8 DEF DrivingState

-----------------------------------------------------------------------------
(* An update, by what becomes of it.                                       *)

Interrupts(b, u, in) ==
  /\ Interrupted(in)
  /\ \E s \in {"EmergencyStop", "Degraded"} : u = Overridden(b, s)

Exits(b, u, in) ==
  LET k == Prepared(b, in) IN
    /\ ~Interrupted(in) /\ k.state = "Recovery" /\ u = ExitRecovery(k)
    /\ Displaced(k) \/ Streak(k, in) >= ExitCycles

Climbs(b, u, in) ==
  LET k == Prepared(b, in) IN
    ~Interrupted(in) /\ k.state = "Recovery" /\ Climbed(k, u, in) /\ ~Displaced(k)

Drives(b, u, in) ==
  LET k == Prepared(b, in) IN
    ~Interrupted(in) /\ k.state # "Recovery" /\ u = [k EXCEPT !.state = NextState(k, in)]

(* The record as the transition sees it. *)
LEMMA PreparedSound ==
  ASSUME NEW b, Sound(b), NEW in \in Input, x \in Int
  PROVE  Sound(Prepared(b, in))
<1> DEFINE k == Prepared(b, in)
<1>1. /\ k \in BehaviorPlanner /\ k.goal = b.goal /\ k.stuckCount < StuckCycles
      /\ JustEntered(b, k, in) \/ (k.state = b.state /\ k.recovery = b.recovery)
      /\ AttemptsKept(b, k)
  BY PreparedFields
<1> HIDE DEF k
<1>2. /\ k.episode.followingTime < FollowingClear
      /\ ~k.episode.open => k.episode.followingTime = 0
  BY <1>1, ClearedValues, Limits DEF AttemptsKept
<1>3. HasGoal(k) <=> HasGoal(b)
  BY <1>1 DEF HasGoal
<1>4. CASE JustEntered(b, k, in)
  <2>1. /\ k.recovery.phaseElapsed = 0 /\ k.recovery.feasibleStreak = 0
        /\ k.recovery.holdElapsed = 0 /\ k.recovery.phase = "ForwardRetry"
    BY <1>4, RecoveryValues DEF JustEntered
  <2>2. HasGoal(k)
    BY <1>3, <1>4 DEF JustEntered, Sound, ModesBacked
  <2> QED BY <2>1, <2>2, <1>1, <1>2, Limits DEF Sound, CountersBounded, ModesBacked, k
<1>5. CASE k.state = b.state /\ k.recovery = b.recovery
  BY <1>1, <1>2, <1>3, <1>5 DEF Sound, CountersBounded, ModesBacked, k
<1> QED BY <1>1, <1>4, <1>5

(* Every update is one of the four. *)
LEMMA UpdatedCases ==
  ASSUME NEW b, Sound(b), NEW in \in Input, x \in Int
  PROVE  LET u == Updated(b, in) IN
           Interrupts(b, u, in) \/ Exits(b, u, in) \/ Climbs(b, u, in) \/ Drives(b, u, in)
<1> DEFINE u == Updated(b, in)
           k == Prepared(b, in)
<1>1. Sound(k)
  BY PreparedSound
<1>2. CASE Interrupted(in)
  <2>1. u = Overridden(b, "EmergencyStop") \/ u = Overridden(b, "Degraded")
    BY <1>2 DEF Updated, Interrupted
  <2> QED BY <2>1, <1>2 DEF Interrupts
<1>3. CASE ~Interrupted(in)
  <2>1. u = Transition(k, in)
    BY <1>3 DEF Updated, Interrupted, Prepared
  <2> HIDE DEF u, k
  <2>2. CASE k.state = "Recovery"
    <3>1. u = UpdateRecovery(k, in)
      BY <2>1, <2>2 DEF Transition
    <3>2. k \in BehaviorPlanner /\ PhaseBounds(k) /\ k.recovery.phase # "None"
      BY <1>1, <2>2 DEF Sound, CountersBounded, ModesBacked, PhaseBounds
    <3>3. \/ u = ExitRecovery(k) /\ (Displaced(k) \/ Streak(k, in) >= ExitCycles)
          \/ Climbed(k, u, in) /\ ~Displaced(k)
      BY <3>1, <3>2, UpdateRecoveryFields
    <3> QED BY <3>3, <2>2, <1>3 DEF Exits, Climbs, u, k
  <2>3. CASE k.state # "Recovery"
    <3>1. u = [k EXCEPT !.state = NextState(k, in)]
      BY <2>1, <2>3 DEF Transition
    <3> QED BY <3>1, <2>3, <1>3 DEF Drives, u, k
  <2> QED BY <2>2, <2>3
<1> QED BY <1>2, <1>3

(* What driving on does to the record. *)
LEMMA DrivesFields ==
  ASSUME NEW b, Sound(b), NEW in \in Input, x \in Int, NEW u, Drives(b, u, in)
  PROVE  LET k == Prepared(b, in) IN
           /\ u \in BehaviorPlanner /\ u.state = NextState(k, in) /\ u.goal = k.goal
           /\ u.stuckCount = k.stuckCount /\ u.recovery = k.recovery /\ u.episode = k.episode
<1> DEFINE k == Prepared(b, in)
           n == NextState(k, in)
<1>1. k \in BehaviorPlanner /\ ModesBacked(k) /\ k.state # "Recovery"
      /\ u = [k EXCEPT !.state = n]
  BY PreparedSound DEF Sound, Drives
<1>2. n \in DrivingState
  BY <1>1, NextStateFields
<1> HIDE DEF n, k
<1>3. /\ u \in BehaviorPlanner /\ u.state = n /\ u.goal = k.goal
      /\ u.stuckCount = k.stuckCount /\ u.recovery = k.recovery /\ u.episode = k.episode
  BY <1>1, <1>2 DEF BehaviorPlanner
<1> QED BY <1>3 DEF n, k

(* What a rung does to the record. *)
LEMMA ClimbsFields ==
  ASSUME NEW b, Sound(b), NEW in \in Input, x \in Int, NEW u, Climbs(b, u, in)
  PROVE  LET k == Prepared(b, in) IN
           /\ u \in BehaviorPlanner /\ u.state = "Recovery" /\ u.goal = k.goal
           /\ u.stuckCount = k.stuckCount
           /\ u.recovery.feasibleStreak = Streak(k, in) /\ Streak(k, in) < ExitCycles
           /\ u.recovery.phaseElapsed < PhaseLimit /\ u.recovery.holdElapsed < HoldRetry
           /\ u.recovery.phase \in RecoveryPhase
<1> DEFINE k == Prepared(b, in)
<1>1. k \in BehaviorPlanner /\ k.state = "Recovery" /\ Climbed(k, u, in)
  BY PreparedSound DEF Sound, Climbs
<1> HIDE DEF k
<1>2. Streak(k, in) \in Nat
  BY <1>1, StreakFields
<1>3. LET c == Counted(k, Streak(k, in)) IN
        /\ c.state = k.state /\ c.goal = k.goal /\ c.stuckCount = k.stuckCount
        /\ c.recovery.feasibleStreak = Streak(k, in)
  BY <1>1, <1>2, CountedFields
<1> QED BY <1>1, <1>3 DEF Climbed, Laddered, k

(* An update keeps every counter below its limit and every driving mode    *)
(* backed by a goal.                                                       *)
LEMMA UpdatedSound ==
  ASSUME NEW b, Sound(b), NEW in \in Input, x \in Int
  PROVE  Sound(Updated(b, in))
<1> DEFINE u == Updated(b, in)
           k == Prepared(b, in)
<1>1. Sound(k)
  BY PreparedSound
<1>2. k.episode \in RecoveryEpisode /\ b.episode \in RecoveryEpisode /\ b \in BehaviorPlanner
  BY <1>1 DEF Sound, BehaviorPlanner
<1>3. Interrupts(b, u, in) \/ Exits(b, u, in) \/ Climbs(b, u, in) \/ Drives(b, u, in)
  BY UpdatedCases
<1> HIDE DEF u, k
<1>4. CASE Interrupts(b, u, in)
  <2>1. PICK s \in {"EmergencyStop", "Degraded"} : u = Overridden(b, s)
    BY <1>4 DEF Interrupts
  <2>2. s \in DrivingState
    BY DEF DrivingState
  <2>3. /\ u \in BehaviorPlanner /\ u.state = s /\ u.stuckCount = 0 /\ u.recovery = NoRecovery
        /\ u.episode = b.episode
    BY <2>1, <2>2, <1>2, OverriddenFields
  <2> QED
    BY <2>1, <2>3, ClearedValues, Limits, <1>2
    DEF Sound, CountersBounded, ModesBacked, u
<1>5. CASE Exits(b, u, in)
  <2>1. k \in BehaviorPlanner /\ k.state = "Recovery" /\ u = ExitRecovery(k)
    BY <1>1, <1>5 DEF Exits, Sound, k
  <2>2. /\ u \in BehaviorPlanner /\ u.state = Resumed(k) /\ u.goal = k.goal
        /\ u.stuckCount = 0 /\ u.recovery = NoRecovery /\ u.episode = k.episode
    BY <2>1, ExitRecoveryFields
  <2>3. ModesBacked(u)
    BY <2>2, <1>1 DEF ModesBacked, Sound, Resumed, HasGoal
  <2>4. CountersBounded(u)
    BY <2>2, <1>1, ClearedValues, Limits DEF CountersBounded, Sound
  <2> QED BY <2>2, <2>3, <2>4 DEF Sound, u
<1>6. CASE Climbs(b, u, in)
  <2>1. /\ u \in BehaviorPlanner /\ u.state = "Recovery" /\ u.goal = k.goal
        /\ u.stuckCount = k.stuckCount
        /\ u.recovery.feasibleStreak < ExitCycles
        /\ u.recovery.phaseElapsed < PhaseLimit /\ u.recovery.holdElapsed < HoldRetry
        /\ u.recovery.phase \in RecoveryPhase
    BY <1>6, ClimbsFields DEF k
  <2>2. k.state = "Recovery" /\ Climbed(k, u, in)
    BY <1>6 DEF Climbs, k
  <2>3. /\ u.episode.followingTime < FollowingClear
        /\ ~u.episode.open => u.episode.followingTime = 0
    <3>1. u.episode \in {k.episode, CountRound(k.episode)}
      BY <2>2 DEF Climbed
    <3>2. /\ CountRound(k.episode).open
          /\ CountRound(k.episode).followingTime
               = IF k.episode.open THEN k.episode.followingTime ELSE 0
      BY <1>2, CountRoundFields
    <3>3. /\ k.episode.followingTime < FollowingClear
          /\ ~k.episode.open => k.episode.followingTime = 0
      BY <1>1 DEF Sound, CountersBounded, ModesBacked
    <3> QED BY <3>1, <3>2, <3>3, Limits
  <2>4. HasGoal(u)
    BY <1>1, <2>1, <2>2 DEF Sound, ModesBacked, HasGoal
  <2> QED
    BY <2>1, <2>3, <2>4, <1>1 DEF Sound, CountersBounded, ModesBacked, RecoveryPhase, u
<1>7. CASE Drives(b, u, in)
  <2>1. /\ u \in BehaviorPlanner /\ u.state = NextState(k, in) /\ u.goal = k.goal
        /\ u.stuckCount = k.stuckCount /\ u.recovery = k.recovery /\ u.episode = k.episode
    BY <1>7, DrivesFields DEF k
  <2>2. k.state # "Recovery" /\ k \in BehaviorPlanner /\ ModesBacked(k)
    BY <1>1, <1>7 DEF Drives, Sound, k
  <2>3. /\ NextState(k, in) # "Recovery"
        /\ NextState(k, in) \in {"Following", "Approaching", "GoalReached", "ObstacleAvoidance"}
             => HasGoal(k)
    BY <2>2, NextStateFields
  <2> QED BY <2>1, <2>2, <2>3, <1>1 DEF Sound, CountersBounded, ModesBacked, HasGoal, u
<1> QED BY <1>3, <1>4, <1>5, <1>6, <1>7

-----------------------------------------------------------------------------
(* The inductive invariant.                                                *)

(* Whoever is in Recovery after an update climbed; whoever was in Recovery *)
(* before it met neither the stuck detector nor a stretch of Following.    *)
LEMMA RecoveryAfter ==
  ASSUME NEW b, Sound(b), NEW in \in Input, x \in Int
  PROVE  Updated(b, in).state = "Recovery" => Climbs(b, Updated(b, in), in)
<1> DEFINE u == Updated(b, in)
           k == Prepared(b, in)
<1>1. Interrupts(b, u, in) \/ Exits(b, u, in) \/ Climbs(b, u, in) \/ Drives(b, u, in)
  BY UpdatedCases
<1>2. Sound(k)
  BY PreparedSound
<1> HIDE DEF u, k
<1>3. Interrupts(b, u, in) => u.state # "Recovery"
  <2>1. ASSUME NEW s \in {"EmergencyStop", "Degraded"}
        PROVE  Overridden(b, s).state = s
    <3>1. s \in DrivingState
      BY DEF DrivingState
    <3> QED BY <3>1, OverriddenFields DEF Sound
  <2> QED BY <2>1 DEF Interrupts
<1>4. Exits(b, u, in) => u.state # "Recovery"
  BY <1>2, ExitRecoveryFields DEF Exits, Sound, Resumed, k
<1>5. Drives(b, u, in) => u.state # "Recovery"
  BY <1>2, DrivesFields, NextStateFields DEF Drives, Sound, k
<1> QED BY <1>1, <1>3, <1>4, <1>5 DEF u

(* A round that counts is one the record counts too, and no other update   *)
(* of the planner takes attempts off an episode that goes on.              *)
LEMMA DebtStep ==
  ASSUME IInv, NEW in \in Inputs, Update(in)
  PROVE  debt' <= Attempts(bp')
<1> DEFINE u == Updated(bp, in)
           k == Prepared(bp, in)
<1>1. /\ in \in Input /\ x \in Int /\ Sound(bp) /\ debt \in 0 .. AttemptCap
      /\ debt <= Attempts(bp) /\ calm \in 0 .. FollowingClear
      /\ bp.episode.followingTime <= calm
      /\ bp' = u
  BY BehaviorAssumption DEF IInv, HistoryTypeOK, BehaviorAssumption, Update
<1>2. Sound(k) /\ Sound(u) /\ AttemptsKept(bp, k)
      /\ (JustEntered(bp, k, in) \/ (k.state = bp.state /\ k.recovery = bp.recovery))
  BY <1>1, PreparedSound, UpdatedSound, PreparedFields
<1>3. Interrupts(bp, u, in) \/ Exits(bp, u, in) \/ Climbs(bp, u, in) \/ Drives(bp, u, in)
  BY <1>1, UpdatedCases
<1>4. /\ k \in BehaviorPlanner /\ u \in BehaviorPlanner /\ bp \in BehaviorPlanner
      /\ k.episode \in RecoveryEpisode /\ u.episode \in RecoveryEpisode
      /\ bp.episode \in RecoveryEpisode
  BY <1>1, <1>2 DEF Sound, BehaviorPlanner
<1>5. /\ k.episode.attempts \in 0 .. AttemptCap /\ u.episode.attempts \in 0 .. AttemptCap
      /\ bp.episode.attempts \in 0 .. AttemptCap /\ bp.episode.followingTime \in Nat
  BY <1>4 DEF RecoveryEpisode
<1>6. Attempts(k) \in Nat /\ Attempts(u) \in Nat /\ Attempts(bp) \in Nat
  BY <1>5, Limits DEF Attempts
<1>7. debt' = IF calm' = FollowingClear \/ (MadeProgress(bp) /\ ~Interrupted(in))
              THEN IF RoundFinished THEN 1 ELSE 0
              ELSE IF RoundFinished THEN AtMost(debt + 1, AttemptCap) ELSE debt
  BY DEF Update
<1>8. calm' = IF u.state = "Recovery" THEN 0 ELSE AtMost(calm + 1, FollowingClear)
  BY <1>1 DEF Update
<1>9. RoundFinished => /\ bp.state = "Recovery" /\ bp.recovery.phase = "Reverse"
                       /\ u.state = "Recovery" /\ u.recovery.phase # "Reverse"
  BY <1>1 DEF RoundFinished, Reversing
<1>10. u.state = "Recovery" => Climbs(bp, u, in)
  BY <1>1, RecoveryAfter
<1> HIDE DEF u, k
<1>11. CASE RoundFinished
  <2>1. k.state = "Recovery" /\ Climbed(k, u, in) /\ k.recovery.phase = "Reverse"
        /\ ~Interrupted(in)
    BY <1>2, <1>9, <1>10, <1>11 DEF Climbs, JustEntered, k
  <2>2. u.episode = CountRound(k.episode)
    BY <2>1, <1>9, <1>11 DEF Climbed
  <2>3. /\ u.episode.open
        /\ u.episode.attempts = AtMost(Attempts(k) + 1, AttemptCap)
    BY <2>2, <1>1, <1>4, CountRoundFields DEF Attempts
  <2>4. Attempts(u) = AtMost(Attempts(k) + 1, AttemptCap)
    BY <2>3 DEF Attempts
  <2>5. Attempts(u) >= 1
    BY <2>4, <1>6, Limits DEF AtMost
  <2>6. MadeProgress(bp) \/ Attempts(k) = Attempts(bp)
    BY <2>1, <1>2 DEF AttemptsKept
  <2>7. CASE MadeProgress(bp) /\ ~Interrupted(in)
    BY <2>5, <2>7, <1>1, <1>7, <1>11
  <2>8. CASE ~MadeProgress(bp)
    <3>1. Attempts(u) = AtMost(Attempts(bp) + 1, AttemptCap)
      BY <2>4, <2>6, <2>8
    <3>2. debt' = 1 \/ debt' = AtMost(debt + 1, AttemptCap)
      BY <1>7, <1>11
    <3>3. AtMost(debt + 1, AttemptCap) <= AtMost(Attempts(bp) + 1, AttemptCap)
      BY <1>1, <1>6, Limits DEF AtMost
    <3> QED BY <3>1, <3>2, <3>3, <2>5, <1>1
  <2> QED BY <2>1, <2>7, <2>8
<1>12. CASE ~RoundFinished
  <2>1. debt' \in {0, debt}
    BY <1>7, <1>12
  <2>2. CASE debt' = 0
    BY <2>2, <1>1, <1>6
  <2>3. CASE debt' = debt /\ debt # 0
    <3>1. calm' # FollowingClear /\ (~MadeProgress(bp) \/ Interrupted(in))
      BY <2>3, <1>7, <1>12
    <3>2. Attempts(u) >= Attempts(bp)
      <4>1. CASE Interrupts(bp, u, in)
        <5>1. u.episode = bp.episode
          <6>1. PICK s \in {"EmergencyStop", "Degraded"} : u = Overridden(bp, s)
            BY <4>1 DEF Interrupts
          <6>2. s \in DrivingState
            BY DEF DrivingState
          <6> QED BY <6>1, <6>2, <1>4, OverriddenFields
        <5> QED BY <5>1, <1>6 DEF Attempts
      <4>2. ASSUME ~Interrupted(in)
            PROVE  Attempts(k) = Attempts(bp) /\ ~MadeProgress(bp)
        <5>1. ~MadeProgress(bp)
          BY <4>2, <3>1
        <5>2. CASE k.state = "Following" /\ bp.episode.followingTime + 1 >= FollowingClear
          <6>1. u.state # "Recovery"
            BY <5>2, <1>10 DEF Climbs, k
          <6>2. calm' = AtMost(calm + 1, FollowingClear)
            BY <6>1, <1>8
          <6>3. calm + 1 >= FollowingClear
            BY <5>2, <1>1, <1>5, Limits
          <6>4. calm' = FollowingClear
            BY <6>2, <6>3, <1>1, Limits DEF AtMost
          <6> QED BY <6>4, <3>1
        <5> QED BY <5>1, <5>2, <1>2 DEF AttemptsKept
      <4>3. CASE Exits(bp, u, in)
        <5>1. u.episode = k.episode /\ ~Interrupted(in)
          BY <4>3, <1>4, ExitRecoveryFields DEF Exits, k
        <5> QED BY <5>1, <4>2, <1>6 DEF Attempts
      <4>4. CASE Drives(bp, u, in)
        <5>1. u.episode = k.episode /\ ~Interrupted(in)
          BY <4>4, <1>1, DrivesFields DEF Drives, k
        <5> QED BY <5>1, <4>2, <1>6 DEF Attempts
      <4>5. CASE Climbs(bp, u, in)
        <5>1. Climbed(k, u, in) /\ ~Interrupted(in)
          BY <4>5 DEF Climbs, k
        <5>2. u.episode \in {k.episode, CountRound(k.episode)}
          BY <5>1 DEF Climbed
        <5>3. CountRound(k.episode).open
              /\ CountRound(k.episode).attempts = AtMost(Attempts(k) + 1, AttemptCap)
          BY <1>1, <1>4, CountRoundFields DEF Attempts
        <5>4. Attempts(k) <= AttemptCap
          BY <1>5, Limits DEF Attempts
        <5>5. Attempts(u) >= Attempts(k)
          BY <5>2, <5>3, <5>4, <1>6, Limits DEF Attempts, AtMost
        <5> QED BY <5>1, <5>5, <4>2
      <4> QED BY <1>3, <4>1, <4>3, <4>4, <4>5
    <3> QED BY <3>2, <2>3, <1>1, <1>6
  <2> QED BY <2>1, <2>2, <2>3
<1> QED BY <1>11, <1>12

(* The episode never measures a longer stretch of Following than there was *)
(* since the last recovery.                                                *)
LEMMA CalmStep ==
  ASSUME IInv, NEW in \in Inputs, Update(in)
  PROVE  bp'.episode.followingTime <= calm'
<1> DEFINE u == Updated(bp, in)
           k == Prepared(bp, in)
<1>1. /\ in \in Input /\ x \in Int /\ Sound(bp) /\ calm \in 0 .. FollowingClear
      /\ bp.episode.followingTime <= calm /\ bp' = u
  BY BehaviorAssumption DEF IInv, HistoryTypeOK, BehaviorAssumption, Update
<1>2. Sound(k) /\ Sound(u) /\ AttemptsKept(bp, k)
  BY <1>1, PreparedSound, UpdatedSound, PreparedFields
<1>3. Interrupts(bp, u, in) \/ Exits(bp, u, in) \/ Climbs(bp, u, in) \/ Drives(bp, u, in)
  BY <1>1, UpdatedCases
<1>4. k \in BehaviorPlanner /\ u \in BehaviorPlanner /\ bp \in BehaviorPlanner
  BY <1>1, <1>2 DEF Sound
<1>5. /\ k.episode \in RecoveryEpisode /\ u.episode \in RecoveryEpisode
      /\ bp.episode.followingTime \in Nat
      /\ k.episode.followingTime \in Nat /\ u.episode.followingTime \in Nat
  BY <1>4 DEF BehaviorPlanner, RecoveryEpisode
<1>6. calm' = IF u.state = "Recovery" THEN 0 ELSE AtMost(calm + 1, FollowingClear)
  BY <1>1 DEF Update
<1>7. /\ k.episode.followingTime <= bp.episode.followingTime + 1
      /\ k.episode.followingTime < FollowingClear
      /\ k.state = "Recovery" => k.episode.followingTime = 0
  BY <1>2, <1>5, ClearedValues, Limits DEF AttemptsKept
<1>8. u.episode.followingTime < FollowingClear
  BY <1>2 DEF Sound, CountersBounded
<1> HIDE DEF u, k
<1>9. u.episode.followingTime <= bp.episode.followingTime + 1
  <2>1. CASE Interrupts(bp, u, in)
    <3>1. PICK s \in {"EmergencyStop", "Degraded"} : u = Overridden(bp, s)
      BY <2>1 DEF Interrupts
    <3>2. s \in DrivingState
      BY DEF DrivingState
    <3>3. u.episode = bp.episode
      BY <3>1, <3>2, <1>4, OverriddenFields
    <3> QED BY <3>3, <1>5
  <2>2. CASE Exits(bp, u, in)
    <3>1. u.episode = k.episode
      BY <2>2, <1>4, ExitRecoveryFields DEF Exits, k
    <3> QED BY <3>1, <1>7
  <2>3. CASE Drives(bp, u, in)
    <3>1. u.episode = k.episode
      BY <2>3, <1>1, DrivesFields DEF k
    <3> QED BY <3>1, <1>7
  <2>4. CASE Climbs(bp, u, in)
    <3>1. k.state = "Recovery" /\ Climbed(k, u, in)
      BY <2>4 DEF Climbs, k
    <3>2. u.episode \in {k.episode, CountRound(k.episode)}
      BY <3>1 DEF Climbed
    <3>3. CountRound(k.episode).followingTime
            = IF k.episode.open THEN k.episode.followingTime ELSE 0
      BY <1>1, <1>5, CountRoundFields
    <3> QED BY <3>1, <3>2, <3>3, <1>5, <1>7
  <2> QED BY <1>3, <2>1, <2>2, <2>3, <2>4
<1>10. u.state = "Recovery" => u.episode.followingTime = 0
  <2> SUFFICES ASSUME u.state = "Recovery" PROVE u.episode.followingTime = 0
    OBVIOUS
  <2>1. k.state = "Recovery" /\ Climbed(k, u, in)
    BY <1>1, RecoveryAfter DEF Climbs, u, k
  <2>2. u.episode \in {k.episode, CountRound(k.episode)}
    BY <2>1 DEF Climbed
  <2>3. CountRound(k.episode).followingTime
          = IF k.episode.open THEN k.episode.followingTime ELSE 0
    BY <1>1, <1>5, CountRoundFields
  <2> QED BY <2>1, <2>2, <2>3, <1>7
<1>11. CASE u.state = "Recovery"
  BY <1>1, <1>6, <1>10, <1>11
<1>12. CASE u.state # "Recovery"
  BY <1>1, <1>5, <1>6, <1>8, <1>9, <1>12, Limits DEF AtMost
<1> QED BY <1>11, <1>12

(* In Recovery, what the planner counts as feasible in a row was so. *)
LEMMA StreakStep ==
  ASSUME IInv, NEW in \in Inputs, Update(in), Updated(bp, in).state = "Recovery"
  PROVE  Updated(bp, in).recovery.feasibleStreak <= feasRun'
<1> DEFINE u == Updated(bp, in)
           k == Prepared(bp, in)
<1>1. in \in Input /\ x \in Int /\ Sound(bp) /\ feasRun \in 0 .. ExitCycles
  BY BehaviorAssumption DEF IInv, HistoryTypeOK, BehaviorAssumption
<1>2. Climbs(bp, u, in)
  BY <1>1, RecoveryAfter
<1>3. Sound(k) /\ (JustEntered(bp, k, in) \/ (k.state = bp.state /\ k.recovery = bp.recovery))
  BY <1>1, PreparedSound, PreparedFields
<1> HIDE DEF u, k
<1>4. k.state = "Recovery" /\ ~Interrupted(in)
  BY <1>2 DEF Climbs, k
<1>5. u.recovery.feasibleStreak = Streak(k, in) /\ Streak(k, in) < ExitCycles
  BY <1>1, <1>2, ClimbsFields DEF k
<1>6. /\ Streak(k, in) \in Nat
      /\ \/ Streak(k, in) = 0
         \/ Streak(k, in) = k.recovery.feasibleStreak + 1 /\ in.plan = "feasible"
  BY <1>1, <1>3, StreakFields DEF Sound
<1>7. feasRun' \in Nat /\ (in.plan = "feasible" => feasRun' = AtMost(feasRun + 1, ExitCycles))
  <2>1. in.plan = "feasible" => Verdict(in) = "free"
    BY <1>4 DEF Verdict
  <2>2. feasRun' = IF Verdict(in) = "free" THEN AtMost(feasRun + 1, ExitCycles) ELSE 0
    BY DEF Update
  <2> QED BY <2>1, <2>2, <1>1, Limits DEF AtMost
<1>8. CASE Streak(k, in) = 0
  BY <1>5, <1>7, <1>8 DEF u
<1>9. CASE Streak(k, in) = k.recovery.feasibleStreak + 1 /\ in.plan = "feasible"
  <2>1. k.state = bp.state /\ k.recovery = bp.recovery
    BY <1>3, <1>9 DEF JustEntered
  <2>2. k.recovery.feasibleStreak <= feasRun
    BY <2>1, <1>4 DEF IInv
  <2>3. k.recovery.feasibleStreak \in Nat
    BY <1>3 DEF Sound, BehaviorPlanner, RecoveryStatus
  <2> QED BY <2>2, <2>3, <1>1, <1>5, <1>7, <1>9, Limits DEF AtMost, u
<1> QED BY <1>6, <1>8, <1>9

(* The history keeps its ranges. *)
LEMMA HistoryStep ==
  ASSUME IInv, NEW in \in Inputs, Update(in)
  PROVE  HistoryTypeOK'
<1>1. /\ feasRun \in 0 .. ExitCycles /\ debt \in 0 .. AttemptCap /\ calm \in 0 .. FollowingClear
      /\ released \in BOOLEAN /\ x \in Track
  BY DEF IInv, HistoryTypeOK
<1>2. x' \in Track
  BY <1>1 DEF Update
<1>3. seen' \in {"interrupted", "stuck", "free", "other"}
  BY DEF Update, Verdict
<1>4. feasRun' \in 0 .. ExitCycles
  BY <1>1, Limits DEF Update, AtMost
<1>5. debt' \in 0 .. AttemptCap
  BY <1>1, Limits DEF Update, AtMost
<1>6. calm' \in 0 .. FollowingClear
  BY <1>1, Limits DEF Update, AtMost
<1>7. released' \in BOOLEAN
  BY Zenon DEF Update
<1> QED BY <1>2, <1>3, <1>4, <1>5, <1>6, <1>7 DEF HistoryTypeOK

(* A planner without goal: after start and after clear_goal. *)
LEMMA NewPlannerSound ==
  /\ Sound(NewPlanner) /\ NewPlanner.state = "Idle" /\ ~HasGoal(NewPlanner)
  /\ NewPlanner.episode.followingTime = 0 /\ Attempts(NewPlanner) = 0
<1> DEFINE r == NoRecovery
           e == NoEpisode
           n == [state |-> "Idle", goal |-> NoGoal, stuckCount |-> 0, recovery |-> r, episode |-> e]
<1>1. NewPlanner = n
  BY Zenon DEF NewPlanner
<1>2. r \in RecoveryStatus /\ e \in RecoveryEpisode /\ "Idle" \in DrivingState
      /\ NoGoal \in Goals \cup {NoGoal} /\ 0 \in Nat
  BY ClearedValues DEF DrivingState
<1> HIDE DEF r, e
<1>3. n \in [ state : DrivingState, goal : Goals \cup {NoGoal}, stuckCount : Nat,
              recovery : RecoveryStatus, episode : RecoveryEpisode ]
  BY <1>2, Zenon
<1>4. n.state = "Idle" /\ n.goal = NoGoal /\ n.stuckCount = 0 /\ n.recovery = r /\ n.episode = e
  OBVIOUS
<1> HIDE DEF n
<1>5. NewPlanner \in BehaviorPlanner
  BY <1>1, <1>3 DEF BehaviorPlanner
<1> QED
  BY <1>1, <1>4, <1>5, ClearedValues, Limits
  DEF Sound, CountersBounded, ModesBacked, HasGoal, Attempts, r, e

(* A new goal changes the goal and the state only. *)
LEMMA SetGoalFields ==
  ASSUME Sound(bp), NEW goal \in Goals, SetGoal(goal)
  PROVE  /\ Sound(bp') /\ bp'.state = "Following" /\ HasGoal(bp')
         /\ bp'.recovery = bp.recovery /\ bp'.episode = bp.episode
<1>1. bp \in BehaviorPlanner
  BY DEF Sound
<1>2. bp' = [bp EXCEPT !.goal = goal, !.state = "Following"]
  BY DEF SetGoal
<1>3. /\ bp' \in BehaviorPlanner /\ bp'.state = "Following" /\ bp'.goal = goal
      /\ bp'.stuckCount = bp.stuckCount /\ bp'.recovery = bp.recovery
      /\ bp'.episode = bp.episode
  BY <1>1, <1>2 DEF BehaviorPlanner, DrivingState
<1>4. HasGoal(bp')
  BY <1>3, GoalIsSet DEF HasGoal
<1> QED BY <1>3, <1>4 DEF Sound, CountersBounded, ModesBacked

(* The invariant holds at startup. *)
LEMMA InitInductive == BehaviorInit => IInv
<1> SUFFICES ASSUME BehaviorInit PROVE IInv
  OBVIOUS
<1>1. bp = NewPlanner /\ x \in Track /\ seen = "other" /\ feasRun = 0 /\ debt = 0 /\ calm = 0
      /\ released = FALSE
  BY DEF BehaviorInit
<1>2. 0 \in 0 .. ExitCycles /\ 0 \in 0 .. AttemptCap /\ 0 \in 0 .. FollowingClear
  BY Limits
<1>3. HistoryTypeOK
  BY <1>1, <1>2, Zenon DEF HistoryTypeOK
<1> QED BY <1>1, <1>3, NewPlannerSound DEF IInv

(* Every step keeps the invariant. *)
LEMMA StepInductive == IInv /\ [BehaviorNext]_behaviorVars => IInv'
<1> SUFFICES ASSUME IInv, [BehaviorNext]_behaviorVars
             PROVE  IInv'
  OBVIOUS
<1> USE DEF IInv
<1>1. CASE NewGoal
  <2>1. PICK goal \in Goals : SetGoal(goal)
    BY <1>1 DEF NewGoal
  <2>2. /\ Sound(bp') /\ bp'.state = "Following"
        /\ bp'.recovery = bp.recovery /\ bp'.episode = bp.episode
    BY <2>1, SetGoalFields
  <2>3. HistoryTypeOK' /\ debt' = debt /\ calm' = calm /\ feasRun' = feasRun
    BY <2>1 DEF SetGoal, HistoryTypeOK
  <2> QED BY <2>2, <2>3 DEF Attempts, Sound
<1>2. CASE ClearGoal
  <2>1. bp' = NewPlanner /\ debt' = 0 /\ calm' = calm /\ HistoryTypeOK'
    BY <1>2, Limits DEF ClearGoal, HistoryTypeOK
  <2>2. calm' \in 0 .. FollowingClear
    BY <2>1 DEF HistoryTypeOK
  <2> QED BY <2>1, <2>2, NewPlannerSound, Limits DEF Sound, Attempts
<1>3. CASE UpdateStep
  <2>1. PICK in \in Inputs : Update(in)
    BY <1>3 DEF UpdateStep
  <2>2. in \in Input /\ x \in Int /\ bp' = Updated(bp, in)
    BY <2>1, BehaviorAssumption DEF HistoryTypeOK, BehaviorAssumption, Update
  <2>3. Sound(bp')
    BY <2>2, UpdatedSound
  <2>4. HistoryTypeOK'
    BY <2>1, HistoryStep
  <2>5. debt' <= Attempts(bp')
    BY <2>1, DebtStep
  <2>6. bp'.episode.followingTime <= calm'
    BY <2>1, CalmStep
  <2>7. bp'.state = "Recovery" => bp'.recovery.feasibleStreak <= feasRun'
    BY <2>1, <2>2, StreakStep
  <2> QED BY <2>3, <2>4, <2>5, <2>6, <2>7 DEF Sound, Attempts
<1>4. CASE Move
  BY <1>4 DEF Move, HistoryTypeOK, Sound, Attempts
<1>5. CASE UNCHANGED behaviorVars
  BY <1>5 DEF behaviorVars, HistoryTypeOK, Sound, Attempts
<1> QED BY <1>1, <1>2, <1>3, <1>4, <1>5 DEF BehaviorNext

(* The invariant holds throughout. *)
THEOREM BehaviorInvariant == BehaviorSpec => []IInv
<1>1. BehaviorInit => IInv
  BY InitInductive
<1>2. IInv /\ [BehaviorNext]_behaviorVars => IInv'
  BY StepInductive
<1> QED BY <1>1, <1>2, PTL DEF BehaviorSpec

(* Every counter stays below the limit at which update acts on it. *)
THEOREM CountersStayBounded == BehaviorSpec => []BehaviorTypeOK
<1>1. IInv => BehaviorTypeOK
  BY DEF IInv, Sound, CountersBounded, HistoryTypeOK, BehaviorTypeOK, PhaseLimit
<1> QED BY <1>1, BehaviorInvariant, PTL

(* Leaving Recovery, a stop or a new goal never makes the planner forget   *)
(* a reverse round it has not made good.                                   *)
THEOREM DebtIsNeverForgotten == BehaviorSpec => []DebtIsRemembered
<1>1. IInv => DebtIsRemembered
  BY DEF IInv, Attempts, DebtIsRemembered
<1> QED BY <1>1, BehaviorInvariant, PTL

(* Recovery is left for driving only by displacement or by as many         *)
(* feasible plans in a row as the configuration asks for, and a reverse    *)
(* burst not before it may be broken off.                                  *)
THEOREM RecoveryExitIsEarned == BehaviorSpec => ExitIsEarned
<1>1. ASSUME IInv, [BehaviorNext]_behaviorVars,
             bp.state = "Recovery", bp'.state = "Following", bp'.recovery = NoRecovery
      PROVE  \/ Displaced(bp)
             \/ /\ feasRun' = ExitCycles
                /\ bp.recovery.phase = "Reverse" => released'
  <2>1. Sound(bp) /\ HistoryTypeOK
    BY <1>1 DEF IInv
  <2>2. CASE NewGoal
    <3>1. bp'.recovery = bp.recovery
      BY <2>1, <2>2, SetGoalFields DEF NewGoal
    <3>2. bp.recovery.phase # "None"
      BY <1>1, <2>1 DEF Sound, ModesBacked
    <3> QED BY <3>1, <3>2, <1>1, ClearedValues
  <2>3. CASE ClearGoal
    BY <1>1, <2>3, NewPlannerSound DEF ClearGoal
  <2>4. CASE UpdateStep
    <3>1. PICK in \in Inputs : Update(in)
      BY <2>4 DEF UpdateStep
    <3> DEFINE u == Updated(bp, in)
               k == Prepared(bp, in)
    <3>2. /\ in \in Input /\ x \in Int /\ bp' = u /\ feasRun \in 0 .. ExitCycles
      BY <2>1, <3>1, BehaviorAssumption DEF HistoryTypeOK, BehaviorAssumption, Update
    <3>3. /\ k \in BehaviorPlanner
          /\ JustEntered(bp, k, in) \/ (k.state = bp.state /\ k.recovery = bp.recovery)
      BY <2>1, <3>2, PreparedFields
    <3>4. Interrupts(bp, u, in) \/ Exits(bp, u, in) \/ Climbs(bp, u, in) \/ Drives(bp, u, in)
      BY <2>1, <3>2, UpdatedCases
    <3>5. k = KeepEpisode(bp)
      BY <1>1 DEF Prepared, DetectStuck, IsStuck
    <3> HIDE DEF u, k
    <3>6. k.state = "Recovery" /\ k.recovery = bp.recovery
      BY <1>1, <3>3 DEF JustEntered
    <3>7. ~Interrupts(bp, u, in)
      <4> SUFFICES ASSUME Interrupts(bp, u, in) PROVE FALSE
        OBVIOUS
      <4>1. PICK s \in {"EmergencyStop", "Degraded"} : u = Overridden(bp, s)
        BY DEF Interrupts
      <4>2. s \in DrivingState
        BY DEF DrivingState
      <4>3. u.state = s
        BY <2>1, <4>1, <4>2, OverriddenFields DEF Sound
      <4> QED BY <4>3, <1>1, <3>2
    <3>8. ~Climbs(bp, u, in)
      BY <1>1, <2>1, <3>2, ClimbsFields
    <3>9. ~Drives(bp, u, in)
      BY <3>6 DEF Drives, k
    <3>10. ~Interrupted(in) /\ (Displaced(k) \/ Streak(k, in) >= ExitCycles)
      BY <3>4, <3>7, <3>8, <3>9 DEF Exits, k
    <3>11. CASE Displaced(k)
      BY <3>6, <3>11 DEF Displaced
    <3>12. CASE Streak(k, in) >= ExitCycles
      <4>1. /\ Streak(k, in) = k.recovery.feasibleStreak + 1
            /\ ~Committed(k, in) /\ in.plan = "feasible"
        BY <3>2, <3>3, <3>12, StreakFields, Limits
      <4>2. bp.recovery.feasibleStreak <= feasRun /\ bp.recovery.feasibleStreak \in Nat
        BY <1>1, <2>1 DEF IInv, Sound, BehaviorPlanner, RecoveryStatus
      <4>3. feasRun' = AtMost(feasRun + 1, ExitCycles)
        <5>1. Verdict(in) = "free"
          BY <3>10, <4>1 DEF Verdict
        <5> QED BY <3>1, <5>1 DEF Update
      <4>4. feasRun' = ExitCycles
        BY <3>2, <3>6, <3>12, <4>1, <4>2, <4>3, Limits DEF AtMost
      <4>5. ASSUME bp.recovery.phase = "Reverse"
            PROVE  released'
        <5>1. Reversing(bp)
          BY <1>1, <4>5 DEF Reversing
        <5>2. ~in.rearClear \/ ~(Distance(x, bp.recovery.reverseStart) < ReverseTarget(k))
          BY <3>6, <4>1, <4>5 DEF Committed
        <5>3. Distance(x, bp.recovery.reverseStart) \in Nat /\ ReverseTarget(k) \in Nat
          <6>1. bp.recovery.reverseStart \in Int
            BY <2>1 DEF Sound, BehaviorPlanner, RecoveryStatus
          <6> QED BY <6>1, <3>2, <3>3, DistanceType, ReverseAllowanceBounded
        <5>4. ~in.rearClear
              \/ Distance(x, bp.recovery.reverseStart) >= ReverseTarget(KeepEpisode(bp))
          BY <3>5, <5>2, <5>3
        <5>5. released' = (/\ Reversing(bp)
                           /\ \/ released \/ ~in.rearClear
                              \/ Distance(x, bp.recovery.reverseStart)
                                   >= ReverseTarget(KeepEpisode(bp)))
          BY <3>1, Zenon DEF Update
        <5> QED BY <5>1, <5>4, <5>5, Zenon
      <4> QED BY <4>4, <4>5
    <3> QED BY <3>10, <3>11, <3>12
  <2>5. CASE Move \/ UNCHANGED behaviorVars
    BY <1>1, <2>5 DEF Move, behaviorVars
  <2> QED BY <1>1, <2>2, <2>3, <2>4, <2>5 DEF BehaviorNext
<1> QED BY <1>1, BehaviorInvariant, PTL DEF BehaviorSpec, ExitIsEarned

-----------------------------------------------------------------------------
(* The planner implements DrivingModes.                                    *)

(* The mode of a state. *)
LEMMA ModeOfStates ==
  ASSUME NEW b
  PROVE  /\ b.state = "Idle" => ModeOf(b) = "idle"
         /\ b.state = "Following" => ModeOf(b) = "drive"
         /\ b.state = "Approaching" => ModeOf(b) = "approach"
         /\ b.state = "ObstacleAvoidance" => ModeOf(b) = "avoid"
         /\ b.state = "GoalReached" => ModeOf(b) = "reached"
         /\ b.state \in {"Degraded", "EmergencyStop"} => ModeOf(b) = "stopped"
         /\ b.state = "Recovery" /\ b.recovery.phase = "ForwardRetry" => ModeOf(b) = "retry"
         /\ b.state = "Recovery" /\ b.recovery.phase = "Reverse" => ModeOf(b) = "reverse"
         /\ b.state = "Recovery" /\ b.recovery.phase = "Hold" => ModeOf(b) = "hold"
BY DEF ModeOf

(* One update is one step of the modes, or none. *)
ModeStep(b, u) ==
  LET m == ModeOf(b)
      n == ModeOf(u)
  IN  \/ n = "stopped"
      \/ /\ m \in {"stopped", "idle", "avoid"} \cup Modes!Rung
         /\ n = IF HasGoal(b) THEN "drive" ELSE "idle"
      \/ m = "drive" /\ n \in {"approach", "avoid", "reached"}
      \/ m = "approach" /\ n = "reached"
      \/ m \in {"drive", "avoid", "hold"} /\ n = "retry"
      \/ m = "retry" /\ n \in {"reverse", "hold"}
      \/ m = "reverse" /\ n \in {"retry", "hold"}
      \/ n = m

(* The modes allow what an update does, and it keeps the goal. *)
LEMMA UpdateSimulates ==
  ASSUME NEW b, Sound(b), NEW in \in Input, x \in Int
  PROVE  ModeStep(b, Updated(b, in)) /\ Updated(b, in).goal = b.goal
<1> DEFINE u == Updated(b, in)
           k == Prepared(b, in)
<1>1. Sound(k) /\ k.goal = b.goal /\ k \in BehaviorPlanner /\ b \in BehaviorPlanner
      /\ (JustEntered(b, k, in) \/ (k.state = b.state /\ k.recovery = b.recovery))
  BY PreparedSound, PreparedFields DEF Sound
<1>2. Interrupts(b, u, in) \/ Exits(b, u, in) \/ Climbs(b, u, in) \/ Drives(b, u, in)
  BY UpdatedCases
<1>3. ModesBacked(k) /\ ModesBacked(b) /\ (HasGoal(k) <=> HasGoal(b))
  BY <1>1 DEF Sound, HasGoal
<1>4. k.recovery.phase \in RecoveryPhase \cup {"None"} /\ k.state \in DrivingState
  BY <1>1 DEF BehaviorPlanner, RecoveryStatus
<1>5. b.state = "Recovery" => k.state = b.state /\ k.recovery = b.recovery
  BY <1>1 DEF JustEntered
<1> HIDE DEF u, k
<1>6. CASE Interrupts(b, u, in)
  <2>1. PICK s \in {"EmergencyStop", "Degraded"} : u = Overridden(b, s)
    BY <1>6 DEF Interrupts
  <2>2. s \in DrivingState
    BY DEF DrivingState
  <2>3. u.state = s /\ u.goal = b.goal
    BY <2>1, <2>2, <1>1, OverriddenFields
  <2>4. ModeOf(u) = "stopped"
    BY <2>3, ModeOfStates
  <2> QED BY <2>3, <2>4 DEF ModeStep, u
<1>7. CASE Exits(b, u, in)
  <2>1. /\ u.state = Resumed(k) /\ u.goal = k.goal /\ k.state = "Recovery"
        /\ Streak(k, in) >= ExitCycles \/ Displaced(k)
    BY <1>1, <1>7, ExitRecoveryFields DEF Exits, k
  <2>2. ~JustEntered(b, k, in)
    <3> SUFFICES ASSUME JustEntered(b, k, in) PROVE FALSE
      OBVIOUS
    <3>1. k.recovery.entry = x /\ Distance(x, x) = 0
      BY RecoveryValues, DistanceType DEF JustEntered
    <3>2. ~Displaced(k)
      BY <3>1, Limits DEF Displaced
    <3>3. Streak(k, in) = 0
      BY <1>1, StreakFields DEF JustEntered
    <3> QED BY <2>1, <3>2, <3>3, Limits
  <2>3. b.state = "Recovery" /\ b.recovery.phase \in RecoveryPhase /\ HasGoal(b)
    BY <1>1, <1>3, <1>4, <2>1, <2>2 DEF ModesBacked
  <2>4. ModeOf(b) \in Modes!Rung
    BY <2>3, ModeOfStates DEF RecoveryPhase, Modes!Rung
  <2>5. ModeOf(u) = "drive"
    BY <2>1, <2>3, <1>3, ModeOfStates DEF Resumed
  <2> QED BY <2>1, <2>3, <2>4, <2>5, <1>1 DEF ModeStep, u
<1>8. CASE Climbs(b, u, in)
  <2>1. /\ u.state = "Recovery" /\ u.goal = k.goal /\ u.recovery.phase \in RecoveryPhase
        /\ k.state = "Recovery" /\ Climbed(k, u, in)
    BY <1>8, ClimbsFields DEF Climbs, k
  <2>2. CASE JustEntered(b, k, in)
    <3>1. k.recovery.phase = "ForwardRetry" /\ k.recovery.phaseElapsed = 0
      BY <2>2, RecoveryValues DEF JustEntered
    <3>2. u.recovery.phase = "ForwardRetry"
      BY <3>1, <2>1 DEF Climbed
    <3>3. ModeOf(u) = "retry" /\ ModeOf(b) \in {"drive", "avoid"}
      BY <2>1, <2>2, <3>2, ModeOfStates DEF JustEntered
    <3> QED BY <3>3, <2>1, <1>1 DEF ModeStep, u
  <2>3. CASE k.state = b.state /\ k.recovery = b.recovery
    <3>1. b.state = "Recovery" /\ b.recovery.phase \in RecoveryPhase
      BY <2>1, <2>3, <1>3, <1>4 DEF ModesBacked
    <3>2. b.recovery.phase = "Hold" => u.recovery.phase \in {"Hold", "ForwardRetry"}
      BY <2>1, <2>3 DEF Climbed
    <3>3. CASE b.recovery.phase = "ForwardRetry"
      <4>1. ModeOf(b) = "retry" /\ ModeOf(u) \in {"retry", "reverse", "hold"}
        BY <2>1, <3>1, <3>3, ModeOfStates DEF RecoveryPhase
      <4> QED BY <4>1, <2>1, <1>1 DEF ModeStep, u
    <3>4. CASE b.recovery.phase = "Reverse"
      <4>1. ModeOf(b) = "reverse" /\ ModeOf(u) \in {"retry", "reverse", "hold"}
        BY <2>1, <3>1, <3>4, ModeOfStates DEF RecoveryPhase
      <4> QED BY <4>1, <2>1, <1>1 DEF ModeStep, u
    <3>5. CASE b.recovery.phase = "Hold"
      <4>1. ModeOf(b) = "hold" /\ ModeOf(u) \in {"retry", "hold"}
        BY <2>1, <3>1, <3>2, <3>5, ModeOfStates
      <4> QED BY <4>1, <2>1, <1>1 DEF ModeStep, u
    <3> QED BY <3>1, <3>3, <3>4, <3>5 DEF RecoveryPhase
  <2> QED BY <1>1, <2>2, <2>3
<1>9. CASE Drives(b, u, in)
  <2>1. u.state = NextState(k, in) /\ u.goal = k.goal /\ k.state # "Recovery"
    BY <1>9, DrivesFields DEF Drives, k
  <2>2. k.state = b.state
    BY <2>1, <1>1 DEF JustEntered
  <2> DEFINE n == NextState(k, in)
  <2>3. /\ n \in DrivingState \ {"Recovery", "EmergencyStop"}
        /\ n \in {"Following", "Approaching", "GoalReached", "ObstacleAvoidance"} => HasGoal(b)
        /\ \/ n = b.state
           \/ b.state = "Following" /\ n \in {"Approaching", "ObstacleAvoidance", "GoalReached"}
           \/ b.state = "Approaching" /\ n = "GoalReached"
           \/ b.state \in {"Idle", "EmergencyStop", "Degraded"} /\ n = Resumed(k)
           \/ b.state = "ObstacleAvoidance" /\ n = "Following"
    BY <1>1, <1>3, <2>1, <2>2, NextStateFields
  <2> HIDE DEF n
  <2>4. u.state = n
    BY <2>1 DEF n
  <2>5. CASE n = b.state
    <3>1. b.state \in DrivingState \ {"Recovery"}
      BY <1>4, <2>1, <2>2
    <3>2. ModeOf(u) = ModeOf(b)
      BY <3>1, <2>4, <2>5, ModeOfStates DEF DrivingState
    <3> QED BY <3>2, <2>1, <1>1 DEF ModeStep, u
  <2>6. CASE b.state = "Following" /\ n \in {"Approaching", "ObstacleAvoidance", "GoalReached"}
    <3>1. ModeOf(b) = "drive" /\ ModeOf(u) \in {"approach", "avoid", "reached"}
      BY <2>4, <2>6, ModeOfStates
    <3> QED BY <3>1, <2>1, <1>1 DEF ModeStep, u
  <2>7. CASE b.state = "Approaching" /\ n = "GoalReached"
    <3>1. ModeOf(b) = "approach" /\ ModeOf(u) = "reached"
      BY <2>4, <2>7, ModeOfStates
    <3> QED BY <3>1, <2>1, <1>1 DEF ModeStep, u
  <2>8. CASE b.state \in {"Idle", "EmergencyStop", "Degraded"} /\ n = Resumed(k)
    <3>1. ModeOf(b) \in {"idle", "stopped"}
      BY <2>8, ModeOfStates
    <3>2. ModeOf(u) = IF HasGoal(b) THEN "drive" ELSE "idle"
      BY <2>4, <2>8, <1>3, ModeOfStates DEF Resumed
    <3> QED BY <3>1, <3>2, <2>1, <1>1 DEF ModeStep, u
  <2>9. CASE b.state = "ObstacleAvoidance" /\ n = "Following"
    <3>1. ModeOf(b) = "avoid" /\ ModeOf(u) = "drive" /\ HasGoal(b)
      BY <2>3, <2>4, <2>9, ModeOfStates
    <3> QED BY <3>1, <2>1, <1>1 DEF ModeStep, u
  <2> QED BY <2>3, <2>5, <2>6, <2>7, <2>8, <2>9
<1> QED BY <1>2, <1>6, <1>7, <1>8, <1>9

(* The step simulation: a new goal, a cleared goal and every update, with  *)
(* whatever the perception reports, are steps of DrivingModes.             *)
THEOREM BehaviorImplementsModes == BehaviorSpec => KeepsModes
<1>1. BehaviorInit => Modes!Start
  <2> SUFFICES ASSUME BehaviorInit PROVE Modes!Start
    OBVIOUS
  <2>1. ModeOf(bp) = "idle" /\ HasGoal(bp) = FALSE
    BY NewPlannerSound, ModeOfStates DEF BehaviorInit
  <2> QED BY <2>1 DEF Modes!Start
<1>2. IInv /\ [BehaviorNext]_behaviorVars => [Modes!Step]_(Modes!modes)
  <2> SUFFICES ASSUME IInv, [BehaviorNext]_behaviorVars
               PROVE  [Modes!Step]_(Modes!modes)
    OBVIOUS
  <2>1. Sound(bp) /\ x \in Int
    BY BehaviorAssumption DEF IInv, HistoryTypeOK, BehaviorAssumption
  <2>2. CASE NewGoal
    <3>1. bp'.state = "Following" /\ HasGoal(bp')
      BY <2>1, <2>2, SetGoalFields DEF NewGoal
    <3>2. ModeOf(bp') = "drive" /\ HasGoal(bp') = TRUE
      BY <3>1, ModeOfStates DEF HasGoal
    <3> QED BY <3>2 DEF Modes!Step, Modes!SetGoal
  <2>3. CASE ClearGoal
    <3>1. ModeOf(bp') = "idle" /\ HasGoal(bp') = FALSE
      BY <2>3, NewPlannerSound, ModeOfStates DEF ClearGoal
    <3> QED BY <3>1 DEF Modes!Step, Modes!ClearGoal
  <2>4. CASE UpdateStep
    <3>1. ModeStep(bp, bp') /\ bp'.goal = bp.goal
      BY <2>1, <2>4, UpdateSimulates, BehaviorAssumption
      DEF UpdateStep, Update, BehaviorAssumption
    <3>2. HasGoal(bp') = HasGoal(bp)
      BY <3>1 DEF HasGoal
    <3> QED
      BY <3>1, <3>2
      DEF ModeStep, Modes!Step, Modes!Stop, Modes!Resume, Modes!Proceed, Modes!Climb,
          Modes!modes
  <2>5. CASE Move \/ UNCHANGED behaviorVars
    BY <2>5 DEF Move, behaviorVars, Modes!modes
  <2> QED BY <2>2, <2>3, <2>4, <2>5 DEF BehaviorNext
<1> QED BY <1>1, <1>2, BehaviorInvariant, PTL DEF BehaviorSpec, KeepsModes, Modes!Promise

(* What the planning loop relies on: the planner is in a driving mode only *)
(* while it has a goal.                                                    *)
THEOREM DrivingIsBackedByAGoal == BehaviorSpec => []Modes!GoalBacksDriving
<1>1. IInv => Modes!GoalBacksDriving
  <2> SUFFICES ASSUME IInv, ModeOf(bp) \in Modes!Driving PROVE HasGoal(bp)
    BY DEF Modes!GoalBacksDriving
  <2>1. bp.state \in DrivingState /\ ModesBacked(bp)
    BY DEF IInv, Sound, BehaviorPlanner
  <2>2. bp.state \notin {"Idle", "Degraded", "EmergencyStop"}
    BY ModeOfStates DEF Modes!Driving, Modes!Rung
  <2> QED BY <2>1, <2>2 DEF DrivingState, ModesBacked
<1> QED BY <1>1, BehaviorInvariant, PTL
=============================================================================
