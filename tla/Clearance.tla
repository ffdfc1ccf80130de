------------------------------ MODULE Clearance ------------------------------
(***************************************************************************)
(* The collision checks the local planner's executors share                *)
(* (planning/src/local_planner/dwa.rs, mod.rs, tracking_mpc.rs): how much  *)
(* clearance a speed requires, how far a rollout sweeps, and what a robot  *)
(* that is already too close is allowed.                                   *)
(*                                                                         *)
(* The robot drives along a straight lane, so an arc is an interval of the *)
(* lane.  A static obstacle lies at a place of the lane, off it by a       *)
(* lateral offset; distances are in the max norm.  Times are in control    *)
(* cycles, speeds in lengths per cycle.  Moving obstacles are not here: an *)
(* executor may find any candidate vetoed by one (Executors).              *)
(***************************************************************************)
EXTENDS Integers

CONSTANTS
  DwaSpeed, DwaAccel, DwaDecel,   \* dwa.max_speed, max_acceleration, max_deceleration
  Footprint, RobotRadius,         \* ROBOT_FOOTPRINT_RADIUS, dwa.robot_radius
  LowScale,                       \* margin_low_speed_scale, in tenths
  Crawl, FullMarginSpeed,         \* MARGIN_SCALE_LOW_SPEED, MARGIN_SCALE_FULL_SPEED
  HighSpeed, HighGain,            \* HIGH_SPEED_MARGIN_START, high_speed_margin_gain
  Horizon, Pad,                   \* sim_time, BRAKING_REACTION_MARGIN_M
  Window, ReactTime,              \* COMMITTED_WINDOW_S, BRAKING_REACTION_TIME_S
  Slack, Floor,                   \* WEDGED_SLACK_M, the footprint plus 5 mm
  MpcSteps, MpcPhase, Comfort     \* horizon_steps, phase1_s, the comfort deceleration

ASSUME ClearanceAssumption ==
  /\ DwaSpeed \in Nat \ {0} /\ DwaAccel \in Nat \ {0} /\ DwaDecel \in Nat \ {0}
  /\ Footprint \in Nat /\ RobotRadius \in Nat \ {0} /\ LowScale \in Nat
  /\ Crawl \in Nat \ {0} /\ FullMarginSpeed \in Nat /\ Crawl < FullMarginSpeed
  /\ HighSpeed \in Nat /\ HighGain \in Nat
  /\ Horizon \in Nat \ {0} /\ Pad \in Nat /\ Window \in Nat /\ ReactTime \in Nat
  /\ Slack \in Nat /\ Floor \in Nat /\ Footprint <= Floor
  /\ MpcPhase \in Nat \ {0} /\ MpcSteps \in Nat /\ MpcPhase <= MpcSteps
  /\ Comfort \in 1 .. DwaDecel

Larger(a, b)  == IF a < b THEN b ELSE a
Smaller(a, b) == IF a < b THEN a ELSE b
Between(a, lo, hi) == Larger(lo, Smaller(a, hi))
Size(v) == Larger(v, -v)
Sign(v) == IF v < 0 THEN -1 ELSE 1

(* The largest whole speed whose square is within n. *)
Root(n) == CHOOSE v \in 0 .. DwaSpeed :
             /\ v * v <= n
             /\ v = DwaSpeed \/ (v + 1) * (v + 1) > n

Obstacle == [at : Int, off : Nat, radius : Nat]

NetDistance(x, o) == Larger(Size(x - o.at), o.off) - o.radius

(* The clearance a sample at speed v requires, from a base radius.         *)
SpeedScaledRadius(v, base) ==
  LET margin == Larger(0, base - Footprint)
      span   == FullMarginSpeed - Crawl
      scale  == LowScale + ((10 - LowScale) * Between(Size(v) - Crawl, 0, span)) \div span
  IN  Footprint + (margin * scale + 9) \div 10 + HighGain * Larger(0, Size(v) - HighSpeed)

(* The distances of the rollouts: v^2 / 2D, rounded up; the horizon and    *)
(* its braking extension; the commitment window and a stop.                *)
BrakeDistance(v)  == (v * v + 2 * DwaDecel - 1) \div (2 * DwaDecel)
ArcReach(v)       == Horizon * Size(v) + Pad + BrakeDistance(v)
CommittedReach(v) ==
  Window * Size(v) + Smaller(Size(v) * ReactTime, Pad) + BrakeDistance(v)

(* The least net distance to o over the lane from x to x + d, both ends in.*)
SweptDistance(x, d, o) ==
  NetDistance(Between(o.at, Smaller(x, x + d), Larger(x, x + d)), o)

(* The least net distance over the d driven from x: a rollout moves before *)
(* it looks, so the pose it starts at is not among those checked.          *)
DrivenDistance(x, d, o) ==
  IF d = 0 THEN NetDistance(x, o) ELSE SweptDistance(x + Sign(d), d - Sign(d), o)

(* Mutant: the slack is given below the footprint too. *)
WedgedAllowanceNoFloor(x, o, required) == Smaller(required, NetDistance(x, o)) - Slack

(* wedged_allowance: what the pose already lacks is not asked for, down to *)
(* the footprint; a robot closer than that may not come closer.            *)
WedgedAllowance(x, o, required) ==
  LET d0 == NetDistance(x, o)
  IN  Larger(Smaller(required, d0) - Slack, Smaller(Floor, d0))

(* Pursuit's two-part check of the signed command v from x: the sweep of   *)
(* the whole horizon (simulate_arc) and the committed stop.                *)
PursuitClear(x, v, obstacles) ==
  \A o \in obstacles :
    LET allow == WedgedAllowance(x, o, SpeedScaledRadius(v, RobotRadius))
    IN  /\ SweptDistance(x + Sign(v), Sign(v) * (ArcReach(v) - 1), o) >= allow
        /\ SweptDistance(x + Sign(v), Sign(v) * (CommittedReach(v) - 1), o) >= allow

(* A DWA sample at v >= 0, from a base radius: no allowance.               *)
SampleClear(x, v, base, obstacles) ==
  \A o \in obstacles :
    DrivenDistance(x, IF v = 0 THEN 0 ELSE ArcReach(v), o) >= SpeedScaledRadius(v, base)

(* The committed acceleration from standstill: the requirement grows with  *)
(* the speed of each step, and no braking extension is checked.            *)
EscapeClear(x, target, base, obstacles) ==
  LET speed(k) == Smaller(k * DwaAccel, target)
      gone[k \in 0 .. Horizon] == IF k = 0 THEN 0 ELSE gone[k - 1] + speed(k)
  IN  \A k \in 1 .. Horizon : \A o \in obstacles :
        DrivenDistance(x + gone[k - 1], speed(k), o) >= SpeedScaledRadius(speed(k), base)

(* reverse_arc_blocker finds none on the straight arc of length d: the     *)
(* threshold, or never closer than the start pose already is.              *)
ReverseArcClear(x, d, threshold, obstacles) ==
  \A o \in obstacles :
    SweptDistance(x - 1, -(d - 1), o) >= Smaller(threshold, NetDistance(x, o))

(***************************************************************************)
(* The tracking MPC's rollout of one acceleration profile, from x at speed *)
(* v0, along a run that ends (and stops) at end: phase 1 holds accel, the  *)
(* tail tracks the comfort stop ramp; above the ramp only full braking is  *)
(* feasible; each step and the final braking extension are checked.        *)
(***************************************************************************)
RampSpeed(x, end, leg) == Smaller(leg, Root(2 * Comfort * Larger(0, end - x)))

(* clear_at, over the step from x at speed v.                              *)
ClearAlong(x, v, obstacles) ==
  \A o \in obstacles : DrivenDistance(x, v, o) >= SpeedScaledRadius(v, RobotRadius)

MpcStep(s, i, accel, end, leg, obstacles) ==
  LET vr == RampSpeed(s.x, end, leg)
      a  == IF i <= MpcPhase THEN accel ELSE Between(vr - s.v, -DwaDecel, DwaAccel)
      v  == Between(s.v + a, 0, Larger(vr, s.v - DwaDecel))
  IN  [ x  |-> s.x + v, v |-> v,
        ok |-> /\ s.ok
               /\ v > vr => v <= s.v - DwaDecel
               /\ ClearAlong(s.x, v, obstacles) ]

(* The first command of the profile, in a set that is empty when the       *)
(* profile is rejected.                                                    *)
MpcFirst(x, v0, accel, end, leg, obstacles) ==
  LET start == [x |-> x, v |-> v0, ok |-> TRUE]
      roll[i \in 0 .. MpcSteps] ==
        IF i = 0 THEN start ELSE MpcStep(roll[i - 1], i, accel, end, leg, obstacles)
      last == roll[MpcSteps]
  IN  { v \in {MpcStep(start, 1, accel, end, leg, obstacles).v} :
          /\ last.ok
          /\ last.v > 0 => \A o \in obstacles :
               DrivenDistance(last.x, Pad + BrakeDistance(last.v), o)
                 >= SpeedScaledRadius(last.v, RobotRadius) }
=============================================================================
