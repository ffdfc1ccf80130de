------------------------------ MODULE Executors ------------------------------
(***************************************************************************)
(* The local planner's executors (planning/src/local_planner) and the      *)
(* order in which a planning cycle tries them (select_local_plan in        *)
(* main.rs), as operators that return the set of commands they may choose. *)
(*                                                                         *)
(* A path is a sequence of runs along the lane, each ending at a place and *)
(* driven forward or in reverse; places between are left out.  Which of    *)
(* the verified candidates scores best is left open, and a moving obstacle *)
(* may veto any of them: both only add commands to the set.  The curvature *)
(* governors, the corridor and the legacy MPC do nothing on a straight     *)
(* lane.                                                                   *)
(***************************************************************************)
EXTENDS Clearance, Sequences

CONSTANTS
  Delay,             \* actuation_delay_s
  ReverseCap,        \* pursuit.reverse_speed_cap
  CuspArrive,        \* CUSP_ARRIVE_M
  CuspShort,         \* half of it: where the cusp governor aims
  MinChord,          \* lookahead_min times MIN_TARGET_CHORD_FRACTION
  Finish,            \* tracking_mpc.finish_m
  RecoveryScale,     \* recovery_margin_scale, in tenths
  ReverseSpeed, ReverseDistance, RearRadius  \* the scripted reverse and its check

ASSUME ExecutorsAssumption ==
  /\ Delay \in Nat
  /\ ReverseCap \in Nat \ {0} /\ ReverseSpeed \in Nat \ {0}
  /\ CuspArrive \in Nat \ {0} /\ CuspShort \in 0 .. CuspArrive
  /\ MinChord \in Nat /\ Finish \in Nat
  /\ RecoveryScale \in Nat
  /\ ReverseDistance \in Nat \ {0} /\ RearRadius \in Nat

(* A "point" is the one-waypoint path of the endgame: forward, but no run  *)
(* the tracking MPC takes.                                                 *)
Run == [to : Int, dir : {"fwd", "rev", "point"}]
State == [x : Int, v : Int]

(* What the planner itself may command: up to its speed limit forward, and *)
(* in reverse what the two ways of backing up allow.                       *)
Commanded == -Larger(Crawl, Larger(ReverseCap, ReverseSpeed)) .. DwaSpeed

(* project_state: the pose the command will find. *)
Projected(s) == [s EXCEPT !.x = @ + Delay * s.v]

Along(run) == IF run.dir = "rev" THEN -1 ELSE 1

RemainingRunDistance(s, run) == Size(run.to - s.x)

(* At the end of the first run, with another one behind it.                *)
AtCusp(s, path) ==
  Len(path) > 1 /\ RemainingRunDistance(s, path[1]) < CuspArrive

(* What an executor answers: a verified command, the ramp to a stop at a   *)
(* change of direction, which nothing verifies, or why it defers.          *)
Reply(v, confidence, attempt, ramp) ==
  [linear |-> v, confidence |-> confidence, attempt |-> attempt, ramp |-> ramp]

Commands(v) == Reply(v, "good", "Succeeded", FALSE)
Ramps(v)    == Reply(v, "good", "Succeeded", TRUE)
Defers(why) == Reply(0, "low", why, FALSE)

(***************************************************************************)
(* Pure pursuit.                                                           *)
(***************************************************************************)

(* stop_ramp: from the last command, whatever the robot does.              *)
StopRamp(prev) == Ramps(Sign(prev) * Larger(Size(prev) - DwaDecel, 0))

(* The speeds tried on a run, within the acceleration window of the last   *)
(* command: fractions of the governed speed, then the crawl.               *)
SpeedSteps(governed, travel) ==
  LET hi == Smaller(travel + DwaAccel, DwaSpeed)
      lo == Between(travel - DwaDecel, 0, hi)
  IN  { Between(raw, lo, hi) :
          raw \in {(governed * f) \div 10 : f \in {10, 8, 6, 4}} \cup {Crawl} } \ {0}

(* The speed that can stop at the cusp that ends the run.                  *)
CuspSpeed(s, run) == Root(2 * DwaDecel * Larger(0, RemainingRunDistance(s, run) - CuspShort))

(* The speed the run's direction allows. *)
RunCap(run, desired) ==
  Smaller(desired, IF run.dir = "rev" THEN Smaller(ReverseCap, DwaSpeed) ELSE DwaSpeed)

(* find_target finds none: the robot stands on the end of the run, or, at  *)
(* the end of the path, too near for a stable arc.                         *)
NoTarget(ahead, more) == ahead = 0 \/ (~more /\ Size(ahead) < MinChord)

Pursue(s, run, more, desired, prev, obstacles) ==
  LET sign     == Along(run)
      ahead    == sign * (run.to - s.x)
      cap      == RunCap(run, desired)
      governed == IF more THEN Smaller(cap, CuspSpeed(s, run)) ELSE cap
  IN  IF sign * prev < 0 \/ sign * s.v < 0 THEN {StopRamp(prev)}
      ELSE IF NoTarget(ahead, more) THEN {Defers("PathExhausted")}
      ELSE IF ahead < 0 THEN {Defers("TargetBehind")}
      ELSE IF more /\ governed = 0 THEN {StopRamp(prev)}
      ELSE {Defers("Blocked")} \cup
           { Commands(sign * v) :
               v \in { u \in SpeedSteps(governed, Larger(sign * prev, 0)) :
                         PursuitClear(s.x, sign * u, obstacles) } }

(* PursuitPlanner::compute: stop at the cusp, then drive the next run.     *)
Pursuit(s, path, desired, prev, obstacles) ==
  IF path = <<>> THEN {Defers("NoPath")}
  ELSE IF desired <= 0 THEN {Defers("StopRequested")}
  ELSE IF AtCusp(s, path)
       THEN IF s.v # 0 \/ prev # 0 THEN {StopRamp(prev)}
            ELSE Pursue(s, path[2], Len(path) > 2, desired, prev, obstacles)
       ELSE Pursue(s, path[1], Len(path) > 1, desired, prev, obstacles)

(***************************************************************************)
(* The tracking MPC and the DWA sampler.                                   *)
(***************************************************************************)

(* project: what is left of the run ahead of the robot.                    *)
LeftOf(run, s) == run.to - s.x

(* The MPC may also decline: then nothing is in the set.                   *)
TrackingMpc(s, run, desired, prev, obstacles) ==
  LET leg == Smaller(desired, DwaSpeed)
      v0  == Larger(Larger(prev, 0), s.v)
  IN  IF prev < 0 \/ s.v < 0 \/ LeftOf(run, s) < Finish \/ leg <= 0 THEN {}
      ELSE UNION { { Commands(v) : v \in MpcFirst(s.x, v0, a, run.to, leg, obstacles) } :
                     a \in {DwaAccel, 0, -DwaDecel} }

(* The base radius of a retry; validate lets it exceed the usual one.      *)
RelaxedRadius ==
  Footprint + (Larger(0, RobotRadius - Footprint) * RecoveryScale) \div 10

(* standstill_escape: the first step of a committed acceleration.          *)
StandstillEscape(s, target, base, obstacles) ==
  { v \in {Smaller(DwaAccel, target)} :
      s.v = 0 /\ target > 0 /\ EscapeClear(s.x, target, base, obstacles) }

(* compute_with_radius: the window around the measured speed, the samples  *)
(* that clear, the escape from standstill, or an infeasible stop.          *)
Dwa(s, desired, base, obstacles) ==
  LET target == Between(desired, 0, DwaSpeed)
      low    == Larger(s.v - DwaAccel, 0)
      high   == Smaller(Between(s.v + DwaAccel, 0, DwaSpeed), Larger(target, low))
      clear  == { v \in Smaller(low, high) .. high : SampleClear(s.x, v, base, obstacles) }
  IN  { Commands(v) : v \in clear \cup StandstillEscape(s, target, base, obstacles) } \cup {Defers("Infeasible")}

(***************************************************************************)
(* A plan: the command, what became of the pursuit attempt, and the speed  *)
(* the next ramp starts from.  An empty path is a confident stop that is   *)
(* not recorded; every other command is (finish).                          *)
(***************************************************************************)
Recorded(cmd, attempt) ==
  [cmd |-> Reply(cmd.linear, cmd.confidence, attempt, cmd.ramp), prev |-> cmd.linear]

Unrecorded(attempt, prev) ==
  [cmd |-> Reply(0, "good", attempt, FALSE), prev |-> prev]

(* What a fallback answers to a pursuit that deferred.                     *)
After(deferral, answers) == { Recorded(cmd, deferral.attempt) : cmd \in answers }

(* Pursuit first; the fallback gets each deferral.                         *)
PursuitOr(s, path, desired, prev, obstacles, Fallback(_)) ==
  UNION { IF p.attempt = "Succeeded" THEN {Recorded(p, "Succeeded")} ELSE Fallback(p) :
            p \in Pursuit(s, path, desired, prev, obstacles) }

(* No forward sampler runs on a reverse run: an infeasible stop.           *)
Sampler(s, path, desired, base, obstacles) ==
  IF path[1].dir = "rev" THEN {Defers("Infeasible")} ELSE Dwa(s, desired, base, obstacles)

(* compute_with_defer *)
Compute(s, path, desired, prev, obstacles) ==
  LET fallback(p) == After(p, Sampler(s, path, desired, RobotRadius, obstacles))
      mpc == IF path[1].dir # "fwd" THEN {} ELSE TrackingMpc(s, path[1], desired, prev, obstacles)
  IN  IF path = <<>> THEN {Unrecorded("NotTried", prev)}
      ELSE { Recorded(cmd, "Succeeded") : cmd \in mpc }
             \cup PursuitOr(s, path, desired, prev, obstacles, fallback)

(* ForwardRetry: pursuit, then compute_relaxed.                            *)
Retry(s, path, desired, prev, obstacles) ==
  LET fallback(p) ==
        IF path = <<>> THEN {Unrecorded(p.attempt, prev)}
        ELSE After(p, Sampler(s, path, desired, RelaxedRadius, obstacles))
  IN  PursuitOr(s, path, desired, prev, obstacles, fallback)

(* Reverse: pursuit, then the scripted reverse, whose straight arc the     *)
(* cycle has checked (RearClear).                                          *)
RearClear(s, obstacles) == ReverseArcClear(s.x, ReverseDistance, RearRadius, obstacles)

BackUp(s, path, desired, prev, obstacles) ==
  LET fallback(p) == After(p, {Commands(-ReverseSpeed)})
  IN  PursuitOr(s, path, desired, prev, obstacles, fallback)

(* select_local_plan *)
SelectLocalPlan(phase, s, path, desired, prev, obstacles) ==
  CASE phase = "None"         -> Compute(s, path, desired, prev, obstacles)
    [] phase = "ForwardRetry" -> Retry(s, path, desired, prev, obstacles)
    [] phase = "Reverse"      -> BackUp(s, path, desired, prev, obstacles)
    [] phase = "Hold"         -> {Recorded(Commands(0), "NotTried")}
=============================================================================
