---------------------------- MODULE Configuration ----------------------------
(***************************************************************************)
(* The configuration the planning process starts with: what every part     *)
(* defaults to, what its validate() refuses, and the startup check of      *)
(* main.rs that accepts the whole or ends the process.  The other modules  *)
(* instantiate it to assume of their constants what the process checks of  *)
(* its configuration, and no more.                                         *)
(*                                                                         *)
(* Quantities are in thousandths of the code's units (mm, mm/s, ms); a     *)
(* number is always finite.  Rates, scoring weights and what no validate() *)
(* looks at are left out.                                                  *)
(***************************************************************************)
EXTENDS Integers

Unit == 1000

Positive(c, fields)    == \A f \in fields : c[f] > 0
NonNegative(c, fields) == \A f \in fields : c[f] >= 0
IsFraction(q) == q \in 0 .. Unit

(***************************************************************************)
(* The arbitrator.                                                         *)
(***************************************************************************)

SafetyDefaults ==
  [max_speed |-> 2200, max_acceleration |-> 2500, max_deceleration |-> 3000,
   max_angular_speed |-> 4500, max_curvature |-> 2000]

SafetyValid(c) == Positive(c, DOMAIN c)

ArbitratorDefaults ==
  [safety |-> SafetyDefaults, e2e_confidence_threshold |-> 700,
   fallback_min_confidence |-> 300, degraded_speed_cap |-> 150,
   confidence_recovery_cycles |-> 5]

ArbitratorValid(c) ==
  /\ SafetyValid(c.safety)
  /\ IsFraction(c.e2e_confidence_threshold) /\ IsFraction(c.fallback_min_confidence)
  /\ c.degraded_speed_cap > 0 /\ c.degraded_speed_cap <= c.safety.max_speed
  /\ c.confidence_recovery_cycles > 0

(***************************************************************************)
(* The behavior planner.                                                   *)
(***************************************************************************)

BehaviorDefaults ==
  [goal_tolerance |-> 150, approach_distance |-> 500, obstacle_stop_distance |-> 300,
   default_speed |-> 2200, obstacle_avoidance_speed_factor |-> 650,
   stuck_cycles_before_recovery |-> 20, recovery_reverse_max_s |-> 3000,
   recovery_max_attempts |-> 3, recovery_reverse_min_m |-> 150,
   recovery_reverse_max_m |-> 500, recovery_exit_feasible_cycles |-> 3,
   recovery_progress_reset_m |-> 500, hold_retry_period_s |-> 10000]

(* The tolerances, distances and the default speed may be anything.        *)
BehaviorValid(c) ==
  /\ Positive(c, {"stuck_cycles_before_recovery", "recovery_reverse_max_s",
                  "recovery_max_attempts", "recovery_reverse_min_m",
                  "recovery_exit_feasible_cycles", "recovery_progress_reset_m",
                  "hold_retry_period_s"})
  /\ c.obstacle_avoidance_speed_factor \in 1 .. Unit
  /\ c.recovery_reverse_max_m >= c.recovery_reverse_min_m

(***************************************************************************)
(* The local planner: DWA, pursuit, the tracking MPC, and what relates     *)
(* them.                                                                   *)
(***************************************************************************)

DwaDefaults ==
  [max_speed |-> 2200, max_angular_speed |-> 4500, max_acceleration |-> 2500,
   max_deceleration |-> 3000, max_angular_accel |-> 8000, sim_time |-> 1500,
   sim_dt |-> 100, v_samples |-> 13, w_samples |-> 15, robot_radius |-> 240,
   recovery_margin_scale |-> 800, margin_low_speed_scale |-> 400,
   moving_obstacle_margin_gain |-> 400, high_speed_margin_gain |-> 60,
   max_curvature |-> 2000]

(* The two margin scales have no upper bound, and robot_radius none at the *)
(* footprint.                                                              *)
DwaValid(c) ==
  /\ Positive(c, {"max_speed", "max_acceleration", "max_deceleration",
                  "max_angular_speed", "max_angular_accel", "sim_time", "sim_dt",
                  "robot_radius", "max_curvature"})
  /\ NonNegative(c, {"recovery_margin_scale", "margin_low_speed_scale",
                     "moving_obstacle_margin_gain", "high_speed_margin_gain"})
  /\ c.sim_dt <= c.sim_time
  /\ c.v_samples >= 2 /\ c.w_samples >= 2

PursuitDefaults ==
  [k_v |-> 1000, lookahead_min |-> 600, lookahead_max |-> 2500, a_lat_max |-> 2000,
   reverse_speed_cap |-> 400, v_turn_min |-> 200, curvature_lookahead_gain |-> 600,
   heading_error_lookahead_gain |-> 1000]

PursuitValid(c) ==
  /\ NonNegative(c, {"k_v", "curvature_lookahead_gain", "heading_error_lookahead_gain"})
  /\ Positive(c, {"lookahead_min", "a_lat_max", "reverse_speed_cap", "v_turn_min"})
  /\ c.lookahead_max >= c.lookahead_min

TrackingMpcDefaults ==
  [horizon_steps |-> 14, dt |-> 100, phase1_s |-> 400, w_lat |-> 6000, w_head |-> 1500,
   w_speed |-> 1000, w_dkappa |-> 600, w_kappa_cont |-> 500, finish_m |-> 500,
   a_lat_max |-> 1500]

TrackingMpcValid(c) ==
  /\ c.horizon_steps \in 1 .. 100
  /\ Positive(c, {"dt", "phase1_s", "finish_m", "a_lat_max"})
  /\ NonNegative(c, {"w_lat", "w_head", "w_speed", "w_dkappa", "w_kappa_cont"})

LocalPlannerDefaults ==
  [dwa |-> DwaDefaults, pursuit |-> PursuitDefaults, tracking_mpc |-> TrackingMpcDefaults,
   mpc_wheelbase |-> 200, actuation_delay_s |-> 200]

LocalPlannerValid(c) ==
  /\ DwaValid(c.dwa) /\ PursuitValid(c.pursuit) /\ TrackingMpcValid(c.tracking_mpc)
  /\ c.mpc_wheelbase > 0
  /\ c.pursuit.v_turn_min <= c.dwa.max_speed
  /\ IsFraction(c.actuation_delay_s)

(***************************************************************************)
(* The global planner, the roadmap and the limits on stale inputs.         *)
(***************************************************************************)

HybridAStarDefaults ==
  [clearance_cost_weight |-> 2000, clearance_decay_m |-> 500, smoothing_enabled |-> TRUE,
   smoothing_alpha |-> 300, smoothing_clearance_beta |-> 200, smoothing_iterations |-> 50,
   path_improvement_threshold |-> 150, direction_switch_penalty |-> 600,
   reverse_cost_multiplier |-> 2000, rs_expansion_radius |-> 2000,
   start_escape_radius |-> 600]

(* The resolutions, the step, the steering limit and the iteration cap are *)
(* not looked at.                                                          *)
HybridAStarValid(c) ==
  /\ NonNegative(c, {"clearance_cost_weight", "clearance_decay_m",
                     "smoothing_clearance_beta", "direction_switch_penalty",
                     "rs_expansion_radius", "start_escape_radius"})
  /\ c.smoothing_alpha \in 0 .. Unit \div 2
  /\ c.smoothing_enabled => c.smoothing_iterations > 0
  /\ c.reverse_cost_multiplier >= Unit
  /\ c.path_improvement_threshold \in 0 .. Unit - 1

RoadmapDefaults ==
  [enabled |-> FALSE, file |-> "roadmap", blocked_link_timeout_s |-> 20000,
   link_block_after_s |-> 10000, leg_min_m |-> 2000, leg_max_m |-> 4000,
   deviation_m |-> 1500, corridor_half_width |-> 1000, corridor_cost_weight |-> 2000,
   corridor_hard_factor |-> 2000]

RoadmapValid(c) ==
  /\ Positive(c, {"blocked_link_timeout_s", "link_block_after_s", "leg_min_m",
                  "leg_max_m", "deviation_m", "corridor_half_width"})
  /\ c.corridor_cost_weight >= 0 /\ c.corridor_hard_factor >= Unit
  /\ c.leg_min_m < c.leg_max_m
  /\ c.enabled => c.file # ""

FaultToleranceDefaults == [world_state_stale_ms |-> 300, vehicle_state_stale_ms |-> 500]

FaultToleranceValid(c) == Positive(c, DOMAIN c)

(***************************************************************************)
(* The startup of main.rs.                                                 *)
(***************************************************************************)

(* PlanningConfig::default(), which a missing or broken file leaves.       *)
Defaults ==
  [arbitrator |-> ArbitratorDefaults, fault_tolerance |-> FaultToleranceDefaults,
   behavior |-> BehaviorDefaults, global_planner |-> HybridAStarDefaults,
   local_planner |-> LocalPlannerDefaults, roadmap |-> RoadmapDefaults]

(* What the planner verifies, the arbitrator must not clip: compared for   *)
(* speed and braking, not for acceleration and curvature.                  *)
Coherent(c) ==
  /\ c.local_planner.dwa.max_speed <= c.arbitrator.safety.max_speed
  /\ c.local_planner.dwa.max_deceleration <= c.arbitrator.safety.max_deceleration

Accepted(c) ==
  /\ ArbitratorValid(c.arbitrator) /\ FaultToleranceValid(c.fault_tolerance)
  /\ BehaviorValid(c.behavior) /\ HybridAStarValid(c.global_planner)
  /\ LocalPlannerValid(c.local_planner) /\ RoadmapValid(c.roadmap)
  /\ Coherent(c)
=============================================================================
