------------------------------- MODULE Shipped -------------------------------
(***************************************************************************)
(* What the shipped settings (planning.yaml and the constants of the code) *)
(* say of stopping, in units of 5 mm and cycles of 100 ms.  The latency is *)
(* one cycle and a half, which `late` rounds down or up; what is asked of  *)
(* the settings is linear in it.  The lane is empty and nothing drives:    *)
(* only what the settings of Driving say of one another is evaluated.      *)
(***************************************************************************)
EXTENDS Integers

LOCAL Drive(late) == INSTANCE Driving WITH
  MaxSpeed <- 44, MaxAccel <- 5, MaxDecel <- 6, MaxAngular <- 458, MaxCurvature <- 10,
  DegradedCap <- 3, RecoveryCycles <- 5, NearZeroSpeed <- 1, CrawlSpeed <- 0,
  Modes <- {"Traditional"}, Speeds <- {0}, Turns <- {0},
  DwaSpeed <- 44, DwaAccel <- 5, DwaDecel <- 6, Footprint <- 38, RobotRadius <- 48,
  LowScale <- 4, Crawl <- 2, FullMarginSpeed <- 6, HighSpeed <- 20, HighGain <- 0,
  Horizon <- 8, Pad <- 30, Window <- 2, ReactTime <- 4, Slack <- 4, Floor <- 39,
  MpcSteps <- 14, MpcPhase <- 4, Comfort <- 4, Delay <- late,
  ReverseCap <- 8, CuspArrive <- 24, CuspShort <- 12, MinChord <- 60, Finish <- 100,
  RecoveryScale <- 8, ReverseSpeed <- 2, ReverseDistance <- 30, RearRadius <- 52,
  Start <- 0, Goals <- {0}, Cusps <- {}, DesiredSpeeds <- {44},
  Worlds <- {{}}, LateObstacles <- {}, Depth <- 3, StaleCycles <- 3,
  EscapeRadius <- 120, TrueFootprint <- 44, DirectApproach <- 400, Pull <- 20,
  BehindDrop <- 5, BlockedDrop <- 8, BlockedDropLength <- 100, FollowDrift <- FALSE,
  mode <- 0, prev_linear <- 0, degraded <- 0, recovery_streak <- 0, output <- 0,
  goodRun <- 0, cappedFor <- 0, zeroFor <- 0,
  x <- 0, statics <- 0, last_world <- 0, missed <- 0, goal <- 0, current_path_goal <- 0,
  global_path <- 0, prev_cmd_v <- 0, target_behind_streak <- 0, blocked_streak <- 0,
  behindTries <- 0, searched <- 0, unrecorded <- 0, drifted <- 0

(* The shipped settings are enough while every cycle has its WorldState;   *)
(* after a miss the MPC's margin is 5 mm short.                            *)
ASSUME ShippedSettingsStop ==
  \A late \in {1, 2} :
    /\ Drive(late)!WorldsLeaveRoom
    /\ Drive(late)!StoppingSettings(0)
    /\ ~Drive(late)!StoppingSettings(1)
=============================================================================
