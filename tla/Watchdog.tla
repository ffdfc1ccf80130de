------------------------------ MODULE Watchdog ------------------------------
(***************************************************************************)
(* The watchdog of the control process (control/src/watchdog/mod.rs): a    *)
(* latch holding the reason of an emergency stop, the ages it watches, and *)
(* the open-loop deceleration ramp.                                        *)
(*                                                                         *)
(* The struct is a record and every `&mut self` method an operator from    *)
(* the record before the call to the record after it: the watchdog is      *)
(* owned by one thread, and ControlLoop composes its methods into one      *)
(* step.  `Instant`s are kept as ages in ticks (0 = "now"); ages stop      *)
(* growing at Horizon, past every threshold they are compared with.        *)
(* Speeds are integers; the unit is the 0.01 m/s below which               *)
(* deceleration_velocity calls the ramp finished.  The heartbeat of        *)
(* sensperc only chooses a log line in `check` and is not kept.            *)
(***************************************************************************)
EXTENDS Integers

CONSTANTS
  CommandTimeout,   \* command_timeout_ms: older command => controlled ramp
  HeartbeatDead,    \* heartbeat_dead_ms: older observation => hard stop
  StoppedSpeed,     \* stopped_speed_threshold
  DecelStep,        \* deceleration_rate * dt: speed shed per cycle
  Horizon           \* ages saturate here (bound of the model)

ASSUME WatchdogAssumption ==
  /\ CommandTimeout \in Nat
  /\ HeartbeatDead \in Nat
  /\ StoppedSpeed \in Nat
  /\ DecelStep \in Nat \ {0}
  /\ Horizon \in Nat

Reason == {"CommandTimeout", "PeerDead", "ExplicitRequest"}
Latch  == Reason \cup {"None"}
Age    == 0 .. Horizon

AbsVal(x) == IF x < 0 THEN -x ELSE x

(* An age one tick later. *)
Older(age) == IF age < Horizon THEN age + 1 ELSE age

(* EstopReason::severity; an unlatched watchdog is below every reason. *)
Severity(latch) ==
  CASE latch = "None"            -> -1
    [] latch = "CommandTimeout"  -> 0
    [] latch = "PeerDead"        -> 1
    [] latch = "ExplicitRequest" -> 2

(***************************************************************************)
(* The struct.                                                             *)
(***************************************************************************)
WatchdogState ==
  [ latched     : Latch,     \* reason latched, or "None"
    estopActive : BOOLEAN,   \* the flag other threads read
    ramp        : Int,       \* ramp_speed
    measured    : Int,       \* measured_speed
    cmdAge      : Age,       \* age of last_command_time
    hbAge       : Age ]      \* age of peer_heartbeats["planning"]

(* Watchdog::new: nothing latched, every Instant is now (grace period). *)
NewWatchdog ==
  [ latched |-> "None", estopActive |-> FALSE, ramp |-> 0, measured |-> 0,
    cmdAge |-> 0, hbAge |-> 0 ]

(***************************************************************************)
(* The methods.                                                            *)
(***************************************************************************)

(* Mutant: a later reason replaces the latched one whatever its severity. *)
TriggerEstopReplacing(w, reason) ==
  IF w.latched = "None"
  THEN [w EXCEPT !.latched = reason, !.ramp = w.measured, !.estopActive = TRUE]
  ELSE [w EXCEPT !.latched = reason]

(* Latch a reason: the first one seeds the ramp from the measured speed, a *)
(* later one replaces it only if it is stricter and leaves the ramp alone. *)
TriggerEstop(w, reason) ==
  IF w.latched = "None"
  THEN [w EXCEPT !.latched = reason, !.ramp = w.measured, !.estopActive = TRUE]
  ELSE IF Severity(reason) > Severity(w.latched)
       THEN [w EXCEPT !.latched = reason]
       ELSE w

(* Mutant: the ramp of the previous e-stop is left behind. *)
ClearEstopKeepingRamp(w) == [w EXCEPT !.latched = "None", !.estopActive = FALSE]

ClearEstop(w) ==
  [w EXCEPT !.latched = "None", !.ramp = 0, !.estopActive = FALSE]

PeerHealthy(w) == w.hbAge <= HeartbeatDead

(* Mutant: an explicit stop is released without looking at the speed. *)
MayReleaseMoving(w) ==
  \/ w.latched \in {"CommandTimeout", "ExplicitRequest"}
  \/ w.latched = "PeerDead" /\ PeerHealthy(w)

(* Mutant: a stop for a dead peer is never released. *)
MayReleaseNoPeer(w) ==
  \/ w.latched = "CommandTimeout"
  \/ w.latched = "ExplicitRequest" /\ AbsVal(w.measured) < StoppedSpeed

(* The clear rule of the latched reason, asked when a fresh command that   *)
(* is not itself an e-stop arrives.                                        *)
MayRelease(w) ==
  \/ w.latched = "CommandTimeout"
  \/ w.latched = "ExplicitRequest" /\ AbsVal(w.measured) < StoppedSpeed
  \/ w.latched = "PeerDead" /\ PeerHealthy(w)

NotifyCommandReceived(w, emergencyStop) ==
  LET fed == [w EXCEPT !.cmdAge = 0]
  IN  IF emergencyStop THEN TriggerEstop(fed, "ExplicitRequest")
      ELSE IF MayRelease(fed) THEN ClearEstop(fed)
      ELSE fed

NotifyHeartbeat(w) == [w EXCEPT !.hbAge = 0]

UpdateMeasuredSpeed(w, speed) == [w EXCEPT !.measured = speed]

(* Mutant: only the command timeout is checked. *)
CheckCommandsOnly(w) ==
  IF w.cmdAge > CommandTimeout THEN TriggerEstop(w, "CommandTimeout") ELSE w

(* Mutant: only the heartbeat is checked. *)
CheckHeartbeatOnly(w) ==
  IF w.hbAge > HeartbeatDead THEN TriggerEstop(w, "PeerDead") ELSE w

(* `check` returns at the first condition that holds: while commands are   *)
(* overdue the heartbeat is not looked at.                                 *)
CheckConditions(w) ==
  IF w.cmdAge > CommandTimeout THEN TriggerEstop(w, "CommandTimeout")
  ELSE IF w.hbAge > HeartbeatDead THEN TriggerEstop(w, "PeerDead")
  ELSE w

(* Mutant: the step is subtracted whatever the direction of travel. *)
DecelerationForwardOnly(ramp) ==
  IF AbsVal(ramp) <= DecelStep THEN 0 ELSE ramp - DecelStep

(* One step of the ramp towards zero, from either side. *)
DecelerationVelocity(ramp) ==
  IF AbsVal(ramp) <= DecelStep THEN 0
  ELSE IF ramp > 0 THEN ramp - DecelStep
  ELSE ramp + DecelStep

(* The Instants of the struct grow older. *)
WatchdogTick(w) == [w EXCEPT !.cmdAge = Older(@), !.hbAge = Older(@)]
=============================================================================
