----------------------------- MODULE ControlLoop -----------------------------
(***************************************************************************)
(* The control process (control/src/main.rs, control_loop.rs) around the   *)
(* watchdog, with what reaches it from outside: the CH2 queue, the         *)
(* heartbeat table that the subscriber thread fills, and the chassis       *)
(* feedback register.                                                      *)
(*                                                                         *)
(* The main loop's body is one action, Cycle: drain CH2 to the newest      *)
(* command, show the heartbeat status to the watchdog, read the feedback,  *)
(* classify the command, run the watchdog check, actuate exactly one       *)
(* command.  Everything else is asynchronous to it and happens between     *)
(* cycles: planning publishes (or does not), heartbeats arrive (or do      *)
(* not), feedback is refreshed (or not), time passes.  A lost message is   *)
(* one that is never enqueued; a delayed one stays in the queue while a    *)
(* cycle drains only a prefix.                                             *)
(***************************************************************************)
EXTENDS Watchdog, Sequences

CONSTANTS
  MaxCommandAge,      \* max_command_age_ms: the age gate on CH2
  HeartbeatDegraded,  \* PeerHealth: from this age on not Nominal or Warn
  MaxSpeed,           \* kinematics.max_linear_vel
  MaxStall,           \* the main loop runs at least once in MaxStall ticks
  QueueCap,           \* high water mark of CH2
  RequestedSpeeds,    \* linear velocities planning may ask for
  WheelSpeeds         \* speeds the chassis may report

ASSUME ControlLoopAssumption ==
  /\ MaxCommandAge \in Nat
  /\ HeartbeatDegraded \in Nat \ {0}
  /\ MaxSpeed \in Nat
  /\ MaxStall \in Nat \ {0}
  /\ QueueCap \in Nat
  /\ RequestedSpeeds \subseteq Int
  /\ WheelSpeeds \subseteq Int
  /\ Horizon > CommandTimeout + MaxCommandAge + MaxStall
  /\ Horizon > HeartbeatDead + HeartbeatDegraded + MaxStall

(* A ControlCommand: the explicit e-stop flag, a VelocityCmd, or anything  *)
(* the loop does not act on (a TrajectoryCmd, an empty oneof).  `age` is   *)
(* the age of the header's timestamp, with one value for every age past    *)
(* the gate.                                                               *)
Kind     == {"EmergencyStop", "VelocityCmd", "NotActionable"}
StampAge == 0 .. MaxCommandAge + 1
Command  == [kind : Kind, linear : Int, age : StampAge]

OlderStamp(age) == IF age <= MaxCommandAge THEN age + 1 ELSE age

VARIABLES
  ch2,          \* commands published and not yet drained, oldest first
  peerAge,      \* PeerHealth: age of planning's last heartbeat
  feedback,     \* wheel speed last read from the chassis (0 before any)
  wd,           \* the watchdog
  lastActuated, \* ControlLoop.last_actuated (linear part)
  motor,        \* what the HAL was last told, see Motor
  sinceCycle,   \* ticks since the last cycle
  dataAge       \* history: age of the stamp of the planned velocity in force, 0 in an e-stop

vars == <<ch2, peerAge, feedback, wd, lastActuated, motor, sinceCycle, dataAge>>

(* The HAL is told a velocity (send_command) or a hard stop                *)
(* (emergency_stop, a latched zero velocity).                              *)
Motor == [linear : Int, hardStop : BOOLEAN]
Velocity(v) == [linear |-> v, hardStop |-> FALSE]
HardStop    == [linear |-> 0, hardStop |-> TRUE]

TypeOK ==
  /\ ch2 \in Seq(Command)
  /\ Len(ch2) <= QueueCap
  /\ peerAge \in Age
  /\ feedback \in WheelSpeeds \cup {0}
  /\ wd \in WatchdogState
  /\ lastActuated \in Int
  /\ motor \in Motor
  /\ sinceCycle \in 0 .. MaxStall
  /\ dataAge \in Age

Init ==
  /\ ch2 = <<>>
  /\ peerAge = 0
  /\ feedback = 0
  /\ wd = NewWatchdog
  /\ lastActuated = 0
  /\ motor = Velocity(0)
  /\ sinceCycle = 0
  /\ dataAge = 0

(***************************************************************************)
(* One cycle of the main loop.                                             *)
(***************************************************************************)

(* PeerStatus Nominal or Warn: only then is the watchdog notified. *)
HeartbeatVisible == peerAge < HeartbeatDegraded

(* Mutant: no age gate. *)
FreshUngated(cmd) == cmd.age \in StampAge

Fresh(cmd) == cmd.age <= MaxCommandAge

(* The age gate and actionability rules: which command is planned motion,  *)
(* and which feeds the watchdog.                                           *)
IsPlanned(cmds)   == cmds # <<>> /\ Fresh(cmds[Len(cmds)]) /\ cmds[Len(cmds)].kind = "VelocityCmd"
IsRequested(cmds) == cmds # <<>> /\ Fresh(cmds[Len(cmds)]) /\ cmds[Len(cmds)].kind = "EmergencyStop"

Newest(cmds) == cmds[Len(cmds)]

(* KinematicsEngine::clamp_command, linear part. *)
ClampCommand(v) ==
  IF v > MaxSpeed THEN MaxSpeed ELSE IF v < -MaxSpeed THEN -MaxSpeed ELSE v

(* Steps 1 to 3 of run_cycle: measured speed, classification, check. *)
Observed(w) ==
  UpdateMeasuredSpeed(IF HeartbeatVisible THEN NotifyHeartbeat(w) ELSE w, feedback)

Classified(w, cmds) ==
  IF IsRequested(cmds) THEN NotifyCommandReceived(w, TRUE)
  ELSE IF IsPlanned(cmds) THEN NotifyCommandReceived(w, FALSE)
  ELSE w

Checked(cmds) == CheckConditions(Classified(Observed(wd), cmds))

(* Step 4 with the latch closed on a timeout: the next ramp speed, or the  *)
(* hard stop once the ramp is at zero.                                     *)
ActuateRamp(w) ==
  LET v == DecelerationVelocity(w.ramp)
  IN  /\ wd' = [w EXCEPT !.ramp = v]
      /\ lastActuated' = v
      /\ motor' = IF v # 0 THEN Velocity(v) ELSE HardStop
      /\ dataAge' = 0

ActuateHardStop(w) ==
  /\ wd' = w
  /\ lastActuated' = 0
  /\ motor' = HardStop
  /\ dataAge' = 0

(* Step 4 with no latch: the planned velocity, or the last one again. *)
ActuatePlanned(w, cmds) ==
  LET v == IF IsPlanned(cmds) THEN ClampCommand(Newest(cmds).linear) ELSE lastActuated
  IN  /\ wd' = w
      /\ lastActuated' = v
      /\ motor' = Velocity(v)
      /\ dataAge' = IF IsPlanned(cmds) THEN Newest(cmds).age ELSE dataAge

(* run_cycle on the drained commands, of which only the newest is used. *)
RunCycle(cmds) ==
  LET w == Checked(cmds)
  IN  \/ w.latched = "CommandTimeout" /\ ActuateRamp(w)
      \/ w.latched \in {"PeerDead", "ExplicitRequest"} /\ ActuateHardStop(w)
      \/ w.latched = "None" /\ ActuatePlanned(w, cmds)

(* The main loop's body: the drain ends at whatever has arrived by then. *)
Cycle ==
  /\ \E n \in 0 .. Len(ch2) :
       /\ RunCycle(SubSeq(ch2, 1, n))
       /\ ch2' = SubSeq(ch2, n + 1, Len(ch2))
  /\ sinceCycle' = 0
  /\ UNCHANGED <<peerAge, feedback>>

(***************************************************************************)
(* What happens between cycles.                                            *)
(***************************************************************************)

(* Planning publishes; at the high water mark ZeroMQ drops the message. *)
Publish(kind, v) ==
  /\ ch2' = IF Len(ch2) < QueueCap
            THEN Append(ch2, [kind |-> kind, linear |-> v, age |-> 0])
            ELSE ch2
  /\ UNCHANGED <<peerAge, feedback, wd, lastActuated, motor, sinceCycle, dataAge>>

PublishVelocity == \E v \in RequestedSpeeds : Publish("VelocityCmd", v)
PublishEstop    == Publish("EmergencyStop", 0)
PublishOther    == Publish("NotActionable", 0)

(* The subscriber thread records a heartbeat of planning. *)
Heartbeat ==
  /\ peerAge' = 0
  /\ UNCHANGED <<ch2, feedback, wd, lastActuated, motor, sinceCycle, dataAge>>

(* The HAL's receive path stores a reading; when reads fail it does not    *)
(* and the old value stands.                                               *)
Feedback ==
  /\ feedback' \in WheelSpeeds
  /\ UNCHANGED <<ch2, peerAge, wd, lastActuated, motor, sinceCycle, dataAge>>

(* A tick of time.  The main loop is never late by more than MaxStall. *)
Tick ==
  /\ sinceCycle < MaxStall
  /\ sinceCycle' = sinceCycle + 1
  /\ ch2' = [i \in 1 .. Len(ch2) |-> [ch2[i] EXCEPT !.age = OlderStamp(@)]]
  /\ peerAge' = Older(peerAge)
  /\ wd' = WatchdogTick(wd)
  /\ dataAge' = IF wd.latched = "None" THEN Older(dataAge) ELSE 0
  /\ UNCHANGED <<feedback, lastActuated, motor>>

Environment ==
  PublishVelocity \/ PublishEstop \/ PublishOther \/ Heartbeat \/ Feedback

Next == Cycle \/ Environment \/ Tick

Spec == Init /\ [][Next]_vars
-----------------------------------------------------------------------------
(***************************************************************************)
(* Properties.                                                             *)
(***************************************************************************)

(* End-to-end freshness: while no e-stop is latched, a non-zero velocity   *)
(* at the motors carries a planning stamp no older than the age gate plus  *)
(* the command timeout plus the time since the last cycle -- the re-send   *)
(* of last_actuated is bounded by the watchdog, as the comment at          *)
(* control_loop.rs:44 claims, and no stale queued command gets through.    *)
PlannedMotionIsFresh ==
  wd.latched = "None" /\ lastActuated # 0 =>
    dataAge <= CommandTimeout + MaxCommandAge + sinceCycle

(* Heartbeat supervision: with no e-stop latched, planning's last          *)
(* heartbeat is younger than the sum of the two thresholds it passes       *)
(* through (PeerHealth's and the watchdog's) plus the time since the last  *)
(* cycle, even when commands keep arriving.                                *)
DrivesOnlyWithPlanningAlive ==
  wd.latched = "None" => peerAge < HeartbeatDead + HeartbeatDegraded + sinceCycle

(* No step inside an e-stop -- escalation, a fresh command that may not    *)
(* release, a release and re-latch in one cycle -- makes the motors        *)
(* faster: a latch is never weakened into one that moves.                  *)
LatchedNeverAccelerates ==
  [][ wd.latched # "None" /\ wd'.latched # "None" =>
        AbsVal(motor'.linear) <= AbsVal(motor.linear) ]_vars

(* A latch is given up only in a cycle that accepted a command stamped     *)
(* within the age gate (never on a stale queued message), an explicit stop *)
(* only with a stopped reading and a dead peer only with a live one, also  *)
(* when several latches were replaced since the first.                     *)
ReleaseIsEarned ==
  [][ wd.latched # "None" /\ wd'.latched = "None" =>
        /\ wd'.cmdAge = 0 /\ dataAge' <= MaxCommandAge
        /\ wd'.hbAge <= HeartbeatDead
        /\ wd.latched = "ExplicitRequest" => AbsVal(feedback) < StoppedSpeed ]_vars

(* Every cycle that reads commands leaves the published e-stop flag (CH3   *)
(* ctrl_status), the latch, the ramp and the motors telling one story.     *)
ActuationMatchesLatch ==
  /\ wd.estopActive <=> wd.latched # "None"
  /\ motor.linear = lastActuated
  /\ wd.latched = "CommandTimeout" =>
       motor.linear = wd.ramp /\ (motor.hardStop <=> wd.ramp = 0)
  /\ wd.latched \in {"PeerDead", "ExplicitRequest"} => motor = HardStop
  /\ wd.latched = "None" => ~motor.hardStop /\ wd.ramp = 0

(* The control process implements the e-stop contract. *)
ContractMode ==
  IF wd.latched = "None" THEN "drive"
  ELSE IF motor.linear # 0 THEN "ramp" ELSE "hold"

Contract == INSTANCE EstopContract WITH mode <- ContractMode, speed <- motor.linear

(* Step simulation of EstopContract: whatever the order of timeouts, e-stop *)
(* requests, heartbeats and late messages, the commanded speed follows the *)
(* drive / ramp / hold discipline.                                         *)
KeepsContract == Contract!Promise
=============================================================================
