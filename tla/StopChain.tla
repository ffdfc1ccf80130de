------------------------------ MODULE StopChain ------------------------------
(***************************************************************************)
(* The chain that stops the vehicle, end to end: planning (its main loop   *)
(* and its heartbeat thread), the CH2 and CH0 links, the control process   *)
(* of module ControlLoop, the chassis thread of limo_hw.rs and the vehicle.*)
(*                                                                         *)
(* A tick is one period of the loops, and every loop runs at most once per *)
(* tick, in any order.  Until the chain is `healthy`, planning may publish *)
(* or not and beat or not (a hung main loop is one that publishes nothing  *)
(* while the heartbeat thread goes on; a dead process does neither), CH2   *)
(* and CH0 may lose or delay any message, any read of the chassis feedback *)
(* may fail and leave the old value, and the control process may die and   *)
(* be restarted, which builds the watchdog and the HAL anew.               *)
(***************************************************************************)
EXTENDS ControlLoop

CONSTANTS
  Brake,            \* the vehicle's change of speed in one tick (external)
  FirmwareTimeout   \* ticks without a frame after which the chassis stops (external)

(* The top speed of the vehicle, forward.                                  *)
TopSpeed == CHOOSE s \in WheelSpeeds : \A t \in WheelSpeeds : t <= s

(* Wheel readings show every speed up to it, in both directions, and the   *)
(* kinematic limit does not exceed it.                                     *)
ASSUME StopChainAssumption ==
  /\ Brake \in Nat \ {0} /\ FirmwareTimeout \in Nat
  /\ TopSpeed \in Nat /\ MaxSpeed <= TopSpeed
  /\ WheelSpeeds = -TopSpeed .. TopSpeed

VARIABLES
  healthyFor,  \* 0: faults may happen; n: healthy for n - 1 ticks
  control,     \* "up" or "down"
  frame,       \* velocity in the last frame the chassis received
  frameAge,    \* ticks since that frame
  speed,       \* speed of the vehicle
  ran,         \* threads that ran since the last tick
  sinceVelocity \* history: ticks since planning last published a VelocityCmd

chainVars == <<healthyFor, control, frame, frameAge, speed, ran, sinceVelocity>>
allVars   == <<vars, chainVars>>

(* Planning drives and beats every tick, messages arrive, reads succeed,   *)
(* nothing dies.                                                           *)
healthy == healthyFor > 0

Thread == {"planning", "heartbeat", "chassis"}

(* A crash of the control process while the vehicle moves: after a restart *)
(* the command timeout passes before the watchdog latches, the ramp starts *)
(* from a speed read in the meantime and makes its first step, and a crash *)
(* leaves the last frame in force up to the firmware timeout.              *)
CrashRound == CommandTimeout + 2 * MaxStall + FirmwareTimeout + 1

(* The ticks one unit of speed can last, when every ramp step of DecelStep *)
(* takes a round.                                                          *)
TicksPerSpeed == (CrashRound + DecelStep - 1) \div DecelStep

(* How long the vehicle may still move after planning's last velocity: the *)
(* command may be delayed up to the age gate, is held up to the command    *)
(* timeout and noticed a control period later, and its last frame may stay *)
(* in force up to the firmware timeout; from then on the speed is shed.    *)
StopBound ==
  MaxCommandAge + CommandTimeout + MaxStall + FirmwareTimeout + 1 + TicksPerSpeed * TopSpeed

(* How long an explicit e-stop may outlive the faults: the current tick,   *)
(* a control period until a cycle has closed its latch, two until the      *)
(* chassis has the zero, the braking from TopSpeed, one until the stop is  *)
(* read, and a control period until a cycle finds a command again.         *)
HaltTime      == (TopSpeed + Brake - 1) \div Brake
RecoveryBound == 3 + 2 * MaxStall + HaltTime

ChainInit ==
  /\ Init
  /\ healthyFor = 0 /\ control = "up"
  /\ frame = 0 /\ frameAge = 0 /\ speed = 0
  /\ ran = {}
  /\ sinceVelocity = StopBound + 1

(* A thread runs, at most once per tick. *)
Runs(thread) == thread \notin ran /\ ran' = ran \cup {thread}

(***************************************************************************)
(* Planning.                                                               *)
(***************************************************************************)

(* A message reaches the control process or is lost. *)
Sent(action) ==
  \/ control = "up" /\ action
  \/ ~healthy /\ UNCHANGED vars

(* A cycle of planning's main loop ends in a CH2 publish: a velocity, or   *)
(* the e-stop request of its EmergencyStop state.                          *)
PlannerCycle ==
  /\ Runs("planning")
  /\ \/ Sent(PublishVelocity) /\ sinceVelocity' = 0
     \/ ~healthy /\ Sent(PublishEstop) /\ UNCHANGED sinceVelocity
  /\ UNCHANGED <<healthyFor, control, frame, frameAge, speed>>

(* The heartbeat thread does not depend on the main loop. *)
PlannerBeat ==
  /\ Runs("heartbeat")
  /\ Sent(Heartbeat)
  /\ UNCHANGED <<healthyFor, control, frame, frameAge, speed, sinceVelocity>>

(***************************************************************************)
(* Control process and chassis.                                            *)
(***************************************************************************)

(* The control cycle; a healthy link has nothing left to deliver. *)
ControlCycle ==
  /\ control = "up" /\ sinceCycle > 0
  /\ Cycle
  /\ healthy => ch2' = <<>>
  /\ UNCHANGED chainVars

(* chassis_loop: transmit the register, then read; a failed or malformed   *)
(* read leaves the feedback register as it was.                            *)
ChassisLoop ==
  /\ Runs("chassis")
  /\ control = "up"
  /\ frame' = motor.linear /\ frameAge' = 0
  /\ \/ feedback' = speed
     \/ ~healthy /\ UNCHANGED feedback
  /\ UNCHANGED <<ch2, peerAge, wd, lastActuated, motor, sinceCycle, dataAge,
                 healthyFor, control, speed, sinceVelocity>>

(* The control process dies: its queue, its watchdog and its chassis       *)
(* thread are gone, and a restart begins from the initial state.           *)
ControlCrash ==
  /\ ~healthy /\ control = "up" /\ control' = "down"
  /\ ch2' = <<>> /\ peerAge' = 0 /\ feedback' = 0 /\ wd' = NewWatchdog
  /\ lastActuated' = 0 /\ motor' = Velocity(0) /\ sinceCycle' = 0 /\ dataAge' = 0
  /\ UNCHANGED <<healthyFor, frame, frameAge, speed, ran, sinceVelocity>>

(* The launcher restarts a process that exited. *)
ControlRestart ==
  /\ control = "down" /\ control' = "up"
  /\ UNCHANGED <<vars, healthyFor, frame, frameAge, speed, ran, sinceVelocity>>

(***************************************************************************)
(* Environment and time.                                                   *)
(***************************************************************************)

BecomesHealthy ==
  /\ control = "up" /\ ~healthy /\ healthyFor' = 1
  /\ UNCHANGED <<vars, control, frame, frameAge, speed, ran, sinceVelocity>>

(* The speed moves towards the velocity asked for, by at most Brake. *)
Toward(s, target) ==
  IF AbsVal(target - s) <= Brake THEN target
  ELSE IF target > s THEN s + Brake ELSE s - Brake

(* The threads that run in every tick. *)
Due ==
  (IF control = "up" THEN {"chassis"} ELSE {})
    \cup (IF healthy THEN {"planning", "heartbeat"} ELSE {})

TimePasses ==
  /\ Due \subseteq ran /\ ran' = {}
  /\ IF control = "up" THEN Tick ELSE UNCHANGED vars
  /\ speed' = Toward(speed, IF frameAge > FirmwareTimeout THEN 0 ELSE frame)
  /\ frameAge' = IF frameAge <= FirmwareTimeout THEN frameAge + 1 ELSE frameAge
  /\ sinceVelocity' = IF sinceVelocity <= StopBound THEN sinceVelocity + 1 ELSE sinceVelocity
  /\ healthyFor' = IF healthy /\ healthyFor <= RecoveryBound THEN healthyFor + 1 ELSE healthyFor
  /\ UNCHANGED <<control, frame>>

ChainNext ==
  \/ PlannerCycle \/ PlannerBeat
  \/ ControlCycle \/ ChassisLoop \/ ControlCrash \/ ControlRestart
  \/ BecomesHealthy \/ TimePasses

ChainSpec == ChainInit /\ [][ChainNext]_allVars
-----------------------------------------------------------------------------
(***************************************************************************)
(* Properties.                                                             *)
(***************************************************************************)

(* Whatever dies, hangs, restarts or is lost, and also when planning goes  *)
(* on beating or asking for a stop, the vehicle stands still StopBound     *)
(* ticks after the last velocity planning published.                       *)
VehicleStopsWithoutVelocity == sinceVelocity > StopBound => speed = 0

(* No e-stop outlives its cause: once planning drives, the links deliver   *)
(* and the chassis is read, the latch is released within RecoveryBound     *)
(* ticks, whatever latched it and whatever was queued before, and does not *)
(* close again.                                                            *)
RecoversInTime == healthyFor > RecoveryBound => wd.latched = "None"

=============================================================================
