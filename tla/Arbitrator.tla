----------------------------- MODULE Arbitrator -----------------------------
(***************************************************************************)
(* The arbitrator of the planning process (planning/src/arbitrator/mod.rs):*)
(* the last gate before CH2.  It chooses between the traditional and the   *)
(* E2E command, caps the speed while the planner's confidence is low, and  *)
(* clamps every command to the safety envelope relative to the speed it    *)
(* commanded last.                                                         *)
(*                                                                         *)
(* One planning cycle is one action: Arbitrate, or EmergencyStop when the  *)
(* behavior planner is in its EmergencyStop state (planning/src/main.rs).  *)
(* Speeds and turn rates are integers and the rates of change are per      *)
(* cycle; a confidence is what it is compared with decides: "low" is below *)
(* fallback_min_confidence (of E2E: below its own threshold).  The mode is *)
(* chosen once: nothing in the program calls set_mode.                     *)
(***************************************************************************)
EXTENDS Integers

CONSTANTS
  MaxSpeed, MaxAccel, MaxDecel, MaxAngular, MaxCurvature,  \* SafetyEnvelopeConfig
  DegradedCap,       \* degraded_speed_cap
  RecoveryCycles,    \* confidence_recovery_cycles
  NearZeroSpeed,     \* below it a command means "infeasible"
  CrawlSpeed,        \* up to it the curvature is not clamped
  Modes,             \* pipeline modes to start in
  Speeds, Turns      \* what the pipelines may ask for

(* What SafetyEnvelopeConfig::validate and ArbitratorConfig::validate let  *)
(* through.                                                                *)
ASSUME ArbitratorAssumption ==
  /\ MaxSpeed \in Nat \ {0} /\ MaxAccel \in Nat \ {0} /\ MaxDecel \in Nat \ {0}
  /\ MaxAngular \in Nat \ {0} /\ MaxCurvature \in Nat \ {0}
  /\ DegradedCap \in 1 .. MaxSpeed
  /\ RecoveryCycles \in Nat \ {0}
  /\ NearZeroSpeed \in Nat /\ CrawlSpeed \in Nat
  /\ Modes \subseteq {"Traditional", "E2E", "Shadow"}
  /\ Speeds \subseteq Int /\ Turns \subseteq Int

VARIABLES
  mode,
  prev_linear,
  degraded,          \* the speed cap is latched
  recovery_streak,   \* good cycles counted while degraded
  output,            \* the ControlCommand published this cycle
  goodRun,           \* history: consecutive arbitrated cycles of good confidence
  cappedFor,         \* history: consecutive cycles under the cap
  zeroFor            \* history: consecutive near-zero commands under the cap

state   == <<mode, prev_linear, degraded, recovery_streak, output>>
history == <<goodRun, cappedFor, zeroFor>>
arbVars == <<state, history>>

Command == [linear : Int, angular : Int, confidence : {"low", "good"}]
Output  == [linear : Int, angular : Int, emergency_stop : BOOLEAN]

Inputs == [linear : Speeds, angular : Turns, confidence : {"low", "good"}]

Magnitude(x) == IF x < 0 THEN -x ELSE x
Clamp(x, lo, hi) == IF x < lo THEN lo ELSE IF x > hi THEN hi ELSE x

(* Cycles after which the cap, or a stop, has been reached from MaxSpeed. *)
CapCycles  == (MaxSpeed - DegradedCap + MaxDecel - 1) \div MaxDecel
StopCycles == (MaxSpeed + MaxDecel - 1) \div MaxDecel

CountTo(bound, n) == IF n < bound THEN n + 1 ELSE n

Init ==
  /\ mode \in Modes
  /\ prev_linear = 0
  /\ degraded = FALSE
  /\ recovery_streak = 0
  /\ output = [linear |-> 0, angular |-> 0, emergency_stop |-> FALSE]
  /\ goodRun = 0 /\ cappedFor = 0 /\ zeroFor = 0

TypeOK ==
  /\ mode \in Modes
  /\ prev_linear \in Int
  /\ degraded \in BOOLEAN
  /\ recovery_streak \in 0 .. RecoveryCycles - 1
  /\ output \in Output
  /\ goodRun \in 0 .. RecoveryCycles
  /\ cappedFor \in 0 .. CapCycles
  /\ zeroFor \in 0 .. StopCycles

(***************************************************************************)
(* The operators of arbitrate.                                             *)
(***************************************************************************)

(* update_degraded: enter at once, leave after RecoveryCycles good cycles; *)
(* whether the cap applies this cycle is the new value of the latch.       *)
Recovered == recovery_streak + 1 >= RecoveryCycles

(* Mutant: a low cycle leaves the streak where it was. *)
UpdateDegradedStreakKept(confidence) ==
  IF confidence = "low"
  THEN degraded' = TRUE /\ UNCHANGED recovery_streak
  ELSE /\ degraded' = (degraded /\ ~Recovered)
       /\ recovery_streak' = IF degraded /\ ~Recovered THEN recovery_streak + 1 ELSE 0

UpdateDegraded(confidence) ==
  IF confidence = "low"
  THEN degraded' = TRUE /\ recovery_streak' = 0
  ELSE /\ degraded' = (degraded /\ ~Recovered)
       /\ recovery_streak' = IF degraded
                             THEN IF Recovered THEN 0 ELSE recovery_streak + 1
                             ELSE recovery_streak

(* apply_degraded_cap: a near-zero command is a stop, another is capped. *)
ApplyDegradedCap(cmd) ==
  IF Magnitude(cmd.linear) < NearZeroSpeed
  THEN [cmd EXCEPT !.linear = 0, !.angular = 0]
  ELSE [cmd EXCEPT !.linear = Clamp(@, -DegradedCap, DegradedCap)]

(* Mutant: braking out of reverse is limited like speeding up.             *)
EnvelopeSpeedReverseAccel(linear) ==
  LET target == Clamp(linear, -MaxSpeed, MaxSpeed)
      down   == IF prev_linear > 0 THEN MaxDecel ELSE MaxAccel
  IN  prev_linear + Clamp(target - prev_linear, -down, MaxAccel)

(* apply_safety_envelope, linear part: speed clamp, then the rate limits,  *)
(* where braking is the direction towards zero.                            *)
EnvelopeSpeed(linear) ==
  LET target == Clamp(linear, -MaxSpeed, MaxSpeed)
      up     == IF prev_linear < 0 THEN MaxDecel ELSE MaxAccel
      down   == IF prev_linear > 0 THEN MaxDecel ELSE MaxAccel
  IN  prev_linear + Clamp(target - prev_linear, -down, up)

(* Mutant: the curvature is clamped with the speed asked for. *)
EnvelopeTurnUnclamped(angular, v) == Clamp(angular, -MaxAngular, MaxAngular)

(* apply_safety_envelope, angular part, for the speed v to be commanded. *)
EnvelopeTurn(angular, v) ==
  LET w     == Clamp(angular, -MaxAngular, MaxAngular)
      limit == MaxCurvature * Magnitude(v)
  IN  IF Magnitude(v) > CrawlSpeed THEN Clamp(w, -limit, limit) ELSE w

Safe(cmd) ==
  LET v == EnvelopeSpeed(cmd.linear)
  IN  /\ prev_linear' = v
      /\ output' = [linear |-> v, angular |-> EnvelopeTurn(cmd.angular, v),
                    emergency_stop |-> FALSE]

Stop ==
  /\ prev_linear' = 0
  /\ output' = [linear |-> 0, angular |-> 0, emergency_stop |-> TRUE]

(***************************************************************************)
(* A planning cycle.                                                       *)
(***************************************************************************)

(* Traditional and Shadow: the graduated response to low confidence. *)
Graduated(traditional) ==
  /\ mode \in {"Traditional", "Shadow"}
  /\ UpdateDegraded(traditional.confidence)
  /\ Safe(IF degraded' THEN ApplyDegradedCap(traditional) ELSE traditional)
  /\ goodRun' = IF traditional.confidence = "low" THEN 0 ELSE CountTo(RecoveryCycles, goodRun)
  /\ cappedFor' = IF degraded' THEN CountTo(CapCycles, cappedFor) ELSE 0
  /\ zeroFor' = IF degraded' /\ Magnitude(traditional.linear) < NearZeroSpeed
                THEN CountTo(StopCycles, zeroFor) ELSE 0
  /\ UNCHANGED mode

(* E2E: a usable E2E command, else a confident traditional one, else an    *)
(* emergency stop.                                                         *)
Ladder(traditional, e2e) ==
  /\ mode = "E2E"
  /\ \/ e2e # {} /\ \E c \in e2e : c.confidence = "good" /\ Safe(c)
     \/ /\ \A c \in e2e : c.confidence = "low"
        /\ IF traditional.confidence = "low" THEN Stop ELSE Safe(traditional)
  /\ UNCHANGED <<mode, degraded, recovery_streak, history>>

(* The E2E engine answers with at most one command. *)
Arbitrate ==
  \E traditional \in Inputs :
    \/ Graduated(traditional)
    \/ Ladder(traditional, {})
    \/ \E c \in Inputs : Ladder(traditional, {c})

(* The behavior planner is in EmergencyStop: the latch is not updated. *)
EmergencyStop ==
  /\ Stop
  /\ UNCHANGED <<mode, degraded, recovery_streak, goodRun, cappedFor, zeroFor>>

Next == Arbitrate \/ EmergencyStop

Spec == Init /\ [][Next]_arbVars
-----------------------------------------------------------------------------
(***************************************************************************)
(* Properties.                                                             *)
(***************************************************************************)

(* Every published command is inside the envelope, although the speed that *)
(* goes out is the rate limiter's and not the one that was clamped, and    *)
(* the curvature is clamped for that speed.                                *)
EnvelopeHolds ==
  /\ Magnitude(output.linear) <= MaxSpeed
  /\ Magnitude(output.angular) <= MaxAngular
  /\ Magnitude(output.linear) > CrawlSpeed =>
       Magnitude(output.angular) <= MaxCurvature * Magnitude(output.linear)

(* The graduated response works in time: after CapCycles cycles under the  *)
(* cap, whatever was commanded before and in either direction, the speed   *)
(* is within the cap, and after StopCycles near-zero commands it is zero.  *)
DegradedSlowsDown ==
  /\ cappedFor = CapCycles /\ degraded => Magnitude(output.linear) <= DegradedCap
  /\ zeroFor = StopCycles /\ degraded => output.linear = 0

(* The cap is lifted only after RecoveryCycles consecutive good cycles, a  *)
(* low one in between starting the count again.                            *)
CapLiftsAfterGoodRun ==
  [][ degraded /\ ~degraded' => goodRun' = RecoveryCycles ]_arbVars
=============================================================================
