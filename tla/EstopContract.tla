---------------------------- MODULE EstopContract ----------------------------
(***************************************************************************)
(* What the control process promises about the speed it commands, whatever *)
(* triggers and releases its emergency stop: it drives within the          *)
(* kinematic limit, or runs one deceleration ramp that only ever slows     *)
(* down and never changes direction, or holds the vehicle at zero.  A ramp *)
(* is entered from driving only, ends in a hold, and no hold turns back    *)
(* into a ramp: speed comes back only by driving.                          *)
(***************************************************************************)
EXTENDS Integers

CONSTANT MaxSpeed

VARIABLES
  mode,    \* "drive", "ramp" or "hold"
  speed    \* linear velocity last commanded

contract == <<mode, speed>>

Magnitude(v) == IF v < 0 THEN -v ELSE v

Start == mode = "drive" /\ speed = 0

Drive == mode' = "drive" /\ speed' \in -MaxSpeed .. MaxSpeed

(* The first ramp speed comes from the wheels, not from the last command. *)
EnterRamp == mode = "drive" /\ mode' = "ramp" /\ speed' # 0

RampDown ==
  /\ mode = "ramp" /\ mode' = "ramp"
  /\ 0 < Magnitude(speed') /\ Magnitude(speed') < Magnitude(speed)
  /\ speed' > 0 <=> speed > 0

Hold == mode' = "hold" /\ speed' = 0

Step == Drive \/ EnterRamp \/ RampDown \/ Hold

Promise == Start /\ [][Step]_contract
=============================================================================
