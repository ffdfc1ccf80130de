---------------------------- MODULE MCStopChain ----------------------------
(***************************************************************************)
(* Instance of StopChain: one requested speed, which only the kinematic    *)
(* limit keeps below what the vehicle can do, a vehicle that needs two     *)
(* ticks to reach that limit and a ramp that needs two steps to leave it.  *)
(***************************************************************************)
EXTENDS StopChain, Shipped

MCRequestedSpeeds == {MaxSpeed + 1}
MCWheelSpeeds     == -MaxSpeed .. MaxSpeed
=============================================================================
