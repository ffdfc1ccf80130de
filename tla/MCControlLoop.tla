---------------------------- MODULE MCControlLoop ----------------------------
(***************************************************************************)
(* Instance of ControlLoop for TLC: thresholds scaled down but in the      *)
(* order of the shipped configuration (command timeout < age gate <        *)
(* PeerHealth's Warn limit < dead), speeds that need clamping, more than   *)
(* one ramp step, and both directions.                                     *)
(***************************************************************************)
EXTENDS ControlLoop

MCRequestedSpeeds == {-1, 2}
MCWheelSpeeds     == {-2, 0, 2}
=============================================================================
