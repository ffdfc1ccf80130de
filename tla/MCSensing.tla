----------------------------- MODULE MCSensing -----------------------------
(* Instance for TLC: a queue of two scans, a CH3 socket of two messages.     *)
EXTENDS Sensing
=============================================================================
