------------------------------- MODULE MCMission -------------------------------
(***************************************************************************)
(* Instance of Mission: a sequence and a patrol of the same length, and a  *)
(* scenario without waypoints; two managers or stop orders.                *)
(***************************************************************************)
EXTENDS Mission

MCScenario == {"sequence", "patrol", "empty"}
MCWaypoints == [s \in MCScenario |-> IF s = "empty" THEN 0 ELSE 2]
MCPatrol == {"patrol"}
=============================================================================
