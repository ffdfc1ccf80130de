----------------------------- MODULE DrivingModes -----------------------------
(***************************************************************************)
(* What the behavior planner promises to the planning loop around it: the  *)
(* mode it drives in, as a small state machine.                            *)
(*                                                                         *)
(* Driving modes exist only with a goal.  Recovery is a ladder: it begins  *)
(* with a forward retry, backs up only from a forward retry, holds only    *)
(* after backing up or after a retry launched from a hold, and a hold is   *)
(* left through a forward retry.  The goal counts as reached only from     *)
(* forward driving.                                                        *)
(***************************************************************************)

VARIABLES
  mode,      \* "idle", "drive", "approach", "avoid", "reached", "stopped",
             \* or a rung of the ladder: "retry", "reverse", "hold"
  hasGoal

modes == <<mode, hasGoal>>

Rung    == {"retry", "reverse", "hold"}
Driving == {"drive", "approach", "avoid", "reached"} \cup Rung

Start == mode = "idle" /\ hasGoal = FALSE

SetGoal   == mode' = "drive" /\ hasGoal' = TRUE
ClearGoal == mode' = "idle" /\ hasGoal' = FALSE

(* Nothing but a stop, an end of a stop, or a rung interrupts a mode. *)
Stop   == mode' = "stopped" /\ UNCHANGED hasGoal
Resume ==
  /\ mode \in {"stopped", "idle", "avoid"} \cup Rung
  /\ mode' = (IF hasGoal THEN "drive" ELSE "idle")
  /\ UNCHANGED hasGoal

Proceed ==
  /\ \/ mode = "drive" /\ mode' \in {"approach", "avoid", "reached"}
     \/ mode = "approach" /\ mode' = "reached"
  /\ UNCHANGED hasGoal

Climb ==
  /\ \/ mode \in {"drive", "avoid", "hold"} /\ mode' = "retry"
     \/ mode = "retry" /\ mode' \in {"reverse", "hold"}
     \/ mode = "reverse" /\ mode' \in {"retry", "hold"}
  /\ UNCHANGED hasGoal

Step == SetGoal \/ ClearGoal \/ Stop \/ Resume \/ Proceed \/ Climb

Promise == Start /\ [][Step]_modes

(* A consequence of the promise.                                           *)
GoalBacksDriving == mode \in Driving => hasGoal
=============================================================================
