------------------------------ MODULE MCBehavior ------------------------------
(***************************************************************************)
(* Instance of Behavior: a short track with a goal at its end, one round   *)
(* before the hold, and every time limit two or three updates long.  An    *)
(* input stands for all that update cannot tell from it: a stop and lost   *)
(* localization hide the rest, the speed matters with an infeasible plan   *)
(* only, the localization between 0.3 and 0.5 while degraded only.         *)
(***************************************************************************)
EXTENDS Behavior

MCTrack == 0 .. 3
MCGoals == {[at |-> 3, tolerance |-> 0]}

Clear == [ stop |-> FALSE, localization |-> "good", obstacle |-> "clear",
           stationary |-> FALSE, plan |-> "neither", rearClear |-> TRUE ]

MCInputs ==
  { [Clear EXCEPT !.stop = TRUE], [Clear EXCEPT !.localization = "lost"],
    [Clear EXCEPT !.localization = "poor"], [Clear EXCEPT !.obstacle = "near"] }
  \cup { [Clear EXCEPT !.obstacle = o, !.plan = p, !.stationary = (p = "infeasible"),
                       !.rearClear = r] :
           o \in {"close", "clear"}, p \in {"infeasible", "neither", "feasible"}, r \in BOOLEAN }
=============================================================================
