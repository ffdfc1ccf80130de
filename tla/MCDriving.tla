------------------------------ MODULE MCDriving ------------------------------
(***************************************************************************)
(* Instance of Driving: a lane with a wall at each end, an obstacle that   *)
(* closes it and one that leaves room for a crawl only, a goal on each     *)
(* side of the start and a place to turn between them.                     *)
(***************************************************************************)
EXTENDS Driving

Wall(p)  == [at |-> p, off |-> 0, radius |-> 0]
Pinch(p) == [at |-> p, off |-> 4, radius |-> 0]

MCModes  == {"Traditional", "E2E", "Shadow"}
MCSpeeds == {-4, -2, -1, 0, 1, 4}
MCTurns  == {-9, 0, 2}
MCGoals  == {2, 10}
MCCusps  == {6}
MCDesiredSpeeds == {3}
MCWorlds == { {Wall(-4), Wall(16)} \cup hindrance : hindrance \in {{}, {Pinch(8)}} }
(* A lane open ahead, and a wall that may be seen at its end. *)
FollowedModes == {"Traditional"}
OpenGoals  == {6}
NoCusps    == {}
OpenWorlds == { {} }
EndWalls   == {Wall(16)}
MCLateObstacles == {Wall(9)}

(* The instance meets what the theorem about stopping asks, up to the      *)
(* misses its memory and its staleness limit allow.                        *)
ASSUME WorldsLeaveRoom /\ StoppingSettings(Smaller(StaleCycles, Depth - 1))
=============================================================================
