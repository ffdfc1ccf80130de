---------------------------- MODULE MCObstacleView ----------------------------
(***************************************************************************)
(* Instance of ObstacleView: seven places, a scan that starts inside of   *)
(* the post, a world with the post, one with a wall and an empty one, a    *)
(* walker of two beams that comes past, halting where it likes, and scans  *)
(* that lack nothing, an edge, the post or everything.  The robot stands   *)
(* before place 3, with three sectors.                                     *)
(***************************************************************************)
EXTENDS ObstacleView

MCWorlds == {{{0, 1, 2}}, {{4, 5, 6}}, {}}
MCWalks == -2 .. 7
MCDropouts == {{}, {0}, {0, 1, 2}, Place}
MCSectorOf == [p \in Place |-> IF p <= 1 THEN 0 ELSE IF p <= 4 THEN 1 ELSE 2]
MCRangeOf == [p \in Place |-> 5 + Gap(p, 3)]
=============================================================================
