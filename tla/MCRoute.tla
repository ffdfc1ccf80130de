-------------------------------- MODULE MCRoute --------------------------------
(***************************************************************************)
(* Instance of RouteFollowing: a square of four links, one of them one-way *)
(* and one slow; a robot on the square, inside it and off it; waypoints at *)
(* a node and in the middle of a link.                                     *)
(***************************************************************************)
EXTENDS RouteFollowing

P(a, b) == [x |-> a, y |-> b]
L(m, n, s, o) == [a |-> m, b |-> n, slowness |-> s, oneway |-> o]

MCAt == <<P(0, 0), P(2, 0), P(2, 2), P(0, 2)>>
MCLinks == <<L(1, 2, 1, FALSE), L(2, 3, 2, FALSE), L(1, 4, 1, TRUE), L(4, 3, 1, FALSE)>>
MCPlaces == {P(a, b) : a \in 0 .. 2, b \in 0 .. 2} \cup {P(2, 3), P(2, 4)}
MCGoals == <<P(2, 2), P(1, 0)>>
=============================================================================
