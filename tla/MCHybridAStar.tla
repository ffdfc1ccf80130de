---------------------------- MODULE MCHybridAStar ----------------------------
(***************************************************************************)
(* Instance of HybridAStar: an open field, a wall with a gap, a dead end   *)
(* that has to be left in reverse, a robot wedged in inflation below its   *)
(* corridor, a corridor past an obstacle, and a start that is walled in.   *)
(***************************************************************************)
EXTENDS HybridAStar

P(x, y, h) == [at |-> <<x, y>>, heading |-> h]
World(s, occ, phys, ref) ==
  [start |-> s, goal |-> s, occupied |-> occ, physical |-> phys, reference |-> ref]

Layouts ==
  { World(P(0, 0, 0), {}, {}, {}),
    World(P(0, 1, 0), {<<2, 0>>, <<2, 1>>, <<2, 3>>}, {}, {}),
    World(P(1, 1, 0), {<<2, 0>>, <<2, 1>>, <<2, 2>>, <<1, 2>>, <<1, 0>>}, {}, {}),
    World(P(2, 1, 0), {<<2, 1>>, <<3, 1>>, <<2, 0>>, <<3, 0>>}, {<<3, 1>>},
          {<<0, 3>>, <<1, 3>>, <<2, 3>>, <<3, 3>>}),
    World(P(0, 0, 0), {<<2, 2>>, <<2, 3>>, <<3, 2>>}, {}, {<<0, 0>>, <<1, 1>>, <<3, 3>>}),
    World(P(1, 1, 0), {<<2, 0>>, <<2, 1>>, <<0, 2>>, <<1, 2>>, <<2, 2>>}, {}, {}) }
Goals == {P(x, y, h) : x \in {0, 1, 3}, y \in {1, 2, 3}, h \in {0, 1, 2}}

MCProblems == {[l EXCEPT !.goal = g] : l \in Layouts, g \in Goals}
=============================================================================
