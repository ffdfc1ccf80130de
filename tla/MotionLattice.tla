----------------------------- MODULE MotionLattice -----------------------------
(***************************************************************************)
(* What the global planner searches in (global_planner/mod.rs): an         *)
(* occupancy grid with its clearance field, the zone in which a wedged     *)
(* robot may plan through its own inflation, the corridor of a route, and  *)
(* the motion primitives with their costs.                                 *)
(*                                                                         *)
(* Poses lie on a lattice with the step of a primitive as its unit and     *)
(* four headings; a turning primitive is a quarter circle of radius one,   *)
(* so it ends one unit ahead and one to the side.  Distances are taken in  *)
(* the norm in which every primitive is one unit long, which is what the   *)
(* code charges for it.                                                    *)
(***************************************************************************)
EXTENDS Integers, Sequences, FiniteSets, FiniteSetsExt

CONSTANTS
  Problems,          \* the planning problems: see Problem
  Width, Height,     \* extent of the grid
  EscapeRadius,      \* start_escape_radius
  HardBound,         \* hard_factor * half_width of a corridor
  ReentryMargin,     \* REENTRY_MARGIN_M
  Reverse,           \* reverse_enabled
  Travel,            \* step_size, as a cost
  ReverseFactor,     \* reverse_cost_multiplier
  SteerCost,         \* the cost of a turning primitive
  SwitchCost,        \* direction_switch_penalty
  ProximityCost,     \* clearance_cost_weight * step_size
  Decay,             \* clearance_decay_m, in half units
  CorridorCost       \* corridor_cost_weight * step_size / half_width

Config == INSTANCE Configuration

(* The configuration the constants stand for.                              *)
Configured ==
  [Config!HybridAStarDefaults EXCEPT
     !.direction_switch_penalty = SwitchCost, !.reverse_cost_multiplier = 1000 * ReverseFactor,
     !.clearance_cost_weight = ProximityCost, !.clearance_decay_m = Decay,
     !.start_escape_radius = EscapeRadius]

(* No cost rewards what it should discourage.                              *)
ASSUME AcceptedConfig == Config!HybridAStarValid(Configured)

(* Corridor::new: a polyline and positive parameters.                      *)
CorridorValid == HardBound \in Nat \ {0} /\ CorridorCost \in Nat /\ ReentryMargin \in Nat

Cell == (0 .. Width - 1) \X (0 .. Height - 1)
Pose == [at : Cell, heading : 0 .. 3]

(* A planning problem.  occupied are the cells inside hard inflation,      *)
(* physical those where the true footprint would touch an obstacle;        *)
(* reference is the corridor's polyline, empty without a route.            *)
Problem ==
  [start : Pose, goal : Pose,
   occupied : SUBSET Cell, physical : SUBSET Cell, reference : SUBSET Cell]
IsProblem(w) == w \in Problem /\ w.physical \subseteq w.occupied

ASSUME LatticeAssumption ==
  /\ Width \in Nat /\ Height \in Nat /\ CorridorValid
  /\ Travel \in Nat \ {0} /\ SteerCost \in Nat /\ Reverse \in BOOLEAN
  /\ {EscapeRadius, ReverseFactor, SwitchCost, ProximityCost, Decay} \subseteq Nat
  /\ \A w \in Problems : IsProblem(w)

Gap(a, b) == IF a < b THEN b - a ELSE a - b
Larger(a, b)  == IF a < b THEN b ELSE a
Smaller(a, b) == IF a < b THEN a ELSE b
Apart(p, q) == Larger(Gap(p[1], q[1]), Gap(p[2], q[2]))

(***************************************************************************)
(* Collision: the inflated grid, with the start-pocket relaxation.         *)
(***************************************************************************)

InBounds(p)      == p \in Cell
IsOccupied(w, p) == ~InBounds(p) \/ p \in w.occupied
FootprintBlocked(w, p) == p \in w.physical

(* start_escape_zone: the start is inside inflation but not in overlap.    *)
Wedged(w) ==
  /\ EscapeRadius > 0 /\ IsOccupied(w, w.start.at)
  /\ ~FootprintBlocked(w, w.start.at)
InZone(w, p) == Wedged(w) /\ Apart(p, w.start.at) <= EscapeRadius

(* Mutant: in the zone the true footprint is not checked either.           *)
PoseBlockedNoFootprint(w, p) ==
  IF InZone(w, p) THEN ~InBounds(p) ELSE IsOccupied(w, p)
PoseBlocked(w, p) ==
  IF InZone(w, p) THEN ~InBounds(p) \/ FootprintBlocked(w, p) ELSE IsOccupied(w, p)

(***************************************************************************)
(* The corridor: a hard bound around the reference, widened so that a      *)
(* robot outside of it can plan back in, and never applied in the zone.    *)
(***************************************************************************)

Offset(w, p) == Min({Apart(p, q) : q \in w.reference})
Bound(w)     == Larger(HardBound, Offset(w, w.start.at) + ReentryMargin)
CorridorBlocked(w, p) ==
  w.reference # {} /\ ~InZone(w, p) /\ Offset(w, p) > Bound(w)

(***************************************************************************)
(* ClearanceField: the chamfer distance to the nearest occupied cell, an   *)
(* axial step two and a diagonal one three half units, capped at the band. *)
(***************************************************************************)

Chamfer(p, q) ==
  LET dx == Gap(p[1], q[1])
      dy == Gap(p[2], q[2])
  IN  2 * Larger(dx, dy) + Smaller(dx, dy)
DistanceAt(w, p) ==
  IF InBounds(p) THEN Min({Decay} \cup {Chamfer(p, q) : q \in w.occupied}) ELSE Decay

(***************************************************************************)
(* Motion primitives.  A heading is a number of quarter turns.  Reversing  *)
(* with the wheels to the left swings the heading to the right.            *)
(***************************************************************************)

Left == 1
Straight == 0
Right == -1
Steers == {Left, Straight, Right}
Forward == 1
Backward == -1
Directions == IF Reverse THEN {Forward, Backward} ELSE {Forward}
Primitive == [steer : Steers, dir : Directions]

Unit(h) == CASE h = 0 -> <<1, 0>> [] h = 1 -> <<0, 1>> [] h = 2 -> <<-1, 0>> [] h = 3 -> <<0, -1>>

BicycleStep(p, m) ==
  LET heading == (p.heading + m.steer * m.dir) % 4
      u == Unit(p.heading)
      v == IF m.steer = Straight THEN <<0, 0>> ELSE Unit(heading)
  IN  [at |-> <<p.at[1] + m.dir * (u[1] + v[1]), p.at[2] + m.dir * (u[2] + v[2])>>,
       heading |-> heading]

(* The pose at which a chain of primitives ends, and every pose on it.     *)
Along(p, ms) ==
  LET at[i \in 0 .. Len(ms)] == IF i = 0 THEN p ELSE BicycleStep(at[i - 1], ms[i])
  IN  at
EndOf(p, ms) == Along(p, ms)[Len(ms)]

(* The cost of a primitive that ends at p after arriving in direction dir. *)
TravelCost(m) == IF m.dir = Forward THEN Travel ELSE Travel * ReverseFactor
SwitchingCost(dir, m) == IF m.dir = dir THEN 0 ELSE SwitchCost
Proximity(w, p) ==
  IF Decay = 0 THEN 0 ELSE (ProximityCost * (Decay - DistanceAt(w, p))) \div Decay
Pull(w, p) == IF w.reference = {} THEN 0 ELSE CorridorCost * Offset(w, p)
StepCost(w, p, dir, m) ==
  TravelCost(m) + (IF m.steer = Straight THEN 0 ELSE SteerCost)
    + Proximity(w, p) + Pull(w, p) + SwitchingCost(dir, m)
=============================================================================
