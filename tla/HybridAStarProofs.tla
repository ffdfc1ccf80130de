--------------------------- MODULE HybridAStarProofs ---------------------------
(***************************************************************************)
(* Proofs about the global planner, for every grid, corridor and pocket,   *)
(* every set of costs that passes validation, and every order in which     *)
(* nodes of equal cost are popped:                                         *)
(*   - what was found can be driven (FoundPathIsDrivable): every node      *)
(*     carries a free chain of primitives, and a Reeds-Shepp word found in *)
(*     the frame of a node, laid from there, ends at the goal;             *)
(*   - the search gives up only for a cause (FailsOnlyForCause): whatever  *)
(*     one primitive leads to from a closed key is closed or waits, so     *)
(*     once nothing waits no chain leads out of what is closed;            *)
(*   - keys are closed at their cheapest (SettledAtCheapest), for costs    *)
(*     that make the heuristic consistent: a key that is not closed is     *)
(*     promised by a node that waits at no more than its reference cost,   *)
(*     so the first node popped of a key came the cheapest way;            *)
(*   - smoothing keeps the maneuver (SmoothingKeepsTheManeuver): a hop     *)
(*     never ends beyond a waypoint that is kept, so what lies between two *)
(*     kept waypoints was cut by one hop, which kept its distance; ends    *)
(*     stay where they are and the last look passes only what is free.     *)
(*                                                                         *)
(* The reference is a relaxation in rounds.  What holds of every round is  *)
(* proved by looking at the first round of which it does not hold.         *)
(***************************************************************************)
EXTENDS HybridAStar, FiniteSetTheorems, SequenceTheorems, TLAPS

(* A nonempty set of natural numbers has a least. *)
LEMMA LeastExists ==
  ASSUME NEW S \in SUBSET Nat, S # {}
  PROVE  \E n \in S : \A m \in S : n <= m
<1>1. PICK n \in S : \A m \in S : ~ (<<m, n>> \in OpToRel(<, Nat))
  BY NatLessThanWellFounded, WFMin, Zenon
<1>2. ASSUME NEW m \in S PROVE n <= m
  <2>1. m \in Nat /\ n \in Nat
    OBVIOUS
  <2>2. m < n => <<m, n>> \in OpToRel(<, Nat)
    BY <2>1, Zenon DEF OpToRel
  <2>3. ~ (m < n)
    BY <1>1, <2>2, Zenon
  <2> QED BY <2>1, <2>3, SMT
<1> QED BY <1>2

(* Repeating a step on a set X: f[n] is reached from the base in n steps.  *)
IsStep(step, N, X) == \A n \in 1 .. N : \A x \in X : step[n][x] \in X
Iterates(f, step, base, N, X) ==
  f \in [0 .. N -> X] /\ f[0] = base /\ \A n \in 1 .. N : f[n] = step[n][f[n - 1]]

(* Repeating a step from a start gives a function of the number of steps.  *)
LEMMA Iteration ==
  ASSUME NEW N \in Nat, NEW X, NEW base \in X, NEW step, IsStep(step, N, X)
  PROVE  \E f : Iterates(f, step, base, N, X)
<1> USE DEF IsStep, Iterates
<1> DEFINE Good(k, f) == f \in [0 .. k -> X] /\ f[0] = base
                           /\ \A n \in 1 .. k : f[n] = step[n][f[n - 1]]
           bad == {k \in 0 .. N : ~ \E f : Good(k, f)}
<1>1. CASE bad # {}
  <2>1. bad \in SUBSET Nat
    OBVIOUS
  <2>2. PICK k \in bad : \A m \in bad : k <= m
    <3> HIDE DEF bad
    <3> QED BY <1>1, <2>1, LeastExists, Zenon
  <2>3. k \in 0 .. N /\ ~ \E f : Good(k, f)
    OBVIOUS
  <2>4. CASE k = 0
    <3> DEFINE f == [i \in 0 .. 0 |-> base]
    <3>1. f \in [0 .. 0 -> X] /\ f[0] = base /\ 1 .. 0 = {}
      OBVIOUS
    <3>2. Good(0, f)
      BY <3>1
    <3> QED BY <2>3, <2>4, <3>2, Zenon
  <2>5. CASE k # 0
    <3>1. k - 1 \in 0 .. N /\ ~ (k <= k - 1) /\ k \in 1 .. N
      BY <2>3, <2>5
    <3>2. ~ (k - 1 \in bad)
      BY <2>2, <3>1, Zenon
    <3>3. PICK f : Good(k - 1, f)
      BY <3>1, <3>2, Zenon
    <3> DEFINE y == step[k][f[k - 1]]
               g == [i \in 0 .. k |-> IF i = k THEN y ELSE f[i]]
    <3>4. f[k - 1] \in X
      BY <3>1, <3>3
    <3>5. y \in X
      BY <3>1, <3>4, Zenon
    <3>6. g \in [0 .. k -> X]
      <4> HIDE DEF y
      <4> QED BY <3>1, <3>3, <3>5
    <3>7. g[0] = base
      BY <2>5, <3>1, <3>3
    <3>8. ASSUME NEW n \in 1 .. k PROVE g[n] = step[n][g[n - 1]]
      <4>1. n - 1 \in 0 .. k /\ n \in 0 .. k /\ n - 1 # k
        BY <3>1
      <4>2. g[n - 1] = f[n - 1]
        BY <4>1
      <4>3. CASE n = k
        BY <4>1, <4>2, <4>3
      <4>4. CASE n # k
        <5>1. n \in 1 .. k - 1
          BY <3>1, <4>4
        <5>2. g[n] = f[n]
          BY <4>1, <4>4
        <5> QED BY <3>3, <4>2, <5>1, <5>2
      <4> QED BY <4>3, <4>4
    <3>9. Good(k, g)
      <4> HIDE DEF g
      <4> QED BY <3>6, <3>7, <3>8
    <3> QED BY <2>3, <3>9, Zenon
  <2> QED BY <2>4, <2>5
<1>2. CASE bad = {}
  <2>1. N \in 0 .. N
    OBVIOUS
  <2>2. ~ (N \in bad)
    BY <1>2, Zenon
  <2>3. PICK f : Good(N, f)
    BY <2>1, <2>2, Zenon
  <2> QED BY <2>3
<1> QED BY <1>1, <1>2

(* Poses off the grid too, and the primitives of both directions.          *)
LatticePose == [at : Int \X Int, heading : 0 .. 3]
Move == [steer : Steers, dir : {Forward, Backward}]

(* A primitive leads from a pose to a pose. *)
LEMMA StepTyped ==
  ASSUME NEW p \in LatticePose, NEW m \in Move
  PROVE  BicycleStep(p, m) \in LatticePose
<1> DEFINE h == (p.heading + m.steer * m.dir) % 4
<1>1. /\ p.at[1] \in Int /\ p.at[2] \in Int /\ p.heading \in 0 .. 3
      /\ m.steer \in {-1, 0, 1} /\ m.dir \in {-1, 1}
  BY DEF LatticePose, Move, Steers, Left, Straight, Right, Forward, Backward
<1>2. m.steer * m.dir \in Int
  BY <1>1
<1>3. h \in 0 .. 3
  BY <1>1, <1>2
<1>4. ASSUME NEW k \in 0 .. 3
      PROVE  Unit(k)[1] \in {-1, 0, 1} /\ Unit(k)[2] \in {-1, 0, 1}
  BY DEF Unit
<1>5. ASSUME NEW u \in {-1, 0, 1}, NEW v \in {-1, 0, 1}, NEW x \in Int
      PROVE  x + m.dir * (u + v) \in Int
  BY <1>1
<1> DEFINE v == IF m.steer = Straight THEN <<0, 0>> ELSE Unit(h)
<1>6. v[1] \in {-1, 0, 1} /\ v[2] \in {-1, 0, 1}
  <2> HIDE DEF h
  <2> QED BY <1>3, <1>4
<1>7. BicycleStep(p, m) =
        [at |-> <<p.at[1] + m.dir * (Unit(p.heading)[1] + v[1]),
                  p.at[2] + m.dir * (Unit(p.heading)[2] + v[2])>>,
         heading |-> h]
  BY DEF BicycleStep
<1> HIDE DEF v, h
<1>8. /\ p.at[1] + m.dir * (Unit(p.heading)[1] + v[1]) \in Int
      /\ p.at[2] + m.dir * (Unit(p.heading)[2] + v[2]) \in Int
  BY <1>1, <1>4, <1>5, <1>6
<1> QED BY <1>3, <1>7, <1>8 DEF LatticePose

(* The poses on a chain of primitives. *)
Follows(at, p, ms) ==
  /\ at \in [0 .. Len(ms) -> LatticePose] /\ at[0] = p
  /\ \A i \in 1 .. Len(ms) : at[i] = BicycleStep(at[i - 1], ms[i])

(* Along is such a sequence of poses. *)
LEMMA AlongFollows ==
  ASSUME NEW p \in LatticePose, NEW ms \in Seq(Move)
  PROVE  Follows(Along(p, ms), p, ms)
<1> DEFINE N == Len(ms)
           step == [n \in 1 .. N |-> [x \in LatticePose |-> BicycleStep(x, ms[n])]]
           Chain(at) == at = [i \in 0 .. N |-> IF i = 0 THEN p ELSE BicycleStep(at[i - 1], ms[i])]
<1>1. N \in Nat /\ \A i \in 1 .. N : ms[i] \in Move
  OBVIOUS
<1>2. IsStep(step, N, LatticePose)
  BY <1>1, StepTyped DEF IsStep
<1>3. PICK f : Iterates(f, step, p, N, LatticePose)
  <2> HIDE DEF step, N
  <2> QED BY <1>1, <1>2, Iteration
<1>4. Chain(f)
  <2>1. f \in [0 .. N -> LatticePose] /\ f[0] = p
    BY <1>3 DEF Iterates
  <2>2. ASSUME NEW i \in 0 .. N PROVE f[i] = IF i = 0 THEN p ELSE BicycleStep(f[i - 1], ms[i])
    <3>1. CASE i = 0
      BY <2>1, <3>1
    <3>2. CASE i # 0
      <4>1. i \in 1 .. N /\ i - 1 \in 0 .. N
        BY <1>1, <3>2
      <4>2. f[i] = step[i][f[i - 1]] /\ f[i - 1] \in LatticePose
        BY <1>3, <2>1, <4>1 DEF Iterates
      <4> QED BY <3>2, <4>1, <4>2
    <3> QED BY <3>1, <3>2
  <2> HIDE DEF N
  <2> QED BY <2>1, <2>2
<1> DEFINE at == CHOOSE g : Chain(g)
<1>5. Chain(at)
  BY <1>4
<1>6. Along(p, ms) = at
  BY DEF Along
<1>7. at[0] = p /\ \A i \in 1 .. N : at[i] = BicycleStep(at[i - 1], ms[i])
  <2> HIDE DEF at
  <2>1. ASSUME NEW i \in 1 .. N PROVE i \in 0 .. N /\ i # 0
    BY <1>1
  <2>2. 0 \in 0 .. N
    BY <1>1
  <2> QED BY <1>5, <2>1, <2>2
<1>8. at \in [0 .. N -> LatticePose]
  <2> HIDE DEF at
  <2> DEFINE bad == {i \in 0 .. N : at[i] \notin LatticePose}
  <2>1. CASE bad = {}
    <3>1. DOMAIN at = 0 .. N /\ at = [i \in 0 .. N |-> at[i]]
      <4> HIDE DEF N, bad
      <4> QED BY <1>5
    <3>2. \A i \in 0 .. N : at[i] \in LatticePose
      BY <2>1
    <3> HIDE DEF N, bad
    <3> QED BY <3>1, <3>2
  <2>2. CASE bad # {}
    <3>1. PICK i \in bad : \A j \in bad : i <= j
      <4>1. bad \in SUBSET Nat
        BY <1>1
      <4> HIDE DEF bad
      <4> QED BY <2>2, <4>1, LeastExists, Zenon
    <3>2. i # 0
      BY <1>7
    <3>3. i \in 1 .. N /\ i - 1 \in 0 .. N /\ ~(i <= i - 1)
      BY <1>1, <3>2
    <3>4. at[i - 1] \in LatticePose
      BY <3>1, <3>3
    <3>5. at[i] \in LatticePose
      BY <1>1, <1>7, <3>3, <3>4, StepTyped
    <3> QED BY <3>5
  <2> QED BY <2>1, <2>2
<1> HIDE DEF at
<1> QED BY <1>6, <1>7, <1>8 DEF Follows

(* Chains that begin with the same primitives pass the same poses.         *)
LEMMA FollowsAlike ==
  ASSUME NEW p, NEW ms \in Seq(Move), NEW ns \in Seq(Move), NEW f, NEW g,
         Follows(f, p, ms), Follows(g, p, ns),
         NEW n \in Nat, n <= Len(ms), n <= Len(ns), \A i \in 1 .. n : ms[i] = ns[i]
  PROVE  \A i \in 0 .. n : f[i] = g[i]
<1> DEFINE bad == {i \in 0 .. n : f[i] # g[i]}
<1>1. CASE bad = {}
  BY <1>1
<1>2. CASE bad # {}
  <2>1. PICK i \in bad : \A j \in bad : i <= j
    <3>1. bad \in SUBSET Nat
      OBVIOUS
    <3> HIDE DEF bad
    <3> QED BY <1>2, <3>1, LeastExists, Zenon
  <2>2. i # 0
    BY DEF Follows
  <2>3. i \in 1 .. n /\ i - 1 \in 0 .. n /\ ~(i <= i - 1) /\ i \in 1 .. Len(ms) /\ i \in 1 .. Len(ns)
    BY <2>2
  <2>4. f[i - 1] = g[i - 1]
    BY <2>1, <2>3
  <2>5. f[i] = BicycleStep(f[i - 1], ms[i]) /\ g[i] = BicycleStep(g[i - 1], ns[i]) /\ ms[i] = ns[i]
    BY <2>3 DEF Follows
  <2> QED BY <2>4, <2>5
<1> QED BY <1>1, <1>2

(* One primitive more. *)
LEMMA AlongAppend ==
  ASSUME NEW p \in LatticePose, NEW ms \in Seq(Move), NEW m \in Move
  PROVE  /\ \A i \in 0 .. Len(ms) : Along(p, Append(ms, m))[i] = Along(p, ms)[i]
         /\ EndOf(p, Append(ms, m)) = BicycleStep(EndOf(p, ms), m)
<1> DEFINE ns == Append(ms, m)
           n == Len(ms)
<1>1. ns \in Seq(Move) /\ n \in Nat /\ Len(ns) = n + 1 /\ ns[n + 1] = m /\ \A i \in 1 .. n : ms[i] = ns[i]
  OBVIOUS
<1>2. Follows(Along(p, ms), p, ms) /\ Follows(Along(p, ns), p, ns)
  BY <1>1, AlongFollows
<1>3. \A i \in 0 .. n : Along(p, ns)[i] = Along(p, ms)[i]
  <2>1. n <= Len(ms) /\ n <= Len(ns)
    BY <1>1
  <2> HIDE DEF ns, n
  <2> QED BY <1>1, <1>2, <2>1, FollowsAlike
<1>4. Along(p, ns)[n + 1] = BicycleStep(Along(p, ns)[n], m)
  <2>1. n + 1 \in 1 .. Len(ns) /\ (n + 1) - 1 = n
    BY <1>1
  <2> HIDE DEF ns, n
  <2> QED BY <1>1, <1>2, <2>1 DEF Follows
<1>5. n \in 0 .. n
  BY <1>1
<1> HIDE DEF ns
<1> QED BY <1>1, <1>3, <1>4, <1>5 DEF EndOf, ns

(***************************************************************************)
(* Reeds-Shepp words are laid from the origin; the goal is brought into    *)
(* the frame of a node.                                                    *)
(***************************************************************************)

(* A pose of the frame of p, where it is on the lattice. *)
Moved(p, e) ==
  LET u == Unit(p.heading)
  IN  [at |-> <<p.at[1] + (e.at[1] * u[1] - e.at[2] * u[2]),
                p.at[2] + (e.at[1] * u[2] + e.at[2] * u[1])>>,
       heading |-> (e.heading + p.heading) % 4]

(* Turning a unit vector is multiplying by it. *)
LEMMA UnitTurns ==
  ASSUME NEW a \in 0 .. 3, NEW b \in 0 .. 3
  PROVE  /\ Unit((a + b) % 4)[1] = Unit(b)[1] * Unit(a)[1] - Unit(b)[2] * Unit(a)[2]
         /\ Unit((a + b) % 4)[2] = Unit(b)[1] * Unit(a)[2] + Unit(b)[2] * Unit(a)[1]
         /\ <<Unit(a)[1], Unit(a)[2]>> \in {<<1, 0>>, <<0, 1>>, <<-1, 0>>, <<0, -1>>}
<1> USE DEF Unit
<1>1. CASE a = 0
  BY <1>1
<1>2. CASE a = 1
  BY <1>2
<1>3. CASE a = 2
  BY <1>3
<1>4. CASE a = 3
  BY <1>4
<1> QED BY <1>1, <1>2, <1>3, <1>4

Quarters == {<<1, 0>>, <<0, 1>>, <<-1, 0>>, <<0, -1>>}
Signs    == {Forward, Backward}

(* Turning a frame commutes with one displacement in it. *)
Commutes(a, d, x, e, u, v) ==
  /\ (x[1] + (e[1] * a[1] - e[2] * a[2]))
        + d * ((u[1] * a[1] - u[2] * a[2]) + (v[1] * a[1] - v[2] * a[2]))
      = x[1] + ((e[1] + d * (u[1] + v[1])) * a[1] - (e[2] + d * (u[2] + v[2])) * a[2])
  /\ (x[2] + (e[1] * a[2] + e[2] * a[1]))
        + d * ((u[1] * a[2] + u[2] * a[1]) + (v[1] * a[2] + v[2] * a[1]))
      = x[2] + ((e[1] + d * (u[1] + v[1])) * a[2] + (e[2] + d * (u[2] + v[2])) * a[1])

(* A step in a turned frame is the turned step, coordinate by coordinate. *)
LEMMA FrameStep ==
  ASSUME NEW a \in Quarters, NEW d \in Signs, NEW x \in Int \X Int, NEW e \in Int \X Int,
         NEW u \in Int \X Int, NEW v \in Int \X Int
  PROVE  Commutes(a, d, x, e, u, v)
<1> USE DEF Commutes
<1>1. /\ x[1] \in Int /\ x[2] \in Int /\ e[1] \in Int /\ e[2] \in Int
      /\ u[1] \in Int /\ u[2] \in Int /\ v[1] \in Int /\ v[2] \in Int
  OBVIOUS
<1>2. \/ a[1] = 1 /\ a[2] = 0
      \/ a[1] = 0 /\ a[2] = 1
      \/ a[1] = -1 /\ a[2] = 0
      \/ a[1] = 0 /\ a[2] = -1
  BY DEF Quarters
<1>3. CASE d = 1
  BY <1>1, <1>2, <1>3
<1>4. CASE d = -1
  BY <1>1, <1>2, <1>4
<1> QED BY <1>3, <1>4 DEF Signs, Forward, Backward

(* The frame of a pose and a primitive commute. *)
LEMMA StepMoves ==
  ASSUME NEW p \in LatticePose, NEW e \in LatticePose, NEW m \in Move
  PROVE  /\ Moved(p, e) \in LatticePose
         /\ BicycleStep(Moved(p, e), m) = Moved(p, BicycleStep(e, m))
<1> DEFINE a == Unit(p.heading)
           turn == m.steer * m.dir
           f == BicycleStep(e, m)
           u == Unit(e.heading)
           v == IF m.steer = Straight THEN <<0, 0>> ELSE Unit(f.heading)
           mp == Moved(p, e)
           mu == Unit(mp.heading)
           mh == (mp.heading + turn) % 4
           mv == IF m.steer = Straight THEN <<0, 0>> ELSE Unit(mh)
<1>1. /\ p.at[1] \in Int /\ p.at[2] \in Int /\ p.heading \in 0 .. 3
      /\ e.at[1] \in Int /\ e.at[2] \in Int /\ e.heading \in 0 .. 3
      /\ m.steer \in {-1, 0, 1} /\ m.dir \in {-1, 1} /\ m.dir \in Int
  BY DEF LatticePose, Move, Steers, Left, Straight, Right, Forward, Backward
<1>2. turn \in {-1, 0, 1}
  BY <1>1
<1>3. f = [at |-> <<e.at[1] + m.dir * (u[1] + v[1]), e.at[2] + m.dir * (u[2] + v[2])>>,
           heading |-> (e.heading + turn) % 4]
  BY DEF BicycleStep
<1>4. f.heading = (e.heading + turn) % 4 /\ f.heading \in 0 .. 3
  <2> HIDE DEF turn, f
  <2> QED BY <1>1, <1>2, <1>3
<1>5. mp.heading = (e.heading + p.heading) % 4 /\ mp.heading \in 0 .. 3
  BY <1>1 DEF Moved
<1>6. mh = (f.heading + p.heading) % 4
  <2> HIDE DEF turn, f, mp
  <2>1. ASSUME NEW x \in 0 .. 3, NEW y \in 0 .. 3, NEW t \in {-1, 0, 1}
        PROVE  (((x + y) % 4) + t) % 4 = (((x + t) % 4) + y) % 4
    <3>1. CASE t = -1
      BY <3>1
    <3>2. CASE t = 0
      BY <3>2
    <3>3. CASE t = 1
      BY <3>3
    <3> QED BY <3>1, <3>2, <3>3
  <2>2. /\ mh = (((e.heading + p.heading) % 4) + turn) % 4
        /\ f.heading = (e.heading + turn) % 4
    BY <1>4, <1>5
  <2> QED BY <1>1, <1>2, <2>1, <2>2
<1>7. /\ mu[1] = u[1] * a[1] - u[2] * a[2]
      /\ mu[2] = u[1] * a[2] + u[2] * a[1]
      /\ <<a[1], a[2]>> \in {<<1, 0>>, <<0, 1>>, <<-1, 0>>, <<0, -1>>}
      /\ <<u[1], u[2]>> \in {<<1, 0>>, <<0, 1>>, <<-1, 0>>, <<0, -1>>}
  <2>1. mp.heading = (p.heading + e.heading) % 4
    <3> HIDE DEF mp
    <3> QED BY <1>1, <1>5
  <2>2. /\ Unit((p.heading + e.heading) % 4)[1] = u[1] * a[1] - u[2] * a[2]
        /\ Unit((p.heading + e.heading) % 4)[2] = u[1] * a[2] + u[2] * a[1]
        /\ <<a[1], a[2]>> \in {<<1, 0>>, <<0, 1>>, <<-1, 0>>, <<0, -1>>}
    BY <1>1, UnitTurns, Zenon
  <2>3. <<u[1], u[2]>> \in {<<1, 0>>, <<0, 1>>, <<-1, 0>>, <<0, -1>>}
    BY <1>1, UnitTurns, Zenon
  <2> HIDE DEF mp
  <2> QED BY <2>1, <2>2, <2>3
<1>8. a[1] \in Int /\ a[2] \in Int /\ u[1] \in Int /\ u[2] \in Int
  <2> HIDE DEF a, u
  <2> QED BY <1>7
<1>9. /\ mv[1] = v[1] * a[1] - v[2] * a[2]
      /\ mv[2] = v[1] * a[2] + v[2] * a[1]
      /\ v[1] \in Int /\ v[2] \in Int
  <2>1. CASE m.steer = Straight
    <3> HIDE DEF a, f
    <3> QED BY <2>1, <1>8
  <2>2. CASE m.steer # Straight
    <3>1. f.heading + p.heading = p.heading + f.heading
      <4> HIDE DEF f
      <4> QED BY <1>1, <1>4
    <3>2. /\ Unit(mh)[1] = Unit(f.heading)[1] * a[1] - Unit(f.heading)[2] * a[2]
          /\ Unit(mh)[2] = Unit(f.heading)[1] * a[2] + Unit(f.heading)[2] * a[1]
      <4> HIDE DEF f, mh
      <4>1. mh = (p.heading + f.heading) % 4
        BY <1>6, <3>1
      <4>2. /\ Unit((p.heading + f.heading) % 4)[1]
                 = Unit(f.heading)[1] * a[1] - Unit(f.heading)[2] * a[2]
            /\ Unit((p.heading + f.heading) % 4)[2]
                 = Unit(f.heading)[1] * a[2] + Unit(f.heading)[2] * a[1]
        BY <1>1, <1>4, UnitTurns, Zenon
      <4> QED BY <4>1, <4>2
    <3>3. Unit(f.heading)[1] \in Int /\ Unit(f.heading)[2] \in Int
      <4> HIDE DEF f
      <4> QED BY <1>4 DEF Unit
    <3> HIDE DEF f, mh, a
    <3> QED BY <2>2, <3>2, <3>3
  <2> QED BY <2>1, <2>2
<1>10. mp.at = <<p.at[1] + (e.at[1] * a[1] - e.at[2] * a[2]),
                 p.at[2] + (e.at[1] * a[2] + e.at[2] * a[1])>>
  BY DEF Moved
<1>11. BicycleStep(mp, m) =
         [at |-> <<mp.at[1] + m.dir * (mu[1] + mv[1]), mp.at[2] + m.dir * (mu[2] + mv[2])>>,
          heading |-> mh]
  BY DEF BicycleStep
<1>12. Moved(p, f) =
         [at |-> <<p.at[1] + (f.at[1] * a[1] - f.at[2] * a[2]),
                   p.at[2] + (f.at[1] * a[2] + f.at[2] * a[1])>>,
          heading |-> (f.heading + p.heading) % 4]
  BY DEF Moved
<1>13. /\ f.at[1] = e.at[1] + m.dir * (u[1] + v[1])
       /\ f.at[2] = e.at[2] + m.dir * (u[2] + v[2])
  <2> HIDE DEF f, u, v
  <2> QED BY <1>3
<1>14. mp \in LatticePose
  <2>1. mp = [at |-> mp.at, heading |-> mp.heading]
    BY DEF Moved
  <2>2. mp.at \in Int \X Int
    <3> HIDE DEF a, mp
    <3>1. ASSUME NEW x \in Int, NEW y \in Int, NEW z \in Int, NEW c \in Int, NEW d \in Int
          PROVE  x + (y * c - z * d) \in Int /\ x + (y * c + z * d) \in Int
      OBVIOUS
    <3> QED BY <1>1, <1>8, <1>10, <3>1
  <2> HIDE DEF mp
  <2> QED BY <1>5, <2>1, <2>2 DEF LatticePose
<1>15. BicycleStep(mp, m) = Moved(p, f)
  <2>1. /\ mp.at[1] = p.at[1] + (e.at[1] * a[1] - e.at[2] * a[2])
        /\ mp.at[2] = p.at[2] + (e.at[1] * a[2] + e.at[2] * a[1])
    <3> HIDE DEF mp, a
    <3> QED BY <1>10
  <2> HIDE DEF mp, a, u, v, mu, mv, mh, f
  <2>2. /\ mp.at[1] + m.dir * (mu[1] + mv[1]) = p.at[1] + (f.at[1] * a[1] - f.at[2] * a[2])
        /\ mp.at[2] + m.dir * (mu[2] + mv[2]) = p.at[2] + (f.at[1] * a[2] + f.at[2] * a[1])
    <3>1. /\ a \in Quarters /\ m.dir \in Signs
          /\ p.at \in Int \X Int /\ e.at \in Int \X Int
          /\ u \in Int \X Int /\ v \in Int \X Int
      <4>1. /\ \A k \in 0 .. 3 : Unit(k) \in Quarters
            /\ \A k \in Quarters : k \in Int \X Int
            /\ <<0, 0>> \in Int \X Int
        BY DEF Unit, Quarters
      <4>2. m.dir \in Signs /\ p.at \in Int \X Int /\ e.at \in Int \X Int
        BY DEF LatticePose, Move, Signs
      <4>3. a \in Quarters /\ u \in Quarters /\ v \in Int \X Int
        <5>1. Unit(f.heading) \in Quarters
          BY <1>4, <4>1, Zenon
        <5> QED BY <1>1, <4>1, <5>1, Zenon DEF a, u, v
      <4> QED BY <4>1, <4>2, <4>3, Zenon
    <3>2. Commutes(a, m.dir, p.at, e.at, u, v)
      BY <3>1, FrameStep, Zenon
    <3> QED BY <1>7, <1>9, <1>13, <2>1, <3>2, Zenon DEF Commutes
  <2> QED BY <1>6, <1>11, <1>12, <2>2
<1> QED BY <1>14, <1>15

(* A chain laid from p passes, moved, the poses it passes from the origin. *)
LEMMA ChainMoves ==
  ASSUME NEW p \in LatticePose, NEW ms \in Seq(Move)
  PROVE  EndOf(p, ms).at = Moved(p, EndOf(Origin, ms)).at
<1> DEFINE f == Along(p, ms)
           g == Along(Origin, ms)
           N == Len(ms)
<1>1. Origin \in LatticePose /\ N \in Nat
  BY DEF Origin, LatticePose
<1>2. Follows(f, p, ms) /\ Follows(g, Origin, ms)
  BY <1>1, AlongFollows
<1>3. Moved(p, Origin) = p
  <2>1. /\ p.at[1] \in Int /\ p.at[2] \in Int /\ p.heading \in 0 .. 3
        /\ p = [at |-> <<p.at[1], p.at[2]>>, heading |-> p.heading]
    BY DEF LatticePose
  <2>2. Unit(p.heading)[1] \in Int /\ Unit(p.heading)[2] \in Int
    BY <2>1 DEF Unit
  <2>3. ASSUME NEW x \in Int, NEW a \in Int, NEW b \in Int
        PROVE  x + (0 * a - 0 * b) = x /\ x + (0 * a + 0 * b) = x
    OBVIOUS
  <2>4. (0 + p.heading) % 4 = p.heading
    BY <2>1
  <2>5. Moved(p, Origin) =
          [at |-> <<p.at[1] + (0 * Unit(p.heading)[1] - 0 * Unit(p.heading)[2]),
                    p.at[2] + (0 * Unit(p.heading)[2] + 0 * Unit(p.heading)[1])>>,
           heading |-> (0 + p.heading) % 4]
    BY DEF Moved, Origin
  <2> QED BY <2>1, <2>2, <2>3, <2>4, <2>5
<1>4. \A i \in 0 .. N : f[i] = Moved(p, g[i])
  <2> DEFINE odd == {i \in 0 .. N : f[i] # Moved(p, g[i])}
  <2>1. CASE odd = {}
    BY <2>1
  <2>2. CASE odd # {}
    <3>1. PICK i \in odd : \A j \in odd : i <= j
      <4>1. odd \in SUBSET Nat
        BY <1>1
      <4> HIDE DEF odd
      <4> QED BY <2>2, <4>1, LeastExists, Zenon
    <3>2. f[0] = Moved(p, g[0])
      <4> HIDE DEF f, g
      <4> QED BY <1>2, <1>3 DEF Follows
    <3>3. i \in 1 .. N /\ i - 1 \in 0 .. N /\ ~(i <= i - 1)
      <4> HIDE DEF f, g
      <4> QED BY <1>1, <3>2
    <3>4. f[i - 1] = Moved(p, g[i - 1])
      <4> HIDE DEF f, g
      <4> QED BY <3>1, <3>3
    <3>5. ms[i] \in Move /\ g[i - 1] \in LatticePose
      <4> HIDE DEF g
      <4> QED BY <1>2, <3>3 DEF Follows
    <3>6. f[i] = BicycleStep(f[i - 1], ms[i]) /\ g[i] = BicycleStep(g[i - 1], ms[i])
      <4> HIDE DEF f, g
      <4> QED BY <1>2, <3>3 DEF Follows
    <3>7. f[i] = Moved(p, g[i])
      <4> HIDE DEF f, g
      <4> QED BY <3>4, <3>5, <3>6, StepMoves
    <3> QED BY <3>1, <3>7
  <2> QED BY <2>1, <2>2
<1> HIDE DEF f, g
<1>5. N \in 0 .. N
  BY <1>1
<1> QED BY <1>4, <1>5 DEF EndOf, f, g

(* The goal in the frame of a pose, moved there, is where the goal is. *)
LEMMA InFrameMoves ==
  ASSUME NEW p \in LatticePose, NEW q \in LatticePose
  PROVE  Moved(p, InFrame(p, q)).at = q.at
<1> DEFINE a == Unit(p.heading)[1]
           b == Unit(p.heading)[2]
           dx == q.at[1] - p.at[1]
           dy == q.at[2] - p.at[2]
<1>1. /\ p.at[1] \in Int /\ p.at[2] \in Int /\ p.heading \in 0 .. 3
      /\ q.at[1] \in Int /\ q.at[2] \in Int /\ q.at = <<q.at[1], q.at[2]>>
  BY DEF LatticePose
<1>2. <<a, b>> \in {<<1, 0>>, <<0, 1>>, <<-1, 0>>, <<0, -1>>} /\ a \in Int /\ b \in Int
  BY <1>1 DEF Unit
<1>3. Moved(p, InFrame(p, q)).at =
        <<p.at[1] + ((dx * a + dy * b) * a - (dy * a - dx * b) * b),
          p.at[2] + ((dx * a + dy * b) * b + (dy * a - dx * b) * a)>>
  BY DEF Moved, InFrame
<1>4. ASSUME NEW c \in Int, NEW d \in Int, <<c, d>> \in {<<1, 0>>, <<0, 1>>, <<-1, 0>>, <<0, -1>>},
             NEW x \in Int, NEW y \in Int
      PROVE  (x * c + y * d) * c - (y * c - x * d) * d = x
             /\ (x * c + y * d) * d + (y * c - x * d) * c = y
  BY <1>4
<1>5. dx \in Int /\ dy \in Int /\ p.at[1] + dx = q.at[1] /\ p.at[2] + dy = q.at[2]
  BY <1>1
<1> HIDE DEF a, b, dx, dy
<1> QED BY <1>1, <1>2, <1>3, <1>4, <1>5

(* A repeated primitive. *)
LEMMA RepeatTyped ==
  ASSUME NEW s \in Steers, NEW n \in Nat, NEW d \in {Forward, Backward}
  PROVE  Repeat(s, n, d) \in Seq(Move)
BY DEF Repeat, Move

(* Words are chains of one primitive at least. *)
LEMMA WordsTyped ==
  ASSUME NEW s \in Words
  PROVE  s \in Seq(Move) /\ Len(s) \in Nat \ {0}
<1>1. s # << >>
  BY DEF Words
<1>2. s \in Seq(Move)
  <2>1. /\ Left \in Steers /\ Straight \in Steers /\ Right \in Steers
        /\ -Left \in Steers /\ -Right \in Steers
        /\ -Forward \in {Forward, Backward} /\ -Backward \in {Forward, Backward}
        /\ \A t \in 0 .. 2 : t \in Nat
        /\ \A t \in 0 .. RsStraight : t \in Nat
    <3>1. \A t \in 0 .. RsStraight : t \in Nat
      BY SearchAssumption
    <3>2. Left \in Int /\ Right \in Int /\ Right + 1 = 0 /\ Backward \in Int /\ Backward + 1 = 0
      BY DEF Left, Right, Backward
    <3>3. \A x \in Int : x + 1 = 0 => -x = 1
      OBVIOUS
    <3>4. -Right = Left /\ -Backward = Forward
      BY <3>2, <3>3, Zenon DEF Left, Forward
    <3>5. -Left = Right /\ -Forward = Backward
      BY DEF Left, Right, Forward, Backward
    <3> QED BY <3>1, <3>4, <3>5 DEF Steers
  <2>2. ASSUME NEW x \in Seq(Move), NEW y \in Seq(Move), NEW z \in Seq(Move)
        PROVE  x \o y \o z \in Seq(Move)
    OBVIOUS
  <2>3. CASE s \in CSC
    <3>1. PICK l \in {Left, Right}, r \in {Left, Right}, t \in 0 .. 2, v \in 0 .. 2,
               u \in 0 .. RsStraight, d \in {Forward, Backward} :
            s = CurveStraightCurve(l, t, u, r, v, d)
      BY <2>3 DEF CSC
    <3>2. /\ Repeat(l, t, d) \in Seq(Move) /\ Repeat(Straight, u, d) \in Seq(Move)
          /\ Repeat(r, v, d) \in Seq(Move)
      BY <2>1, RepeatTyped
    <3> QED BY <2>2, <3>1, <3>2 DEF CurveStraightCurve
  <2>4. CASE s \in CCC
    <3>1. PICK l \in {Left, Right}, t \in 0 .. 2, u \in 0 .. 2, v \in 0 .. 2,
               d \in {Forward, Backward} :
            s = CurveCurveCurve(l, t, u, v, d)
      BY <2>4 DEF CCC
    <3>2. -l \in Steers /\ -d \in {Forward, Backward} /\ l \in Steers
      BY <2>1
    <3>3. /\ Repeat(l, t, d) \in Seq(Move) /\ Repeat(-l, u, -d) \in Seq(Move)
          /\ Repeat(l, v, d) \in Seq(Move)
      BY <2>1, <3>2, RepeatTyped
    <3> QED BY <2>2, <3>1, <3>3 DEF CurveCurveCurve
  <2> QED BY <2>3, <2>4 DEF Words
<1> QED BY <1>1, <1>2

(* A word laid from p to the goal ends at the goal. *)
LEMMA WordsReach ==
  ASSUME NEW p \in LatticePose, NEW q \in LatticePose, NEW s \in GenerateCandidates(p, q)
  PROVE  s \in Seq(Move) /\ Len(s) \in Nat \ {0} /\ EndOf(p, s).at = q.at
<1> DEFINE e == InFrame(p, q)
<1>1. e \in DOMAIN WordsTo /\ s \in WordsTo[e]
  BY DEF GenerateCandidates
<1>2. s \in Words /\ EndOf(Origin, s) = e
  <2> HIDE DEF e
  <2> QED BY <1>1 DEF WordsTo
<1>3. s \in Seq(Move) /\ Len(s) \in Nat \ {0}
  BY <1>2, WordsTyped
<1>4. EndOf(p, s).at = Moved(p, e).at
  <2> HIDE DEF e
  <2> QED BY <1>2, <1>3, ChainMoves
<1> QED BY <1>3, <1>4, InFrameMoves

(***************************************************************************)
(* Costs, and what is free.                                                *)
(***************************************************************************)

(* The least of a set of naturals. *)
LEMMA MinIsLeast ==
  ASSUME NEW S \in SUBSET Nat, S # {}
  PROVE  Min(S) \in S /\ \A x \in S : Min(S) <= x
<1>1. \E n \in S : \A m \in S : n <= m
  BY LeastExists
<1> QED BY <1>1, Zenon DEF Min

(* What the assumptions say of the constants. *)
LEMMA Constants ==
  /\ Width \in Nat /\ Height \in Nat /\ EscapeRadius \in Nat /\ HardBound \in Nat
  /\ CorridorCost \in Nat /\ ReentryMargin \in Nat /\ Travel \in Nat \ {0}
  /\ SteerCost \in Nat /\ ReverseFactor \in Nat \ {0} /\ SwitchCost \in Nat
  /\ ProximityCost \in Nat /\ Decay \in Nat
  /\ MaxIterations \in Nat /\ HeadingWeight \in Nat /\ GoalRadius \in Nat \ {0}
<1>1. /\ Width \in Nat /\ Height \in Nat /\ HardBound \in Nat
      /\ CorridorCost \in Nat /\ ReentryMargin \in Nat /\ Travel \in Nat \ {0}
      /\ SteerCost \in Nat
      /\ {EscapeRadius, ReverseFactor, SwitchCost, ProximityCost, Decay} \subseteq Nat
  BY LatticeAssumption DEF CorridorValid
<1>2. MaxIterations \in Nat /\ HeadingWeight \in Nat /\ GoalRadius \in Nat \ {0}
  BY SearchAssumption
<1>3. 1000 * ReverseFactor >= 1000
  BY AcceptedConfig
  DEF Config!HybridAStarValid, Config!Unit, Configured, Config!HybridAStarDefaults
<1>4. ReverseFactor # 0
  BY <1>3
<1> QED BY <1>1, <1>2, <1>4

(* Distances are natural, and bounded on the grid. *)
LEMMA ApartIsNatural ==
  ASSUME NEW p \in Int \X Int, NEW q \in Int \X Int
  PROVE  /\ Apart(p, q) \in Nat
         /\ p \in Cell /\ q \in Cell => Apart(p, q) <= Larger(Width, Height)
<1>1. p[1] \in Int /\ p[2] \in Int /\ q[1] \in Int /\ q[2] \in Int
  OBVIOUS
<1>2. Apart(p, q) \in Nat
  BY <1>1 DEF Apart, Larger, Gap
<1>3. ASSUME p \in Cell, q \in Cell PROVE Apart(p, q) <= Larger(Width, Height)
  <2>1. /\ p[1] \in 0 .. Width - 1 /\ p[2] \in 0 .. Height - 1
        /\ q[1] \in 0 .. Width - 1 /\ q[2] \in 0 .. Height - 1
    BY <1>3 DEF Cell
  <2> QED BY <2>1, Constants DEF Apart, Larger, Gap
<1> QED BY <1>2, <1>3

(* Cells have whole coordinates. *)
LEMMA CellsAreNumbers ==
  Cell \subseteq Int \X Int
BY Constants DEF Cell

(* So are the offsets from a reference. *)
LEMMA OffsetIsNatural ==
  ASSUME NEW w \in Problem, w.reference # {}, NEW p \in Int \X Int
  PROVE  /\ Offset(w, p) \in Nat
         /\ p \in Cell => Offset(w, p) <= Larger(Width, Height)
<1> DEFINE S == {Apart(p, q) : q \in w.reference}
<1>1. w.reference \subseteq Cell /\ w.reference \subseteq Int \X Int
  BY CellsAreNumbers DEF Problem
<1>2. S \in SUBSET Nat /\ S # {}
  BY <1>1, ApartIsNatural
<1>3. Min(S) \in S
  <2> HIDE DEF S
  <2> QED BY <1>2, MinIsLeast
<1>4. PICK q \in w.reference : Min(S) = Apart(p, q)
  <2> DEFINE m == Min(S)
  <2>1. m \in S
    BY <1>3
  <2> HIDE DEF m
  <2> QED BY <2>1 DEF m
<1>5. p \in Cell => Apart(p, q) <= Larger(Width, Height)
  BY <1>1, ApartIsNatural
<1>6. Offset(w, p) = Min(S)
  BY DEF Offset
<1> HIDE DEF S
<1> QED BY <1>2, <1>3, <1>4, <1>5, <1>6

(* The clearance is capped at the band. *)
LEMMA DistanceIsBounded ==
  ASSUME NEW w \in Problem, NEW p \in Cell
  PROVE  DistanceAt(w, p) \in 0 .. Decay
<1> DEFINE S == {Decay} \cup {Chamfer(p, q) : q \in w.occupied}
<1>1. w.occupied \subseteq Int \X Int /\ p \in Int \X Int
  BY CellsAreNumbers DEF Problem
<1>2. \A q \in w.occupied : Chamfer(p, q) \in Nat
  <2> SUFFICES ASSUME NEW q \in w.occupied PROVE Chamfer(p, q) \in Nat
    OBVIOUS
  <2>1. p[1] \in Int /\ p[2] \in Int /\ q[1] \in Int /\ q[2] \in Int
    BY <1>1
  <2> QED BY <2>1 DEF Chamfer, Larger, Smaller, Gap
<1>3. S \in SUBSET Nat /\ Decay \in S /\ Decay \in Nat
  BY <1>2, Constants
<1>4. DistanceAt(w, p) = Min(S)
  BY DEF DistanceAt, InBounds
<1> HIDE DEF S
<1>5. Min(S) \in S /\ Min(S) <= Decay
  BY <1>3, MinIsLeast
<1>6. Min(S) \in Nat
  BY <1>3, <1>5
<1>7. DistanceAt(w, p) \in Nat /\ DistanceAt(w, p) <= Decay
  BY <1>4, <1>5, <1>6, Zenon
<1> QED BY <1>3, <1>7

(* A share of c is between nothing and all of it. *)
LEMMA QuotientIsBounded ==
  ASSUME NEW c \in Nat, NEW d \in Nat \ {0}, NEW x \in 0 .. d
  PROVE  (c * (d - x)) \div d \in 0 .. c
<1> DEFINE y == c * (d - x)
           q == y \div d
<1>1. y \in Nat /\ y <= c * d
  <2>1. d - x \in Nat /\ d - x <= d
    OBVIOUS
  <2>2. \A u \in Nat : u <= d => c * u \in Nat /\ c * u <= c * d
    OBVIOUS
  <2> QED BY <2>1, <2>2
<1> HIDE DEF y
<1>2. q \in Int /\ q * d <= y /\ y < (q + 1) * d
  BY <1>1
<1> HIDE DEF q
<1>3. q >= 0
  <2> SUFFICES ASSUME q + 1 <= 0 PROVE FALSE
    BY <1>2
  <2>1. (q + 1) * d <= 0
    BY <1>2
  <2>2. (q + 1) * d \in Int
    BY <1>2
  <2> QED BY <1>1, <1>2, <2>1, <2>2
<1>4. q <= c
  <2> SUFFICES ASSUME q >= c + 1 PROVE FALSE
    BY <1>2
  <2>1. q * d >= (c + 1) * d
    BY <1>2
  <2>2. (c + 1) * d = c * d + d /\ c * d \in Nat /\ q * d \in Int
    BY <1>2
  <2> QED BY <1>1, <1>2, <2>1, <2>2
<1> QED BY <1>2, <1>3, <1>4 DEF q, y

(* A primitive costs its length, its steering, and no more than MostStep. *)
LEMMA StepCostBounds ==
  ASSUME NEW w \in Problem, NEW p \in Cell, NEW dir \in Signs, NEW m \in Move
  PROVE  /\ StepCost(w, p, dir, m) \in Nat
         /\ StepCost(w, p, dir, m) >= Travel + (IF m.steer = Straight THEN 0 ELSE SteerCost)
         /\ StepCost(w, p, dir, m) <= MostStep
<1> DEFINE t == TravelCost(m)
           a == IF m.steer = Straight THEN 0 ELSE SteerCost
           b == Proximity(w, p)
           c == Pull(w, p)
           d == SwitchingCost(dir, m)
           L == Larger(Width, Height)
<1>1. t \in Nat /\ Travel <= t /\ t <= Travel * ReverseFactor /\ Travel * ReverseFactor \in Nat
  <2>1. \A x \in Nat \ {0}, y \in Nat \ {0} : x * y \in Nat /\ x <= x * y
    OBVIOUS
  <2>2. Travel * ReverseFactor \in Nat /\ Travel <= Travel * ReverseFactor
    BY <2>1, Constants
  <2> QED BY <2>2, Constants DEF TravelCost
<1>2. a \in Nat /\ a <= SteerCost
  BY Constants
<1>3. b \in Nat /\ b <= ProximityCost
  <2>1. CASE Decay = 0
    BY <2>1, Constants DEF Proximity
  <2>2. CASE Decay # 0
    <3>1. b = (ProximityCost * (Decay - DistanceAt(w, p))) \div Decay
      BY <2>2 DEF Proximity
    <3>2. DistanceAt(w, p) \in 0 .. Decay
      BY DistanceIsBounded
    <3>3. (ProximityCost * (Decay - DistanceAt(w, p))) \div Decay \in 0 .. ProximityCost
      BY <2>2, <3>2, QuotientIsBounded, Constants
    <3> HIDE DEF b
    <3> QED BY <3>1, <3>3, Constants
  <2> QED BY <2>1, <2>2
<1>4. c \in Nat /\ c <= CorridorCost * L /\ CorridorCost * L \in Nat
  <2>1. L \in Nat
    BY Constants DEF Larger
  <2>2. \A x \in Nat, y \in Nat, z \in Nat : y <= z => x * y \in Nat /\ x * y <= x * z
    OBVIOUS
  <2>3. \A x \in Nat, y \in Nat : x * y \in Nat
    OBVIOUS
  <2>4. CorridorCost * L \in Nat
    BY <2>1, <2>3, Constants, Zenon
  <2>5. CASE w.reference = {}
    BY <2>4, <2>5 DEF Pull
  <2>6. CASE w.reference # {}
    <3>1. Offset(w, p) \in Nat /\ Offset(w, p) <= L
      BY <2>6, CellsAreNumbers, OffsetIsNatural
    <3>2. c = CorridorCost * Offset(w, p)
      BY <2>6 DEF Pull
    <3> HIDE DEF c, L
    <3> QED BY <2>1, <2>2, <2>4, <3>1, <3>2, Constants
  <2> QED BY <2>5, <2>6
<1>5. d \in Nat /\ d <= SwitchCost
  BY Constants DEF SwitchingCost
<1>6. StepCost(w, p, dir, m) = t + a + b + c + d
  BY DEF StepCost
<1>7. MostStep = Travel * ReverseFactor + SteerCost + SwitchCost + ProximityCost + CorridorCost * L
  BY DEF MostStep
<1> HIDE DEF t, a, b, c, d, L
<1>8. /\ StepCost(w, p, dir, m) \in Nat
      /\ StepCost(w, p, dir, m) >= Travel + a
      /\ StepCost(w, p, dir, m) <= MostStep
  BY <1>1, <1>2, <1>3, <1>4, <1>5, <1>6, <1>7, Constants
<1> QED BY <1>8 DEF a

(* What the planner may enter is what is free. *)
LEMMA FreeIsEnterable ==
  ASSUME NEW w, IsProblem(w), NEW p \in Int \X Int
  PROVE  Free(w, p) <=> ~PoseBlocked(w, p) /\ ~CorridorBlocked(w, p)
<1>1. w \in Problem /\ w.physical \subseteq w.occupied /\ w.occupied \subseteq Cell
  BY DEF IsProblem, Problem
<1>2. w.reference # {} => Offset(w, p) \in Int /\ Bound(w) \in Int
  <2> SUFFICES ASSUME w.reference # {} PROVE Offset(w, p) \in Int /\ Bound(w) \in Int
    OBVIOUS
  <2>1. w.start.at \in Int \X Int
    BY <1>1, CellsAreNumbers DEF Problem, Pose
  <2>2. Offset(w, p) \in Nat /\ Offset(w, w.start.at) \in Nat
    BY <1>1, <2>1, OffsetIsNatural
  <2> QED BY <2>2, Constants DEF Bound, Larger
<1>3. w.reference # {} => (Offset(w, p) <= Bound(w) <=> ~(Offset(w, p) > Bound(w)))
  BY <1>2
<1> QED BY <1>1, <1>3 DEF Free, PoseBlocked, CorridorBlocked, InZone, IsOccupied, InBounds, FootprintBlocked

(***************************************************************************)
(* Nodes, and the path found.                                              *)
(***************************************************************************)

NodeType == [moves : Seq(Move), pose : Pose, dir : Directions, g : Nat]

(* A node carries the chain of primitives that leads to it, and every pose *)
(* on the chain is free.                                                   *)
OnWay(w, n) ==
  /\ n \in NodeType /\ n.pose = EndOf(w.start, n.moves)
  /\ \A i \in 1 .. Len(n.moves) : Free(w, Along(w.start, n.moves)[i].at)

(* The poses of a problem are among them. *)
LEMMA PosesAreLattice ==
  Pose \subseteq LatticePose
BY CellsAreNumbers DEF Pose, LatticePose

(* The directions that are enabled. *)
LEMMA DirectionsAreSigns ==
  Directions \subseteq Signs /\ Forward \in Directions
BY DEF Directions, Signs

(* What a problem is. *)
LEMMA ProblemsTyped ==
  ASSUME NEW w \in Problems
  PROVE  IsProblem(w) /\ w \in Problem /\ w.start \in Pose /\ w.goal \in Pose
         /\ w.start \in LatticePose /\ w.goal \in LatticePose
BY LatticeAssumption, PosesAreLattice DEF IsProblem, Problem

(* The primitives the search tries. *)
LEMMA PrimitivesAreMoves ==
  [steer : Steers, dir : Directions] \subseteq Move
BY DEF Move, Directions

(* The root. *)
LEMMA StartOnWay ==
  ASSUME NEW w \in Problems
  PROVE  OnWay(w, StartNode(w))
<1> DEFINE n == StartNode(w)
<1>1. n.moves = << >> /\ n.pose = w.start /\ n \in NodeType /\ Len(n.moves) = 0
  BY ProblemsTyped, DirectionsAreSigns DEF StartNode, NodeType
<1>2. << >> \in Seq(Move) /\ w.start \in LatticePose
  BY ProblemsTyped
<1>3. Follows(Along(w.start, << >>), w.start, << >>)
  BY <1>2, AlongFollows
<1>4. EndOf(w.start, << >>) = w.start
  BY <1>1, <1>3 DEF EndOf, Follows
<1> QED BY <1>1, <1>4 DEF OnWay

(* A child that is free. *)
LEMMA ChildOnWay ==
  ASSUME world \in Problems, NEW n, OnWay(world, n),
         NEW m \in [steer : Steers, dir : Directions], Free(world, Child(n, m).pose.at)
  PROVE  /\ OnWay(world, Child(n, m))
         /\ Child(n, m).g = n.g + StepCost(world, Child(n, m).pose.at, n.dir, m)
         /\ Len(Child(n, m).moves) = Len(n.moves) + 1
<1> DEFINE c == Child(n, m)
           p == BicycleStep(n.pose, m)
           N == Len(n.moves)
<1>1. /\ n.moves \in Seq(Move) /\ n.pose \in Pose /\ n.pose \in LatticePose
      /\ n.dir \in Signs /\ n.g \in Nat /\ N \in Nat
  BY PosesAreLattice, DirectionsAreSigns DEF OnWay, NodeType
<1>2. m \in Move
  BY PrimitivesAreMoves
<1>3. c = [moves |-> Append(n.moves, m), pose |-> p, dir |-> m.dir,
           g |-> n.g + StepCost(world, p.at, n.dir, m)]
  BY DEF Child
<1>4. c.moves = Append(n.moves, m) /\ c.pose = p /\ c.dir = m.dir
      /\ c.g = n.g + StepCost(world, p.at, n.dir, m)
  BY <1>3
<1>5. p \in Pose
  <2>1. p \in LatticePose
    BY <1>1, <1>2, StepTyped
  <2>2. p.at \in Cell
    BY <1>4 DEF Free
  <2> HIDE DEF p
  <2> QED BY <2>1, <2>2 DEF LatticePose, Pose
<1>6. StepCost(world, p.at, n.dir, m) \in Nat
  <2>1. p.at \in Cell
    BY <1>5 DEF Pose
  <2> HIDE DEF p
  <2> QED BY <1>1, <1>2, <2>1, ProblemsTyped, StepCostBounds
<1>7. c \in NodeType
  <2>1. m.dir \in Directions
    OBVIOUS
  <2>2. Append(n.moves, m) \in Seq(Move)
    BY <1>1, <1>2
  <2> HIDE DEF p, c
  <2> QED BY <1>1, <1>3, <1>5, <1>6, <2>1, <2>2 DEF NodeType
<1>8. /\ \A i \in 0 .. N : Along(world.start, c.moves)[i] = Along(world.start, n.moves)[i]
      /\ EndOf(world.start, c.moves) = BicycleStep(EndOf(world.start, n.moves), m)
  BY <1>1, <1>2, <1>4, ProblemsTyped, AlongAppend
<1>9. Len(c.moves) = N + 1
  BY <1>1, <1>2, <1>4
<1>10. c.pose = EndOf(world.start, c.moves)
  BY <1>4, <1>8 DEF OnWay
<1>11. ASSUME NEW i \in 1 .. Len(c.moves) PROVE Free(world, Along(world.start, c.moves)[i].at)
  <2>1. CASE i \in 1 .. N
    <3>1. i \in 0 .. N
      BY <1>1, <2>1
    <3> HIDE DEF c
    <3> QED BY <1>8, <2>1, <3>1 DEF OnWay
  <2>2. CASE i = N + 1
    <3>1. Along(world.start, c.moves)[i] = c.pose
      <4> HIDE DEF c
      <4> QED BY <1>9, <1>10, <2>2 DEF EndOf
    <3> QED BY <3>1
  <2> HIDE DEF c
  <2> QED BY <1>1, <1>9, <2>1, <2>2
<1> HIDE DEF c
<1> QED BY <1>4, <1>7, <1>9, <1>10, <1>11 DEF OnWay, c

(* A path from the start of a problem to a place: free, and one primitive  *)
(* from waypoint to waypoint.                                              *)
PoseAt(path, i) == [at |-> path[i].at, heading |-> path[i].heading]
DrivesTo(w, path, p) ==
  /\ path \in Seq([at : Int \X Int, heading : 0 .. 3, dir : Signs]) /\ Len(path) \in Nat \ {0}
  /\ PoseAt(path, 1) = w.start /\ path[Len(path)].at = p
  /\ \A i \in 2 .. Len(path) :
       /\ Free(w, path[i].at)
       /\ \E s \in Steers :
            BicycleStep(PoseAt(path, i - 1), [steer |-> s, dir |-> path[i].dir]) = PoseAt(path, i)

(* The waypoints of a node's chain. *)
LEMMA ReconstructedDrives ==
  ASSUME world \in Problems, NEW n, OnWay(world, n)
  PROVE  DrivesTo(world, ReconstructPath(n), n.pose.at)
         /\ Len(ReconstructPath(n)) = Len(n.moves) + 1
         /\ PoseAt(ReconstructPath(n), Len(n.moves) + 1) = n.pose
<1> DEFINE ms == n.moves
           N == Len(ms)
           at == Along(world.start, ms)
           path == ReconstructPath(n)
           w(i) == [at |-> at[i - 1].at, heading |-> at[i - 1].heading,
                    dir |-> IF ms = << >> THEN n.dir ELSE ms[Larger(i - 1, 1)].dir]
<1>1. ms \in Seq(Move) /\ N \in Nat /\ n.dir \in Signs /\ world.start \in LatticePose
      /\ n.pose = EndOf(world.start, ms) /\ \A i \in 1 .. N : Free(world, at[i].at)
  BY ProblemsTyped, DirectionsAreSigns DEF OnWay, NodeType
<1>2. Follows(at, world.start, ms)
  BY <1>1, AlongFollows
<1>3. path = [i \in 1 .. N + 1 |-> w(i)]
  BY DEF ReconstructPath
<1> HIDE DEF at, path, ms
<1>4. ASSUME NEW i \in 1 .. N + 1
      PROVE  /\ w(i) \in [at : Int \X Int, heading : 0 .. 3, dir : Signs]
             /\ PoseAt(path, i) = at[i - 1] /\ path[i].at = at[i - 1].at
             /\ i # 1 => path[i].dir = ms[i - 1].dir
  <2>1. i - 1 \in 0 .. N
    BY <1>1
  <2>2. at[i - 1] \in LatticePose
    BY <1>2, <2>1 DEF Follows
  <2>3. path[i] = w(i)
    BY <1>3
  <2>4. at[i - 1].at \in Int \X Int /\ at[i - 1].heading \in 0 .. 3
        /\ at[i - 1] = [at |-> at[i - 1].at, heading |-> at[i - 1].heading]
    BY <2>2 DEF LatticePose
  <2>5. w(i).dir \in Signs
    <3>1. CASE ms = << >>
      BY <1>1, <3>1
    <3>2. CASE ms # << >>
      <4>1. Larger(i - 1, 1) \in 1 .. N
        BY <1>1, <3>2 DEF Larger
      <4>2. ms[Larger(i - 1, 1)] \in Move
        BY <1>1, <4>1
      <4> QED BY <3>2, <4>2 DEF Move, Signs
    <3> QED BY <3>1, <3>2
  <2>6. i # 1 => w(i).dir = ms[i - 1].dir
    <3> SUFFICES ASSUME i # 1 PROVE w(i).dir = ms[i - 1].dir
      OBVIOUS
    <3>1. N # 0 /\ Larger(i - 1, 1) = i - 1
      BY <1>1 DEF Larger
    <3>2. ms # << >>
      BY <3>1
    <3> QED BY <3>1, <3>2
  <2>7. w(i) = [at |-> at[i - 1].at, heading |-> at[i - 1].heading, dir |-> w(i).dir]
    OBVIOUS
  <2>8. path[i].at = at[i - 1].at /\ path[i].heading = at[i - 1].heading
    BY <2>3
  <2> QED BY <2>3, <2>4, <2>5, <2>6, <2>7, <2>8 DEF PoseAt
<1>5. path \in Seq([at : Int \X Int, heading : 0 .. 3, dir : Signs]) /\ Len(path) = N + 1
  <2> DEFINE W == [at : Int \X Int, heading : 0 .. 3, dir : Signs]
             K == N + 1
  <2>1. K \in Nat /\ \A i \in 1 .. K : w(i) \in W
    BY <1>1, <1>4
  <2>2. path = [i \in 1 .. K |-> path[i]] /\ \A i \in 1 .. K : path[i] = w(i)
    BY <1>3
  <2> HIDE DEF w, W, K
  <2>3. path \in Seq(W) /\ Len(path) = K
    BY <2>1, <2>2
  <2> QED BY <2>3 DEF W, K
<1>6. 1 \in 1 .. N + 1 /\ N + 1 \in 1 .. N + 1 /\ 1 - 1 = 0 /\ (N + 1) - 1 = N
  BY <1>1
<1>7. PoseAt(path, 1) = world.start
  BY <1>2, <1>4, <1>6 DEF Follows
<1>8. PoseAt(path, N + 1) = n.pose
  <2>1. PoseAt(path, N + 1) = at[(N + 1) - 1]
    BY <1>4, <1>6
  <2> QED BY <1>1, <1>6, <2>1 DEF EndOf, at
<1>9. path[N + 1].at = n.pose.at
  BY <1>8 DEF PoseAt
<1>10. ASSUME NEW i \in 2 .. Len(path)
       PROVE  /\ Free(world, path[i].at)
              /\ \E s \in Steers :
                   BicycleStep(PoseAt(path, i - 1), [steer |-> s, dir |-> path[i].dir])
                     = PoseAt(path, i)
  <2>1. /\ i - 1 \in 1 .. N /\ i \in 1 .. N + 1 /\ i # 1
        /\ i - 1 \in 1 .. N + 1 /\ (i - 1) - 1 = i - 2
    BY SMTT(20), <1>1, <1>5
  <2>2. PoseAt(path, i - 1) = at[(i - 1) - 1] /\ PoseAt(path, i) = at[i - 1]
        /\ path[i].at = at[i - 1].at /\ path[i].dir = ms[i - 1].dir
    BY <1>4, <2>1
  <2>3. at[i - 1] = BicycleStep(at[(i - 1) - 1], ms[i - 1])
    BY <1>2, <2>1 DEF Follows
  <2>4. ms[i - 1] \in Move
    BY <1>1, <2>1
  <2>5. ms[i - 1] = [steer |-> ms[i - 1].steer, dir |-> path[i].dir] /\ ms[i - 1].steer \in Steers
    BY <2>2, <2>4 DEF Move
  <2>6. Free(world, path[i].at)
    BY <1>1, <2>1, <2>2
  <2> QED BY <2>2, <2>3, <2>5, <2>6
<1>11. Len(path) \in Nat \ {0}
  BY <1>1, <1>5
<1>12. DrivesTo(world, path, n.pose.at)
  BY <1>5, <1>7, <1>9, <1>10, <1>11 DEF DrivesTo
<1> QED BY <1>5, <1>8, <1>12 DEF path, ms

(* A connection drives on from the node to the goal. *)
LEMMA ExtendedDrives ==
  ASSUME world \in Problems, NEW n, OnWay(world, n), NEW s \in Connections(n)
  PROVE  DrivesTo(world, Extended(n, s), world.goal.at)
<1> DEFINE N == Len(n.moves)
           M == Len(s)
           at == Along(n.pose, s)
           head == ReconstructPath(n)
           tail == [i \in DOMAIN s |-> [at |-> at[i].at, heading |-> at[i].heading, dir |-> s[i].dir]]
           path == head \o tail
           W == [at : Int \X Int, heading : 0 .. 3, dir : Signs]
<1>1. s \in GenerateCandidates(n.pose, world.goal) /\ Admissible(n.pose, s)
  BY DEF Connections
<1>2. n.pose \in LatticePose /\ N \in Nat /\ world.goal \in LatticePose /\ IsProblem(world)
  BY ProblemsTyped, PosesAreLattice, DirectionsAreSigns DEF OnWay, NodeType
<1>3. s \in Seq(Move) /\ M \in Nat \ {0} /\ EndOf(n.pose, s).at = world.goal.at
  BY <1>1, <1>2, WordsReach
<1>4. Follows(at, n.pose, s)
  BY <1>2, <1>3, AlongFollows
<1>5. /\ DrivesTo(world, head, n.pose.at) /\ Len(head) = N + 1 /\ PoseAt(head, N + 1) = n.pose
      /\ head \in Seq(W)
  BY ReconstructedDrives DEF DrivesTo
<1>6. DOMAIN s = 1 .. M
  BY <1>3
<1>7. \A i \in 1 .. M : ~PoseBlocked(world, at[i].at) /\ ~CorridorBlocked(world, at[i].at)
  BY <1>1, <1>6 DEF Admissible
<1> HIDE DEF at, head
<1>8. ASSUME NEW i \in 1 .. M
      PROVE  /\ at[i] \in LatticePose /\ s[i] \in Move
             /\ at[i] = BicycleStep(at[i - 1], s[i])
             /\ Free(world, at[i].at)
             /\ tail[i] \in W
             /\ tail[i].at = at[i].at /\ tail[i].heading = at[i].heading /\ tail[i].dir = s[i].dir
  <2>1. i \in 0 .. M /\ s[i] \in Move
    BY <1>3
  <2>2. at[i] \in LatticePose /\ at[i] = BicycleStep(at[i - 1], s[i])
    BY <1>4, <2>1 DEF Follows
  <2>3. at[i].at \in Int \X Int /\ at[i].heading \in 0 .. 3 /\ s[i].dir \in Signs
    BY <2>1, <2>2 DEF LatticePose, Move, Signs
  <2>4. Free(world, at[i].at)
    BY <1>2, <1>7, <2>3, FreeIsEnterable
  <2>5. tail[i] = [at |-> at[i].at, heading |-> at[i].heading, dir |-> s[i].dir]
    BY <1>6
  <2> QED BY <2>1, <2>2, <2>3, <2>4, <2>5
<1>9. tail \in Seq(W) /\ Len(tail) = M
  <2>1. tail = [i \in 1 .. M |-> tail[i]]
    BY <1>6
  <2>2. \A i \in 1 .. M : tail[i] \in W
    BY <1>8
  <2> HIDE DEF tail, W
  <2> QED BY <1>3, <2>1, <2>2
<1> HIDE DEF tail
<1>10. path \in Seq(W) /\ Len(path) = N + 1 + M
  <2> HIDE DEF W
  <2>1. path \in Seq(W) /\ Len(path) = Len(head) + Len(tail)
    BY <1>5, <1>9
  <2> HIDE DEF path, N, M
  <2> QED BY <1>5, <1>9, <2>1
<1>11. /\ \A i \in 1 .. N + 1 : path[i] = head[i]
       /\ \A i \in 1 .. M : path[N + 1 + i] = tail[i]
  <2> HIDE DEF W
  <2> QED BY <1>2, <1>3, <1>5, <1>9
<1> HIDE DEF path
<1>12. \A i \in 1 .. N + 1 : PoseAt(path, i) = PoseAt(head, i)
  BY <1>11 DEF PoseAt
<1>13. \A i \in 0 .. M : PoseAt(path, N + 1 + i) = at[i]
  <2> SUFFICES ASSUME NEW i \in 0 .. M PROVE PoseAt(path, N + 1 + i) = at[i]
    OBVIOUS
  <2>1. CASE i = 0
    <3>1. N + 1 + i = N + 1 /\ N + 1 \in 1 .. N + 1 /\ at[0] = n.pose
      BY <1>2, <1>4, <2>1 DEF Follows
    <3> QED BY <1>5, <1>12, <2>1, <3>1
  <2>2. CASE i # 0
    <3>1. i \in 1 .. M
      BY <1>3, <2>2
    <3>2. /\ path[N + 1 + i] = tail[i] /\ at[i] \in LatticePose
          /\ tail[i].at = at[i].at /\ tail[i].heading = at[i].heading
      BY <1>8, <1>11, <3>1
    <3>3. at[i] = [at |-> at[i].at, heading |-> at[i].heading]
      BY <3>2 DEF LatticePose
    <3> QED BY <3>2, <3>3 DEF PoseAt
  <2> QED BY <2>1, <2>2
<1>14. PoseAt(path, 1) = world.start
  <2>1. 1 \in 1 .. N + 1
    BY <1>2
  <2> QED BY <1>5, <1>12, <2>1 DEF DrivesTo
<1>15. path[Len(path)].at = world.goal.at
  <2>1. M \in 0 .. M
    BY <1>3
  <2>2. PoseAt(path, N + 1 + M) = at[M]
    BY <1>13, <2>1
  <2>3. path[N + 1 + M].at = at[M].at
    BY <2>2 DEF PoseAt
  <2> QED BY <1>3, <1>10, <2>3 DEF EndOf, at
<1>16. ASSUME NEW i \in 2 .. Len(path)
       PROVE  /\ Free(world, path[i].at)
              /\ \E t \in Steers :
                   BicycleStep(PoseAt(path, i - 1), [steer |-> t, dir |-> path[i].dir])
                     = PoseAt(path, i)
  <2>1. CASE i <= N + 1
    <3>1. i \in 2 .. Len(head) /\ i \in 1 .. N + 1 /\ i - 1 \in 1 .. N + 1
      BY <1>2, <1>5, <2>1
    <3>2. path[i] = head[i] /\ PoseAt(path, i) = PoseAt(head, i)
          /\ PoseAt(path, i - 1) = PoseAt(head, i - 1)
      BY <1>11, <1>12, <3>1
    <3> QED BY <1>5, <3>1, <3>2 DEF DrivesTo
  <2>2. CASE ~(i <= N + 1)
    <3> DEFINE j == i - (N + 1)
    <3>1. j \in 1 .. M /\ j \in 0 .. M /\ j - 1 \in 0 .. M /\ N + 1 + j = i /\ N + 1 + (j - 1) = i - 1
      <4>1. N \in Nat /\ M \in Nat /\ i \in 2 .. N + 1 + M
        BY <1>2, <1>3, <1>10
      <4> HIDE DEF N, M
      <4> QED BY <2>2, <4>1
    <3> HIDE DEF j
    <3>2. path[i] = tail[j]
      BY <1>11, <3>1
    <3>3. PoseAt(path, i) = at[j] /\ PoseAt(path, i - 1) = at[j - 1]
      BY <1>13, <3>1
    <3>4. /\ at[j] = BicycleStep(at[j - 1], s[j]) /\ Free(world, at[j].at)
          /\ tail[j].at = at[j].at /\ tail[j].dir = s[j].dir /\ s[j] \in Move
      BY <1>8, <3>1
    <3>5. s[j] = [steer |-> s[j].steer, dir |-> path[i].dir] /\ s[j].steer \in Steers
      BY <3>2, <3>4 DEF Move
    <3> QED BY <3>2, <3>3, <3>4, <3>5
  <2> QED BY <2>1, <2>2
<1>17. Len(path) \in Nat \ {0}
  BY <1>2, <1>3, <1>10
<1>18. DrivesTo(world, path, world.goal.at)
  BY <1>10, <1>14, <1>15, <1>16, <1>17 DEF DrivesTo
<1> QED BY <1>18 DEF Extended, path, head, tail, at

(* Every node carries a free chain. *)
NodesOnWay == world \in Problems /\ \A n \in open : OnWay(world, n)

(* The path found leads to the goal. *)
Driven == \E p : DrivesTo(world, raw, p) /\ Apart(p, world.goal.at) < GoalRadius

(* What DrivesTo says of the path found. *)
LEMMA DrivenIsDrivable == Driven => FoundPathIsDrivable
<1> SUFFICES ASSUME NEW p, DrivesTo(world, raw, p), Apart(p, world.goal.at) < GoalRadius
             PROVE  FoundPathIsDrivable
  BY DEF Driven
<1>1. raw[1].at = world.start.at /\ raw[1].heading = world.start.heading
  <2>1. PoseAt(raw, 1) = world.start
    BY DEF DrivesTo
  <2> QED BY <2>1 DEF PoseAt
<1>2. Apart(raw[Len(raw)].at, world.goal.at) < GoalRadius
  BY DEF DrivesTo
<1>3. \A i \in 2 .. Len(raw) :
        /\ Free(world, raw[i].at)
        /\ \E s \in Steers :
             BicycleStep(PoseAt(raw, i - 1), [steer |-> s, dir |-> raw[i].dir]) = PoseAt(raw, i)
  BY DEF DrivesTo
<1> QED BY <1>1, <1>2, <1>3, Zenon DEF FoundPathIsDrivable, PoseAt

(* A successor is a child that is free. *)
LEMMA SuccessorsAreFree ==
  ASSUME world \in Problems, NEW n, OnWay(world, n), NEW done, NEW c \in Successors(n, done)
  PROVE  \E m \in [steer : Steers, dir : Directions] : c = Child(n, m) /\ Free(world, c.pose.at)
<1>1. PICK m \in [steer : Steers, dir : Directions] : c = Child(n, m)
  BY DEF Successors, Children
<1>2. c.pose = BicycleStep(n.pose, m)
  BY <1>1 DEF Child
<1>3. n.pose \in LatticePose /\ m \in Move
  BY PosesAreLattice, PrimitivesAreMoves DEF OnWay, NodeType
<1>4. c.pose \in LatticePose
  BY <1>2, <1>3, StepTyped
<1>5. c.pose.at \in Int \X Int
  BY <1>4 DEF LatticePose
<1>6. ~PoseBlocked(world, c.pose.at) /\ ~CorridorBlocked(world, c.pose.at)
  BY DEF Successors
<1>7. Free(world, c.pose.at)
  BY <1>5, <1>6, ProblemsTyped, FreeIsEnterable
<1> QED BY <1>1, <1>7

(* The root carries one; nothing is found yet. *)
LEMMA NodesStart == Init => NodesOnWay /\ FoundPathIsDrivable
<1> SUFFICES ASSUME Init PROVE NodesOnWay /\ FoundPathIsDrivable
  OBVIOUS
<1>1. world \in Problems /\ open = {StartNode(world)} /\ phase = "searching"
  BY DEF Init
<1> QED BY <1>1, StartOnWay DEF NodesOnWay, FoundPathIsDrivable

(* A pop leaves it so. *)
LEMMA NodesKept == NodesOnWay /\ [Next]_vars => NodesOnWay'
<1> SUFFICES ASSUME NodesOnWay, [Next]_vars PROVE NodesOnWay'
  OBVIOUS
<1>1. CASE world' = world /\ open' \subseteq open
  BY <1>1 DEF NodesOnWay
<1>2. CASE Expand
  <2>1. PICK n \in open :
          world' = world /\ open' = (open \ {n}) \cup Successors(n, DOMAIN closed')
    BY <1>2 DEF Expand
  <2>2. ASSUME NEW c \in open' PROVE OnWay(world, c)
    <3>1. CASE c \in open
      BY <3>1 DEF NodesOnWay
    <3>2. CASE c \in Successors(n, DOMAIN closed')
      <4>1. world \in Problems /\ OnWay(world, n)
        BY DEF NodesOnWay
      <4>2. PICK m \in [steer : Steers, dir : Directions] :
              c = Child(n, m) /\ Free(world, c.pose.at)
        BY <3>2, <4>1, SuccessorsAreFree
      <4> QED BY <4>1, <4>2, ChildOnWay
    <3> QED BY <2>1, <2>2, <3>1, <3>2
  <2> QED BY <2>1, <2>2 DEF NodesOnWay
<1>3. CASE SkipClosed
  <2>1. world' = world /\ open' \subseteq open
    BY <1>3 DEF SkipClosed
  <2> QED BY <1>1, <2>1
<1>4. CASE TimeOut \/ Arrive \/ Connect \/ Exhaust \/ SmoothPath \/ UNCHANGED vars
  <2>1. world' = world /\ open' = open
    BY <1>4 DEF TimeOut, Arrive, Connect, Exhaust, SmoothPath, vars
  <2> QED BY <1>1, <2>1
<1> QED BY <1>2, <1>3, <1>4 DEF Next

(* What was found can be driven, for every grid, corridor and pocket. *)
THEOREM FoundPathsAreDrivable == Spec => []FoundPathIsDrivable
<1>1. ASSUME NodesOnWay, FoundPathIsDrivable, [Next]_vars PROVE FoundPathIsDrivable'
  <2>1. CASE Arrive
    <3>1. PICK n \in open : AtGoal(n) /\ raw' = ReconstructPath(n) /\ world' = world
      BY <2>1 DEF Arrive
    <3>2. world \in Problems /\ OnWay(world, n)
      BY <1>1 DEF NodesOnWay
    <3>3. DrivesTo(world, ReconstructPath(n), n.pose.at)
      BY <3>2, ReconstructedDrives
    <3>4. DrivesTo(world', raw', n.pose.at) /\ Apart(n.pose.at, world'.goal.at) < GoalRadius
      BY <3>1, <3>3 DEF AtGoal, Distance
    <3>5. Driven'
      BY <3>4 DEF Driven
    <3> QED BY <3>5, DrivenIsDrivable, PTL
  <2>2. CASE Connect
    <3>0. PICK n \in open :
            world' = world /\ \E s \in Connections(n) : raw' = Extended(n, s)
      BY <2>2 DEF Connect
    <3>1. PICK s \in Connections(n) : raw' = Extended(n, s) /\ world' = world
      BY <3>0
    <3>2. world \in Problems /\ OnWay(world, n)
      BY <1>1 DEF NodesOnWay
    <3>3. DrivesTo(world', raw', world'.goal.at)
      BY <3>1, <3>2, ExtendedDrives
    <3>4. Apart(world'.goal.at, world'.goal.at) < GoalRadius
      <4>1. world.goal.at \in Int \X Int
        BY <3>2, ProblemsTyped DEF LatticePose
      <4>2. world.goal.at[1] \in Int /\ world.goal.at[2] \in Int
        BY <4>1
      <4>3. Apart(world.goal.at, world.goal.at) = 0
        BY <4>2 DEF Apart, Gap, Larger
      <4> QED BY <3>1, <4>3, Constants
    <3>5. Driven'
      BY <3>3, <3>4 DEF Driven
    <3> QED BY <3>5, DrivenIsDrivable, PTL
  <2>3. CASE phase' # "found"
    BY <2>3 DEF FoundPathIsDrivable
  <2>4. CASE UNCHANGED <<world, raw, phase>>
    BY <1>1, <2>4 DEF FoundPathIsDrivable
  <2>5. TimeOut \/ Exhaust \/ SmoothPath => phase' # "found"
    BY DEF TimeOut, Exhaust, SmoothPath
  <2>6. SkipClosed \/ Expand \/ UNCHANGED vars => UNCHANGED <<world, raw, phase>>
    BY DEF SkipClosed, Expand, vars
  <2> QED BY <1>1, <2>1, <2>2, <2>3, <2>4, <2>5, <2>6 DEF Next
<1>2. NodesOnWay /\ FoundPathIsDrivable /\ [Next]_vars => FoundPathIsDrivable'
  BY <1>1
<1> QED BY <1>2, NodesStart, NodesKept, PTL DEF Spec

(***************************************************************************)
(* The reference search.                                                   *)
(***************************************************************************)

(* Turning the wheels the same way and driving the other way undoes a step. *)
LEMMA StepBack ==
  ASSUME NEW p \in LatticePose, NEW m \in Move, NEW b \in Signs, b + m.dir = 0
  PROVE  BicycleStep(BicycleStep(p, m), [steer |-> m.steer, dir |-> b]) = p
<1> DEFINE s == m.steer
           d == m.dir
           h == p.heading
           q == BicycleStep(p, m)
           k == (h + s * d) % 4
           u == Unit(h)
           v == Unit(k)
           z == <<0, 0>>
           back == [steer |-> s, dir |-> b]
<1>1. /\ p.at[1] \in Int /\ p.at[2] \in Int /\ h \in 0 .. 3 /\ s \in Steers /\ d \in Signs
      /\ p = [at |-> <<p.at[1], p.at[2]>>, heading |-> h]
  BY DEF LatticePose, Move, Signs
<1>2. /\ s \in {1, 0, -1} /\ d \in {1, -1} /\ b \in {1, -1} /\ b + d = 0
      /\ (s = Straight <=> s = 0)
  BY <1>1 DEF Steers, Signs, Left, Straight, Right, Forward, Backward
<1>3. k \in 0 .. 3 /\ (k + s * b) % 4 = h /\ (s = 0 => k = h)
  <2>1. \E t \in {1, 0, -1} : s * d = t /\ s * b + t = 0 /\ s * b \in {1, 0, -1} /\ (s = 0 => t = 0)
    <3> HIDE DEF s, d
    <3>1. CASE s = 0
      BY <1>2, <3>1
    <3>2. CASE s = 1
      BY <1>2, <3>2
    <3>3. CASE s = -1
      BY <1>2, <3>3
    <3> QED BY <1>2, <3>1, <3>2, <3>3
  <2>2. PICK t \in {1, 0, -1} : s * d = t /\ s * b + t = 0 /\ s * b \in {1, 0, -1} /\ (s = 0 => t = 0)
    BY <2>1
  <2> HIDE DEF s, d, h
  <2> QED BY <1>1, <2>2
<1>4. u[1] \in Int /\ u[2] \in Int /\ v[1] \in Int /\ v[2] \in Int
  <2>1. \A a \in 0 .. 3 : Unit(a)[1] \in Int /\ Unit(a)[2] \in Int
    BY DEF Unit
  <2> HIDE DEF h, k
  <2> QED BY <1>1, <1>3, <2>1, Zenon
<1>5. /\ q.heading = k
      /\ q.at[1] = p.at[1] + d * (u[1] + (IF s = Straight THEN z ELSE v)[1])
      /\ q.at[2] = p.at[2] + d * (u[2] + (IF s = Straight THEN z ELSE v)[2])
  BY DEF BicycleStep
<1>6. BicycleStep(q, back) =
        [at |-> <<q.at[1] + b * (v[1] + (IF s = Straight THEN z ELSE u)[1]),
                  q.at[2] + b * (v[2] + (IF s = Straight THEN z ELSE u)[2])>>,
         heading |-> h]
  <2>1. back.steer = s /\ back.dir = b
    OBVIOUS
  <2> HIDE DEF q, back, s, d, k
  <2> QED BY <1>3, <1>5, <2>1 DEF BicycleStep
<1> HIDE DEF q, s, d, h, k, u, v, z
<1>7. CASE s = Straight
  <2>1. u = v /\ z[1] = 0 /\ z[2] = 0
    BY <1>2, <1>3, <1>7 DEF u, v, z
  <2>2. /\ q.at[1] = p.at[1] + d * (u[1] + 0) /\ q.at[2] = p.at[2] + d * (u[2] + 0)
        /\ BicycleStep(q, back) =
             [at |-> <<q.at[1] + b * (u[1] + 0), q.at[2] + b * (u[2] + 0)>>, heading |-> h]
    BY <1>5, <1>6, <1>7, <2>1
  <2>3. q.at[1] + b * (u[1] + 0) = p.at[1] /\ q.at[2] + b * (u[2] + 0) = p.at[2]
    BY <1>1, <1>2, <1>4, <2>2 DEF d
  <2> QED BY <1>1, <2>2, <2>3 DEF q, back, s
<1>8. CASE s # Straight
  <2>1. q.at[1] + b * (v[1] + u[1]) = p.at[1] /\ q.at[2] + b * (v[2] + u[2]) = p.at[2]
    BY <1>1, <1>2, <1>4, <1>5, <1>8 DEF d
  <2>2. BicycleStep(q, back) =
          [at |-> <<q.at[1] + b * (v[1] + u[1]), q.at[2] + b * (v[2] + u[2])>>, heading |-> h]
    BY <1>6, <1>8
  <2> QED BY <1>1, <2>1, <2>2 DEF q, back, s
<1> QED BY <1>7, <1>8

(* The pose of a key, and the key one primitive on.                        *)
KeyPose(k) == [at |-> k[1], heading |-> k[2]]
KeyAfter(k, m) ==
  LET p == BicycleStep(KeyPose(k), m) IN <<p.at, p.heading, m.dir>>
OpenKeys == Cell \X (0 .. 3) \X Directions

(* The parts of a key. *)
LEMMA KeysTyped ==
  /\ OpenKeys \subseteq Keys /\ Directions \subseteq Signs
  /\ \A k \in Keys : k[1] \in Cell /\ k[2] \in 0 .. 3 /\ k[3] \in Signs /\ KeyPose(k) \in LatticePose
  /\ \A k \in OpenKeys : k[3] \in Directions
<1>1. Directions \subseteq Signs /\ Forward \in Signs /\ Backward \in Signs
  BY DEF Directions, Signs
<1>2. OpenKeys \subseteq Keys
  BY <1>1, Zenon DEF OpenKeys, Keys, Signs
<1>3. \A k \in Keys : k[1] \in Cell /\ k[2] \in 0 .. 3 /\ k[3] \in Signs
  BY DEF Keys, Signs
<1>4. \A k \in Keys : KeyPose(k) \in LatticePose
  BY <1>3, CellsAreNumbers DEF KeyPose, LatticePose
<1>5. \A k \in OpenKeys : k[3] \in Directions
  BY DEF OpenKeys
<1> QED BY <1>1, <1>2, <1>3, <1>4, <1>5

(* The opposite direction. *)
LEMMA Opposite ==
  ASSUME NEW d \in Signs
  PROVE  -d \in Signs /\ -d + d = 0 /\ d + (-d) = 0 /\ -(-d) = d
<1>1. d \in Int /\ Forward = 1 /\ Backward + 1 = 0 /\ Backward \in Int
  BY DEF Signs, Forward, Backward
<1>2. \A x \in Int : (x + 1 = 0 => -x = 1) /\ (x = 1 => -x + 1 = 0) /\ -(-x) = x
  OBVIOUS
<1>3. \A x \in Int, y \in Int : x + 1 = 0 /\ y + 1 = 0 => x = y
  OBVIOUS
<1>4. -d \in Int /\ -d + d = 0 /\ d + (-d) = 0
  BY <1>1
<1>5. -d \in Signs
  <2>1. CASE d = Forward
    BY <1>1, <1>2, <1>3, <1>4, <2>1, Zenon DEF Signs
  <2>2. CASE d = Backward
    BY <1>1, <1>2, <2>2, Zenon DEF Signs
  <2> QED BY <2>1, <2>2 DEF Signs
<1> QED BY <1>1, <1>2, <1>4, <1>5, Zenon

(* What Before leads back to. *)
LEMMA EntriesLeadHere ==
  ASSUME NEW w, NEW k \in Keys, NEW e \in Entries(w, k)
  PROVE  /\ k \in OpenKeys /\ Free(w, k[1])
         /\ Before(k, e[1], e[2]) \in OpenKeys /\ Before(k, e[1], e[2])[3] = e[2]
         /\ [steer |-> e[1], dir |-> k[3]] \in [steer : Steers, dir : Directions]
         /\ KeyAfter(Before(k, e[1], e[2]), [steer |-> e[1], dir |-> k[3]]) = k
<1> DEFINE m == [steer |-> e[1], dir |-> k[3]]
           back == [steer |-> e[1], dir |-> -k[3]]
           p == BicycleStep(KeyPose(k), back)
           b == Before(k, e[1], e[2])
<1>1. /\ e[1] \in Steers /\ e[2] \in Directions /\ k[3] \in Directions /\ Free(w, k[1])
      /\ b[1] \in Cell
  BY DEF Entries
<1>2. KeyPose(k) \in LatticePose /\ k[3] \in Signs /\ -k[3] \in Signs /\ k[3] + (-k[3]) = 0
      /\ -k[3] + k[3] = 0 /\ k = <<k[1], k[2], k[3]>> /\ k[1] \in Cell /\ k[2] \in 0 .. 3
  BY KeysTyped, Opposite DEF Keys
<1>3. m \in Move /\ back \in Move /\ back.steer = e[1] /\ back.dir = -k[3]
  BY <1>1, <1>2, Zenon DEF Move, Signs
<1>4. p \in LatticePose
  BY <1>2, <1>3, StepTyped
<1>5. b = <<p.at, p.heading, e[2]>>
  BY DEF Before, KeyPose
<1>6. b \in OpenKeys /\ b[3] = e[2] /\ KeyPose(b) = p
  <2>1. p.heading \in 0 .. 3 /\ p = [at |-> p.at, heading |-> p.heading] /\ p.at \in Cell
    BY <1>1, <1>4, <1>5 DEF LatticePose
  <2> HIDE DEF b, p
  <2> QED BY <1>1, <1>5, <2>1 DEF OpenKeys, KeyPose
<1>7. BicycleStep(p, m) = KeyPose(k)
  <2>1. m = [steer |-> back.steer, dir |-> k[3]] /\ k[3] + back.dir = 0
    BY <1>2, <1>3
  <2> HIDE DEF back, m
  <2> QED BY <1>2, <1>3, <2>1, StepBack, Zenon
<1>8. KeyAfter(b, m) = k
  <2> HIDE DEF b, p
  <2> QED BY <1>2, <1>6, <1>7 DEF KeyAfter, KeyPose
<1>9. k \in OpenKeys
  BY <1>1, <1>2 DEF OpenKeys
<1>10. m \in [steer : Steers, dir : Directions]
  BY <1>1
<1> HIDE DEF b, m
<1> QED BY <1>1, <1>6, <1>8, <1>9, <1>10 DEF b, m

(* A step into what is free is an entry. *)
LEMMA StepsAreEntries ==
  ASSUME NEW w, NEW k \in OpenKeys, NEW m \in [steer : Steers, dir : Directions],
         NEW j, j = KeyAfter(k, m), Free(w, j[1])
  PROVE  /\ j \in OpenKeys /\ j[3] = m.dir
         /\ <<m.steer, k[3]>> \in Entries(w, j) /\ Before(j, m.steer, k[3]) = k
<1> DEFINE p == KeyPose(k)
           q == BicycleStep(p, m)
<1>1. /\ k \in Keys /\ p \in LatticePose /\ m \in Move /\ k[3] \in Directions
      /\ k = <<k[1], k[2], k[3]>> /\ k[1] \in Cell
  BY KeysTyped, PrimitivesAreMoves DEF OpenKeys
<1>2. q \in LatticePose /\ m.dir \in Signs /\ m.dir \in Directions /\ m.steer \in Steers
  BY <1>1, StepTyped DEF Move, Signs
<1>3. j = <<q.at, q.heading, m.dir>> /\ KeyPose(j) = q
  BY <1>2 DEF KeyAfter, KeyPose, LatticePose
<1>4. q.at \in Cell /\ j \in OpenKeys
  BY <1>2, <1>3 DEF Free, OpenKeys, LatticePose
<1>5. BicycleStep(q, [steer |-> m.steer, dir |-> -m.dir]) = p
  BY <1>1, <1>2, Opposite, StepBack
<1>6. Before(j, m.steer, k[3]) = k
  <2>1. /\ KeyPose(j) = [at |-> j[1], heading |-> j[2]] /\ j[3] = m.dir
        /\ p.at = k[1] /\ p.heading = k[2]
    BY <1>3 DEF KeyPose
  <2> HIDE DEF p, q
  <2> QED BY <1>1, <1>3, <1>5, <2>1 DEF Before
<1>7. <<m.steer, k[3]>> \in Entries(w, j)
  BY <1>1, <1>2, <1>3, <1>6 DEF Entries
<1> QED BY <1>3, <1>4, <1>6, <1>7

(* Problems that differ in their goals only. *)
Alike(v, w) ==
  /\ v.start = w.start /\ v.occupied = w.occupied /\ v.physical = w.physical
  /\ v.reference = w.reference

(* The goal bears on neither what is free nor what a step costs. *)
LEMMA AlikeAlike ==
  ASSUME NEW v, NEW w, Alike(v, w)
  PROVE  /\ \A p : Free(v, p) <=> Free(w, p)
         /\ \A p, d, m : StepCost(v, p, d, m) = StepCost(w, p, d, m)
<1>1. /\ v.start = w.start /\ v.occupied = w.occupied /\ v.physical = w.physical
      /\ v.reference = w.reference
  BY DEF Alike
<1>2. ASSUME NEW p PROVE Offset(v, p) = Offset(w, p) /\ DistanceAt(v, p) = DistanceAt(w, p)
  <2>1. Offset(v, p) = Offset(w, p)
    BY <1>1, Zenon DEF Offset
  <2>2. DistanceAt(v, p) = DistanceAt(w, p)
    BY <1>1, Zenon DEF DistanceAt, InBounds
  <2> QED BY <2>1, <2>2
<1>3. Wedged(v) <=> Wedged(w)
  BY <1>1, Zenon DEF Wedged, IsOccupied, InBounds, FootprintBlocked
<1>4. Bound(v) = Bound(w)
  BY <1>1, <1>2, Zenon DEF Bound
<1>5. ASSUME NEW p PROVE Free(v, p) <=> Free(w, p)
  BY <1>1, <1>2, <1>3, <1>4, Zenon DEF Free
<1>6. ASSUME NEW p, NEW d, NEW m PROVE StepCost(v, p, d, m) = StepCost(w, p, d, m)
  <2>1. Proximity(v, p) = Proximity(w, p)
    BY <1>2, Zenon DEF Proximity
  <2>2. Pull(v, p) = Pull(w, p)
    BY <1>1, <1>2, Zenon DEF Pull
  <2> QED BY <2>1, <2>2, Zenon DEF StepCost
<1> QED BY <1>5, <1>6

(* The layout of a problem is one. *)
LEMMA LayoutAlike ==
  ASSUME NEW w \in Problems
  PROVE  Layout(w) \in Problem /\ Alike(Layout(w), w) /\ CheapestOf[Layout(w)] = Cheapest(Layout(w))
<1>1. w \in Problem /\ w.start \in Pose
  BY ProblemsTyped
<1>2. Layout(w) \in Problem /\ Alike(Layout(w), w)
  BY <1>1 DEF Layout, Alike, Problem
<1>3. CheapestOf[Layout(w)] = Cheapest(Layout(w))
  BY Zenon DEF CheapestOf
<1> QED BY <1>2, <1>3

(* No chain of as many primitives as there are iterations costs Infinity. *)
LEMMA InfinityIsNatural ==
  MostStep \in Nat /\ Infinity \in Nat
  /\ \A n \in 0 .. MaxIterations : n * MostStep \in Nat /\ n * MostStep < Infinity
<1>1. \A x \in Nat, y \in Nat : x * y \in Nat
  OBVIOUS
<1>2. /\ Travel * ReverseFactor \in Nat /\ CorridorCost * Larger(Width, Height) \in Nat
      /\ SteerCost \in Nat /\ SwitchCost \in Nat /\ ProximityCost \in Nat
  <2>1. Larger(Width, Height) \in Nat
    BY Constants DEF Larger
  <2> QED BY <1>1, <2>1, Constants, Zenon
<1>3. MostStep \in Nat
  BY <1>2 DEF MostStep
<1>4. MaxIterations \in Nat /\ MaxIterations * MostStep \in Nat
  BY <1>1, <1>3, Constants
<1>5. ASSUME NEW n \in 0 .. MaxIterations
      PROVE  n * MostStep \in Nat /\ n * MostStep <= MaxIterations * MostStep
  <2>1. \A x \in Nat, y \in Nat, z \in Nat : x <= y => x * z <= y * z
    OBVIOUS
  <2> QED BY <1>1, <1>3, <1>4, <2>1
<1> QED BY <1>3, <1>4, <1>5 DEF Infinity

(* Costs of keys, and one round of relaxation. *)
Costs == [Keys -> 0 .. Infinity]

(* A relaxed cost is the cost it had, Infinity, or that of an entry, and no *)
(* more than any of them.                                                  *)
LEMMA RelaxedLeast ==
  ASSUME NEW w \in Problem, NEW cost \in Costs
  PROVE  /\ Relaxed(w, cost) \in Costs
         /\ \A k \in Keys :
              /\ Relaxed(w, cost)[k] <= cost[k]
              /\ \A e \in Entries(w, k) :
                   Relaxed(w, cost)[k] <=
                     cost[Before(k, e[1], e[2])]
                       + StepCost(w, k[1], e[2], [steer |-> e[1], dir |-> k[3]])
              /\ \/ Relaxed(w, cost)[k] = cost[k]
                 \/ Relaxed(w, cost)[k] = Infinity
                 \/ \E e \in Entries(w, k) :
                      Relaxed(w, cost)[k] =
                        cost[Before(k, e[1], e[2])]
                          + StepCost(w, k[1], e[2], [steer |-> e[1], dir |-> k[3]])
<1> DEFINE Via(k, e) ==
             cost[Before(k, e[1], e[2])] + StepCost(w, k[1], e[2], [steer |-> e[1], dir |-> k[3]])
           Offers(k) == {Via(k, e) : e \in Entries(w, k)}
           All(k) == {cost[k], Infinity} \cup Offers(k)
           r == Relaxed(w, cost)
<1>1. r = [k \in Keys |-> Min(All(k))]
  BY DEF Relaxed
<1>2. ASSUME NEW k \in Keys
      PROVE  /\ r[k] \in 0 .. Infinity /\ r[k] <= cost[k]
             /\ \A e \in Entries(w, k) : r[k] <= Via(k, e)
             /\ \/ r[k] = cost[k] \/ r[k] = Infinity
                \/ \E e \in Entries(w, k) : r[k] = Via(k, e)
  <2>1. cost[k] \in Nat /\ Infinity \in Nat
    BY InfinityIsNatural DEF Costs
  <2>2. ASSUME NEW e \in Entries(w, k) PROVE Via(k, e) \in Nat
    <3>1. /\ Before(k, e[1], e[2]) \in Keys /\ k[1] \in Cell /\ e[2] \in Signs
          /\ [steer |-> e[1], dir |-> k[3]] \in Move
      BY EntriesLeadHere, KeysTyped, PrimitivesAreMoves
    <3>2. cost[Before(k, e[1], e[2])] \in Nat
      BY <3>1, InfinityIsNatural DEF Costs
    <3>3. StepCost(w, k[1], e[2], [steer |-> e[1], dir |-> k[3]]) \in Nat
      BY <3>1, StepCostBounds
    <3> QED BY <3>2, <3>3
  <2>3. All(k) \in SUBSET Nat /\ All(k) # {} /\ cost[k] \in All(k) /\ Infinity \in All(k)
        /\ \A e \in Entries(w, k) : Via(k, e) \in All(k)
    <3> HIDE DEF Via
    <3> QED BY <2>1, <2>2
  <2>4. r[k] = Min(All(k))
    BY <1>1
  <2>5. r[k] \in All(k) /\ \A x \in All(k) : r[k] <= x
    <3> HIDE DEF All, r
    <3> QED BY <2>3, <2>4, MinIsLeast
  <2>6. r[k] = cost[k] \/ r[k] = Infinity \/ \E e \in Entries(w, k) : r[k] = Via(k, e)
    <3> HIDE DEF Via, r
    <3> QED BY <2>5
  <2>7. r[k] \in Nat /\ r[k] <= Infinity /\ r[k] <= cost[k]
        /\ \A e \in Entries(w, k) : r[k] <= Via(k, e)
    <3> HIDE DEF All, r, Via
    <3> QED BY <2>3, <2>5
  <2> HIDE DEF r, Via
  <2> QED BY <2>1, <2>6, <2>7
<1>3. r \in Costs
  <2>1. r = [k \in Keys |-> r[k]]
    BY <1>1
  <2> HIDE DEF r
  <2> QED BY <1>2, <2>1 DEF Costs
<1> QED BY <1>2, <1>3

(* Rounds of relaxation. *)
StartKey(w) == <<w.start.at, w.start.heading, Forward>>
(* Each round relaxes the last. *)
LEMMA WithinIsRelaxed ==
  ASSUME NEW w \in Problem
  PROVE  /\ Within(w) \in [0 .. MaxIterations -> Costs]
         /\ Within(w)[0] = [k \in Keys |-> IF k = StartKey(w) THEN 0 ELSE Infinity]
         /\ \A n \in 1 .. MaxIterations : Within(w)[n] = Relaxed(w, Within(w)[n - 1])
<1> DEFINE N == MaxIterations
           base == [k \in Keys |-> IF k = StartKey(w) THEN 0 ELSE Infinity]
           step == [n \in 1 .. N |-> [c \in Costs |-> Relaxed(w, c)]]
           Round(best, n) == LET cost == best[n - 1]
                                 next == Relaxed(w, cost)
                             IN  IF next = cost THEN cost ELSE next
           Grows(best) == best = [n \in 0 .. N |-> IF n = 0 THEN base ELSE Round(best, n)]
<1>1. N \in Nat /\ base \in Costs
  BY Constants, InfinityIsNatural DEF Costs
<1>2. \A c \in Costs : Relaxed(w, c) \in Costs
  BY RelaxedLeast
<1>0. ASSUME NEW best, NEW n PROVE Round(best, n) = Relaxed(w, best[n - 1])
  OBVIOUS
<1>3. IsStep(step, N, Costs)
  BY <1>2 DEF IsStep
<1>4. PICK f : Iterates(f, step, base, N, Costs)
  <2> HIDE DEF step, N, base
  <2> QED BY <1>1, <1>3, Iteration
<1>5. /\ f \in [0 .. N -> Costs] /\ f[0] = base
      /\ \A n \in 1 .. N : f[n] = Relaxed(w, f[n - 1]) /\ f[n - 1] \in Costs
  <2>1. f \in [0 .. N -> Costs] /\ f[0] = base /\ \A n \in 1 .. N : f[n] = step[n][f[n - 1]]
    BY <1>4 DEF Iterates
  <2>2. ASSUME NEW n \in 1 .. N PROVE f[n] = Relaxed(w, f[n - 1]) /\ f[n - 1] \in Costs
    <3>1. n - 1 \in 0 .. N
      BY <1>1
    <3>2. f[n - 1] \in Costs
      BY <2>1, <3>1
    <3> QED BY <2>1, <3>2
  <2> QED BY <2>1, <2>2
<1>6. Grows(f)
  <2>1. ASSUME NEW n \in 0 .. N
        PROVE  f[n] = IF n = 0 THEN base ELSE Round(f, n)
    <3>1. CASE n = 0
      BY <1>5, <3>1
    <3>2. CASE n # 0
      <4>1. n \in 1 .. N
        BY <1>1, <3>2
      <4>2. f[n] = Relaxed(w, f[n - 1]) /\ f[n - 1] \in Costs
        BY <1>5, <4>1
      <4>3. Round(f, n) = Relaxed(w, f[n - 1])
        BY <1>0
      <4> HIDE DEF Round
      <4> QED BY <3>2, <4>2, <4>3
    <3> QED BY <3>1, <3>2
  <2>2. f = [n \in 0 .. N |-> f[n]]
    BY <1>5
  <2> HIDE DEF N, base
  <2> QED BY <2>1, <2>2
<1> DEFINE best == CHOOSE g : Grows(g)
<1>7. Within(w) = best
  BY DEF Within, StartKey
<1>8. Grows(best)
  <2> HIDE DEF Grows
  <2> QED BY <1>6
<1> HIDE DEF best
<1>9. ASSUME NEW n \in 0 .. N PROVE best[n] = IF n = 0 THEN base ELSE Round(best, n)
  <2> HIDE DEF N, base
  <2> QED BY <1>8
<1>10. \A n \in 1 .. N : best[n] = Relaxed(w, best[n - 1])
  <2> SUFFICES ASSUME NEW n \in 1 .. N PROVE best[n] = Relaxed(w, best[n - 1])
    OBVIOUS
  <2>1. n \in 0 .. N /\ n # 0
    BY <1>1
  <2>2. best[n] = Round(best, n)
    BY <1>9, <2>1
  <2> QED BY <1>0, <2>2
<1>11. best[0] = base
  BY <1>1, <1>9
<1>12. \A n \in 0 .. N : best[n] \in Costs
  <2> DEFINE bad == {n \in 0 .. N : best[n] \notin Costs}
  <2>1. CASE bad = {}
    BY <2>1
  <2>2. CASE bad # {}
    <3>1. PICK n \in bad : \A j \in bad : n <= j
      <4>1. bad \in SUBSET Nat
        BY <1>1
      <4> HIDE DEF bad
      <4> QED BY <2>2, <4>1, LeastExists, Zenon
    <3>2. n # 0
      BY <1>1, <1>11
    <3>3. n \in 1 .. N /\ n - 1 \in 0 .. N /\ ~(n <= n - 1)
      BY <1>1, <3>2
    <3>4. best[n - 1] \in Costs
      BY <3>1, <3>3
    <3>5. best[n] \in Costs
      BY <1>2, <1>10, <3>3, <3>4
    <3> QED BY <3>5
  <2> QED BY <2>1, <2>2
<1>13. \A n \in 1 .. N : n - 1 \in 0 .. N
  BY <1>1
<1>14. best \in [0 .. N -> Costs]
  <2>1. best = [n \in 0 .. N |-> best[n]]
    <3> HIDE DEF N, base
    <3> QED BY <1>8
  <2> HIDE DEF N
  <2> QED BY <1>12, <2>1
<1> QED BY <1>7, <1>10, <1>11, <1>12, <1>13, <1>14

(***************************************************************************)
(* Giving up.                                                              *)
(***************************************************************************)

KeyOf(n) == Discretize(n.pose, n.dir)

(* The keys of nodes. *)
LEMMA NodeKeys ==
  ASSUME world \in Problems, NEW n, OnWay(world, n)
  PROVE  /\ KeyOf(n) \in OpenKeys /\ KeyPose(KeyOf(n)) = n.pose
         /\ KeyOf(n)[1] = n.pose.at /\ KeyOf(n)[2] = n.pose.heading /\ KeyOf(n)[3] = n.dir
         /\ \A m \in [steer : Steers, dir : Directions] :
              /\ KeyOf(Child(n, m)) = KeyAfter(KeyOf(n), m)
              /\ KeyAfter(KeyOf(n), m)[1] = Child(n, m).pose.at
<1>1. n.pose \in Pose /\ n.dir \in Directions
  BY DEF OnWay, NodeType
<1>2. KeyOf(n) = <<n.pose.at, n.pose.heading, n.dir>>
  BY DEF KeyOf, Discretize
<1>3. KeyOf(n) \in OpenKeys /\ KeyPose(KeyOf(n)) = n.pose
  BY <1>1, <1>2 DEF OpenKeys, KeyPose, Pose
<1>4. ASSUME NEW m \in [steer : Steers, dir : Directions]
      PROVE  /\ KeyOf(Child(n, m)) = KeyAfter(KeyOf(n), m)
             /\ KeyAfter(KeyOf(n), m)[1] = Child(n, m).pose.at
  <2>1. Child(n, m).pose = BicycleStep(n.pose, m) /\ Child(n, m).dir = m.dir
    BY DEF Child
  <2> QED BY <1>3, <2>1 DEF KeyOf, Discretize, KeyAfter
<1> QED BY <1>2, <1>3, <1>4

(* A free child that is not closed is a successor. *)
LEMMA FreeAreSuccessors ==
  ASSUME world \in Problems, NEW n, OnWay(world, n), NEW done,
         NEW m \in [steer : Steers, dir : Directions],
         Free(world, Child(n, m).pose.at), KeyOf(Child(n, m)) \notin done
  PROVE  Child(n, m) \in Successors(n, done)
<1> DEFINE c == Child(n, m)
<1>1. c.pose.at \in Int \X Int
  BY CellsAreNumbers DEF Free
<1>2. ~PoseBlocked(world, c.pose.at) /\ ~CorridorBlocked(world, c.pose.at)
  BY <1>1, ProblemsTyped, FreeIsEnterable
<1>3. c \in Children(n) /\ Discretize(c.pose, c.dir) \notin done
  BY DEF Children, KeyOf
<1> HIDE DEF c
<1> QED BY <1>2, <1>3 DEF Successors, c

(* What the search knows of while it goes on: the start, and whatever one  *)
(* primitive leads to from a closed key, is closed or waits.  No closed    *)
(* key is at the goal.                                                     *)
Reached(k) == k \in DOMAIN closed \/ \E n \in open : KeyOf(n) = k
Frontier ==
  /\ DOMAIN closed \subseteq OpenKeys
  /\ Reached(StartKey(world))
  /\ \A k \in DOMAIN closed :
       /\ ~(Apart(k[1], world.goal.at) < GoalRadius)
       /\ \A m \in [steer : Steers, dir : Directions] :
            Free(world, KeyAfter(k, m)[1]) => Reached(KeyAfter(k, m))
GivesUpRightly ==
  /\ iterations \in Nat
  /\ phase = "searching" => Frontier
  /\ phase = "failed" => iterations > MaxIterations \/ (open = {} /\ Frontier)

(* A popped node that is closed, or becomes closed, leaves nothing behind. *)
LEMMA StaysReached ==
  ASSUME NEW n \in open, KeyOf(n) \in DOMAIN closed', DOMAIN closed \subseteq DOMAIN closed',
         open \ {n} \subseteq open'
  PROVE  \A k : Reached(k) => Reached(k)'
<1> SUFFICES ASSUME NEW k, Reached(k) PROVE Reached(k)'
  OBVIOUS
<1>1. CASE k \in DOMAIN closed
  BY <1>1 DEF Reached
<1>2. CASE \E o \in open : KeyOf(o) = k
  <2>1. PICK o \in open : KeyOf(o) = k
    BY <1>2
  <2>2. k \in DOMAIN closed' \/ o \in open'
    BY <2>1
  <2>3. KeyOf(o)' = KeyOf(o)
    BY DEF KeyOf, Discretize
  <2> QED BY <2>1, <2>2, <2>3 DEF Reached
<1> QED BY <1>1, <1>2 DEF Reached

(* The start waits. *)
LEMMA FrontierStarts == Init => GivesUpRightly
<1> SUFFICES ASSUME Init PROVE GivesUpRightly
  OBVIOUS
<1>1. /\ world \in Problems /\ open = {StartNode(world)} /\ closed = << >> /\ iterations = 0
      /\ phase = "searching"
  BY DEF Init
<1>2. DOMAIN closed = {}
  BY <1>1
<1>3. KeyOf(StartNode(world)) = StartKey(world)
  BY DEF KeyOf, Discretize, StartNode, StartKey
<1>4. Reached(StartKey(world))
  BY <1>1, <1>3 DEF Reached
<1> QED BY <1>1, <1>2, <1>4 DEF Frontier, GivesUpRightly

(* A pop closes its key and lets what can be entered from it wait. *)
LEMMA FrontierKept == NodesOnWay /\ GivesUpRightly /\ [Next]_vars => GivesUpRightly'
<1> SUFFICES ASSUME NodesOnWay, GivesUpRightly, [Next]_vars PROVE GivesUpRightly'
  OBVIOUS
<1>1. iterations \in Nat /\ world \in Problems /\ (phase = "searching" => Frontier)
  BY DEF GivesUpRightly, NodesOnWay
<1>2. CASE Expand
  <2>1. PICK n \in open :
          /\ phase = "searching" /\ phase' = phase /\ world' = world /\ iterations' = iterations + 1
          /\ ~AtGoal(n) /\ Close(n) /\ open' = (open \ {n}) \cup Successors(n, DOMAIN closed')
    BY <1>2 DEF Expand, Popped
  <2>2. OnWay(world, n) /\ Frontier
    BY <1>1, <2>1 DEF NodesOnWay
  <2>3. DOMAIN closed' = DOMAIN closed \cup {KeyOf(n)}
    BY <2>1 DEF Close, KeyOf
  <2>4. \A k : Reached(k) => Reached(k)'
    BY <2>1, <2>3, StaysReached
  <2>5. ASSUME NEW m \in [steer : Steers, dir : Directions],
               Free(world, KeyAfter(KeyOf(n), m)[1])
        PROVE  Reached(KeyAfter(KeyOf(n), m))'
    <3> DEFINE j == KeyAfter(KeyOf(n), m)
    <3>1. KeyOf(Child(n, m)) = j /\ Free(world, Child(n, m).pose.at)
      BY <1>1, <2>2, <2>5, NodeKeys
    <3>2. CASE j \in DOMAIN closed'
      BY <3>2 DEF Reached
    <3>3. CASE j \notin DOMAIN closed'
      <4>1. Child(n, m) \in open'
        BY <1>1, <2>1, <2>2, <3>1, <3>3, FreeAreSuccessors
      <4>2. PICK c \in open' : KeyOf(c) = j
        BY <3>1, <4>1
      <4>3. (\E o \in open : KeyOf(o) = j)'
        BY <4>2 DEF KeyOf, Discretize, KeyAfter, KeyPose, BicycleStep
      <4> QED BY <4>3 DEF Reached
    <3> QED BY <3>2, <3>3
  <2>6. KeyOf(n) \in OpenKeys /\ ~(Apart(KeyOf(n)[1], world.goal.at) < GoalRadius)
    BY <1>1, <2>1, <2>2, NodeKeys DEF AtGoal, Distance
  <2>7. Frontier'
    <3>1. DOMAIN closed' \subseteq OpenKeys
      BY <2>2, <2>3, <2>6 DEF Frontier
    <3>2. Reached(StartKey(world))'
      <4>1. Reached(StartKey(world))
        BY <2>2 DEF Frontier
      <4> QED BY <2>1, <2>4, <4>1 DEF Reached
    <3>3. ASSUME NEW k \in DOMAIN closed'
          PROVE  /\ ~(Apart(k[1], world.goal.at) < GoalRadius)
                 /\ \A m \in [steer : Steers, dir : Directions] :
                      Free(world, KeyAfter(k, m)[1]) => Reached(KeyAfter(k, m))'
      <4>1. CASE k = KeyOf(n)
        BY <2>5, <2>6, <4>1
      <4>2. CASE k \in DOMAIN closed
        BY <2>2, <2>4, <4>2 DEF Frontier
      <4> QED BY <2>3, <4>1, <4>2
    <3> QED BY <2>1, <3>1, <3>2, <3>3 DEF Frontier
  <2> QED BY <1>1, <2>1, <2>7 DEF GivesUpRightly
<1>3. CASE SkipClosed
  <2>1. PICK n \in open :
          /\ phase = "searching" /\ phase' = phase /\ world' = world /\ iterations' = iterations + 1
          /\ IsClosed(n) /\ open' = open \ {n} /\ closed' = closed
    BY <1>3 DEF SkipClosed, Popped
  <2>2. \A k : Reached(k) => Reached(k)'
    BY <2>1, StaysReached DEF IsClosed, KeyOf
  <2>3. Frontier'
    BY <1>1, <2>1, <2>2 DEF Frontier
  <2> QED BY <1>1, <2>1, <2>3 DEF GivesUpRightly
<1>4. CASE TimeOut
  <2>1. phase' = "failed" /\ iterations' = iterations + 1 /\ iterations >= MaxIterations
    BY <1>4 DEF TimeOut, Popped
  <2> QED BY <1>1, <2>1, Constants DEF GivesUpRightly
<1>5. CASE Arrive \/ Connect
  <2>1. phase' = "found" /\ iterations' = iterations + 1
    BY <1>5 DEF Arrive, Connect, Popped
  <2> QED BY <1>1, <2>1 DEF GivesUpRightly
<1>6. CASE Exhaust
  <2>1. /\ phase = "searching" /\ open = {} /\ phase' = "failed"
        /\ UNCHANGED <<world, open, closed, iterations>>
    BY <1>6 DEF Exhaust
  <2>2. Frontier'
    BY <1>1, <2>1 DEF Frontier, Reached
  <2> QED BY <1>1, <2>1, <2>2 DEF GivesUpRightly
<1>7. CASE SmoothPath
  <2>1. phase' = "published" /\ iterations' = iterations
    BY <1>7 DEF SmoothPath
  <2> QED BY <1>1, <2>1 DEF GivesUpRightly
<1>8. CASE UNCHANGED vars
  BY <1>8 DEF vars, GivesUpRightly, Frontier, Reached
<1> QED BY <1>2, <1>3, <1>4, <1>5, <1>6, <1>7, <1>8 DEF Next

(* Nothing is left to expand: no chain of any length leads out of what is  *)
(* closed.                                                                 *)
LEMMA NothingBeyond ==
  ASSUME world \in Problems, Frontier, open = {}, NEW k \in Keys, k \notin DOMAIN closed
  PROVE  CheapestOf[Layout(world)][k] = Infinity
<1> DEFINE l == Layout(world)
           N == MaxIterations
           best == Within(l)
           Beyond(n) == \A j \in Keys : j \notin DOMAIN closed => best[n][j] = Infinity
           bad == {n \in 0 .. N : ~Beyond(n)}
<1>1. /\ l \in Problem /\ Alike(l, world) /\ CheapestOf[l] = Cheapest(l)
      /\ N \in Nat /\ Infinity \in Nat
  BY LayoutAlike, Constants, InfinityIsNatural
<1>2. /\ best \in [0 .. N -> Costs]
      /\ best[0] = [j \in Keys |-> IF j = StartKey(l) THEN 0 ELSE Infinity]
      /\ \A n \in 1 .. N : best[n] = Relaxed(l, best[n - 1])
  BY <1>1, WithinIsRelaxed
<1>3. \A j \in OpenKeys : Reached(j) => j \in DOMAIN closed
  BY DEF Reached
<1>4. Beyond(0)
  <2>1. StartKey(l) = StartKey(world)
    BY <1>1 DEF StartKey, Alike
  <2>2. StartKey(world) \in DOMAIN closed
    BY DEF Frontier, Reached
  <2> HIDE DEF l, best
  <2> QED BY <1>2, <2>1, <2>2
<1>5. ASSUME NEW n \in 1 .. N, Beyond(n - 1) PROVE Beyond(n)
  <2> SUFFICES ASSUME NEW j \in Keys, j \notin DOMAIN closed PROVE best[n][j] = Infinity
    OBVIOUS
  <2>1. n - 1 \in 0 .. N /\ best[n - 1] \in Costs /\ best[n] = Relaxed(l, best[n - 1])
    <3>1. n - 1 \in 0 .. N
      BY <1>1
    <3> HIDE DEF best, N
    <3> QED BY <1>2, <3>1
  <2>2. best[n - 1][j] = Infinity
    BY <1>5
  <2>3. ASSUME NEW e \in Entries(l, j)
        PROVE  /\ best[n - 1][Before(j, e[1], e[2])] = Infinity
               /\ StepCost(l, j[1], e[2], [steer |-> e[1], dir |-> j[3]]) \in Nat
    <3> DEFINE b == Before(j, e[1], e[2])
               m == [steer |-> e[1], dir |-> j[3]]
    <3>1. /\ j \in OpenKeys /\ Free(l, j[1]) /\ b \in OpenKeys
          /\ b[3] = e[2] /\ m \in [steer : Steers, dir : Directions] /\ KeyAfter(b, m) = j
      BY EntriesLeadHere
    <3>2. Free(world, j[1])
      BY <1>1, <3>1, AlikeAlike
    <3>3. b \notin DOMAIN closed
      <4> HIDE DEF b, m
      <4> QED BY <1>3, <3>1, <3>2 DEF Frontier
    <3>4. b \in Keys /\ e[2] \in Signs /\ m \in Move /\ j[1] \in Cell
      BY <3>1, KeysTyped, PrimitivesAreMoves
    <3>5. best[n - 1][b] = Infinity
      BY <1>5, <3>3, <3>4
    <3>6. StepCost(l, j[1], e[2], m) \in Nat
      BY <1>1, <3>4, StepCostBounds
    <3> QED BY <3>5, <3>6
  <2> DEFINE cost == best[n - 1]
             x == Relaxed(l, cost)[j]
  <2>4. /\ x <= cost[j] /\ x \in Nat
        /\ \/ x = cost[j] \/ x = Infinity
           \/ \E e \in Entries(l, j) :
                x = cost[Before(j, e[1], e[2])]
                      + StepCost(l, j[1], e[2], [steer |-> e[1], dir |-> j[3]])
    <3>1. cost \in Costs
      BY <2>1
    <3> HIDE DEF cost, l
    <3>2. Relaxed(l, cost) \in Costs
      BY <1>1, <3>1, RelaxedLeast
    <3>3. x \in Nat
      <4> HIDE DEF x
      <4>1. x \in 0 .. Infinity
        BY <3>2 DEF Costs, x
      <4> QED BY <1>1, <4>1
    <3> QED BY <1>1, <3>1, <3>3, RelaxedLeast
  <2>5. x >= Infinity
    <3>1. CASE x = cost[j] \/ x = Infinity
      <4> HIDE DEF x
      <4> QED BY <1>1, <2>2, <3>1
    <3>2. CASE \E e \in Entries(l, j) :
                 x = cost[Before(j, e[1], e[2])]
                       + StepCost(l, j[1], e[2], [steer |-> e[1], dir |-> j[3]])
      <4>1. PICK e \in Entries(l, j) :
              x = cost[Before(j, e[1], e[2])]
                    + StepCost(l, j[1], e[2], [steer |-> e[1], dir |-> j[3]])
        BY <3>2
      <4> DEFINE y == cost[Before(j, e[1], e[2])]
                 z == StepCost(l, j[1], e[2], [steer |-> e[1], dir |-> j[3]])
      <4>2. y = Infinity /\ z \in Nat /\ x = y + z
        BY <2>3, <4>1
      <4> HIDE DEF x, y, z
      <4> QED BY <1>1, <4>2
    <3> QED BY <2>4, <3>1, <3>2
  <2>6. x = Infinity /\ best[n][j] = x
    <3>1. x <= Infinity /\ best[n][j] = x
      BY <2>1, <2>2, <2>4
    <3> HIDE DEF x
    <3> QED BY <1>1, <2>4, <2>5, <3>1
  <2> QED BY <2>6
<1>6. Beyond(N)
  <2>1. CASE bad = {}
    <3>1. N \in 0 .. N
      BY <1>1
    <3> QED BY <2>1, <3>1
  <2>2. CASE bad # {}
    <3>1. PICK n \in bad : \A j \in bad : n <= j
      <4>1. bad \in SUBSET Nat
        BY <1>1
      <4> HIDE DEF bad
      <4> QED BY <2>2, <4>1, LeastExists, Zenon
    <3>2. n \in 0 .. N /\ ~Beyond(n)
      OBVIOUS
    <3> HIDE DEF Beyond
    <3>3. n # 0
      BY <1>4, <3>2
    <3>4. n \in 1 .. N /\ n - 1 \in 0 .. N /\ ~(n <= n - 1)
      BY <1>1, <3>2, <3>3
    <3>5. Beyond(n - 1)
      BY <3>1, <3>4
    <3> QED BY <1>5, <3>2, <3>4, <3>5
  <2> QED BY <2>1, <2>2
<1>7. CheapestOf[l][k] = best[N][k]
  BY <1>1 DEF Cheapest
<1> HIDE DEF best, l, N
<1> QED BY <1>6, <1>7 DEF l

(* The search gives up for a cause, whatever the problem.                  *)
THEOREM FailuresHaveACause == Spec => []FailsOnlyForCause
<1>1. NodesOnWay /\ GivesUpRightly => FailsOnlyForCause
  <2> SUFFICES ASSUME NodesOnWay, GivesUpRightly, phase = "failed", ~(iterations > MaxIterations),
                      NEW k \in Keys, Apart(k[1], world.goal.at) < GoalRadius
               PROVE  CheapestOf[Layout(world)][k] = Infinity
    BY DEF FailsOnlyForCause
  <2>1. world \in Problems /\ open = {} /\ Frontier
    BY DEF NodesOnWay, GivesUpRightly
  <2>2. k \notin DOMAIN closed
    BY <2>1 DEF Frontier
  <2> QED BY <2>1, <2>2, NothingBeyond
<1>2. Init => NodesOnWay /\ GivesUpRightly
  BY NodesStart, FrontierStarts
<1>3. NodesOnWay /\ GivesUpRightly /\ [Next]_vars => NodesOnWay' /\ GivesUpRightly'
  BY NodesKept, FrontierKept
<1> QED BY <1>1, <1>2, <1>3, PTL DEF Spec

(***************************************************************************)
(* The heuristic.  A turn that costs no less than the heuristic takes it   *)
(* for makes the heuristic consistent.                                     *)
(***************************************************************************)

Consistent == HeadingWeight <= SteerCost

(* A primitive moves by one unit at most along either axis, and turns by a *)
(* quarter at most.                                                        *)
LEMMA StepReaches ==
  ASSUME NEW p \in LatticePose, NEW m \in Move
  PROVE  /\ BicycleStep(p, m).at[1] - p.at[1] \in {-1, 0, 1}
         /\ BicycleStep(p, m).at[2] - p.at[2] \in {-1, 0, 1}
         /\ \E t \in {-1, 0, 1} : /\ BicycleStep(p, m).heading = (p.heading + t) % 4
                                  /\ m.steer = Straight => t = 0
<1> DEFINE h == p.heading
           k == (h + m.steer * m.dir) % 4
           u == Unit(h)
           v == IF m.steer = Straight THEN <<0, 0>> ELSE Unit(k)
<1>1. /\ p.at[1] \in Int /\ p.at[2] \in Int /\ h \in 0 .. 3
      /\ m.steer \in {-1, 0, 1} /\ m.dir \in {-1, 1} /\ (m.steer = Straight <=> m.steer = 0)
  BY DEF LatticePose, Move, Steers, Left, Straight, Right, Forward, Backward
<1>2. \E t \in {-1, 0, 1} : m.steer * m.dir = t /\ (m.steer = Straight <=> t = 0)
  <2> DEFINE s == m.steer
             d == m.dir
  <2>1. s \in {-1, 0, 1} /\ d \in {-1, 1} /\ (s = Straight <=> s = 0)
    BY <1>1
  <2> HIDE DEF s, d
  <2>2. s * d \in {-1, 0, 1} /\ (s * d = 0 <=> s = 0)
    <3>1. CASE d = 1
      BY <2>1, <3>1
    <3>2. CASE d = -1
      BY <2>1, <3>2
    <3> QED BY <2>1, <3>1, <3>2
  <2> QED BY <2>1, <2>2 DEF s, d
<1>3. PICK t \in {-1, 0, 1} : m.steer * m.dir = t /\ (m.steer = Straight <=> t = 0)
  BY <1>2
<1>4. k = (h + t) % 4
  BY <1>3
<1>5. u[1] + v[1] \in {-1, 0, 1} /\ u[2] + v[2] \in {-1, 0, 1}
  <2>1. u \in Quarters /\ u[1] \in {-1, 0, 1} /\ u[2] \in {-1, 0, 1}
    BY <1>1 DEF Unit, Quarters
  <2>2. CASE t = 0
    <3>1. v[1] = 0 /\ v[2] = 0
      BY <1>3, <2>2
    <3> HIDE DEF u, v
    <3> QED BY <2>1, <3>1
  <2>3. CASE t # 0
    <3>1. v = Unit(k) /\ k = (h + t) % 4
      BY <1>3, <1>4, <2>3
    <3> HIDE DEF k, v, h
    <3>2. CASE h \in {0, 2}
      <4>1. k \in {1, 3}
        BY <1>3, <2>3, <3>1, <3>2
      <4>2. u[1] \in {-1, 1} /\ u[2] = 0 /\ v[1] = 0 /\ v[2] \in {-1, 1}
        BY <3>1, <3>2, <4>1 DEF Unit
      <4> HIDE DEF u
      <4> QED BY <4>2
    <3>3. CASE h \in {1, 3}
      <4>1. k \in {0, 2}
        BY <1>3, <2>3, <3>1, <3>3
      <4>2. u[2] \in {-1, 1} /\ u[1] = 0 /\ v[2] = 0 /\ v[1] \in {-1, 1}
        BY <3>1, <3>3, <4>1 DEF Unit
      <4> HIDE DEF u
      <4> QED BY <4>2
    <3> QED BY <1>1, <3>2, <3>3
  <2> QED BY <2>2, <2>3
<1>6. /\ BicycleStep(p, m).at[1] = p.at[1] + m.dir * (u[1] + v[1])
      /\ BicycleStep(p, m).at[2] = p.at[2] + m.dir * (u[2] + v[2])
      /\ BicycleStep(p, m).heading = k
  BY DEF BicycleStep
<1>7. \A x \in Int, d \in {-1, 1}, y \in {-1, 0, 1} : (x + d * y) - x \in {-1, 0, 1}
  OBVIOUS
<1> HIDE DEF k, u, v
<1>8. /\ BicycleStep(p, m).at[1] - p.at[1] \in {-1, 0, 1}
      /\ BicycleStep(p, m).at[2] - p.at[2] \in {-1, 0, 1}
  BY <1>1, <1>5, <1>6, <1>7
<1> QED BY <1>3, <1>4, <1>6, <1>8

(* A primitive costs no less than the heuristic falls by. *)
LEMMA HeuristicIsConsistent ==
  ASSUME Consistent, world \in Problems, NEW p \in LatticePose, NEW m \in Move,
         NEW d \in Signs, BicycleStep(p, m).at \in Cell
  PROVE  /\ Heuristic(p) \in Nat /\ Heuristic(BicycleStep(p, m)) \in Nat
         /\ Heuristic(p) <=
              StepCost(world, BicycleStep(p, m).at, d, m) + Heuristic(BicycleStep(p, m))
<1> DEFINE q == BicycleStep(p, m)
           g == world.goal
           turn == IF m.steer = Straight THEN 0 ELSE 1
           ap == Apart(p.at, g.at)
           aq == Apart(q.at, g.at)
           hp == HeadingGap(p.heading, g.heading)
           hq == HeadingGap(q.heading, g.heading)
           cost == StepCost(world, q.at, d, m)
<1>1. /\ world \in Problem /\ g \in LatticePose /\ q \in LatticePose
      /\ p.at \in Int \X Int /\ q.at \in Int \X Int /\ g.at \in Int \X Int
      /\ p.heading \in 0 .. 3 /\ q.heading \in 0 .. 3 /\ g.heading \in 0 .. 3
  BY ProblemsTyped, StepTyped DEF LatticePose
<1>2. ap \in Nat /\ aq \in Nat /\ ap <= aq + 1
  <2>1. ap \in Nat /\ aq \in Nat
    <3> HIDE DEF q, g
    <3> QED BY <1>1, ApartIsNatural
  <2>2. q.at[1] - p.at[1] \in {-1, 0, 1} /\ q.at[2] - p.at[2] \in {-1, 0, 1}
    BY StepReaches
  <2>3. /\ p.at[1] \in Int /\ p.at[2] \in Int /\ q.at[1] \in Int /\ q.at[2] \in Int
        /\ g.at[1] \in Int /\ g.at[2] \in Int
    BY <1>1
  <2>4. ASSUME NEW a \in Int, NEW b \in Int, NEW c \in Int, b - a \in {-1, 0, 1}
        PROVE  Gap(a, c) \in Int /\ Gap(b, c) \in Int /\ Gap(a, c) <= Gap(b, c) + 1
    BY <2>4 DEF Gap
  <2>5. ASSUME NEW a \in Int, NEW b \in Int, NEW x \in Int, NEW y \in Int, a <= x + 1, b <= y + 1
        PROVE  Larger(a, b) <= Larger(x, y) + 1
    BY <2>5 DEF Larger
  <2> HIDE DEF q, g
  <2>6. /\ Gap(p.at[1], g.at[1]) \in Int /\ Gap(q.at[1], g.at[1]) \in Int
        /\ Gap(p.at[2], g.at[2]) \in Int /\ Gap(q.at[2], g.at[2]) \in Int
        /\ Gap(p.at[1], g.at[1]) <= Gap(q.at[1], g.at[1]) + 1
        /\ Gap(p.at[2], g.at[2]) <= Gap(q.at[2], g.at[2]) + 1
    BY <2>2, <2>3, <2>4
  <2>7. ap <= aq + 1
    BY <2>5, <2>6 DEF Apart
  <2> QED BY <2>1, <2>7
<1>3. hp \in Nat /\ hq \in Nat /\ hp <= hq + turn /\ turn \in {0, 1}
  <2>1. PICK t \in {-1, 0, 1} : q.heading = (p.heading + t) % 4 /\ (m.steer = Straight => t = 0)
    BY StepReaches
  <2>2. ASSUME NEW a \in 0 .. 3, NEW c \in 0 .. 3, NEW s \in {-1, 0, 1}
        PROVE  /\ HeadingGap(a, c) \in Nat
               /\ HeadingGap(a, c) <= HeadingGap((a + s) % 4, c) + (IF s = 0 THEN 0 ELSE 1)
    <3>1. (a + s) % 4 = IF s = 0 THEN a ELSE IF s = 1 THEN IF a = 3 THEN 0 ELSE a + 1
                                           ELSE IF a = 0 THEN 3 ELSE a - 1
      OBVIOUS
    <3> QED BY <3>1 DEF HeadingGap, Gap, Smaller
  <2> HIDE DEF q, g
  <2>3. hp \in Nat /\ hq \in Nat /\ hp <= hq + (IF t = 0 THEN 0 ELSE 1)
    BY <1>1, <2>1, <2>2
  <2>4. (IF t = 0 THEN 0 ELSE 1) <= turn
    BY <2>1
  <2> HIDE DEF hp, hq
  <2> QED BY <2>3, <2>4
<1>4. cost \in Nat /\ cost >= Travel + (IF m.steer = Straight THEN 0 ELSE SteerCost)
  <2> HIDE DEF q
  <2> QED BY <1>1, StepCostBounds DEF q
<1>5. Heuristic(p) = Travel * ap + HeadingWeight * hp /\ Heuristic(q) = Travel * aq + HeadingWeight * hq
  BY DEF Heuristic
<1>6. HeadingWeight * turn <= (IF m.steer = Straight THEN 0 ELSE SteerCost)
  BY Constants DEF Consistent
<1> HIDE DEF q, g, turn, ap, aq, hp, hq, cost
<1>7. \A x \in Nat, y \in Nat, z \in Nat :
        y <= z => x * y \in Nat /\ x * z \in Nat /\ x * y <= x * z
  OBVIOUS
<1>8. \A x \in Nat, y \in Nat, z \in Nat : x * (y + z) = x * y + x * z /\ x * y \in Nat
  OBVIOUS
<1>9. /\ Travel * ap \in Nat /\ Travel * aq \in Nat
      /\ Travel * ap <= Travel * (aq + 1) /\ Travel * (aq + 1) = Travel * aq + Travel
  <2>1. aq + 1 \in Nat /\ Travel \in Nat /\ Travel * 1 = Travel
    BY <1>2, Constants
  <2>2. Travel * ap <= Travel * (aq + 1)
    BY <1>2, <1>7, <2>1
  <2>3. Travel * (aq + 1) = Travel * aq + Travel * 1
    BY <1>2, <1>8, <2>1
  <2> QED BY <1>2, <1>8, <2>1, <2>2, <2>3
<1>10. /\ HeadingWeight * hp \in Nat /\ HeadingWeight * hq \in Nat /\ HeadingWeight * turn \in Nat
       /\ HeadingWeight * hp <= HeadingWeight * (hq + turn)
       /\ HeadingWeight * (hq + turn) = HeadingWeight * hq + HeadingWeight * turn
  <2>1. hq + turn \in Nat /\ HeadingWeight \in Nat /\ turn \in Nat
    BY <1>3, Constants
  <2>2. HeadingWeight * hp <= HeadingWeight * (hq + turn)
    BY <1>3, <1>7, <2>1
  <2> QED BY <1>3, <1>8, <2>1, <2>2
<1>11. (IF m.steer = Straight THEN 0 ELSE SteerCost) \in Nat
  BY Constants
<1> DEFINE s == IF m.steer = Straight THEN 0 ELSE SteerCost
<1>12. s \in Nat /\ HeadingWeight * turn <= s /\ cost >= Travel + s /\ Travel \in Nat /\ cost \in Nat
  BY <1>4, <1>6, <1>11, Constants
<1> HIDE DEF s
<1> DEFINE A == Travel * ap
           B == Travel * aq
           C == HeadingWeight * hp
           D == HeadingWeight * hq
           E == HeadingWeight * turn
<1>13. /\ A \in Nat /\ B \in Nat /\ A <= B + Travel /\ C \in Nat /\ D \in Nat /\ E \in Nat
       /\ C <= D + E /\ E <= s /\ Heuristic(p) = A + C /\ Heuristic(q) = B + D
  BY <1>5, <1>9, <1>10, <1>12
<1> HIDE DEF A, B, C, D, E
<1>14. Heuristic(p) \in Nat /\ Heuristic(q) \in Nat /\ Heuristic(p) <= cost + Heuristic(q)
  BY <1>12, <1>13
<1> QED BY <1>14 DEF q, cost

(***************************************************************************)
(* Keys are closed at their cheapest.                                      *)
(***************************************************************************)

(* More rounds make nothing dearer. *)
LEMMA WithinFalls ==
  ASSUME NEW w \in Problem, NEW i \in 0 .. MaxIterations, NEW k \in Keys
  PROVE  \A n \in i .. MaxIterations : Within(w)[n][k] <= Within(w)[i][k]
<1> DEFINE N == MaxIterations
           best == Within(w)
           bad == {n \in i .. N : ~(best[n][k] <= best[i][k])}
<1>1. /\ N \in Nat /\ i \in Nat /\ i <= N /\ best \in [0 .. N -> Costs]
      /\ \A n \in 1 .. N : best[n] = Relaxed(w, best[n - 1])
  <2>1. N \in Nat /\ i \in Nat /\ i <= N
    BY Constants
  <2> QED BY <2>1, WithinIsRelaxed
<1>2. \A n \in 0 .. N : best[n] \in Costs /\ best[n][k] \in Nat
  <2> SUFFICES ASSUME NEW n \in 0 .. N PROVE best[n] \in Costs /\ best[n][k] \in Nat
    OBVIOUS
  <2> HIDE DEF best, N
  <2>1. best[n] \in Costs
    BY <1>1
  <2>2. best[n][k] \in 0 .. Infinity
    BY <2>1 DEF Costs
  <2> QED BY <2>1, <2>2, InfinityIsNatural
<1>3. CASE bad = {}
  BY <1>3
<1>4. CASE bad # {}
  <2>1. PICK n \in bad : \A j \in bad : n <= j
    <3>1. bad \in SUBSET Nat
      BY <1>1
    <3> HIDE DEF bad
    <3> QED BY <1>4, <3>1, LeastExists, Zenon
  <2>2. n \in i .. N /\ ~(best[n][k] <= best[i][k]) /\ n \in 0 .. N /\ i \in 0 .. N
    BY <1>1
  <2>3. n # i
    <3> HIDE DEF best, N
    <3> QED BY <1>2, <2>2
  <2>4. n - 1 \in i .. N /\ n \in 1 .. N /\ n - 1 \in 0 .. N /\ ~(n <= n - 1)
    BY <1>1, <2>2, <2>3
  <2>5. best[n - 1][k] <= best[i][k]
    BY <2>1, <2>4
  <2>6. best[n][k] <= best[n - 1][k]
    <3>1. best[n - 1] \in Costs /\ best[n] = Relaxed(w, best[n - 1])
      <4> HIDE DEF best, N
      <4> QED BY <1>1, <1>2, <2>4
    <3> HIDE DEF best, N
    <3> QED BY <3>1, RelaxedLeast
  <2> HIDE DEF best, N, bad
  <2> QED BY <1>2, <2>2, <2>4, <2>5, <2>6
<1> QED BY <1>3, <1>4

(* What a node costs: as many steps as it has primitives, and no less than *)
(* the cheapest chain of as many.                                          *)
Charged(w, n, i) ==
  /\ Len(n.moves) <= i
  /\ n.g <= Len(n.moves) * MostStep
  /\ Within(Layout(w))[Len(n.moves)][KeyOf(n)] <= n.g

(* A key is closed at c at most, or waits at c at most. *)
Offered(done, todo, k, c) ==
  \/ k \in DOMAIN done /\ done[k] <= c
  \/ \E n \in todo : KeyOf(n) = k /\ n.g <= c

(* While the search goes on, what one primitive leads to from a closed key *)
(* is offered at the cost of going there.                                  *)
Searching ==
  /\ iterations \in 0 .. MaxIterations
  /\ \A n \in open : Charged(world, n, iterations)
  /\ Offered(closed, open, StartKey(world), 0)
  /\ \A k \in DOMAIN closed :
       \A m \in [steer : Steers, dir : Directions] :
         Free(world, KeyAfter(k, m)[1]) =>
           Offered(closed, open, KeyAfter(k, m),
                   closed[k] + StepCost(world, KeyAfter(k, m)[1], k[3], m))
Settled ==
  /\ DOMAIN closed \subseteq OpenKeys /\ SettledAtCheapest
  /\ phase = "searching" => Searching

(* The heuristic is natural. *)
LEMMA HeuristicIsNatural ==
  ASSUME world \in Problems, NEW p \in LatticePose
  PROVE  Heuristic(p) \in Nat
<1>1. world.goal \in LatticePose
  BY ProblemsTyped
<1>2. /\ p.at \in Int \X Int /\ world.goal.at \in Int \X Int
      /\ p.heading \in 0 .. 3 /\ world.goal.heading \in 0 .. 3
  BY <1>1 DEF LatticePose
<1>3. Apart(p.at, world.goal.at) \in Nat
  BY <1>2, ApartIsNatural
<1>4. HeadingGap(p.heading, world.goal.heading) \in Nat
  <2>1. \A a \in 0 .. 3, b \in 0 .. 3 : HeadingGap(a, b) \in Nat
    BY DEF HeadingGap, Gap, Smaller
  <2> QED BY <1>2, <2>1
<1>5. \A x \in Nat, y \in Nat : x * y \in Nat
  OBVIOUS
<1>6. Travel * Apart(p.at, world.goal.at) \in Nat
  BY <1>3, <1>5, Constants
<1>7. HeadingWeight * HeadingGap(p.heading, world.goal.heading) \in Nat
  BY <1>4, <1>5, Constants
<1> QED BY <1>6, <1>7 DEF Heuristic

(* The children of a charged node are charged. *)
LEMMA ChildCharged ==
  ASSUME world \in Problems, NEW n, OnWay(world, n), NEW i \in 0 .. MaxIterations - 1,
         Charged(world, n, i), NEW m \in [steer : Steers, dir : Directions],
         Free(world, Child(n, m).pose.at)
  PROVE  Charged(world, Child(n, m), i + 1)
<1> DEFINE l == Layout(world)
           c == Child(n, m)
           N == Len(n.moves)
           best == Within(l)
           k == KeyOf(n)
           j == KeyOf(c)
           cost == StepCost(world, c.pose.at, n.dir, m)
<1>1. /\ OnWay(world, c) /\ c.g = n.g + cost /\ Len(c.moves) = N + 1
  BY ChildOnWay
<1>2. /\ N \in Nat /\ n.g \in Nat /\ N <= i /\ n.g <= N * MostStep /\ best[N][k] <= n.g
      /\ N \in 0 .. MaxIterations /\ N + 1 \in 1 .. MaxIterations /\ N + 1 <= i + 1
      /\ n.dir \in Signs /\ m \in Move /\ c.pose.at \in Cell
  <2>1. N \in Nat /\ n.g \in Nat /\ n.dir \in Signs /\ m \in Move
    BY DirectionsAreSigns, PrimitivesAreMoves DEF OnWay, NodeType
  <2>2. N <= i /\ n.g <= N * MostStep /\ best[N][k] <= n.g
    BY DEF Charged
  <2>3. c.pose.at \in Cell
    BY DEF Free
  <2> HIDE DEF N, best, k, c
  <2> QED BY <2>1, <2>2, <2>3, Constants
<1>3. cost \in Nat /\ cost <= MostStep /\ MostStep \in Nat
  <2> HIDE DEF c
  <2> QED BY <1>2, ProblemsTyped, StepCostBounds, InfinityIsNatural
<1>4. c.g <= (N + 1) * MostStep
  <2>1. \A x \in Nat, y \in Nat : (x + 1) * y = x * y + y /\ x * y \in Nat
    OBVIOUS
  <2>2. (N + 1) * MostStep = N * MostStep + MostStep /\ N * MostStep \in Nat
    BY <1>2, <1>3, <2>1
  <2> HIDE DEF N, c, cost
  <2> QED BY <1>1, <1>2, <1>3, <2>2
<1>5. best[N + 1][j] <= c.g
  <2>1. /\ l \in Problem /\ Alike(l, world) /\ best \in [0 .. MaxIterations -> Costs]
        /\ best[N + 1] = Relaxed(l, best[(N + 1) - 1]) /\ best[N] \in Costs
    <3>1. l \in Problem /\ Alike(l, world)
      BY LayoutAlike
    <3>2. best \in [0 .. MaxIterations -> Costs]
          /\ \A r \in 1 .. MaxIterations : best[r] = Relaxed(l, best[r - 1])
      BY <3>1, WithinIsRelaxed
    <3> HIDE DEF best, l, N
    <3> QED BY <1>2, <3>1, <3>2
  <2>2. (N + 1) - 1 = N
    BY <1>2
  <2>3. k \in OpenKeys /\ k[3] = n.dir /\ j = KeyAfter(k, m) /\ j[1] = c.pose.at
    BY NodeKeys
  <2>4. Free(l, j[1])
    BY <2>1, <2>3, AlikeAlike
  <2>5. j \in OpenKeys /\ j[3] = m.dir /\ <<m.steer, k[3]>> \in Entries(l, j)
        /\ Before(j, m.steer, k[3]) = k
    <3> HIDE DEF k, j, c, l
    <3> QED BY <2>3, <2>4, StepsAreEntries
  <2> DEFINE e == <<m.steer, k[3]>>
             b == best[N]
  <2>6. /\ e \in Entries(l, j) /\ e[1] = m.steer /\ e[2] = k[3] /\ j \in Keys /\ k \in Keys
        /\ [steer |-> e[1], dir |-> j[3]] = m /\ Before(j, e[1], e[2]) = k /\ b \in Costs
    <3>1. m = [steer |-> m.steer, dir |-> m.dir]
      OBVIOUS
    <3> HIDE DEF k, j, best, l
    <3> QED BY <2>1, <2>3, <2>5, <3>1, KeysTyped
  <2> HIDE DEF e, b
  <2>7. Relaxed(l, b)[j] <=
          b[Before(j, e[1], e[2])] + StepCost(l, j[1], e[2], [steer |-> e[1], dir |-> j[3]])
    <3> HIDE DEF j, l
    <3> QED BY <2>1, <2>6, RelaxedLeast
  <2>8. StepCost(l, j[1], e[2], [steer |-> e[1], dir |-> j[3]]) = cost
    <3>1. StepCost(l, j[1], e[2], [steer |-> e[1], dir |-> j[3]]) = StepCost(l, c.pose.at, n.dir, m)
      <4> HIDE DEF j, l, c, k
      <4> QED BY <2>3, <2>6
    <3> HIDE DEF l
    <3> QED BY <2>1, <3>1, AlikeAlike
  <2>9. best[N + 1][j] <= b[k] + cost /\ b[k] <= n.g
    <3>1. best[N + 1] = Relaxed(l, b)
      BY <2>1, <2>2 DEF b
    <3>2. b[k] <= n.g
      BY <1>2 DEF b
    <3> HIDE DEF l, j, k, cost, best, N
    <3> QED BY <2>6, <2>7, <2>8, <3>1, <3>2
  <2>10. b[k] \in Nat /\ best[N + 1][j] \in Nat
    <3>1. b[k] \in 0 .. Infinity
      <4> HIDE DEF k
      <4> QED BY <2>6 DEF Costs
    <3>2. best[N + 1] \in Costs
      <4> HIDE DEF best, N
      <4> QED BY <1>2, <2>1
    <3>3. best[N + 1][j] \in 0 .. Infinity
      <4> HIDE DEF best, j, N
      <4> QED BY <2>6, <3>2 DEF Costs
    <3> HIDE DEF best, j, k, N
    <3> QED BY <3>1, <3>3, InfinityIsNatural
  <2> HIDE DEF best, j, k, N, c, cost
  <2> QED BY <1>1, <1>2, <1>3, <2>9, <2>10
<1> HIDE DEF c, best, l, N
<1> QED BY <1>1, <1>2, <1>4, <1>5 DEF Charged, c, best, l, N

(* Whatever is not closed is out of reach, or the open list offers a node  *)
(* that promises to be no dearer.                                          *)
LEMMA OpenPromises ==
  ASSUME Consistent, NodesOnWay, Settled, phase = "searching", NEW k \in Keys, k \notin DOMAIN closed
  PROVE  \/ CheapestOf[Layout(world)][k] >= Infinity
         \/ \E o \in open : Cost(o) <= CheapestOf[Layout(world)][k] + Heuristic(KeyPose(k))
<1> DEFINE l == Layout(world)
           N == MaxIterations
           best == Within(l)
           Fair(c, j) == c >= Infinity \/ \E o \in open : Cost(o) <= c + Heuristic(KeyPose(j))
           Promised(n) == \A j \in Keys : j \notin DOMAIN closed => Fair(best[n][j], j)
           bad == {n \in 0 .. N : ~Promised(n)}
<1>1. /\ world \in Problems /\ l \in Problem /\ Alike(l, world) /\ CheapestOf[l] = Cheapest(l)
      /\ N \in Nat /\ Infinity \in Nat /\ Searching /\ DOMAIN closed \subseteq OpenKeys
  BY LayoutAlike, Constants, InfinityIsNatural DEF NodesOnWay, Settled
<1>2. /\ best \in [0 .. N -> Costs]
      /\ best[0] = [j \in Keys |-> IF j = StartKey(l) THEN 0 ELSE Infinity]
      /\ \A n \in 1 .. N : best[n] = Relaxed(l, best[n - 1])
  BY <1>1, WithinIsRelaxed
<1>3. ASSUME NEW o \in open
      PROVE  Cost(o) = o.g + Heuristic(KeyPose(KeyOf(o))) /\ o.g \in Nat /\ Cost(o) \in Nat
  <2>1. OnWay(world, o) /\ o.g \in Nat /\ o.pose \in LatticePose
    BY PosesAreLattice DEF NodesOnWay, OnWay, NodeType
  <2>2. KeyPose(KeyOf(o)) = o.pose
    BY <1>1, <2>1, NodeKeys
  <2>3. Heuristic(o.pose) \in Nat
    BY <1>1, <2>1, HeuristicIsNatural
  <2> QED BY <2>1, <2>2, <2>3 DEF Cost
<1>4. ASSUME NEW j \in Keys, j \notin DOMAIN closed, NEW c \in Nat, NEW d \in Nat,
             Offered(closed, open, j, c), c <= d
      PROVE  Fair(d, j)
  <2>1. PICK o \in open : KeyOf(o) = j /\ o.g <= c
    BY <1>4 DEF Offered
  <2>2. Heuristic(KeyPose(j)) \in Nat
    BY <1>1, KeysTyped, HeuristicIsNatural
  <2>3. Cost(o) <= d + Heuristic(KeyPose(j))
    BY <1>3, <1>4, <2>1, <2>2
  <2> QED BY <2>3
<1>5. Promised(0)
  <2> SUFFICES ASSUME NEW j \in Keys, j \notin DOMAIN closed PROVE Fair(best[0][j], j)
    OBVIOUS
  <2>1. best[0][j] = IF j = StartKey(l) THEN 0 ELSE Infinity
    <3> HIDE DEF best, l
    <3> QED BY <1>2
  <2>2. CASE j = StartKey(l)
    <3>1. j = StartKey(world) /\ Offered(closed, open, j, 0) /\ best[0][j] = 0
      BY <1>1, <2>1, <2>2 DEF StartKey, Alike, Searching
    <3>2. Fair(0, j)
      <4> HIDE DEF Fair
      <4> QED BY <1>4, <3>1
    <3> HIDE DEF Fair, best
    <3> QED BY <3>1, <3>2
  <2>3. CASE j # StartKey(l)
    <3> HIDE DEF best
    <3> QED BY <1>1, <2>1, <2>3
  <2> QED BY <2>2, <2>3
<1>6. ASSUME NEW n \in 1 .. N, Promised(n - 1) PROVE Promised(n)
  <2> SUFFICES ASSUME NEW j \in Keys, j \notin DOMAIN closed PROVE Fair(best[n][j], j)
    OBVIOUS
  <2> DEFINE cost == best[n - 1]
             x == best[n][j]
             Via(e) == cost[Before(j, e[1], e[2])]
                         + StepCost(l, j[1], e[2], [steer |-> e[1], dir |-> j[3]])
  <2>1. n - 1 \in 0 .. N /\ cost \in Costs /\ best[n] = Relaxed(l, cost)
    <3>1. n - 1 \in 0 .. N
      BY <1>1
    <3> HIDE DEF best, N
    <3> QED BY <1>2, <3>1
  <2>2. x = cost[j] \/ x = Infinity \/ \E e \in Entries(l, j) : x = Via(e)
    <3> HIDE DEF cost, l
    <3> QED BY <1>1, <2>1, RelaxedLeast
  <2>3. CASE x = cost[j]
    <3>1. Fair(cost[j], j)
      BY <1>6
    <3> HIDE DEF Fair, cost, x
    <3>2. Fair(x, j)
      BY <2>3, <3>1
    <3> QED BY <3>2 DEF x
  <2>4. CASE x = Infinity
    <3> HIDE DEF x
    <3>1. Fair(x, j)
      BY <1>1, <2>4
    <3> QED BY <3>1 DEF x
  <2>5. CASE \E e \in Entries(l, j) : x = Via(e)
    <3>1. PICK e \in Entries(l, j) : x = Via(e)
      BY <2>5
    <3> DEFINE b == Before(j, e[1], e[2])
               m == [steer |-> e[1], dir |-> j[3]]
               y == cost[b]
               z == StepCost(l, j[1], e[2], m)
    <3>2. /\ j \in OpenKeys /\ Free(l, j[1]) /\ b \in OpenKeys /\ b[3] = e[2]
          /\ m \in [steer : Steers, dir : Directions] /\ KeyAfter(b, m) = j
      BY EntriesLeadHere
    <3>3. Free(world, j[1]) /\ StepCost(world, j[1], b[3], m) = z
      BY <1>1, <3>2, AlikeAlike
    <3>4. b \in Keys /\ e[2] \in Signs /\ m \in Move /\ j[1] \in Cell
          /\ KeyPose(b) \in LatticePose /\ KeyPose(j) \in LatticePose
      BY <3>2, KeysTyped, PrimitivesAreMoves
    <3>5. y \in Nat
      <4>1. y \in 0 .. Infinity
        <5> HIDE DEF cost, b
        <5> QED BY <2>1, <3>4 DEF Costs
      <4> HIDE DEF y
      <4> QED BY <1>1, <4>1
    <3>6. z \in Nat
      <4> HIDE DEF l, m
      <4> QED BY <1>1, <3>4, StepCostBounds
    <3>7. x = y + z /\ y + z \in Nat
      <4>1. x = y + z
        BY <3>1
      <4> HIDE DEF x, y, z
      <4> QED BY <3>5, <3>6, <4>1
    <3>8. KeyPose(j) = BicycleStep(KeyPose(b), m)
      <4> DEFINE q == BicycleStep(KeyPose(b), m)
      <4> HIDE DEF b, m
      <4>1. j = <<q.at, q.heading, m.dir>> /\ q \in LatticePose
        BY <3>2, <3>4, StepTyped DEF KeyAfter
      <4> HIDE DEF q
      <4>2. KeyPose(j) = q
        BY <4>1 DEF KeyPose, LatticePose
      <4> QED BY <4>2 DEF q
    <3>9. /\ Heuristic(KeyPose(b)) \in Nat /\ Heuristic(KeyPose(j)) \in Nat
          /\ Heuristic(KeyPose(b)) <= z + Heuristic(KeyPose(j))
      <4>1. BicycleStep(KeyPose(b), m).at = j[1]
        BY <3>8 DEF KeyPose
      <4>2. BicycleStep(KeyPose(b), m).at \in Cell
        BY <3>4, <4>1
      <4>3. z = StepCost(world, BicycleStep(KeyPose(b), m).at, e[2], m)
        BY <3>2, <3>3, <4>1
      <4> HIDE DEF b, m, z
      <4> QED BY <1>1, <3>4, <3>8, <4>2, <4>3, HeuristicIsConsistent
    <3>10. CASE b \in DOMAIN closed
      <4>1. Offered(closed, open, j, closed[b] + z)
        <5> HIDE DEF b, m, z
        <5> QED BY <1>1, <3>2, <3>3, <3>10 DEF Searching
      <4>2. closed[b] \in Nat /\ closed[b] <= y
        <5>1. closed[b] = best[N][b]
          <6> HIDE DEF b
          <6>1. closed[b] = CheapestOf[l][b]
            BY <3>10 DEF Settled, SettledAtCheapest
          <6> QED BY <1>1, <6>1 DEF Cheapest
        <5>2. N \in (n - 1) .. N /\ N \in 0 .. N
          BY <1>1
        <5>3. best[N][b] <= best[n - 1][b]
          <6> HIDE DEF b, l
          <6> QED BY <1>1, <2>1, <3>4, <5>2, WithinFalls
        <5>4. best[N][b] \in Nat
          <6>1. best[N] \in Costs
            <7> HIDE DEF best, N
            <7> QED BY <1>2, <5>2
          <6>2. best[N][b] \in 0 .. Infinity
            <7> HIDE DEF best, b, N
            <7> QED BY <3>4, <6>1 DEF Costs
          <6> HIDE DEF best, b, N
          <6> QED BY <1>1, <6>2
        <5> HIDE DEF best, b, N, l
        <5> QED BY <5>1, <5>3, <5>4
      <4>3. closed[b] + z \in Nat /\ closed[b] + z <= y + z
        <5> HIDE DEF y, z, b
        <5> QED BY <3>5, <3>6, <4>2
      <4>4. Fair(y + z, j)
        <5> HIDE DEF Fair, y, z, b
        <5> QED BY <1>4, <3>7, <4>1, <4>3
      <4> HIDE DEF Fair, x, y, z
      <4>5. Fair(x, j)
        BY <3>7, <4>4
      <4> QED BY <4>5 DEF x
    <3>11. CASE b \notin DOMAIN closed
      <4>1. Fair(y, b)
        BY <1>6, <3>4, <3>11
      <4> HIDE DEF b, m, x, y, z
      <4>2. Fair(x, j)
        <5>1. CASE y >= Infinity
          BY <1>1, <3>5, <3>6, <3>7, <5>1
        <5>2. CASE \E o \in open : Cost(o) <= y + Heuristic(KeyPose(b))
          <6>1. PICK o \in open : Cost(o) <= y + Heuristic(KeyPose(b))
            BY <5>2
          <6>2. Cost(o) \in Nat
            BY <1>3
          <6>3. Cost(o) <= x + Heuristic(KeyPose(j))
            BY <3>5, <3>6, <3>7, <3>9, <6>1, <6>2
          <6> QED BY <6>3
        <5> QED BY <4>1, <5>1, <5>2
      <4> HIDE DEF Fair
      <4> QED BY <4>2 DEF x
    <3> QED BY <3>10, <3>11
  <2> HIDE DEF Fair, best, Via, cost
  <2> QED BY <2>2, <2>3, <2>4, <2>5
<1>7. Promised(N)
  <2>1. CASE bad = {}
    <3>1. N \in 0 .. N
      BY <1>1
    <3> QED BY <2>1, <3>1
  <2>2. CASE bad # {}
    <3>1. PICK n \in bad : \A j \in bad : n <= j
      <4>1. bad \in SUBSET Nat
        BY <1>1
      <4> HIDE DEF bad
      <4> QED BY <2>2, <4>1, LeastExists, Zenon
    <3>2. n \in 0 .. N /\ ~Promised(n)
      OBVIOUS
    <3> HIDE DEF Promised
    <3>3. n # 0
      BY <1>5, <3>2
    <3>4. n \in 1 .. N /\ n - 1 \in 0 .. N /\ ~(n <= n - 1)
      BY <1>1, <3>2, <3>3
    <3>5. Promised(n - 1)
      BY <3>1, <3>4
    <3> QED BY <1>6, <3>2, <3>4, <3>5
  <2> QED BY <2>1, <2>2
<1>8. CheapestOf[l][k] = best[N][k]
  BY <1>1 DEF Cheapest
<1>9. Fair(best[N][k], k)
  BY <1>7
<1> HIDE DEF best, l, N
<1> QED BY <1>8, <1>9 DEF l

(* A node popped before its key is closed came the cheapest way. *)
LEMMA PoppedIsCheapest ==
  ASSUME Consistent, NodesOnWay, Settled, phase = "searching", NEW n \in open,
         \A o \in open : Cost(n) <= Cost(o), KeyOf(n) \notin DOMAIN closed
  PROVE  CheapestOf[Layout(world)][KeyOf(n)] = n.g
<1> DEFINE l == Layout(world)
           N == MaxIterations
           L == Len(n.moves)
           best == Within(l)
           k == KeyOf(n)
           h == Heuristic(KeyPose(k))
<1>1. /\ world \in Problems /\ l \in Problem /\ CheapestOf[l] = Cheapest(l)
      /\ N \in Nat /\ Infinity \in Nat /\ Searching
  BY LayoutAlike, Constants, InfinityIsNatural DEF NodesOnWay, Settled
<1>2. /\ OnWay(world, n) /\ L \in Nat /\ n.g \in Nat /\ L <= iterations /\ iterations \in 0 .. N
      /\ n.g <= L * MostStep /\ best[L][k] <= n.g
  BY <1>1 DEF NodesOnWay, OnWay, NodeType, Searching, Charged
<1>3. L \in 0 .. N /\ N \in L .. N /\ N \in 0 .. N
  <2> HIDE DEF L, N
  <2> QED BY <1>1, <1>2
<1>4. k \in OpenKeys /\ k \in Keys /\ KeyPose(k) = n.pose /\ h \in Nat
  <2>1. k \in OpenKeys /\ KeyPose(k) = n.pose
    BY <1>1, <1>2, NodeKeys
  <2>2. k \in Keys /\ KeyPose(k) \in LatticePose
    BY <2>1, KeysTyped
  <2> QED BY <1>1, <2>1, <2>2, HeuristicIsNatural
<1>5. best[N][k] <= best[L][k] /\ best[N][k] \in Nat /\ best[L][k] \in Nat
  <2>1. best[N] \in Costs /\ best[L] \in Costs
    <3>1. best \in [0 .. N -> Costs]
      BY <1>1, WithinIsRelaxed
    <3> HIDE DEF best, L, N
    <3> QED BY <1>3, <3>1
  <2>2. best[N][k] \in 0 .. Infinity /\ best[L][k] \in 0 .. Infinity
    <3> HIDE DEF best, k
    <3> QED BY <1>4, <2>1 DEF Costs
  <2>3. best[N][k] <= best[L][k]
    <3> HIDE DEF l, L, k
    <3> QED BY <1>1, <1>3, <1>4, WithinFalls
  <2> HIDE DEF best, k, L, N
  <2> QED BY <1>1, <2>2, <2>3
<1>6. n.g < Infinity
  <2>1. L * MostStep \in Nat /\ L * MostStep < Infinity
    <3> HIDE DEF L
    <3> QED BY <1>3, InfinityIsNatural
  <2> HIDE DEF L
  <2> QED BY <1>1, <1>2, <2>1
<1>7. CheapestOf[l][k] = best[N][k]
  BY <1>1 DEF Cheapest
<1>8. \/ best[N][k] >= Infinity
      \/ \E o \in open : Cost(o) <= best[N][k] + h
  <2>1. \/ CheapestOf[l][k] >= Infinity
        \/ \E o \in open : Cost(o) <= CheapestOf[l][k] + h
    BY <1>4, OpenPromises
  <2> HIDE DEF best, l, h, k, N
  <2> QED BY <1>7, <2>1
<1>9. Cost(n) = n.g + h
  BY <1>4 DEF Cost
<1>10. ASSUME NEW o \in open PROVE Cost(o) \in Nat
  <2>1. OnWay(world, o) /\ o.g \in Nat /\ o.pose \in LatticePose
    BY PosesAreLattice DEF NodesOnWay, OnWay, NodeType
  <2>2. Heuristic(o.pose) \in Nat
    BY <1>1, <2>1, HeuristicIsNatural
  <2> QED BY <2>1, <2>2 DEF Cost
<1> HIDE DEF best, l, h, k, N, L
<1>11. n.g <= best[N][k]
  <2>1. CASE best[N][k] >= Infinity
    BY <1>1, <1>2, <1>5, <1>6, <2>1
  <2>2. CASE \E o \in open : Cost(o) <= best[N][k] + h
    <3>1. PICK o \in open : Cost(o) <= best[N][k] + h
      BY <2>2
    <3>2. Cost(n) <= Cost(o) /\ Cost(n) \in Nat /\ Cost(o) \in Nat
      BY <1>10
    <3> QED BY <1>2, <1>4, <1>5, <1>9, <3>1, <3>2
  <2> QED BY <1>8, <2>1, <2>2
<1>12. best[N][k] = n.g
  BY <1>2, <1>5, <1>11
<1> QED BY <1>7, <1>12 DEF l, k

(* The start waits at no cost. *)
LEMMA SettledStarts == Init => Settled
<1> SUFFICES ASSUME Init PROVE Settled
  OBVIOUS
<1>1. /\ world \in Problems /\ open = {StartNode(world)} /\ closed = << >> /\ iterations = 0
      /\ phase = "searching"
  BY DEF Init
<1>2. DOMAIN closed = {} /\ 0 \in 0 .. MaxIterations
  BY <1>1, Constants
<1> DEFINE n == StartNode(world)
           l == Layout(world)
<1>3. /\ n.g = 0 /\ n.moves = << >> /\ Len(n.moves) = 0
      /\ KeyOf(n) = StartKey(world)
  BY DEF KeyOf, Discretize, StartNode, StartKey
<1>4. Charged(world, n, 0)
  <2>1. l \in Problem /\ Alike(l, world)
    BY <1>1, LayoutAlike
  <2>2. Within(l)[0] = [k \in Keys |-> IF k = StartKey(l) THEN 0 ELSE Infinity]
    BY <2>1, WithinIsRelaxed
  <2>3. StartKey(world) \in Keys /\ StartKey(l) = StartKey(world)
    <3>1. StartKey(l) = StartKey(world)
      BY <2>1 DEF Alike, StartKey
    <3>2. world.start \in Pose
      BY <1>1, ProblemsTyped
    <3>3. world.start.at \in Cell /\ world.start.heading \in 0 .. 3
      BY <3>2 DEF Pose
    <3> HIDE DEF l
    <3> QED BY <3>1, <3>3 DEF StartKey, Keys
  <2> HIDE DEF l, n
  <2>4. Within(l)[0][KeyOf(n)] = 0
    BY <1>3, <2>2, <2>3
  <2>5. 0 * MostStep = 0
    BY InfinityIsNatural
  <2> QED BY <1>3, <2>4, <2>5 DEF Charged, l
<1>5. Offered(closed, open, StartKey(world), 0)
  <2> HIDE DEF n
  <2>1. n \in open /\ KeyOf(n) = StartKey(world) /\ n.g <= 0
    BY <1>1, <1>3 DEF n
  <2> QED BY <2>1 DEF Offered
<1>6. Searching
  <2> HIDE DEF n
  <2>1. \A o \in open : Charged(world, o, iterations)
    BY <1>1, <1>4 DEF n
  <2> QED BY <1>1, <1>2, <1>5, <2>1 DEF Searching
<1> QED BY <1>2, <1>6 DEF Settled, SettledAtCheapest

(* A popped node leaves its offer at its key. *)
LEMMA StaysOffered ==
  ASSUME NEW n \in open, KeyOf(n) \in DOMAIN closed', closed'[KeyOf(n)] \in Int, n.g \in Int,
         closed'[KeyOf(n)] <= n.g, open \ {n} \subseteq open',
         \A k \in DOMAIN closed : k \in DOMAIN closed' /\ closed'[k] = closed[k]
  PROVE  \A k : \A c \in Int : Offered(closed, open, k, c) => Offered(closed', open', k, c)
<1> SUFFICES ASSUME NEW k, NEW c \in Int, Offered(closed, open, k, c)
             PROVE  Offered(closed', open', k, c)
  OBVIOUS
<1>1. CASE k \in DOMAIN closed /\ closed[k] <= c
  BY <1>1 DEF Offered
<1>2. CASE \E o \in open : KeyOf(o) = k /\ o.g <= c
  <2>1. PICK o \in open : KeyOf(o) = k /\ o.g <= c
    BY <1>2
  <2>2. CASE o = n
    <3>1. k \in DOMAIN closed' /\ closed'[k] <= c
      BY <2>1, <2>2
    <3> QED BY <3>1 DEF Offered
  <2>3. CASE o # n
    <3>1. o \in open' /\ KeyOf(o)' = KeyOf(o)
      BY <2>3 DEF KeyOf, Discretize
    <3> QED BY <2>1, <3>1 DEF Offered
  <2> QED BY <2>2, <2>3
<1> QED BY <1>1, <1>2 DEF Offered

(* The reference costs are natural. *)
LEMMA CheapestIsNatural ==
  ASSUME world \in Problems, NEW k \in Keys
  PROVE  CheapestOf[Layout(world)][k] \in Nat
<1> DEFINE l == Layout(world)
           best == Within(l)
<1>1. l \in Problem /\ CheapestOf[l] = best[MaxIterations]
  BY LayoutAlike DEF Cheapest
<1>2. best[MaxIterations] \in Costs
  <2>1. best \in [0 .. MaxIterations -> Costs]
    BY <1>1, WithinIsRelaxed
  <2>2. MaxIterations \in 0 .. MaxIterations
    BY Constants
  <2> HIDE DEF best
  <2> QED BY <2>1, <2>2
<1>3. best[MaxIterations][k] \in 0 .. Infinity
  <2> HIDE DEF best
  <2> QED BY <1>2 DEF Costs
<1> HIDE DEF best, l
<1>4. CheapestOf[l][k] \in Nat
  BY <1>1, <1>3, InfinityIsNatural
<1> QED BY <1>4 DEF l

(* No node is cheaper than the reference. *)
LEMMA ChargedIsNoCheaper ==
  ASSUME world \in Problems, NEW n, OnWay(world, n), NEW i \in 0 .. MaxIterations,
         Charged(world, n, i)
  PROVE  CheapestOf[Layout(world)][KeyOf(n)] <= n.g
<1> DEFINE l == Layout(world)
           L == Len(n.moves)
           best == Within(l)
           k == KeyOf(n)
<1>1. l \in Problem /\ CheapestOf[l] = best[MaxIterations]
  BY LayoutAlike DEF Cheapest
<1>2. L \in Nat /\ L <= i /\ best[L][k] <= n.g /\ n.g \in Nat /\ k \in Keys
  BY NodeKeys, KeysTyped DEF OnWay, NodeType, Charged
<1>3. L \in 0 .. MaxIterations /\ MaxIterations \in L .. MaxIterations
  <2> HIDE DEF L
  <2> QED BY <1>2, Constants
<1>4. best[MaxIterations][k] <= best[L][k]
  <2> HIDE DEF l, L, k
  <2> QED BY <1>1, <1>2, <1>3, WithinFalls
<1>5. best[L][k] \in Nat
  <2>1. best[L] \in Costs
    <3>1. best \in [0 .. MaxIterations -> Costs]
      BY <1>1, WithinIsRelaxed
    <3> HIDE DEF best, L
    <3> QED BY <1>3, <3>1
  <2>2. best[L][k] \in 0 .. Infinity
    <3> HIDE DEF best, k, L
    <3> QED BY <1>2, <2>1 DEF Costs
  <2> HIDE DEF best, k, L
  <2> QED BY <2>2, InfinityIsNatural
<1>6. CheapestOf[l][k] \in Nat
  BY <1>2, CheapestIsNatural
<1> HIDE DEF best, l, k, L
<1>7. CheapestOf[l][k] <= n.g
  BY <1>1, <1>2, <1>4, <1>5, <1>6
<1> QED BY <1>7 DEF l, k

(* What closing a popped node does. *)
LEMMA ClosedSettled ==
  ASSUME Consistent, NodesOnWay, Settled, phase = "searching", NEW n \in open,
         \A o \in open : Cost(n) <= Cost(o), ~IsClosed(n), Close(n), world' = world
  PROVE  /\ DOMAIN closed' = DOMAIN closed \cup {KeyOf(n)} /\ DOMAIN closed' \subseteq OpenKeys
         /\ SettledAtCheapest' /\ closed'[KeyOf(n)] = n.g
         /\ \A k \in DOMAIN closed : k \in DOMAIN closed' /\ closed'[k] = closed[k]
         /\ \A k \in DOMAIN closed' : closed'[k] = CheapestOf[Layout(world)][k]
<1> DEFINE k == KeyOf(n)
<1>1. closed' = [j \in DOMAIN closed \cup {k} |-> IF j = k THEN n.g ELSE closed[j]]
  BY DEF Close, KeyOf
<1>2. k \notin DOMAIN closed
  BY DEF IsClosed, KeyOf
<1>3. k \in OpenKeys
  BY NodeKeys DEF NodesOnWay
<1>4. CheapestOf[Layout(world)][k] = n.g
  BY <1>2, PoppedIsCheapest
<1> HIDE DEF k
<1>5. /\ DOMAIN closed' = DOMAIN closed \cup {k} /\ closed'[k] = n.g
      /\ \A j \in DOMAIN closed : j \in DOMAIN closed' /\ closed'[j] = closed[j]
  BY <1>1, <1>2
<1>6. \A j \in DOMAIN closed' : closed'[j] = CheapestOf[Layout(world)][j]
  BY <1>4, <1>5 DEF Settled, SettledAtCheapest
<1>7. SettledAtCheapest'
  BY <1>6 DEF SettledAtCheapest
<1>8. DOMAIN closed' \subseteq OpenKeys
  BY <1>3, <1>5 DEF Settled
<1> QED BY <1>5, <1>6, <1>7, <1>8 DEF k

(* What is offered at the keys after a closed one. *)
LEMMA OffersAreNumbers ==
  ASSUME world \in Problems, NEW k \in OpenKeys, NEW m \in [steer : Steers, dir : Directions],
         Free(world, KeyAfter(k, m)[1]), NEW c \in Nat
  PROVE  c + StepCost(world, KeyAfter(k, m)[1], k[3], m) \in Int
<1> DEFINE p == KeyAfter(k, m)[1]
<1>1. p \in Cell /\ k[3] \in Signs /\ m \in Move /\ world \in Problem
  BY KeysTyped, PrimitivesAreMoves, ProblemsTyped DEF Free
<1> HIDE DEF p
<1>2. StepCost(world, p, k[3], m) \in Nat
  BY <1>1, StepCostBounds
<1>3. c + StepCost(world, p, k[3], m) \in Int
  BY <1>2
<1> QED BY <1>3 DEF p

(* An expansion offers what can be entered from the key it closes. *)
LEMMA ExpandKeepsSettled ==
  ASSUME Consistent, NodesOnWay, Settled, Expand
  PROVE  Settled'
<1>1. PICK n \in open :
        /\ phase = "searching" /\ phase' = phase /\ world' = world
        /\ iterations' = iterations + 1 /\ iterations < MaxIterations
        /\ \A o \in open : Cost(n) <= Cost(o)
        /\ ~IsClosed(n) /\ Close(n) /\ open' = (open \ {n}) \cup Successors(n, DOMAIN closed')
  BY DEF Expand, Popped
<1>2. /\ world \in Problems /\ OnWay(world, n) /\ Searching /\ Charged(world, n, iterations)
      /\ iterations \in 0 .. MaxIterations - 1 /\ iterations + 1 \in 0 .. MaxIterations
      /\ n.g \in Nat
  BY <1>1, Constants DEF NodesOnWay, Settled, Searching, OnWay, NodeType
<1>3. /\ DOMAIN closed' = DOMAIN closed \cup {KeyOf(n)} /\ DOMAIN closed' \subseteq OpenKeys
      /\ SettledAtCheapest' /\ closed'[KeyOf(n)] = n.g
      /\ \A k \in DOMAIN closed : k \in DOMAIN closed' /\ closed'[k] = closed[k]
      /\ \A k \in DOMAIN closed' : closed'[k] = CheapestOf[Layout(world)][k]
  BY <1>1, ClosedSettled
<1>4. \A k : \A c \in Int : Offered(closed, open, k, c) => Offered(closed', open', k, c)
  <2>1. /\ KeyOf(n) \in DOMAIN closed' /\ closed'[KeyOf(n)] \in Int /\ n.g \in Int
        /\ closed'[KeyOf(n)] <= n.g /\ open \ {n} \subseteq open'
    BY <1>1, <1>2, <1>3
  <2> QED BY <1>3, <2>1, StaysOffered
<1>5. ASSUME NEW m \in [steer : Steers, dir : Directions], Free(world, Child(n, m).pose.at)
      PROVE  /\ Charged(world, Child(n, m), iterations + 1)
             /\ Offered(closed', open', KeyOf(Child(n, m)), Child(n, m).g)
  <2> DEFINE c == Child(n, m)
             j == KeyOf(c)
  <2>1. OnWay(world, c) /\ Charged(world, c, iterations + 1)
    BY <1>2, <1>5, ChildOnWay, ChildCharged
  <2>2. CASE j \in DOMAIN closed'
    <3>1. closed'[j] <= c.g
      <4>1. closed'[j] = CheapestOf[Layout(world)][j]
        BY <1>3, <2>2
      <4> HIDE DEF c
      <4>2. CheapestOf[Layout(world)][j] <= c.g
        BY <1>2, <2>1, ChargedIsNoCheaper
      <4> QED BY <4>1, <4>2
    <3> QED BY <2>1, <2>2, <3>1 DEF Offered
  <2>3. CASE j \notin DOMAIN closed'
    <3>1. c \in open'
      BY <1>1, <1>2, <1>5, <2>3, FreeAreSuccessors
    <3>2. c.g <= c.g
      <4>1. c.g \in Nat
        BY <2>1 DEF OnWay, NodeType
      <4> QED BY <4>1
    <3> QED BY <2>1, <3>1, <3>2 DEF Offered
  <2> QED BY <2>1, <2>2, <2>3
<1>6. \A o \in open' : Charged(world, o, iterations + 1)
  <2> SUFFICES ASSUME NEW o \in open' PROVE Charged(world, o, iterations + 1)
    OBVIOUS
  <2>1. CASE o \in open
    <3>1. Charged(world, o, iterations) /\ Len(o.moves) \in Nat
      BY <1>2, <2>1 DEF Searching, NodesOnWay, OnWay, NodeType
    <3> QED BY <1>2, <3>1 DEF Charged
  <2>2. CASE o \in Successors(n, DOMAIN closed')
    <3>1. PICK m \in [steer : Steers, dir : Directions] :
            o = Child(n, m) /\ Free(world, o.pose.at)
      BY <1>2, <2>2, SuccessorsAreFree
    <3> QED BY <1>5, <3>1
  <2> QED BY <1>1, <2>1, <2>2
<1>7. Offered(closed', open', StartKey(world), 0)
  <2>1. Offered(closed, open, StartKey(world), 0)
    BY <1>2 DEF Searching
  <2> QED BY <1>4, <2>1
<1>8. ASSUME NEW k \in DOMAIN closed', NEW m \in [steer : Steers, dir : Directions],
             Free(world, KeyAfter(k, m)[1])
      PROVE  Offered(closed', open', KeyAfter(k, m),
                      closed'[k] + StepCost(world, KeyAfter(k, m)[1], k[3], m))
  <2>1. CASE k \in DOMAIN closed
    <3> DEFINE c == closed[k] + StepCost(world, KeyAfter(k, m)[1], k[3], m)
    <3>1. Offered(closed, open, KeyAfter(k, m), c)
      BY <1>2, <1>8, <2>1 DEF Searching
    <3>2. k \in OpenKeys /\ k \in Keys /\ closed[k] \in Nat
      BY <1>2, <1>3, <2>1, KeysTyped, CheapestIsNatural
    <3>3. c \in Int
      BY <1>2, <1>8, <3>2, OffersAreNumbers
    <3>4. closed'[k] = closed[k]
      BY <1>3, <2>1
    <3> HIDE DEF c
    <3>5. Offered(closed', open', KeyAfter(k, m), c)
      BY <1>4, <3>1, <3>3
    <3> QED BY <3>4, <3>5 DEF c
  <2>2. CASE k = KeyOf(n)
    <3>1. /\ KeyOf(Child(n, m)) = KeyAfter(k, m) /\ KeyAfter(k, m)[1] = Child(n, m).pose.at
          /\ k[3] = n.dir
      BY <1>2, <2>2, NodeKeys
    <3>2. Child(n, m).g = closed'[k] + StepCost(world, KeyAfter(k, m)[1], k[3], m)
      BY <1>2, <1>3, <1>8, <2>2, <3>1, ChildOnWay
    <3>3. Offered(closed', open', KeyOf(Child(n, m)), Child(n, m).g)
      BY <1>5, <1>8, <3>1
    <3> QED BY <1>1, <3>1, <3>2, <3>3
  <2> QED BY <1>3, <2>1, <2>2
<1>9. Searching'
  <2>1. iterations' \in 0 .. MaxIterations /\ \A o \in open' : Charged(world', o, iterations')
    BY <1>1, <1>2, <1>6
  <2> QED BY <1>1, <1>7, <1>8, <2>1 DEF Searching
<1> QED BY <1>1, <1>3, <1>9 DEF Settled

(* So does every pop. *)
LEMMA SettledKept ==
  Consistent /\ NodesOnWay /\ Settled /\ [Next]_vars => Settled'
<1> SUFFICES ASSUME Consistent, NodesOnWay, Settled, [Next]_vars PROVE Settled'
  OBVIOUS
<1>1. CASE Expand
  BY <1>1, ExpandKeepsSettled
<1>2. CASE SkipClosed
  <2>1. PICK n \in open :
          /\ phase = "searching" /\ phase' = phase /\ world' = world /\ closed' = closed
          /\ iterations' = iterations + 1 /\ iterations < MaxIterations
          /\ IsClosed(n) /\ open' = open \ {n}
    BY <1>2 DEF SkipClosed, Popped
  <2>2. /\ world \in Problems /\ OnWay(world, n) /\ Searching /\ Charged(world, n, iterations)
        /\ iterations \in 0 .. MaxIterations /\ iterations' \in 0 .. MaxIterations
        /\ n.g \in Nat /\ DOMAIN closed \subseteq OpenKeys /\ KeyOf(n) \in DOMAIN closed
        /\ \A k \in DOMAIN closed : closed[k] = CheapestOf[Layout(world)][k]
    BY <2>1, Constants
       DEF NodesOnWay, Settled, SettledAtCheapest, Searching, OnWay, NodeType, IsClosed, KeyOf
  <2>3. \A k : \A c \in Int : Offered(closed, open, k, c) => Offered(closed', open', k, c)
    <3>1. closed[KeyOf(n)] \in Int /\ closed[KeyOf(n)] <= n.g
      <4>1. closed[KeyOf(n)] = CheapestOf[Layout(world)][KeyOf(n)] /\ KeyOf(n) \in Keys
        BY <2>2, KeysTyped
      <4>2. CheapestOf[Layout(world)][KeyOf(n)] \in Nat
        BY <2>2, <4>1, CheapestIsNatural
      <4>3. CheapestOf[Layout(world)][KeyOf(n)] <= n.g
        BY <2>2, ChargedIsNoCheaper
      <4> QED BY <4>1, <4>2, <4>3
    <3> QED BY <2>1, <2>2, <3>1, StaysOffered
  <2>4. \A o \in open' : Charged(world, o, iterations')
    <3> SUFFICES ASSUME NEW o \in open' PROVE Charged(world, o, iterations')
      OBVIOUS
    <3>1. Charged(world, o, iterations) /\ Len(o.moves) \in Nat
      BY <2>1, <2>2 DEF Searching, NodesOnWay, OnWay, NodeType
    <3> QED BY <2>1, <2>2, <3>1 DEF Charged
  <2>5. Offered(closed', open', StartKey(world), 0)
    <3>1. Offered(closed, open, StartKey(world), 0)
      BY <2>2 DEF Searching
    <3> QED BY <2>3, <3>1
  <2>6. ASSUME NEW k \in DOMAIN closed, NEW m \in [steer : Steers, dir : Directions],
               Free(world, KeyAfter(k, m)[1])
        PROVE  Offered(closed', open', KeyAfter(k, m),
                       closed[k] + StepCost(world, KeyAfter(k, m)[1], k[3], m))
    <3> DEFINE c == closed[k] + StepCost(world, KeyAfter(k, m)[1], k[3], m)
    <3>1. Offered(closed, open, KeyAfter(k, m), c)
      BY <2>2, <2>6 DEF Searching
    <3>2. k \in OpenKeys /\ k \in Keys /\ closed[k] \in Nat
      BY <2>2, KeysTyped, CheapestIsNatural
    <3>3. c \in Int
      BY <2>2, <2>6, <3>2, OffersAreNumbers
    <3> HIDE DEF c
    <3>4. Offered(closed', open', KeyAfter(k, m), c)
      BY <2>3, <3>1, <3>3
    <3> QED BY <3>4 DEF c
  <2>7. Searching'
    BY <2>1, <2>2, <2>4, <2>5, <2>6 DEF Searching
  <2> QED BY <2>1, <2>7 DEF Settled, SettledAtCheapest
<1>3. CASE Connect
  <2>1. PICK n \in open :
          /\ phase = "searching" /\ phase' = "found" /\ world' = world
          /\ \A o \in open : Cost(n) <= Cost(o)
          /\ ~IsClosed(n) /\ Close(n)
    BY <1>3 DEF Connect, Popped
  <2>2. DOMAIN closed' \subseteq OpenKeys /\ SettledAtCheapest'
    BY <2>1, ClosedSettled
  <2> QED BY <2>1, <2>2 DEF Settled
<1>4. CASE TimeOut \/ Arrive \/ Exhaust \/ SmoothPath
  <2>1. world' = world /\ closed' = closed /\ phase' # "searching"
    BY <1>4 DEF TimeOut, Arrive, Exhaust, SmoothPath
  <2> QED BY <2>1 DEF Settled, SettledAtCheapest
<1>5. CASE UNCHANGED vars
  BY <1>5 DEF vars, Settled, SettledAtCheapest, Searching
<1> QED BY <1>1, <1>2, <1>3, <1>4, <1>5 DEF Next

(* Keys are closed at their cheapest, if a turn costs at least what the    *)
(* heuristic takes for it: whatever the grid, the corridor and the order   *)
(* in which nodes of equal cost are popped.                                *)
THEOREM KeysSettleAtTheCheapest == Consistent => (Spec => []SettledAtCheapest)
<1>1. Settled => SettledAtCheapest
  BY DEF Settled
<1>2. ASSUME Consistent PROVE Spec => []SettledAtCheapest
  <2>1. Init => NodesOnWay /\ Settled
    BY NodesStart, SettledStarts
  <2>2. NodesOnWay /\ Settled /\ [Next]_vars => NodesOnWay' /\ Settled'
    BY <1>2, NodesKept, SettledKept
  <2> QED BY <1>1, <2>1, <2>2, PTL DEF Spec
<1> QED BY <1>2

(***************************************************************************)
(* Smoothing.                                                              *)
(***************************************************************************)

(* The same from a on. *)
IsStepFrom(step, a, b, X) == \A i \in a + 1 .. b : \A x \in X : step[i][x] \in X
IteratesFrom(f, step, base, a, b, X) ==
  f \in [a .. b -> X] /\ f[a] = base /\ \A i \in a + 1 .. b : f[i] = step[i][f[i - 1]]

(* Repeating a step from a on. *)
LEMMA IterationFrom ==
  ASSUME NEW a \in Int, NEW b \in Int, a <= b, NEW X, NEW base \in X, NEW step,
         IsStepFrom(step, a, b, X)
  PROVE  \E f : IteratesFrom(f, step, base, a, b, X)
<1> USE DEF IsStepFrom, IteratesFrom
<1> DEFINE N == b - a
           shifted == [n \in 1 .. N |-> step[a + n]]
<1>1. N \in Nat /\ \A n \in 1 .. N : a + n \in a + 1 .. b
  OBVIOUS
<1>2. IsStep(shifted, N, X)
  <2> SUFFICES ASSUME NEW n \in 1 .. N, NEW x \in X PROVE shifted[n][x] \in X
    BY DEF IsStep
  <2>1. shifted[n] = step[a + n] /\ a + n \in a + 1 .. b
    BY <1>1
  <2> HIDE DEF shifted
  <2> QED BY <2>1
<1>3. PICK g : Iterates(g, shifted, base, N, X)
  <2> HIDE DEF shifted, N
  <2> QED BY <1>1, <1>2, Iteration
<1>4. g \in [0 .. N -> X] /\ g[0] = base /\ \A n \in 1 .. N : g[n] = shifted[n][g[n - 1]]
  BY <1>3 DEF Iterates
<1> DEFINE f == [i \in a .. b |-> g[i - a]]
<1>5. \A i \in a .. b : i - a \in 0 .. N
  BY <1>1
<1>6. f \in [a .. b -> X] /\ f[a] = base
  <2>1. a \in a .. b /\ a - a = 0
    OBVIOUS
  <2> HIDE DEF N
  <2> QED BY <1>4, <1>5, <2>1
<1>7. ASSUME NEW i \in a + 1 .. b PROVE f[i] = step[i][f[i - 1]]
  <2>1. /\ i - a \in 1 .. N /\ i \in a .. b /\ i - 1 \in a .. b
        /\ (i - 1) - a = (i - a) - 1 /\ a + (i - a) = i
    OBVIOUS
  <2>2. f[i] = g[i - a] /\ f[i - 1] = g[(i - a) - 1]
    BY <2>1
  <2>3. g[i - a] = shifted[i - a][g[(i - a) - 1]]
    BY <1>4, <2>1
  <2>4. shifted[i - a] = step[i]
    BY <2>1
  <2> HIDE DEF f, shifted
  <2> QED BY <2>2, <2>3, <2>4
<1> HIDE DEF f
<1> QED BY <1>6, <1>7

(* A nonempty set of numbers up to a bound has a greatest.                 *)
LEMMA GreatestExists ==
  ASSUME NEW b \in Int, NEW S, \A n \in S : n \in Int /\ n <= b, S # {}
  PROVE  \E n \in S : \A m \in S : m <= n
<1> DEFINE R == {b - n : n \in S}
<1>1. R \in SUBSET Nat /\ R # {}
  OBVIOUS
<1>2. PICK x \in R : \A y \in R : x <= y
  <2> HIDE DEF R
  <2> QED BY <1>1, LeastExists, Zenon
<1>3. PICK n \in S : x = b - n
  OBVIOUS
<1>4. ASSUME NEW m \in S PROVE m <= n
  <2>1. x <= b - m
    BY <1>2
  <2> QED BY <1>3, <2>1
<1> QED BY <1>4

(* Max is the greatest of such a set.                                      *)
LEMMA MaxIsGreatest ==
  ASSUME NEW b \in Int, NEW S, \A n \in S : n \in Int /\ n <= b, S # {}
  PROVE  Max(S) \in S /\ \A m \in S : m <= Max(S)
<1>1. \E n \in S : \A m \in S : m <= n
  BY GreatestExists
<1>2. \E n \in S : \A m \in S : n >= m
  BY <1>1
<1>3. Max(S) \in S /\ \A m \in S : Max(S) >= m
  BY <1>2, Zenon DEF Max
<1> QED BY <1>3

(* What holds at a and of every successor holds up to b.                   *)
LEMMA UpTo ==
  ASSUME NEW a \in Int, NEW b \in Int, NEW S, a \in S,
         \A i \in a + 1 .. b : i - 1 \in S => i \in S
  PROVE  a .. b \subseteq S
<1> DEFINE bad == {n \in 0 .. b - a : a + n \notin S}
<1>1. CASE bad = {}
  <2> SUFFICES ASSUME NEW i \in a .. b PROVE i \in S
    OBVIOUS
  <2>1. i - a \in 0 .. b - a /\ a + (i - a) = i
    OBVIOUS
  <2>2. ~(i - a \in bad)
    BY <1>1, Zenon
  <2>3. a + (i - a) \in S
    BY <2>1, <2>2
  <2> QED BY <2>1, <2>3
<1>2. CASE bad # {}
  <2>1. bad \in SUBSET Nat
    OBVIOUS
  <2>2. PICK n \in bad : \A m \in bad : n <= m
    <3> HIDE DEF bad
    <3> QED BY <1>2, <2>1, LeastExists, Zenon
  <2>3. n \in 0 .. b - a /\ a + n \notin S
    OBVIOUS
  <2>4. n # 0
    BY <2>3
  <2>5. n - 1 \in 0 .. b - a /\ ~(n <= n - 1) /\ a + n \in a + 1 .. b /\ (a + n) - 1 = a + (n - 1)
    BY <2>3, <2>4
  <2>6. n - 1 \notin bad
    BY <2>2, <2>5, Zenon
  <2>7. a + (n - 1) \in S
    BY <2>5, <2>6
  <2> QED BY <2>3, <2>5, <2>7
<1> QED BY <1>1, <1>2

(* The runs of a path: all its ends are the ends of some run.              *)
LEMMA RunsMeet ==
  ASSUME NEW path, Len(path) \in Nat, Len(path) > 1
  PROVE  /\ {1, Len(path)} \cup Cusps(path) = UNION {{r[1], r[2]} : r \in DirectionRuns(path)}
         /\ DirectionRuns(path) # {}
         /\ \A r \in DirectionRuns(path) :
              r[1] \in 1 .. Len(path) /\ r[2] \in 1 .. Len(path) /\ r[1] < r[2]
<1> DEFINE ends == {1, Len(path)} \cup Cusps(path)
           runs == DirectionRuns(path)
<1>1. ends \subseteq 1 .. Len(path) /\ 1 \in ends /\ Len(path) \in ends
  BY DEF Cusps
<1>2. runs = {r \in ends \X ends : r[1] < r[2] /\ \A e \in ends : ~(r[1] < e /\ e < r[2])}
  BY DEF DirectionRuns
<1> HIDE DEF ends, runs
<1>3. \A r \in runs : r[1] \in ends /\ r[2] \in ends /\ r[1] < r[2]
  BY <1>2
<1>4. ASSUME NEW e \in ends, e < Len(path) PROVE \E f \in ends : <<e, f>> \in runs
  <2> DEFINE later == {f \in ends : e < f}
  <2>1. later \in SUBSET Nat /\ later # {}
    <3>1. ends \in SUBSET Nat
      BY <1>1
    <3>2. Len(path) \in later
      BY <1>1, <1>4
    <3> QED BY <3>1, <3>2
  <2>2. PICK f \in later : \A g \in later : f <= g
    <3> HIDE DEF later
    <3> QED BY <2>1, LeastExists, Zenon
  <2>3. f \in ends /\ e < f /\ \A g \in ends : e < g => f <= g
    BY <2>2
  <2>4. \A g \in ends : ~(e < g /\ g < f)
    BY <1>1, <2>3
  <2> QED BY <1>2, <2>3, <2>4
<1>5. \E d \in ends : <<d, Len(path)>> \in runs
  <2> DEFINE sooner == {d \in ends : d < Len(path)}
  <2>1. (\A n \in sooner : n \in Int /\ n <= Len(path)) /\ sooner # {}
    BY <1>1
  <2>2. PICK d \in sooner : \A g \in sooner : g <= d
    <3> HIDE DEF sooner
    <3> QED BY <2>1, GreatestExists
  <2>3. d \in ends /\ d < Len(path) /\ \A g \in ends : g < Len(path) => g <= d
    BY <2>2
  <2>4. \A g \in ends : ~(d < g /\ g < Len(path))
    BY <1>1, <2>3
  <2> QED BY <1>1, <1>2, <2>3, <2>4
<1>6. ASSUME NEW e \in ends PROVE e \in UNION {{r[1], r[2]} : r \in runs}
  <2>1. CASE e < Len(path)
    <3>1. PICK f \in ends : <<e, f>> \in runs
      BY <1>4, <2>1
    <3> QED BY <3>1
  <2>2. CASE ~(e < Len(path))
    <3>1. e = Len(path)
      BY <1>1, <2>2
    <3> QED BY <1>5, <3>1
  <2> QED BY <2>1, <2>2
<1>7. ends = UNION {{r[1], r[2]} : r \in runs}
  BY <1>3, <1>6
<1>8. runs # {}
  BY <1>5
<1> QED BY <1>1, <1>3, <1>7, <1>8 DEF ends, runs

(* The waypoints of a path, and a stretch of it. *)
Waypoints == Seq([at : Int \X Int, heading : 0 .. 3, dir : Signs])
Stretch(path, r) == r[1] \in 1 .. Len(path) /\ r[2] \in 1 .. Len(path) /\ r[1] < r[2]

(* The clearance of a point is a natural number, on the grid and off it.   *)
LEMMA DistanceIsNatural ==
  ASSUME NEW w \in Problem, NEW p
  PROVE  DistanceAt(w, p) \in Nat
<1>1. CASE p \in Cell
  <2>1. DistanceAt(w, p) \in 0 .. Decay
    BY <1>1, DistanceIsBounded
  <2> QED BY <2>1, Constants
<1>2. CASE p \notin Cell
  BY <1>2, Constants DEF DistanceAt, InBounds
<1> QED BY <1>1, <1>2

(* A hop leads ahead, and past a waypoint only over an admissible segment. *)
LEMMA HopAhead ==
  ASSUME NEW path, NEW r, r[1] \in Int, r[2] \in Int, NEW i \in r[1] .. r[2] - 1
  PROVE  /\ Hop(path, r, i) \in i + 1 .. r[2]
         /\ Hop(path, r, i) # i + 1 =>
              SegmentAdmissible(path[i].at, path[Hop(path, r, i)].at,
                Min({DistanceAt(world, path[k].at) : k \in i .. Hop(path, r, i)}))
<1> DEFINE chainMin(j) == Min({DistanceAt(world, path[k].at) : k \in i .. j})
           far == {j \in i + 2 .. r[2] : SegmentAdmissible(path[i].at, path[j].at, chainMin(j))}
<1>1. Hop(path, r, i) = IF far = {} THEN i + 1 ELSE Max(far)
  BY DEF Hop
<1>2. CASE far = {}
  BY <1>1, <1>2
<1>3. CASE far # {}
  <2>1. \A n \in far : n \in Int /\ n <= r[2]
    OBVIOUS
  <2>2. Max(far) \in far
    <3> HIDE DEF far
    <3> QED BY <1>3, <2>1, MaxIsGreatest
  <2>3. Max(far) \in i + 2 .. r[2] /\ SegmentAdmissible(path[i].at, path[Max(far)].at, chainMin(Max(far)))
    BY <2>2
  <2>4. Hop(path, r, i) = Max(far)
    BY <1>1, <1>3
  <2> HIDE DEF far
  <2> QED BY <2>3, <2>4
<1> QED BY <1>2, <1>3

(* The first waypoint is kept, and of the others those that a hop leads to *)
(* from one that is kept.                                                  *)
LEMMA ShortcutChains ==
  ASSUME NEW path, NEW r, r[1] \in Int, r[2] \in Int, r[1] < r[2]
  PROVE  /\ Shortcut(path, r) \subseteq r[1] .. r[2]
         /\ \A i \in r[1] .. r[2] :
              i \in Shortcut(path, r) <=>
                i = r[1] \/ \E k \in Shortcut(path, r) : k < i /\ Hop(path, r, k) = i
<1> DEFINE a == r[1]
           b == r[2]
           X == SUBSET Int
           Added(x, i) == {j \in {i} : \E k \in x : Hop(path, r, k) = j}
           step == [i \in a + 1 .. b |-> [x \in X |-> x \cup Added(x, i)]]
           Grows(f) == f = [i \in a .. b |-> IF i = a THEN {i} ELSE f[i - 1] \cup Added(f[i - 1], i)]
<1>1. a \in Int /\ b \in Int /\ a < b /\ a <= b /\ {a} \in X
  OBVIOUS
<1>2. \A i \in a + 1 .. b : \A x \in X : step[i][x] = x \cup Added(x, i) /\ step[i][x] \in X
  <2> SUFFICES ASSUME NEW i \in a + 1 .. b, NEW x \in X
               PROVE  step[i][x] = x \cup Added(x, i) /\ step[i][x] \in X
    OBVIOUS
  <2>1. step[i][x] = x \cup Added(x, i)
    <3> HIDE DEF Added, a, b
    <3> QED OBVIOUS
  <2>2. Added(x, i) \subseteq {i} /\ i \in Int
    BY <1>1
  <2> HIDE DEF Added, a, b, step
  <2> QED BY <2>1, <2>2
<1>3. PICK f : IteratesFrom(f, step, {a}, a, b, X)
  <2> DEFINE base == {a}
  <2> HIDE DEF step, a, b, X, Added
  <2>1. IsStepFrom(step, a, b, X)
    BY <1>2 DEF IsStepFrom
  <2>2. base \in X
    BY <1>1
  <2> HIDE DEF base
  <2>3. \E f : IteratesFrom(f, step, base, a, b, X)
    BY <1>1, <2>1, <2>2, IterationFrom
  <2> QED BY <2>3 DEF base
<1>31. f \in [a .. b -> X] /\ f[a] = {a} /\ \A i \in a + 1 .. b : f[i] = step[i][f[i - 1]]
  BY <1>3 DEF IteratesFrom
<1>4. Grows(f)
  <2>1. ASSUME NEW i \in a .. b
        PROVE  f[i] = IF i = a THEN {i} ELSE f[i - 1] \cup Added(f[i - 1], i)
    <3>1. CASE i = a
      BY <1>31, <3>1
    <3>2. CASE i # a
      <4>1. i \in a + 1 .. b /\ i - 1 \in a .. b
        BY <1>1, <3>2
      <4>2. f[i - 1] \in X
        BY <1>31, <4>1
      <4>3. f[i] = f[i - 1] \cup Added(f[i - 1], i)
        <5> HIDE DEF step, Added
        <5> QED BY <1>2, <1>31, <4>1, <4>2
      <4> QED BY <3>2, <4>3
    <3> QED BY <3>1, <3>2
  <2>2. f = [i \in a .. b |-> f[i]]
    BY <1>31
  <2> HIDE DEF a, b, Added
  <2> QED BY <2>1, <2>2
<1> DEFINE kept == CHOOSE g : Grows(g)
<1>5. Shortcut(path, r) = kept[b]
  BY DEF Shortcut
<1>6. Grows(kept)
  <2> HIDE DEF Grows
  <2> QED BY <1>4
<1> HIDE DEF kept
<1>7. \A i \in a .. b : kept[i] = IF i = a THEN {i} ELSE kept[i - 1] \cup Added(kept[i - 1], i)
  <2> HIDE DEF a, b, Added
  <2> QED BY <1>6
<1>8. kept[a] = {a}
  <2>1. a \in a .. b
    BY <1>1
  <2> HIDE DEF a, b, Added
  <2> QED BY <1>7, <2>1
<1>9. ASSUME NEW i \in a + 1 .. b
      PROVE  /\ kept[i] \subseteq kept[i - 1] \cup {i} /\ kept[i - 1] \subseteq kept[i]
             /\ (\E k \in kept[i - 1] : Hop(path, r, k) = i) => i \in kept[i]
             /\ i \in kept[i] => i \in kept[i - 1] \/ \E k \in kept[i - 1] : Hop(path, r, k) = i
  <2>1. i \in a .. b /\ i # a
    BY <1>1
  <2>2. kept[i] = kept[i - 1] \cup Added(kept[i - 1], i)
    BY <1>7, <2>1
  <2> QED BY <2>2
<1>10. \A i \in a .. b : kept[i] \subseteq a .. i
  <2> DEFINE S == {i \in a .. b : kept[i] \subseteq a .. i}
  <2>1. a \in S
    BY <1>1, <1>8
  <2>2. ASSUME NEW i \in a + 1 .. b, i - 1 \in S PROVE i \in S
    <3>1. kept[i - 1] \subseteq a .. i - 1 /\ kept[i] \subseteq kept[i - 1] \cup {i} /\ i \in a .. b
      BY <1>1, <1>9, <2>2
    <3>2. kept[i] \subseteq a .. i
      BY <1>1, <3>1
    <3> QED BY <3>1, <3>2
  <2>3. a .. b \subseteq S
    <3> HIDE DEF S, a, b
    <3> QED BY <1>1, <2>1, <2>2, UpTo
  <2> QED BY <2>3
<1>11. ASSUME NEW m \in a .. b, NEW n \in a .. b, m <= n
       PROVE  m \in kept[n] <=> m \in kept[m]
  <2> DEFINE S == {i \in m .. b : m \in kept[i] <=> m \in kept[m]}
  <2>1. m \in S
    BY <1>1
  <2>2. ASSUME NEW i \in m + 1 .. b, i - 1 \in S PROVE i \in S
    <3>1. i \in a + 1 .. b /\ i \in m .. b /\ m # i
      BY <1>1
    <3>2. kept[i] \subseteq kept[i - 1] \cup {i} /\ kept[i - 1] \subseteq kept[i]
      BY <1>9, <3>1
    <3>3. m \in kept[i] <=> m \in kept[i - 1]
      BY <3>1, <3>2
    <3> QED BY <2>2, <3>1, <3>3
  <2>3. m .. b \subseteq S
    <3>1. m \in Int
      BY <1>1
    <3> HIDE DEF S, a, b
    <3> QED BY <1>1, <2>1, <2>2, <3>1, UpTo
  <2>4. n \in m .. b
    BY <1>1, <1>11
  <2> QED BY <2>3, <2>4
<1>12. ASSUME NEW i \in a .. b
       PROVE  i \in kept[b] <=> i = a \/ \E k \in kept[b] : k < i /\ Hop(path, r, k) = i
  <2>1. i \in kept[b] <=> i \in kept[i]
    BY <1>1, <1>11
  <2>2. CASE i = a
    BY <1>8, <2>1, <2>2
  <2>3. CASE i # a
    <3>1. i \in a + 1 .. b /\ i - 1 \in a .. b
      BY <1>1, <2>3
    <3>2. kept[i - 1] \subseteq a .. i - 1
      BY <1>10, <3>1
    <3>3. i \in kept[i] <=> \E k \in kept[i - 1] : Hop(path, r, k) = i
      BY <1>1, <1>9, <3>1, <3>2
    <3>4. ASSUME NEW k PROVE k \in kept[i - 1] <=> k \in kept[b] /\ k < i
      <4>1. kept[b] \subseteq a .. b
        BY <1>1, <1>10
      <4>2. ASSUME k \in a .. i - 1 PROVE k \in kept[i - 1] <=> k \in kept[b]
        <5>1. k \in a .. b /\ k <= i - 1 /\ k <= b /\ b \in a .. b
          BY <1>1, <3>1, <4>2
        <5> QED BY <1>11, <3>1, <5>1
      <4>3. k \in kept[i - 1] => k \in a .. i - 1
        BY <3>2
      <4>4. k \in kept[b] /\ k < i => k \in a .. i - 1
        BY <1>1, <3>1, <4>1
      <4>5. k \in a .. i - 1 => k < i
        BY <1>1, <3>1
      <4> QED BY <4>2, <4>3, <4>4, <4>5
    <3> QED BY <2>1, <2>3, <3>3, <3>4
  <2> QED BY <2>2, <2>3
<1>13. kept[b] \subseteq a .. b
  BY <1>1, <1>10
<1> QED BY <1>5, <1>12, <1>13

(* Both ends of a stretch are kept, and a waypoint that is kept hops to    *)
(* the next that is: a hop that started before a kept waypoint ended at    *)
(* it or before it.                                                        *)
LEMMA ShortcutHops ==
  ASSUME NEW path, NEW r, r[1] \in Int, r[2] \in Int, r[1] < r[2]
  PROVE  /\ r[1] \in Shortcut(path, r) /\ r[2] \in Shortcut(path, r)
         /\ Shortcut(path, r) \subseteq r[1] .. r[2]
         /\ \A i, j \in Shortcut(path, r) :
              (i < j /\ \A k \in Shortcut(path, r) : ~(i < k /\ k < j)) => Hop(path, r, i) = j
<1> DEFINE on == Shortcut(path, r)
           hop(i) == Hop(path, r, i)
<1>1. on \subseteq r[1] .. r[2]
  BY ShortcutChains
<1>2. \A i \in r[1] .. r[2] : i \in on <=> i = r[1] \/ \E k \in on : k < i /\ hop(k) = i
  BY ShortcutChains
<1>3. \A i \in r[1] .. r[2] - 1 : hop(i) \in i + 1 .. r[2]
  BY HopAhead
<1> HIDE DEF on, hop
<1>4. r[1] \in on
  <2>1. r[1] \in r[1] .. r[2]
    OBVIOUS
  <2> QED BY <1>2, <2>1
<1>5. r[2] \in on
  <2>1. \A n \in on : n \in Int /\ n <= r[2]
    BY <1>1
  <2>2. PICK g \in on : \A n \in on : n <= g
    BY <1>4, <2>1, GreatestExists
  <2>3. CASE g = r[2]
    BY <2>3
  <2>4. CASE g # r[2]
    <3>1. g \in r[1] .. r[2] - 1
      BY <1>1, <2>4
    <3>2. hop(g) \in g + 1 .. r[2]
      BY <1>3, <3>1
    <3>3. hop(g) \in r[1] .. r[2] /\ g < hop(g) /\ ~(hop(g) <= g)
      BY <3>1, <3>2
    <3>4. hop(g) \in on
      BY <1>2, <3>3
    <3> QED BY <2>2, <3>3, <3>4
  <2> QED BY <2>3, <2>4
<1>6. \A i \in on : \A k \in on : k < i => hop(k) <= i
  <2> DEFINE bad == {i \in on : \E k \in on : k < i /\ ~(hop(k) <= i)}
  <2>1. CASE bad = {}
    BY <2>1
  <2>2. CASE bad # {}
    <3> DEFINE offsets == {i - r[1] : i \in bad}
    <3>1. offsets \in SUBSET Nat /\ offsets # {}
      <4>1. \A i \in bad : i - r[1] \in Nat
        BY <1>1
      <4> HIDE DEF bad
      <4> QED BY <2>2, <4>1
    <3>2. PICK o \in offsets : \A m \in offsets : o <= m
      <4> HIDE DEF offsets
      <4> QED BY <3>1, LeastExists, Zenon
    <3>3. PICK i \in bad : o = i - r[1]
      OBVIOUS
    <3>4. \A j \in bad : i <= j
      <4> SUFFICES ASSUME NEW j \in bad PROVE i <= j
        OBVIOUS
      <4>1. o <= j - r[1]
        BY <3>2
      <4>2. i \in Int /\ j \in Int
        BY <1>1
      <4> QED BY <3>3, <4>1, <4>2
    <3>5. PICK k \in on : k < i /\ ~(hop(k) <= i)
      OBVIOUS
    <3>6. i \in on /\ i \in r[1] .. r[2] /\ k \in r[1] .. r[2] /\ i # r[1]
      BY <1>1, <3>5
    <3>7. PICK m \in on : m < i /\ hop(m) = i
      BY <1>2, <3>6
    <3>8. m \in r[1] .. r[2]
      BY <1>1
    <3>9. \A x \in on : x < i => \A y \in on : y < x => hop(y) <= x
      <4> SUFFICES ASSUME NEW x \in on, x < i, NEW y \in on, y < x, ~(hop(y) <= x) PROVE FALSE
        OBVIOUS
      <4>1. x \in bad
        OBVIOUS
      <4>2. i <= x /\ x \in Int
        BY <1>1, <3>4, <4>1
      <4> QED BY <3>6, <4>2
    <3>10. hop(k) \in Int /\ hop(m) \in Int
      <4>1. k \in r[1] .. r[2] - 1 /\ m \in r[1] .. r[2] - 1
        BY <3>5, <3>6, <3>7, <3>8
      <4> QED BY <1>3, <4>1
    <3>11. CASE m = k
      BY <3>5, <3>6, <3>7, <3>11
    <3>12. CASE k < m
      <4>1. hop(k) <= m
        BY <3>7, <3>9, <3>12
      <4> QED BY <3>5, <3>6, <3>7, <3>8, <3>10, <4>1
    <3>13. CASE m < k
      <4>1. hop(m) <= k
        BY <3>5, <3>9, <3>13
      <4> QED BY <3>5, <3>6, <3>7, <3>8, <3>10, <4>1
    <3> QED BY <3>6, <3>8, <3>11, <3>12, <3>13
  <2> QED BY <2>1, <2>2
<1>7. ASSUME NEW i \in on, NEW j \in on, i < j, \A k \in on : ~(i < k /\ k < j)
      PROVE  hop(i) = j
  <2>1. i \in r[1] .. r[2] /\ j \in r[1] .. r[2] /\ j # r[1]
    BY <1>1, <1>7
  <2>2. PICK k \in on : k < j /\ hop(k) = j
    BY <1>2, <2>1
  <2>3. k \in r[1] .. r[2] /\ ~(i < k)
    BY <1>1, <1>7, <2>2
  <2>4. ~(k < i)
    <3>1. k < i => hop(k) <= i
      BY <1>6
    <3> QED BY <1>7, <2>1, <2>2, <3>1
  <2>5. k = i
    BY <2>1, <2>3, <2>4
  <2> QED BY <2>2, <2>5
<1> QED BY <1>1, <1>4, <1>5, <1>7 DEF on, hop

(* A quotient whose remainder is known.                                    *)
LEMMA QuotientIs ==
  ASSUME NEW m \in Nat \ {0}, NEW q \in Int, NEW n \in 0 .. m - 1
  PROVE  (m * q + n) \div m = q
OBVIOUS

(* The points on a segment are on the lattice, and its last is its end.    *)
LEMMA PointsOn ==
  ASSUME NEW p \in Int \X Int, NEW q \in Int \X Int, NEW n \in Nat \ {0}
  PROVE  /\ \A k \in Int : PointOn(p, q, k, n) \in Int \X Int
         /\ PointOn(p, q, n, n) = q
<1>1. p[1] \in Int /\ p[2] \in Int /\ q[1] \in Int /\ q[2] \in Int /\ q = <<q[1], q[2]>>
  OBVIOUS
<1>2. ASSUME NEW x \in Int, NEW y \in Int, NEW k \in Int
      PROVE  (2 * (x * n + (y - x) * k) + n) \div (2 * n) \in Int
  <2>1. x * n \in Int /\ (y - x) * k \in Int
    OBVIOUS
  <2>2. 2 * (x * n + (y - x) * k) + n \in Int /\ 2 * n \in Nat \ {0}
    BY <2>1
  <2> QED BY <2>2
<1>3. ASSUME NEW x \in Int, NEW y \in Int
      PROVE  (2 * (x * n + (y - x) * n) + n) \div (2 * n) = y
  <2>1. 2 * (x * n + (y - x) * n) + n = (2 * n) * y + n
    OBVIOUS
  <2>2. 2 * n \in Nat \ {0} /\ n \in 0 .. 2 * n - 1
    OBVIOUS
  <2> QED BY <2>1, <2>2, QuotientIs
<1>4. \A k \in Int : PointOn(p, q, k, n) \in Int \X Int
  BY <1>1, <1>2 DEF PointOn
<1>5. PointOn(p, q, n, n) = q
  BY <1>1, <1>3 DEF PointOn
<1> QED BY <1>4, <1>5

(* Nothing apart is the same place. *)
LEMMA ApartOfSame ==
  ASSUME NEW p \in Int \X Int, NEW q \in Int \X Int, Apart(p, q) = 0
  PROVE  p = q
<1>1. p[1] \in Int /\ p[2] \in Int /\ q[1] \in Int /\ q[2] \in Int
      /\ p = <<p[1], p[2]>> /\ q = <<q[1], q[2]>>
  OBVIOUS
<1>2. p[1] = q[1] /\ p[2] = q[2]
  BY <1>1 DEF Apart, Larger, Gap
<1> QED BY <1>1, <1>2

(* The points sampled on a segment are on the lattice. *)
LEMMA SamplesTyped ==
  ASSUME NEW p \in Int \X Int, NEW q \in Int \X Int
  PROVE  Samples(p, q) \subseteq Int \X Int
<1> DEFINE n == 2 * Larger(1, Apart(p, q))
<1>1. Apart(p, q) \in Nat
  BY ApartIsNatural
<1>2. n \in Nat \ {0}
  BY <1>1 DEF Larger
<1>3. Samples(p, q) = {PointOn(p, q, k, n) : k \in 0 .. n}
  BY DEF Samples
<1> HIDE DEF n
<1> QED BY <1>2, <1>3, PointsOn

(* Unit steps end where the segment does, if it has any length.            *)
LEMMA UnitStepsEnd ==
  ASSUME NEW p \in Int \X Int, NEW q \in Int \X Int
  PROVE  /\ UnitSteps(p, q) \in Seq(Int \X Int) /\ Len(UnitSteps(p, q)) = Apart(p, q)
         /\ Apart(p, q) \in Nat
         /\ Apart(p, q) # 0 => UnitSteps(p, q)[Apart(p, q)] = q
<1> DEFINE n == Apart(p, q)
<1>1. n \in Nat
  BY ApartIsNatural
<1>2. UnitSteps(p, q) = [k \in 1 .. n |-> PointOn(p, q, k, n)]
  BY DEF UnitSteps
<1> HIDE DEF n
<1>3. ASSUME NEW k \in 1 .. n PROVE PointOn(p, q, k, n) \in Int \X Int
  <2>1. n \in Nat \ {0} /\ k \in Int
    BY <1>1
  <2> QED BY <2>1, PointsOn
<1>4. UnitSteps(p, q) \in Seq(Int \X Int) /\ Len(UnitSteps(p, q)) = n
  <2>1. UnitSteps(p, q) \in [1 .. n -> Int \X Int]
    BY <1>2, <1>3
  <2> QED BY <1>1, <2>1, LenProperties, IsASeq
<1>5. n # 0 => UnitSteps(p, q)[n] = q
  <2> SUFFICES ASSUME n # 0 PROVE UnitSteps(p, q)[n] = q
    OBVIOUS
  <2>1. n \in Nat \ {0} /\ n \in 1 .. n
    BY <1>1
  <2>2. UnitSteps(p, q)[n] = PointOn(p, q, n, n)
    BY <1>2, <2>1
  <2> QED BY <2>1, <2>2, PointsOn
<1> QED BY <1>1, <1>4, <1>5 DEF n

(* What is joined to a sequence ends it.                                   *)
LEMMA LastOfJoined ==
  ASSUME NEW s \in Seq(Int \X Int), NEW t \in Seq(Int \X Int), Len(t) # 0
  PROVE  (s \o t)[Len(s \o t)] = t[Len(t)]
<1>1. Len(s) \in Nat /\ Len(t) \in Nat /\ Len(s \o t) = Len(s) + Len(t)
  BY ConcatProperties
<1>2. Len(s) + Len(t) > Len(s) /\ Len(s) + Len(t) \in 1 .. Len(s) + Len(t)
      /\ Len(s) + Len(t) - Len(s) = Len(t)
  BY <1>1
<1>3. (s \o t)[Len(s) + Len(t)] = t[Len(s) + Len(t) - Len(s)]
  BY <1>1, <1>2, ConcatProperties
<1> QED BY <1>1, <1>2, <1>3

(* A way leads from the first of its points to the last, if it passes that.*)
LEMMA WayEnds ==
  ASSUME NEW points \in Seq(Int \X Int), Len(points) > 1, NEW on, Len(points) \in on
  PROVE  /\ WayPast(points, on) \in Seq(Int \X Int) /\ Len(WayPast(points, on)) \in Nat \ {0}
         /\ WayPast(points, on)[1] = points[1]
         /\ WayPast(points, on)[Len(WayPast(points, on))] = points[Len(points)]
<1> DEFINE a == 1
           b == Len(points)
           Lines == {l \in Seq(Int \X Int) : Len(l) # 0 /\ l[1] = points[a]}
           Grown(l, i) == IF i \in on THEN l \o UnitSteps(l[Len(l)], points[i]) ELSE l
           step == [i \in a + 1 .. b |-> [l \in Lines |-> Grown(l, i)]]
           Grows(f) == f = [i \in a .. b |-> IF i = a THEN <<points[i]>> ELSE Grown(f[i - 1], i)]
<1>1. a \in Int /\ b \in Int /\ a < b /\ a <= b
      /\ \A i \in a .. b : i \in DOMAIN points
  OBVIOUS
<1>2. \A i \in a .. b : points[i] \in Int \X Int
  BY <1>1
<1>3. <<points[a]>> \in Lines
  <2>1. a \in a .. b
    BY <1>1
  <2> HIDE DEF a
  <2> QED BY <1>2, <2>1
<1>4. ASSUME NEW l \in Lines, NEW i \in a .. b
      PROVE  Grown(l, i) \in Lines /\ (i \in on => Grown(l, i)[Len(Grown(l, i))] = points[i])
  <2> DEFINE p == l[Len(l)]
             q == points[i]
             s == UnitSteps(p, q)
  <2>1. l \in Seq(Int \X Int) /\ Len(l) \in Nat \ {0} /\ l[1] = points[a]
    OBVIOUS
  <2>2. p \in Int \X Int /\ q \in Int \X Int
    BY <1>2, <2>1
  <2>3. s \in Seq(Int \X Int) /\ Len(s) = Apart(p, q) /\ Apart(p, q) \in Nat
        /\ (Apart(p, q) # 0 => s[Apart(p, q)] = q)
    <3> HIDE DEF p, q
    <3> QED BY <2>2, UnitStepsEnd
  <2>4. CASE i \in on
    <3>1. Grown(l, i) = l \o s
      BY <2>4
    <3> DEFINE g == l \o s
    <3>2. g \in Seq(Int \X Int) /\ Len(g) = Len(l) + Len(s)
      <4> HIDE DEF s
      <4> QED BY <2>1, <2>3, ConcatProperties
    <3>3. g[1] = l[1]
      <4> HIDE DEF s
      <4> QED BY <2>1, <2>3
    <3>4. g[Len(g)] = q
      <4>1. CASE Len(s) = 0
        <5>1. p = q
          <6> HIDE DEF p, q, s
          <6> QED BY <2>2, <2>3, <4>1, ApartOfSame
        <5>2. g[Len(g)] = l[Len(l)]
          <6> HIDE DEF s
          <6> QED BY <2>1, <2>3, <3>2, <4>1
        <5> QED BY <5>1, <5>2
      <4>2. CASE Len(s) # 0
        <5>1. g[Len(g)] = s[Len(s)]
          <6> HIDE DEF s
          <6> QED BY <2>1, <2>3, <4>2, LastOfJoined
        <5> HIDE DEF g, s, p, q
        <5> QED BY <2>3, <4>2, <5>1
      <4> QED BY <4>1, <4>2
    <3> HIDE DEF g
    <3>5. Grown(l, i) = g
      BY <3>1 DEF g
    <3>6. g \in Lines
      BY <2>1, <2>3, <3>2, <3>3
    <3> HIDE DEF Grown
    <3> QED BY <3>4, <3>5, <3>6
  <2>5. CASE i \notin on
    BY <2>5
  <2> QED BY <2>4, <2>5
<1> HIDE DEF Lines
<1>5. PICK f : IteratesFrom(f, step, <<points[a]>>, a, b, Lines)
  <2> DEFINE base == <<points[a]>>
  <2>1. \A i \in a + 1 .. b : \A l \in Lines : step[i][l] \in Lines
    <3> SUFFICES ASSUME NEW i \in a + 1 .. b, NEW l \in Lines PROVE step[i][l] \in Lines
      OBVIOUS
    <3>1. step[i][l] = Grown(l, i)
      <4> HIDE DEF Grown, a, b
      <4> QED OBVIOUS
    <3>2. i \in a .. b
      BY <1>1
    <3> HIDE DEF Grown, step
    <3> QED BY <1>4, <3>1, <3>2
  <2> HIDE DEF step, a, b
  <2>2. IsStepFrom(step, a, b, Lines)
    BY <2>1 DEF IsStepFrom
  <2>3. base \in Lines
    BY <1>3
  <2> HIDE DEF base
  <2>4. \E f : IteratesFrom(f, step, base, a, b, Lines)
    BY <1>1, <2>2, <2>3, IterationFrom
  <2> QED BY <2>4 DEF base
<1>6. f \in [a .. b -> Lines] /\ f[a] = <<points[a]>>
      /\ \A i \in a + 1 .. b : f[i - 1] \in Lines /\ f[i] = Grown(f[i - 1], i)
  <2>1. f \in [a .. b -> Lines] /\ f[a] = <<points[a]>>
        /\ \A i \in a + 1 .. b : f[i] = step[i][f[i - 1]]
    BY <1>5 DEF IteratesFrom
  <2>2. \A i \in a + 1 .. b : f[i - 1] \in Lines
    <3> SUFFICES ASSUME NEW i \in a + 1 .. b PROVE f[i - 1] \in Lines
      OBVIOUS
    <3>1. i - 1 \in a .. b
      BY <1>1
    <3> HIDE DEF a, b, step
    <3> QED BY <2>1, <3>1
  <2>3. \A i \in a + 1 .. b : \A l \in Lines : step[i][l] = Grown(l, i)
    <3> HIDE DEF Grown, a, b
    <3> QED OBVIOUS
  <2> HIDE DEF a, b, Grown, step
  <2> QED BY <2>1, <2>2, <2>3
<1>7. Grows(f)
  <2>1. ASSUME NEW i \in a .. b
        PROVE  f[i] = IF i = a THEN <<points[i]>> ELSE Grown(f[i - 1], i)
    <3>1. CASE i = a
      <4> HIDE DEF Grown
      <4> QED BY <1>6, <3>1
    <3>2. CASE i # a
      <4>1. i \in a + 1 .. b
        BY <1>1, <3>2
      <4> HIDE DEF a, b, Grown
      <4> QED BY <1>6, <3>2, <4>1
    <3> QED BY <3>1, <3>2
  <2>2. f = [i \in a .. b |-> f[i]]
    BY <1>6
  <2> HIDE DEF a, b, Grown
  <2> QED BY <2>1, <2>2
<1> DEFINE upto == CHOOSE g : Grows(g)
<1>8. WayPast(points, on) = upto[b]
  BY DEF WayPast
<1>9. Grows(upto)
  <2> HIDE DEF Grows
  <2> QED BY <1>7
<1> HIDE DEF upto
<1>10. \A i \in a .. b : upto[i] = IF i = a THEN <<points[i]>> ELSE Grown(upto[i - 1], i)
  <2> HIDE DEF a, b, Grown
  <2> QED BY <1>9
<1>11. a .. b \subseteq {i \in a .. b : upto[i] \in Lines}
  <2> DEFINE S == {i \in a .. b : upto[i] \in Lines}
  <2>1. a \in S
    <3>1. a \in a .. b
      BY <1>1
    <3> HIDE DEF a, b, Grown
    <3> QED BY <1>3, <1>10, <3>1
  <2>2. ASSUME NEW i \in a + 1 .. b, i - 1 \in S PROVE i \in S
    <3>1. i \in a .. b /\ i # a /\ upto[i - 1] \in Lines
      BY <1>1, <2>2
    <3>2. upto[i] = Grown(upto[i - 1], i)
      <4> HIDE DEF a, b, Grown
      <4> QED BY <1>10, <3>1
    <3> HIDE DEF a, b, Grown
    <3> QED BY <1>4, <3>1, <3>2
  <2>3. \A i \in a + 1 .. b : i - 1 \in S => i \in S
    <3> HIDE DEF S, a, b
    <3> QED BY <2>2
  <2>4. a \in Int /\ b \in Int
    BY <1>1
  <2> HIDE DEF S, a, b
  <2>5. a .. b \subseteq S
    BY <2>1, <2>3, <2>4, UpTo
  <2> QED BY <2>5 DEF S
<1>12. b \in on
  OBVIOUS
<1>13. upto[b] = Grown(upto[b - 1], b) /\ upto[b - 1] \in Lines /\ b \in a .. b
  <2>1. b \in a .. b /\ b - 1 \in a .. b /\ b # a
    BY <1>1
  <2> HIDE DEF a, b, Grown
  <2> QED BY <1>10, <1>11, <2>1
<1>14. upto[b] \in Lines /\ upto[b][Len(upto[b])] = points[b]
  <2> HIDE DEF a, b, Grown
  <2> QED BY SMTT(20), <1>4, <1>12, <1>13
<1> QED BY <1>8, <1>14 DEF Lines

(* A point is emitted at every place of the way its number allows.         *)
LEMMA EmittedOnWay ==
  ASSUME NEW n \in Nat, NEW s \in Nat \ {0}, NEW k \in 1 .. n \div s + 1
  PROVE  (k - 1) * s + 1 \in 1 .. n + 1
<1> DEFINE q == n \div s
<1>1. q \in Nat /\ q * s <= n
  OBVIOUS
<1> HIDE DEF q
<1>2. k - 1 \in 0 .. q
  BY <1>1 DEF q
<1>3. \A x \in Nat : x <= q => x * s \in Nat /\ x * s <= q * s
  BY <1>1
<1>4. (k - 1) * s \in Nat /\ (k - 1) * s <= n
  <2> DEFINE x == k - 1
  <2>1. x \in Nat /\ x <= q
    BY <1>2
  <2> HIDE DEF x
  <2>2. x * s \in Nat /\ x * s <= n
    BY <1>1, <1>3, <2>1
  <2> QED BY <2>2 DEF x
<1> DEFINE y == (k - 1) * s
<1> HIDE DEF y
<1>5. y \in Nat /\ y <= n
  BY <1>4 DEF y
<1>6. y + 1 \in 1 .. n + 1
  BY <1>5
<1> QED BY <1>6 DEF y

(* A natural number is divided into one.                                   *)
LEMMA DividesToNat == \A x \in Nat : \A y \in Nat \ {0} : x \div y \in Nat
<1> SUFFICES ASSUME NEW x \in Nat, NEW y \in Nat \ {0} PROVE x \div y \in Nat
  OBVIOUS
<1>1. x \div y \in Int /\ y * (x \div y) <= x /\ x < y * (x \div y) + y
  OBVIOUS
<1> DEFINE q == x \div y
<1> HIDE DEF q
<1>2. q \in Int /\ x < y * q + y
  BY <1>1 DEF q
<1>3. ASSUME q < 0 PROVE FALSE
  <2>1. q + 1 <= 0 /\ y * q + y = y * (q + 1)
    BY <1>2, <1>3
  <2>2. \A k \in Int : k <= 0 => y * k <= 0
    OBVIOUS
  <2>3. y * (q + 1) <= 0
    BY <1>2, <2>1, <2>2
  <2> QED BY <1>2, <2>1, <2>3
<1>4. q \in Nat
  BY <1>2, <1>3
<1> QED BY <1>4 DEF q

(* What is resampled has two points at least, and the ends of the way.     *)
LEMMA ResampleEnds ==
  ASSUME NEW way \in Seq(Int \X Int), Len(way) \in Nat \ {0}
  PROVE  /\ Resample(way) \in Seq(Int \X Int) /\ Len(Resample(way)) \in Nat
         /\ Len(Resample(way)) > 1
         /\ Resample(way)[1] = way[1]
         /\ Resample(way)[Len(Resample(way))] = way[Len(way)]
<1> DEFINE n == Len(way) - 1
           m == n \div Spacing + 1
           emitted == [k \in 1 .. m |-> way[(k - 1) * Spacing + 1]]
           last == way[Len(way)]
           short == 2 * (n % Spacing) < Spacing /\ Len(emitted) > 1
<1>1. n \in Nat /\ Spacing \in Nat \ {0} /\ m \in Nat \ {0}
  <2>1. n \in Nat /\ Spacing \in Nat \ {0}
    BY SearchAssumption
  <2> HIDE DEF n
  <2>3. n \div Spacing \in Nat
    BY <2>1, DividesToNat
  <2> QED BY <2>1, <2>3
<1>2. last \in Int \X Int
  <2>1. Len(way) \in 1 .. Len(way)
    OBVIOUS
  <2> QED BY <2>1
<1>3. emitted \in Seq(Int \X Int) /\ Len(emitted) = m
  <2>1. ASSUME NEW k \in 1 .. m PROVE way[(k - 1) * Spacing + 1] \in Int \X Int
    <3>1. (k - 1) * Spacing + 1 \in 1 .. n + 1
      BY <1>1, EmittedOnWay
    <3>2. n + 1 = Len(way)
      OBVIOUS
    <3> QED BY <3>1, <3>2
  <2> HIDE DEF m
  <2>2. emitted \in [1 .. m -> Int \X Int]
    BY <2>1
  <2> HIDE DEF emitted
  <2> QED BY <1>1, <2>2, LenProperties, IsASeq
<1>4. emitted[1] = way[1]
  <2>1. (1 - 1) * Spacing + 1 = 1
    <3>1. Spacing \in Nat
      BY <1>1
    <3> QED BY <3>1
  <2>2. 1 \in 1 .. m
    BY <1>1
  <2> HIDE DEF m
  <2>3. emitted[1] = way[(1 - 1) * Spacing + 1]
    BY <2>2, Zenon
  <2> QED BY <2>1, <2>3, Zenon
<1>5. Resample(way) =
        IF short THEN [emitted EXCEPT ![Len(emitted)] = last] ELSE Append(emitted, last)
  BY DEF Resample
<1> HIDE DEF emitted, m, n, last
<1>6. CASE short
  <2> DEFINE s == [emitted EXCEPT ![Len(emitted)] = last]
  <2>1. Len(emitted) \in 1 .. Len(emitted) /\ Len(emitted) # 1 /\ 1 \in 1 .. Len(emitted)
    BY <1>1, <1>3, <1>6
  <2>2. s \in Seq(Int \X Int) /\ Len(s) = Len(emitted)
    BY <1>2, <1>3, <2>1, ExceptSeq
  <2>3. s[1] = emitted[1] /\ s[Len(emitted)] = last
    BY <1>3, <2>1
  <2> QED BY <1>1, <1>3, <1>4, <1>5, <1>6, <2>2, <2>3 DEF last
<1>7. CASE ~short
  <2> DEFINE s == Append(emitted, last)
  <2>1. s \in Seq(Int \X Int) /\ Len(s) = m + 1
        /\ s[m + 1] = last /\ s[1] = emitted[1]
    BY <1>1, <1>2, <1>3
  <2>2. m + 1 \in Nat /\ m + 1 > 1
    BY <1>1
  <2> QED BY <1>4, <1>5, <1>7, <2>1, <2>2 DEF last
<1> QED BY <1>6, <1>7

(* A run as it was found leads from its first waypoint to its last.        *)
LEMMA RawLineEnds ==
  ASSUME NEW path \in Waypoints, NEW r, Stretch(path, r)
  PROVE  /\ RawLine(path, r) \in Seq(Int \X Int) /\ Len(RawLine(path, r)) = r[2] - r[1] + 1
         /\ Len(RawLine(path, r)) \in Nat /\ Len(RawLine(path, r)) > 1
         /\ RawLine(path, r)[1] = path[r[1]].at
         /\ RawLine(path, r)[Len(RawLine(path, r))] = path[r[2]].at
<1> DEFINE n == r[2] - r[1] + 1
<1>1. n \in Nat /\ n > 1 /\ 1 \in 1 .. n /\ n \in 1 .. n
      /\ r[1] + 1 - 1 = r[1] /\ r[1] + n - 1 = r[2]
  BY DEF Stretch
<1>2. RawLine(path, r) = [i \in 1 .. n |-> path[r[1] + i - 1].at]
  BY DEF RawLine
<1>3. \A i \in DOMAIN path : path[i].at \in Int \X Int
  <2> DEFINE W == [at : Int \X Int, heading : 0 .. 3, dir : Signs]
  <2>1. path \in Seq(W)
    BY DEF Waypoints
  <2>2. \A w \in W : w.at \in Int \X Int
    OBVIOUS
  <2> HIDE DEF W
  <2>3. \A i \in DOMAIN path : path[i] \in W
    BY <2>1
  <2> QED BY <2>2, <2>3
<1>4. \A i \in 1 .. n : r[1] + i - 1 \in DOMAIN path
  BY SMTT(20) DEF Stretch, Waypoints
<1> HIDE DEF n
<1>5. RawLine(path, r) \in [1 .. n -> Int \X Int]
  BY <1>2, <1>3, <1>4
<1>6. RawLine(path, r) \in Seq(Int \X Int) /\ Len(RawLine(path, r)) = n
  BY <1>1, <1>5, LenProperties, IsASeq
<1>7. RawLine(path, r)[1] = path[r[1]].at /\ RawLine(path, r)[n] = path[r[2]].at
  BY <1>1, <1>2
<1> QED BY <1>1, <1>6, <1>7 DEF n

(* A cut line leads from the first waypoint of its run to the last: both   *)
(* are kept, and resampling keeps the ends.                                *)
LEMMA CutLineEnds ==
  ASSUME NEW path \in Waypoints, NEW r, Stretch(path, r)
  PROVE  /\ CutLine(path, r) \in Seq(Int \X Int) /\ Len(CutLine(path, r)) \in Nat
         /\ Len(CutLine(path, r)) > 1
         /\ CutLine(path, r)[1] = path[r[1]].at
         /\ CutLine(path, r)[Len(CutLine(path, r))] = path[r[2]].at
<1> DEFINE points == RawLine(path, r)
           on == {i - r[1] + 1 : i \in Shortcut(path, r)}
           way == WayPast(points, on)
<1>1. points \in Seq(Int \X Int) /\ Len(points) = r[2] - r[1] + 1 /\ Len(points) > 1
      /\ points[1] = path[r[1]].at /\ points[Len(points)] = path[r[2]].at
  BY RawLineEnds
<1>2. Len(points) \in on
  <2>1. r[1] \in Int /\ r[2] \in Int /\ r[1] < r[2]
    BY DEF Stretch, Waypoints
  <2>2. r[2] \in Shortcut(path, r)
    BY <2>1, ShortcutHops
  <2> QED BY <1>1, <2>2
<1>3. CutLine(path, r) = Resample(way)
  BY DEF CutLine
<1> HIDE DEF points, on
<1>4. way \in Seq(Int \X Int) /\ Len(way) \in Nat \ {0}
      /\ way[1] = points[1] /\ way[Len(way)] = points[Len(points)]
  BY <1>1, <1>2, WayEnds
<1> HIDE DEF way
<1> QED BY <1>1, <1>3, <1>4, ResampleEnds

(* Resampling a line once more keeps its ends.                             *)
LEMMA UniformEnds ==
  ASSUME NEW points \in Seq(Int \X Int), Len(points) > 1
  PROVE  /\ Uniform(points) \in Seq(Int \X Int)
         /\ Uniform(points)[1] = points[1]
         /\ Uniform(points)[Len(Uniform(points))] = points[Len(points)]
<1> DEFINE way == WayPast(points, 1 .. Len(points))
<1>1. way \in Seq(Int \X Int) /\ Len(way) \in Nat \ {0}
      /\ way[1] = points[1] /\ way[Len(way)] = points[Len(points)]
  <2>1. Len(points) \in 1 .. Len(points)
    OBVIOUS
  <2> QED BY <2>1, WayEnds
<1>2. Uniform(points) = Resample(way)
  BY DEF Uniform
<1> HIDE DEF way
<1> QED BY <1>1, <1>2, ResampleEnds

(* Moving inner points leaves the ends where they were.                    *)
LEMMA SmoothedEnds ==
  ASSUME NEW points \in Seq(Int \X Int), Len(points) \in Nat \ {0},
         NEW moved \in GradientSmooth(points)
  PROVE  /\ moved \in Seq(Int \X Int) /\ Len(moved) = Len(points)
         /\ moved[1] = points[1] /\ moved[Len(moved)] = points[Len(points)]
<1>1. CASE moved = points
  BY <1>1
<1>2. CASE moved # points
  <2>1. PICK i \in 2 .. Len(points) - 1 : \E c \in Cell : moved = [points EXCEPT ![i] = c]
    BY <1>2 DEF GradientSmooth
  <2>2. PICK c \in Cell : moved = [points EXCEPT ![i] = c]
    BY <2>1
  <2>3. c \in Int \X Int
    BY CellsAreNumbers
  <2>4. i # 1 /\ i # Len(points) /\ 1 \in 1 .. Len(points) /\ Len(points) \in 1 .. Len(points)
    OBVIOUS
  <2>5. moved \in Seq(Int \X Int) /\ Len(moved) = Len(points)
    BY <2>2, <2>3, ExceptSeq
  <2>6. \A k \in 1 .. Len(points) : k # i => moved[k] = points[k]
    BY <2>2
  <2> QED BY <2>4, <2>5, <2>6
<1> QED BY <1>1, <1>2

(* A line that passes the last look is free all along.                     *)
LEMMA CheckedIsFree ==
  ASSUME world \in Problems, NEW points \in Seq(Int \X Int), PostCheck(points)
  PROVE  \A i \in 1 .. Len(points) - 1 :
           \A p \in Samples(points[i], points[i + 1]) : Free(world, p)
<1> SUFFICES ASSUME NEW i \in 1 .. Len(points) - 1, NEW p \in Samples(points[i], points[i + 1])
             PROVE  Free(world, p)
  OBVIOUS
<1>1. Enterable(p)
  BY DEF PostCheck, SegmentAdmissible
<1>2. points[i] \in Int \X Int /\ points[i + 1] \in Int \X Int
  <2>1. i \in 1 .. Len(points) /\ i + 1 \in 1 .. Len(points)
    OBVIOUS
  <2> QED BY <2>1
<1>3. p \in Int \X Int
  BY <1>2, SamplesTyped
<1> QED BY <1>1, <1>3, ProblemsTyped, FreeIsEnterable DEF Enterable

(* What a run becomes meets its ends, and unless it is the run as it was   *)
(* found it is free all along.                                             *)
LEMMA ChainsMeetAndAreFree ==
  ASSUME world \in Problems, NEW path \in Waypoints, NEW r, Stretch(path, r),
         NEW points \in SmoothChain(path, r)
  PROVE  /\ points[1] = path[r[1]].at /\ points[Len(points)] = path[r[2]].at
         /\ points = RawLine(path, r) \/
              \A i \in 1 .. Len(points) - 1 :
                \A p \in Samples(points[i], points[i + 1]) : Free(world, p)
<1>1. CASE points = RawLine(path, r)
  <2> DEFINE n == r[2] - r[1] + 1
  <2>1. n \in Nat /\ 1 \in 1 .. n /\ n \in 1 .. n /\ r[1] + 1 - 1 = r[1] /\ r[1] + n - 1 = r[2]
    BY DEF Stretch
  <2>2. points = [i \in 1 .. n |-> path[r[1] + i - 1].at]
    BY <1>1 DEF RawLine
  <2> HIDE DEF n
  <2>3. Len(points) = n
    BY <2>1, <2>2
  <2> QED BY <1>1, <2>1, <2>2, <2>3
<1>2. CASE points # RawLine(path, r)
  <2>1. PICK moved \in GradientSmooth(CutLine(path, r)) :
          points = Uniform(moved) /\ PostCheck(points)
    BY <1>2 DEF SmoothChain
  <2>2. /\ CutLine(path, r) \in Seq(Int \X Int) /\ Len(CutLine(path, r)) \in Nat
        /\ Len(CutLine(path, r)) > 1
        /\ CutLine(path, r)[1] = path[r[1]].at
        /\ CutLine(path, r)[Len(CutLine(path, r))] = path[r[2]].at
    BY CutLineEnds
  <2>3. /\ moved \in Seq(Int \X Int) /\ Len(moved) = Len(CutLine(path, r))
        /\ moved[1] = path[r[1]].at /\ moved[Len(moved)] = path[r[2]].at
    BY <2>1, <2>2, SmoothedEnds
  <2>4. /\ points \in Seq(Int \X Int) /\ points[1] = moved[1]
        /\ points[Len(points)] = moved[Len(moved)]
    BY <2>1, <2>2, <2>3, UniformEnds
  <2> QED BY <2>1, <2>3, <2>4, CheckedIsFree
<1> QED BY <1>1, <1>2

(* A cut comes no nearer to an obstacle than some waypoint it replaces.    *)
LEMMA CutsKeepTheirDistance ==
  ASSUME world \in Problems, NEW path, NEW r, r[1] \in Int, r[2] \in Int, r[1] < r[2],
         NEW i \in Shortcut(path, r), NEW j \in Shortcut(path, r), i + 1 < j,
         \A k \in Shortcut(path, r) : ~(i < k /\ k < j),
         NEW p \in Samples(path[i].at, path[j].at)
  PROVE  \E k \in i .. j : DistanceAt(world, p) >= DistanceAt(world, path[k].at)
<1> DEFINE S == {DistanceAt(world, path[k].at) : k \in i .. j}
<1>1. i \in r[1] .. r[2] /\ j \in r[1] .. r[2] /\ i < j /\ i \in r[1] .. r[2] - 1
  <2>1. i \in r[1] .. r[2] /\ j \in r[1] .. r[2]
    BY ShortcutHops
  <2> QED BY <2>1
<1>2. Hop(path, r, i) = j
  BY <1>1, ShortcutHops
<1>3. SegmentAdmissible(path[i].at, path[j].at, Min(S))
  BY <1>1, <1>2, HopAhead
<1>4. DistanceAt(world, p) >= Min(S)
  BY <1>3 DEF SegmentAdmissible
<1>5. world \in Problem
  BY ProblemsTyped
<1>6. S \in SUBSET Nat /\ S # {}
  <2>1. i \in i .. j
    BY <1>1
  <2> QED BY <1>5, <2>1, DistanceIsNatural
<1>7. Min(S) \in S
  <2> HIDE DEF S
  <2> QED BY <1>6, MinIsLeast
<1> QED BY <1>4, <1>7

(* A path found, and what it was smoothed into.                            *)
Smoothed ==
  /\ phase \in {"found", "published"} => Driven
  /\ phase = "published" /\ Len(raw) > 1 =>
       /\ DOMAIN line = DirectionRuns(raw)
       /\ \A r \in DOMAIN line : line[r] \in SmoothChain(raw, r)

(* Smoothed runs keep the maneuver.                                        *)
LEMMA SmoothedKeepTheManeuver ==
  NodesOnWay /\ Smoothed => SmoothingKeepsTheManeuver
<1> SUFFICES ASSUME NodesOnWay, Smoothed, phase = "published", Len(raw) > 1
             PROVE  SmoothingKeepsTheManeuver
  BY DEF SmoothingKeepsTheManeuver
<1>1. world \in Problems
  BY DEF NodesOnWay
<1>2. raw \in Waypoints /\ Len(raw) \in Nat
  BY DEF Smoothed, Driven, DrivesTo, Waypoints
<1>3. DOMAIN line = DirectionRuns(raw) /\ \A r \in DOMAIN line : line[r] \in SmoothChain(raw, r)
  BY DEF Smoothed
<1>4. /\ {1, Len(raw)} \cup Cusps(raw) = UNION {{r[1], r[2]} : r \in DOMAIN line}
      /\ \A r \in DOMAIN line : Stretch(raw, r)
  BY <1>2, <1>3, RunsMeet DEF Stretch
<1>5. ASSUME NEW r \in DOMAIN line
      PROVE  /\ line[r][1] = raw[r[1]].at /\ line[r][Len(line[r])] = raw[r[2]].at
             /\ line[r] = RawLine(raw, r) \/
                  \A i \in 1 .. Len(line[r]) - 1 :
                    \A p \in Samples(line[r][i], line[r][i + 1]) : Free(world, p)
  <2>1. Stretch(raw, r) /\ line[r] \in SmoothChain(raw, r)
    BY <1>3, <1>4
  <2> QED BY <1>1, <1>2, <2>1, ChainsMeetAndAreFree
<1>6. ASSUME NEW r \in DOMAIN line, NEW i \in Shortcut(raw, r), NEW j \in Shortcut(raw, r),
             i + 1 < j, \A k \in Shortcut(raw, r) : ~(i < k /\ k < j),
             NEW p \in Samples(raw[i].at, raw[j].at)
      PROVE  \E k \in i .. j : DistanceAt(world, p) >= DistanceAt(world, raw[k].at)
  <2>1. r[1] \in Int /\ r[2] \in Int /\ r[1] < r[2]
    BY <1>2, <1>4 DEF Stretch
  <2> QED BY <1>1, <1>6, <2>1, CutsKeepTheirDistance
<1> QED BY <1>4, <1>5, <1>6 DEF SmoothingKeepsTheManeuver

(* Nothing is published at first. *)
LEMMA SmoothedStarts == Init => Smoothed
BY DEF Init, Smoothed

(* Paths are found driven, and are published smoothed. *)
LEMMA SmoothedKept == NodesOnWay /\ Smoothed /\ [Next]_vars => Smoothed'
<1> SUFFICES ASSUME NodesOnWay, Smoothed, [Next]_vars PROVE Smoothed'
  OBVIOUS
<1>1. CASE Arrive
  <2>1. PICK n \in open : AtGoal(n) /\ raw' = ReconstructPath(n) /\ world' = world
    BY <1>1 DEF Arrive
  <2>2. world \in Problems /\ OnWay(world, n)
    BY DEF NodesOnWay
  <2>3. DrivesTo(world, ReconstructPath(n), n.pose.at)
    BY <2>2, ReconstructedDrives
  <2>4. DrivesTo(world', raw', n.pose.at) /\ Apart(n.pose.at, world'.goal.at) < GoalRadius
    BY <2>1, <2>3 DEF AtGoal, Distance
  <2>5. Driven' /\ phase' = "found"
    BY <1>1, <2>4 DEF Driven, Arrive
  <2> QED BY <2>5 DEF Smoothed
<1>2. CASE Connect
  <2>1. PICK n \in open :
          world' = world /\ phase' = "found" /\ \E s \in Connections(n) : raw' = Extended(n, s)
    BY <1>2 DEF Connect
  <2>2. PICK s \in Connections(n) : raw' = Extended(n, s) /\ world' = world
    BY <2>1
  <2>3. world \in Problems /\ OnWay(world, n)
    BY DEF NodesOnWay
  <2>4. DrivesTo(world', raw', world'.goal.at)
    BY <2>2, <2>3, ExtendedDrives
  <2>5. Apart(world'.goal.at, world'.goal.at) < GoalRadius
    <3>1. world.goal.at \in Int \X Int
      BY <2>3, ProblemsTyped DEF LatticePose
    <3>2. world.goal.at[1] \in Int /\ world.goal.at[2] \in Int
      BY <3>1
    <3>3. Apart(world.goal.at, world.goal.at) = 0
      BY <3>2 DEF Apart, Gap, Larger
    <3> QED BY <2>2, <3>3, Constants
  <2>6. Driven'
    BY <2>4, <2>5 DEF Driven
  <2> QED BY <2>1, <2>6 DEF Smoothed
<1>3. CASE SmoothPath
  <2>1. phase = "found" /\ phase' = "published" /\ UNCHANGED <<world, raw>>
    BY <1>3 DEF SmoothPath
  <2>2. Driven'
    <3>1. Driven
      BY <2>1 DEF Smoothed
    <3> QED BY <2>1, <3>1 DEF Driven
  <2>3. raw \in Waypoints /\ Len(raw) \in Nat
    BY <2>1 DEF Smoothed, Driven, DrivesTo, Waypoints
  <2>4. ASSUME Len(raw) > 1
        PROVE  /\ DOMAIN line' = DirectionRuns(raw)
               /\ \A r \in DOMAIN line' : line'[r] \in SmoothChain(raw, r)
    <3> DEFINE runs == DirectionRuns(raw)
    <3>1. runs # {}
      BY <2>3, <2>4, RunsMeet
    <3>2. PICK bent \in runs, straight \in SUBSET runs :
            \E points \in SmoothChain(raw, bent) :
              line' = [r \in runs |->
                         IF r = bent THEN points
                         ELSE IF r \in straight /\ PostCheck(Uniform(CutLine(raw, r)))
                              THEN Uniform(CutLine(raw, r)) ELSE RawLine(raw, r)]
      BY <1>3, <3>1 DEF SmoothPath
    <3>3. PICK points \in SmoothChain(raw, bent) :
            line' = [r \in runs |->
                       IF r = bent THEN points
                       ELSE IF r \in straight /\ PostCheck(Uniform(CutLine(raw, r)))
                            THEN Uniform(CutLine(raw, r)) ELSE RawLine(raw, r)]
      BY <3>2
    <3> HIDE DEF runs
    <3>4. \A r \in runs : PostCheck(Uniform(CutLine(raw, r))) =>
                             Uniform(CutLine(raw, r)) \in SmoothChain(raw, r)
      BY DEF SmoothChain, GradientSmooth
    <3>5. \A r \in runs : RawLine(raw, r) \in SmoothChain(raw, r)
      BY DEF SmoothChain
    <3>6. DOMAIN line' = runs /\ \A r \in runs : line'[r] \in SmoothChain(raw, r)
      BY <3>3, <3>4, <3>5
    <3> QED BY <3>6 DEF runs
  <2>5. \A path, r : SmoothChain(path, r)' = SmoothChain(path, r)
    BY <2>1 DEF SmoothChain, RawLine, GradientSmooth, CutLine, Uniform, Shortcut, Hop,
         SegmentAdmissible, Enterable, PostCheck
  <2> QED BY <2>1, <2>2, <2>4, <2>5 DEF Smoothed
<1>4. CASE phase' \notin {"found", "published"}
  BY <1>4 DEF Smoothed
<1>5. CASE UNCHANGED vars
  <2>1. UNCHANGED <<world, phase, raw, line>>
    BY <1>5 DEF vars
  <2>2. Driven' = Driven
    BY <2>1 DEF Driven
  <2>3. \A path, r : SmoothChain(path, r)' = SmoothChain(path, r)
    BY <2>1 DEF SmoothChain, RawLine, GradientSmooth, CutLine, Uniform, Shortcut, Hop,
         SegmentAdmissible, Enterable, PostCheck
  <2> QED BY <2>1, <2>2, <2>3 DEF Smoothed
<1>6. CASE TimeOut \/ Expand \/ Exhaust \/ SkipClosed
  <2>1. phase' \notin {"found", "published"}
    BY <1>6 DEF TimeOut, Expand, Exhaust, SkipClosed, Popped
  <2> QED BY <1>4, <2>1
<1> QED BY <1>1, <1>2, <1>3, <1>5, <1>6 DEF Next

(* Smoothing keeps the maneuver and stays clear, for every grid, corridor  *)
(* and pocket and every path found: the runs published meet at both ends   *)
(* and every cusp of it, what is not as it was found is free all along,    *)
(* and no cut comes nearer to an obstacle than the waypoints it replaces.  *)
THEOREM SmoothingIsFaithful == Spec => []SmoothingKeepsTheManeuver
<1>1. Init => NodesOnWay /\ Smoothed
  BY NodesStart, SmoothedStarts
<1>2. NodesOnWay /\ Smoothed /\ [Next]_vars => (NodesOnWay /\ Smoothed)'
  BY NodesKept, SmoothedKept
<1>3. NodesOnWay /\ Smoothed => SmoothingKeepsTheManeuver
  BY SmoothedKeepTheManeuver
<1> QED BY <1>1, <1>2, <1>3, PTL DEF Spec

=============================================================================
