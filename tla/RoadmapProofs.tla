----------------------------- MODULE RoadmapProofs -----------------------------
(***************************************************************************)
(* Proofs about routing and route following, for every network and every   *)
(* setting that passes validation; the runs of RouteFollowing see them on  *)
(* one small network.  In this order:                                      *)
(*                                                                         *)
(*   numbers, places, and the geometry of a route: its arc positions, the  *)
(*   projection of the robot, the leg goal;                                *)
(*   routing: what snapping, Dijkstra's search, the way back and the       *)
(*   joining of coincident places each hand on, up to RoutesLead;          *)
(*   the quickest way: that no way over the edges takes less time than the *)
(*   search finds, and that the route drives in that time, around blocks;  *)
(*   following: the types of the state, and on them the properties of the  *)
(*   leg goal, of the blame and of the watchdog.                           *)
(*                                                                         *)
(* A recursive definition f[n] == ... is a choice of one among all such    *)
(* functions, so that there is one must be shown first: lemma Iteration,   *)
(* from the least number of steps for which there were none.               *)
(***************************************************************************)
EXTENDS RouteFollowing, FiniteSetTheorems, SequenceTheorems, TLAPS

(***************************************************************************)
(* Numbers, places and the geometry of a route.                            *)
(***************************************************************************)

(* A nonempty set of natural numbers has a least. *)
LEMMA LeastExists ==
  ASSUME NEW S \in SUBSET Nat, S # {}
  PROVE  \E n \in S : \A m \in S : n <= m
<1>1. PICK n \in S : \A m \in S : ~ (<<m, n>> \in OpToRel(<, Nat))
  BY NatLessThanWellFounded, WFMin, Zenon
<1>2. ASSUME NEW m \in S PROVE n <= m
  <2>1. m \in Nat /\ n \in Nat
    OBVIOUS
  <2>2. m < n => <<m, n>> \in OpToRel(<, Nat)
    BY <2>1, Zenon DEF OpToRel
  <2>3. ~ (m < n)
    BY <1>1, <2>2, Zenon
  <2> QED BY <2>1, <2>3, SMT
<1> QED BY <1>2

(* Repeating a step on a set X: f[n] is reached from the base in n steps.  *)
IsStep(step, N, X) == \A n \in 1 .. N : \A x \in X : step[n][x] \in X
Iterates(f, step, base, N, X) ==
  f \in [0 .. N -> X] /\ f[0] = base /\ \A n \in 1 .. N : f[n] = step[n][f[n - 1]]

(* Repeating a step from a start gives a function of the number of steps.  *)
LEMMA Iteration ==
  ASSUME NEW N \in Nat, NEW X, NEW base \in X, NEW step, IsStep(step, N, X)
  PROVE  \E f : Iterates(f, step, base, N, X)
<1> USE DEF IsStep, Iterates
<1> DEFINE Good(k, f) == f \in [0 .. k -> X] /\ f[0] = base
                           /\ \A n \in 1 .. k : f[n] = step[n][f[n - 1]]
           bad == {k \in 0 .. N : ~ \E f : Good(k, f)}
<1>1. CASE bad # {}
  <2>1. bad \in SUBSET Nat
    OBVIOUS
  <2>2. PICK k \in bad : \A m \in bad : k <= m
    <3> HIDE DEF bad
    <3> QED BY <1>1, <2>1, LeastExists, Zenon
  <2>3. k \in 0 .. N /\ ~ \E f : Good(k, f)
    OBVIOUS
  <2>4. CASE k = 0
    <3> DEFINE f == [i \in 0 .. 0 |-> base]
    <3>1. f \in [0 .. 0 -> X] /\ f[0] = base /\ 1 .. 0 = {}
      OBVIOUS
    <3>2. Good(0, f)
      BY <3>1
    <3> QED BY <2>3, <2>4, <3>2, Zenon
  <2>5. CASE k # 0
    <3>1. k - 1 \in 0 .. N /\ ~ (k <= k - 1) /\ k \in 1 .. N
      BY <2>3, <2>5
    <3>2. ~ (k - 1 \in bad)
      BY <2>2, <3>1, Zenon
    <3>3. PICK f : Good(k - 1, f)
      BY <3>1, <3>2, Zenon
    <3> DEFINE y == step[k][f[k - 1]]
               g == [i \in 0 .. k |-> IF i = k THEN y ELSE f[i]]
    <3>4. f[k - 1] \in X
      BY <3>1, <3>3
    <3>5. y \in X
      BY <3>1, <3>4, Zenon
    <3>6. g \in [0 .. k -> X]
      <4> HIDE DEF y
      <4> QED BY <3>1, <3>3, <3>5
    <3>7. g[0] = base
      BY <2>5, <3>1, <3>3
    <3>8. ASSUME NEW n \in 1 .. k PROVE g[n] = step[n][g[n - 1]]
      <4>1. n - 1 \in 0 .. k /\ n \in 0 .. k /\ n - 1 # k
        BY <3>1
      <4>2. g[n - 1] = f[n - 1]
        BY <4>1
      <4>3. CASE n = k
        BY <4>1, <4>2, <4>3
      <4>4. CASE n # k
        <5>1. n \in 1 .. k - 1
          BY <3>1, <4>4
        <5>2. g[n] = f[n]
          BY <4>1, <4>4
        <5> QED BY <3>3, <4>2, <5>1, <5>2
      <4> QED BY <4>3, <4>4
    <3>9. Good(k, g)
      <4> HIDE DEF g
      <4> QED BY <3>6, <3>7, <3>8
    <3> QED BY <2>3, <3>9, Zenon
  <2> QED BY <2>4, <2>5
<1>2. CASE bad = {}
  <2>1. N \in 0 .. N
    OBVIOUS
  <2>2. ~ (N \in bad)
    BY <1>2, Zenon
  <2>3. PICK f : Good(N, f)
    BY <2>1, <2>2, Zenon
  <2> QED BY <2>3
<1> QED BY <1>1, <1>2

(* Places and their distances. *)
LEMMA SpanIsNatural ==
  ASSUME NEW p \in Point, NEW q \in Point
  PROVE  /\ Span(p, q) \in Nat
         /\ p # q => Span(p, q) > 0
         /\ Span(p, p) = 0
<1>1. p.x \in Int /\ p.y \in Int /\ q.x \in Int /\ q.y \in Int
  BY DEF Point
<1>2. p # q => p.x # q.x \/ p.y # q.y
  BY DEF Point
<1>3. Gap(p.x, q.x) \in Nat /\ (Gap(p.x, q.x) = 0 <=> p.x = q.x)
  BY <1>1 DEF Gap
<1>4. Gap(p.y, q.y) \in Nat /\ (Gap(p.y, q.y) = 0 <=> p.y = q.y)
  BY <1>1 DEF Gap
<1>5. Span(p, p) = 0
  BY <1>1 DEF Span, Gap
<1> QED BY <1>2, <1>3, <1>4, <1>5 DEF Span

(* The nearest point of a leg is a grid point, no farther than its far end.*)
LEMMA NearestIsBetween ==
  ASSUME NEW p \in Point, NEW a \in Point, NEW b \in Point
  PROVE  /\ Nearest(p, a, b) \in Point
         /\ Span(a, Nearest(p, a, b)) <= Span(a, b)
<1>1. p.x \in Int /\ p.y \in Int /\ a.x \in Int /\ a.y \in Int /\ b.x \in Int /\ b.y \in Int
  BY DEF Point
<1> DEFINE x == Clamp(p.x, a.x, b.x)
           y == Clamp(p.y, a.y, b.y)
<1>2. x \in Int /\ Gap(a.x, x) <= Gap(a.x, b.x) /\ Gap(a.x, x) \in Nat
  BY <1>1 DEF Clamp, Gap
<1>3. y \in Int /\ Gap(a.y, y) <= Gap(a.y, b.y) /\ Gap(a.y, y) \in Nat
  BY <1>1 DEF Clamp, Gap
<1>4. Gap(a.x, b.x) \in Nat /\ Gap(a.y, b.y) \in Nat
  BY <1>1 DEF Gap
<1>5. Nearest(p, a, b) = [x |-> x, y |-> y]
  BY DEF Nearest
<1> HIDE DEF x, y
<1>6. Nearest(p, a, b) \in Point /\ Nearest(p, a, b).x = x /\ Nearest(p, a, b).y = y
  BY <1>2, <1>3, <1>5 DEF Point
<1>7. Span(a, Nearest(p, a, b)) = Gap(a.x, x) + Gap(a.y, y)
      /\ Span(a, b) = Gap(a.x, b.x) + Gap(a.y, b.y)
  BY <1>6 DEF Span
<1> QED BY <1>2, <1>3, <1>4, <1>6, <1>7

(* A square is not negative.                                               *)
LEMMA SquareIsNatural ==
  ASSUME NEW d \in Int
  PROVE  d * d \in Nat
<1>1. CASE d >= 0
  <2>1. d \in Nat
    BY <1>1
  <2> QED BY <2>1
<1>2. CASE d < 0
  <2> DEFINE e == -d
  <2>1. e \in Nat /\ e * e \in Nat
    BY <1>2
  <2>2. d * d = e * e
    OBVIOUS
  <2> QED BY <2>1, <2>2
<1> QED BY <1>1, <1>2

(* Squared distances are natural numbers.                                  *)
LEMMA SquaredIsNatural ==
  ASSUME NEW p \in Point, NEW q \in Point
  PROVE  Squared(p, q) \in Nat
<1> DEFINE dx == p.x - q.x
           dy == p.y - q.y
<1>1. dx \in Int /\ dy \in Int
  BY DEF Point
<1>2. Squared(p, q) = dx * dx + dy * dy
  BY DEF Squared
<1> HIDE DEF dx, dy
<1>3. dx * dx \in Nat /\ dy * dy \in Nat
  BY <1>1, SquareIsNatural
<1> QED BY <1>2, <1>3

(* The first least index of a sequence of numbers exists. *)
LEMMA FirstLeastExists ==
  ASSUME NEW n \in Nat \ {0}, NEW s \in [1 .. n -> Nat]
  PROVE  /\ FirstLeast(s) \in 1 .. n
         /\ \A j \in 1 .. n : s[FirstLeast(s)] <= s[j]
         /\ \A j \in 1 .. FirstLeast(s) - 1 : s[j] > s[FirstLeast(s)]
<1> DEFINE values == {s[j] : j \in 1 .. n}
<1>1. values \in SUBSET Nat /\ values # {}
  <2>1. 1 \in 1 .. n
    OBVIOUS
  <2>2. s[1] \in values
    BY <2>1, Zenon
  <2>3. \A j \in 1 .. n : s[j] \in Nat
    OBVIOUS
  <2> QED BY <2>2, <2>3, Zenon
<1>2. PICK v \in values : \A w \in values : v <= w
  <2> HIDE DEF values
  <2> QED BY <1>1, LeastExists, Zenon
<1> DEFINE indices == {j \in 1 .. n : s[j] = v}
<1>3. indices \in SUBSET Nat /\ indices # {}
  <2>1. PICK j \in 1 .. n : v = s[j]
    BY <1>2, Zenon
  <2> QED BY <2>1
<1>4. PICK i \in indices : \A j \in indices : i <= j
  <2> HIDE DEF indices
  <2> QED BY <1>3, LeastExists, Zenon
<1>5. i \in 1 .. n /\ s[i] = v
  BY <1>4, Zenon
<1>6. \A j \in 1 .. n : s[i] <= s[j]
  BY <1>2, <1>5, Zenon
<1>7. ASSUME NEW j \in 1 .. i - 1 PROVE s[j] > s[i]
  <2>1. j \in 1 .. n /\ ~ (i <= j)
    BY <1>5
  <2>2. ~ (j \in indices)
    BY <1>4, <2>1, Zenon
  <2>3. s[j] # s[i] /\ s[i] <= s[j]
    BY <1>5, <1>6, <2>1, <2>2, Zenon
  <2>4. s[j] \in Nat /\ s[i] \in Nat
    BY <1>5, <2>1
  <2> HIDE DEF indices, values
  <2> QED BY <2>3, <2>4
<1>8. DOMAIN s = 1 .. n
  OBVIOUS
<1> DEFINE First(k) == /\ \A j \in DOMAIN s : s[k] <= s[j]
                       /\ \A j \in 1 .. k - 1 : s[j] > s[k]
<1>9. i \in DOMAIN s /\ First(i)
  BY <1>5, <1>6, <1>7, <1>8, Zenon
<1>10. FirstLeast(s) = CHOOSE k \in DOMAIN s : First(k)
  BY DEF FirstLeast
<1> HIDE DEF First
<1>11. FirstLeast(s) \in DOMAIN s /\ First(FirstLeast(s))
  BY <1>9, <1>10, Zenon
<1> QED BY <1>8, <1>11 DEF First

(* A route as the router hands it out: places, no two in a row the same,   *)
(* each with a link.                                                       *)
Drivable(route) ==
  /\ route.at \in Seq(Point) /\ route.at # <<>>
  /\ \A i \in 1 .. Len(route.at) - 1 : route.at[i] # route.at[i + 1]
  /\ route.link \in Seq(Link) /\ Len(route.link) = Len(route.at)

(* The places of a route, one by one.                                      *)
LEMMA DrivablePlaces ==
  ASSUME NEW route, Drivable(route)
  PROVE  /\ Len(route.at) \in Nat \ {0} /\ DOMAIN route.at = 1 .. Len(route.at)
         /\ \A i \in 1 .. Len(route.at) : route.at[i] \in Point
<1>1. route.at \in Seq(Point) /\ route.at # <<>>
  BY DEF Drivable
<1>2. Len(route.at) \in Nat /\ DOMAIN route.at = 1 .. Len(route.at)
  BY <1>1, LenProperties
<1>3. Len(route.at) # 0
  BY <1>1, EmptySeq
<1>4. \A i \in 1 .. Len(route.at) : route.at[i] \in Point
  BY <1>1, ElementOfSeq
<1> QED BY <1>2, <1>3, <1>4

(* Arc positions begin with zero and grow by each leg. *)
LEMMA ArcsGrow ==
  ASSUME NEW route, Drivable(route)
  PROVE  LET arcs == Arcs(route)
             n == Len(route.at)
         IN  /\ arcs \in [1 .. n -> Nat] /\ arcs[1] = 0
             /\ \A i \in 1 .. n - 1 :
                  arcs[i + 1] = arcs[i] + Span(route.at[i], route.at[i + 1])
<1> DEFINE n == Len(route.at)
           step == [i \in 1 .. n - 1 |-> [x \in Nat |-> x + Span(route.at[i], route.at[i + 1])]]
           Arc(arc) == [i \in DOMAIN route.at |->
                          IF i = 1 THEN 0 ELSE arc[i - 1] + Span(route.at[i - 1], route.at[i])]
<1>1. n \in Nat \ {0} /\ DOMAIN route.at = 1 .. n /\ \A i \in 1 .. n : route.at[i] \in Point
  BY DrivablePlaces
<1>2. \A i \in 1 .. n - 1 : Span(route.at[i], route.at[i + 1]) \in Nat
  <2> TAKE i \in 1 .. n - 1
  <2>1. i \in 1 .. n /\ i + 1 \in 1 .. n
    BY <1>1
  <2>2. route.at[i] \in Point /\ route.at[i + 1] \in Point
    BY <1>1, <2>1
  <2> QED BY <2>2, SpanIsNatural
<1> HIDE DEF n
<1>3. \A i \in 1 .. n - 1 : \A x \in Nat : step[i][x] \in Nat
  BY <1>2
<1>4. n - 1 \in Nat /\ 0 \in Nat
  BY <1>1
<1>5. PICK f \in [0 .. n - 1 -> Nat] : f[0] = 0 /\ \A i \in 1 .. n - 1 : f[i] = step[i][f[i - 1]]
  <2>1. IsStep(step, n - 1, Nat)
    <3> HIDE DEF step
    <3> QED BY <1>3 DEF IsStep
  <2> HIDE DEF step
  <2>2. \E f : Iterates(f, step, 0, n - 1, Nat)
    BY <1>4, <2>1, Iteration
  <2> QED BY <2>2 DEF Iterates
<1> DEFINE g == [i \in 1 .. n |-> f[i - 1]]
<1>6. g = Arc(g)
  <2>1. ASSUME NEW i \in 1 .. n, i # 1
        PROVE  g[i] = g[i - 1] + Span(route.at[i - 1], route.at[i])
    <3>1. i - 1 \in 1 .. n - 1 /\ i - 1 \in 1 .. n /\ i - 1 - 1 \in 0 .. n - 1
      BY <1>1, <2>1
    <3>2. f[i - 1] = step[i - 1][f[i - 1 - 1]] /\ f[i - 1 - 1] \in Nat
      BY <1>5, <3>1
    <3>3. step[i - 1][f[i - 1 - 1]] = f[i - 1 - 1] + Span(route.at[i - 1], route.at[i - 1 + 1])
      BY <3>1, <3>2
    <3>4. i - 1 + 1 = i
      BY <2>1
    <3>5. g[i] = f[i - 1] /\ g[i - 1] = f[i - 1 - 1]
      BY <3>1
    <3> QED BY <3>2, <3>3, <3>4, <3>5
  <2>2. g[1] = 0
    BY <1>1, <1>5
  <2> HIDE DEF g
  <2>3. g = [i \in 1 .. n |-> g[i]]
    BY DEF g
  <2> QED BY <1>1, <2>1, <2>2, <2>3
<1>7. Arcs(route) = CHOOSE arc : arc = Arc(arc)
  BY DEF Arcs
<1> HIDE DEF Arc, g
<1> DEFINE a == Arcs(route)
<1>8. a = Arc(a)
  BY <1>6, <1>7
<1> HIDE DEF a
<1>9. a = [i \in 1 .. n |-> IF i = 1 THEN 0 ELSE a[i - 1] + Span(route.at[i - 1], route.at[i])]
  BY <1>1, <1>8 DEF Arc
<1>10. a[1] = 0
  BY <1>1, <1>9
<1>11. ASSUME NEW i \in 1 .. n - 1
       PROVE  a[i + 1] = a[i] + Span(route.at[i], route.at[i + 1])
  <2>1. i + 1 \in 1 .. n /\ i + 1 # 1 /\ (i + 1) - 1 = i
    BY <1>1
  <2> QED BY <1>9, <2>1
<1>12. a \in [1 .. n -> Nat]
  <2> DEFINE bad == {i \in 1 .. n : ~ (a[i] \in Nat)}
  <2>1. CASE bad # {}
    <3>1. bad \in SUBSET Nat
      BY <1>1
    <3>2. PICK i \in bad : \A j \in bad : i <= j
      <4> HIDE DEF bad
      <4> QED BY <2>1, <3>1, LeastExists, Zenon
    <3>3. i \in 1 .. n /\ ~ (a[i] \in Nat) /\ i # 1
      BY <1>10
    <3>4. i - 1 \in 1 .. n - 1 /\ i - 1 \in 1 .. n /\ ~ (i <= i - 1) /\ (i - 1) + 1 = i
      BY <1>1, <3>3
    <3>5. a[i - 1] \in Nat
      BY <3>2, <3>4, Zenon
    <3>6. a[i] = a[i - 1] + Span(route.at[i - 1], route.at[i])
          /\ Span(route.at[i - 1], route.at[i]) \in Nat
      BY <1>2, <1>11, <3>4
    <3> QED BY <3>3, <3>5, <3>6
  <2>2. CASE bad = {}
    BY <1>9, <2>2
  <2> QED BY <2>1, <2>2
<1> QED BY <1>10, <1>11, <1>12 DEF a, n

(* Arc positions are in the order of the places, and no two are the same.  *)
LEMMA ArcsIncrease ==
  ASSUME NEW route, Drivable(route),
         NEW i \in 1 .. Len(route.at), NEW j \in 1 .. Len(route.at), i < j
  PROVE  Arcs(route)[i] < Arcs(route)[j]
<1> DEFINE n == Len(route.at)
           a == Arcs(route)
           bad == {k \in 1 .. n : i < k /\ ~ (a[i] < a[k])}
<1>1. n \in Nat \ {0} /\ \A k \in 1 .. n : route.at[k] \in Point
  BY DrivablePlaces
<1>2. a \in [1 .. n -> Nat]
      /\ \A k \in 1 .. n - 1 : a[k + 1] = a[k] + Span(route.at[k], route.at[k + 1])
  BY ArcsGrow
<1>3. \A k \in 1 .. n - 1 : route.at[k] # route.at[k + 1]
  BY DEF Drivable
<1> HIDE DEF n, a
<1>4. CASE bad # {}
  <2>1. bad \in SUBSET Nat
    BY <1>1
  <2>2. PICK k \in bad : \A m \in bad : k <= m
    <3> HIDE DEF bad
    <3> QED BY <1>4, <2>1, LeastExists, Zenon
  <2>3. k \in 1 .. n /\ i < k /\ ~ (a[i] < a[k]) /\ i \in 1 .. n
    BY DEF n
  <2>4. /\ k - 1 \in 1 .. n - 1 /\ k - 1 \in 1 .. n /\ k \in 1 .. n
        /\ ~ (k <= k - 1) /\ (k - 1) + 1 = k
    BY <1>1, <2>3
  <2>5. route.at[k - 1] \in Point /\ route.at[k] \in Point /\ route.at[k - 1] # route.at[k]
    BY <1>1, <1>3, <2>4
  <2>6. Span(route.at[k - 1], route.at[k]) \in Nat /\ Span(route.at[k - 1], route.at[k]) > 0
    BY <2>5, SpanIsNatural
  <2>7. a[k] = a[k - 1] + Span(route.at[k - 1], route.at[k])
    BY <1>2, <2>4
  <2>8. a[k - 1] \in Nat /\ a[i] \in Nat
    BY <1>2, <2>3, <2>4
  <2>9. i = k - 1 \/ i < k - 1
    BY <1>1, <2>3
  <2>10. i < k - 1 => a[i] < a[k - 1]
    BY <2>2, <2>4, Zenon
  <2> QED BY <2>3, <2>6, <2>7, <2>8, <2>9, <2>10
<1>5. CASE bad = {}
  BY <1>5 DEF n, a
<1> QED BY <1>4, <1>5

(* The robot is at an arc position of its route, on the segment there.     *)
LEMMA ProjectionIsOnRoute ==
  ASSUME NEW route, Drivable(route), NEW p \in Point
  PROVE  LET proj == ProjectOntoRoute(route, p)
         IN  /\ proj.s \in 0 .. RouteLength(route)
             /\ proj.off \in Nat
             /\ Len(route.at) = 1 => proj.segment = 1 /\ proj.s = 0
             /\ Len(route.at) > 1 => /\ proj.segment \in 1 .. Len(route.at) - 1
                                     /\ Arcs(route)[proj.segment] <= proj.s
<1> DEFINE n == Len(route.at)
           a == Arcs(route)
<1>1. n \in Nat \ {0} /\ \A i \in 1 .. n : route.at[i] \in Point
  BY DrivablePlaces
<1>2. /\ a \in [1 .. n -> Nat] /\ a[1] = 0
      /\ \A i \in 1 .. n - 1 : a[i + 1] = a[i] + Span(route.at[i], route.at[i + 1])
  BY ArcsGrow
<1>3. RouteLength(route) = a[n]
  BY DEF RouteLength
<1> HIDE DEF a, n
<1>4. CASE n = 1
  <2>1. ProjectOntoRoute(route, p) = [segment |-> 1, s |-> 0, off |-> Squared(p, route.at[1])]
    BY <1>4 DEF ProjectOntoRoute, n
  <2>2. Squared(p, route.at[1]) \in Nat
    BY <1>1, SquaredIsNatural
  <2> QED BY <1>2, <1>3, <1>4, <2>1, <2>2 DEF n, a
<1>5. CASE n # 1
  <2> DEFINE foot == [i \in 1 .. n - 1 |-> Nearest(p, route.at[i], route.at[i + 1])]
             off == [k \in DOMAIN foot |-> Squared(p, foot[k])]
             i == FirstLeast(off)
  <2>1. ASSUME NEW k \in 1 .. n - 1
        PROVE  /\ foot[k] \in Point
               /\ Span(route.at[k], foot[k]) <= Span(route.at[k], route.at[k + 1])
               /\ Span(route.at[k], foot[k]) \in Nat /\ Span(route.at[k], route.at[k + 1]) \in Nat
    <3>1. k \in 1 .. n /\ k + 1 \in 1 .. n
      BY <1>1
    <3>2. route.at[k] \in Point /\ route.at[k + 1] \in Point
      BY <1>1, <3>1
    <3>3. foot[k] = Nearest(p, route.at[k], route.at[k + 1])
      OBVIOUS
    <3> HIDE DEF foot
    <3> QED BY <3>2, <3>3, NearestIsBetween, SpanIsNatural
  <2>2. DOMAIN foot = 1 .. n - 1
    OBVIOUS
  <2> HIDE DEF foot
  <2>3. off \in [1 .. n - 1 -> Nat]
    BY <2>1, <2>2, SquaredIsNatural
  <2>4. n - 1 \in Nat \ {0}
    BY <1>1, <1>5
  <2> HIDE DEF off
  <2>5. i \in 1 .. n - 1
    BY <2>3, <2>4, FirstLeastExists
  <2>6. ProjectOntoRoute(route, p)
          = [segment |-> i, s |-> a[i] + Span(route.at[i], foot[i]), off |-> Squared(p, foot[i])]
    <3>1. ~ (n < 2)
      BY <1>1, <1>5
    <3> QED BY <3>1, Zenon DEF ProjectOntoRoute, n, foot, off, a
  <2> HIDE DEF i
  <2>7. a[i + 1] <= a[n]
    <3>1. i + 1 \in 1 .. n /\ n \in 1 .. n /\ (i + 1 = n \/ i + 1 < n)
      BY <1>1, <2>4, <2>5
    <3>2. i + 1 < n => a[i + 1] < a[n]
      BY <3>1, ArcsIncrease DEF n, a
    <3>3. a[i + 1] \in Nat /\ a[n] \in Nat
      BY <1>2, <3>1
    <3> QED BY <3>1, <3>2, <3>3
  <2>8. /\ a[i] \in Nat /\ a[i + 1] \in Nat /\ a[n] \in Nat
        /\ a[i + 1] = a[i] + Span(route.at[i], route.at[i + 1])
    BY <1>1, <1>2, <2>5
  <2>9. Squared(p, foot[i]) \in Nat
    BY <2>1, <2>5, SquaredIsNatural
  <2>10. /\ Span(route.at[i], foot[i]) \in Nat
         /\ Span(route.at[i], foot[i]) <= Span(route.at[i], route.at[i + 1])
         /\ Span(route.at[i], route.at[i + 1]) \in Nat
    BY <2>1, <2>5
  <2>11. ProjectOntoRoute(route, p).s \in 0 .. a[n] /\ a[i] <= ProjectOntoRoute(route, p).s
    BY <2>6, <2>7, <2>8, <2>10
  <2> QED BY <1>3, <1>5, <2>5, <2>6, <2>9, <2>11 DEF n, a
<1> QED BY <1>4, <1>5

(* A nonempty set of arc positions below a bound has a farthest one.       *)
LEMMA FarthestExists ==
  ASSUME NEW arcs \in SUBSET Nat, arcs # {}, NEW top \in Nat, \A a \in arcs : a <= top
  PROVE  Farthest(arcs) \in arcs /\ \A b \in arcs : b <= Farthest(arcs)
<1> DEFINE below == {top - a : a \in arcs}
<1>1. below \subseteq Nat /\ below # {}
  <2>1. \A a \in arcs : top - a \in Nat
    <3> TAKE a \in arcs
    <3>1. a \in Nat /\ a <= top
      OBVIOUS
    <3> QED
      BY <3>1, SMT
  <2>2. \A x \in below : x \in Nat
    BY <2>1, Zenon
  <2>3. PICK a \in arcs : TRUE
    OBVIOUS
  <2>4. top - a \in below
    BY <2>3, Zenon
  <2> QED
    BY <2>2, <2>4, Zenon
<1>2. PICK least \in below : \A d \in below : ~ (<<d, least>> \in OpToRel(<, Nat))
  BY <1>1, NatLessThanWellFounded, WFMin, Zenon
<1>3. \A d \in below : least <= d
  <2> TAKE d \in below
  <2>1. d \in Nat /\ least \in Nat
    BY <1>1, <1>2, Zenon
  <2>2. d < least => <<d, least>> \in OpToRel(<, Nat)
    BY <2>1, Zenon DEF OpToRel
  <2>3. ~ (d < least)
    BY <1>2, <2>2, Zenon
  <2> HIDE DEF below
  <2> QED
    BY <2>1, <2>3, SMT
<1>4. PICK a \in arcs : least = top - a
  BY <1>2, Zenon
<1>5. \A b \in arcs : b <= a
  <2> TAKE b \in arcs
  <2>1. top - b \in below
    BY Zenon
  <2>2. least <= top - b
    BY <1>3, <2>1, Zenon
  <2>3. a \in Nat /\ b \in Nat
    OBVIOUS
  <2> HIDE DEF below
  <2> QED
    BY <1>4, <2>2, <2>3, SMT
<1> QED
  BY <1>5, Zenon DEF Farthest

(* On a route of length `end`, with the robot at arc position s: the leg   *)
(* goal is on the route and not behind the robot; it is farther ahead than *)
(* minLeg or it is the end; and it never retreats from the goal before, in *)
(* whichever direction the robot moved (advance_goal_arc).                 *)
THEOREM LegGoalAdvances ==
  ASSUME NEW vertices \in SUBSET Nat, NEW end \in Nat, NEW s \in 0 .. end,
         NEW prev \in {NoArc} \cup (0 .. end),
         NEW minLeg \in Nat, NEW maxLeg \in Nat, minLeg < maxLeg
  PROVE  LET g == AdvanceGoalArc(vertices, end, s, prev, minLeg, maxLeg)
         IN  /\ g \in s .. end
             /\ g > s + minLeg \/ g = end
             /\ prev # NoArc => g >= prev
<1> DEFINE g == AdvanceGoalArc(vertices, end, s, prev, minLeg, maxLeg)
           target == AtMost(s + maxLeg, end)
           window == {a \in vertices : a > s + minLeg /\ a <= target}
           keep == prev # NoArc /\ prev >= s /\ (prev - s > minLeg \/ prev >= end)
<1> SUFFICES /\ g \in s .. end
             /\ g > s + minLeg \/ g = end
             /\ prev # NoArc => g >= prev
  BY Zenon
<1>1. target \in s .. end /\ (target = end \/ target > s + minLeg)
  BY SMT DEF AtMost
<1>2. AtMost(prev, end) = prev
  BY SMT DEF AtMost, NoArc
<1>3. g = IF keep THEN prev ELSE IF window # {} THEN Farthest(window) ELSE target
  BY <1>2 DEF AdvanceGoalArc
<1>4. ~keep /\ prev # NoArc => (prev = end /\ s > end) \/ prev < s \/ prev - s <= minLeg
  BY SMT DEF NoArc
<1>5. CASE keep
  BY <1>3, <1>5, SMT DEF NoArc
<1>6. CASE ~keep /\ window # {}
  <2>1. window \in SUBSET Nat /\ \A a \in window : a <= target
    OBVIOUS
  <2>2. target \in Nat /\ window # {}
    BY <1>1, <1>6, SMT
  <2>3. Farthest(window) \in window
    <3> HIDE DEF window, target
    <3> QED
      BY <2>1, <2>2, FarthestExists, Zenon
  <2>4. g = Farthest(window)
    BY <1>3, <1>6, Zenon
  <2>5. g \in Nat /\ g > s + minLeg /\ g <= target
    <3> HIDE DEF g, target
    <3> QED
      BY <2>3, <2>4
  <2> HIDE DEF g, target, window
  <2> QED
    BY <1>1, <1>4, <1>6, <2>5, SMT DEF NoArc
<1>7. CASE ~keep /\ window = {}
  <2>1. g = target
    BY <1>3, <1>7
  <2> QED
    BY <1>1, <1>4, <1>7, <2>1, SMT DEF NoArc
<1> QED
  BY <1>5, <1>6, <1>7

(* The goal is at its arc position, on the link of the segment there.      *)
LEMMA GoalIsOnSegment ==
  ASSUME NEW route, Drivable(route), NEW s \in 0 .. RouteLength(route)
  PROVE  LET goal == GoalAtArc(route, s)
         IN  /\ goal.s = s /\ goal.link \in Link /\ goal.at \in Point
             /\ Len(route.at) = 1 => goal.link = route.link[1]
             /\ Len(route.at) > 1 =>
                  \E i \in 1 .. Len(route.at) - 1 :
                    /\ goal.link = route.link[i] /\ s <= Arcs(route)[i + 1]
                    /\ i > 1 => s > Arcs(route)[i]
<1> DEFINE n == Len(route.at)
           a == Arcs(route)
<1>1. n \in Nat \ {0} /\ \A i \in 1 .. n : route.at[i] \in Point
  BY DrivablePlaces
<1>2. a \in [1 .. n -> Nat] /\ a[1] = 0
  BY ArcsGrow
<1>3. RouteLength(route) = a[n]
  BY DEF RouteLength
<1>4. \A i \in 1 .. n : route.link[i] \in Link
  <2>1. route.link \in Seq(Link) /\ Len(route.link) = n
    BY DEF Drivable
  <2> QED BY <2>1, ElementOfSeq
<1> HIDE DEF n, a
<1>5. s \in Nat /\ s <= a[n]
  BY <1>1, <1>2, <1>3
<1>6. CASE n = 1
  <2>1. GoalAtArc(route, s) = [ s |-> 0, at |-> route.at[1], heading |-> [x |-> 1, y |-> 0],
                                link |-> route.link[1], final |-> TRUE ]
    <3>1. n < 2
      BY <1>6
    <3> QED BY <3>1, Zenon DEF GoalAtArc, n
  <2>2. s = 0 /\ route.at[1] \in Point /\ route.link[1] \in Link
    BY <1>1, <1>2, <1>4, <1>5, <1>6
  <2> QED BY <1>6, <2>1, <2>2 DEF n
<1>7. CASE n # 1
  <2> DEFINE Ends(k) == s <= a[k + 1] /\ \A j \in 1 .. k - 1 : s > a[j + 1]
             candidates == {k \in 1 .. n - 1 : s <= a[k + 1]}
  <2>1. candidates \in SUBSET Nat /\ candidates # {}
    <3>1. n - 1 \in 1 .. n - 1 /\ (n - 1) + 1 = n
      BY <1>1, <1>7
    <3> QED BY <1>5, <3>1
  <2>2. PICK k \in candidates : \A j \in candidates : k <= j
    <3> HIDE DEF candidates
    <3> QED BY <2>1, LeastExists, Zenon
  <2>3. k \in 1 .. n - 1 /\ s <= a[k + 1]
    BY <2>2, Zenon
  <2>4. ASSUME NEW j \in 1 .. k - 1 PROVE s > a[j + 1]
    <3>1. j \in 1 .. n - 1 /\ ~ (k <= j) /\ j + 1 \in 1 .. n
      BY <1>1, <2>3
    <3>2. ~ (j \in candidates)
      BY <2>2, <3>1, Zenon
    <3>3. ~ (s <= a[j + 1])
      BY <3>1, <3>2, Zenon
    <3>4. a[j + 1] \in Nat
      BY <1>2, <3>1
    <3> QED BY <1>5, <3>3, <3>4
  <2> DEFINE i == CHOOSE m \in 1 .. n - 1 : Ends(m)
  <2>5. i \in 1 .. n - 1 /\ Ends(i)
    <3>1. Ends(k)
      BY <2>3, <2>4
    <3> HIDE DEF Ends
    <3> QED BY <2>3, <3>1, Zenon
  <2> DEFINE p == route.at[i]
             q == route.at[i + 1]
             Sign(d) == IF d > 0 THEN 1 ELSE IF d < 0 THEN -1 ELSE 0
             h == [x |-> Sign(q.x - p.x), y |-> Sign(q.y - p.y)]
             at == [x |-> p.x + h.x * (s - a[i]), y |-> p.y + h.y * (s - a[i])]
  <2>6. GoalAtArc(route, s) = [ s |-> s, at |-> at, heading |-> h, link |-> route.link[i],
                                final |-> s >= a[n] ]
    <3>1. ~ (n < 2)
      BY <1>1, <1>7
    <3> QED BY <3>1, Zenon DEF GoalAtArc, n, a
  <2>7. i \in 1 .. n /\ i + 1 \in 1 .. n
    BY <1>1, <2>5
  <2> HIDE DEF i
  <2>8. p \in Point /\ q \in Point /\ a[i] \in Nat /\ route.link[i] \in Link
    BY <1>1, <1>2, <1>4, <2>7
  <2>9. at \in Point
    <3>1. h.x \in Int /\ h.y \in Int
      BY <2>8 DEF Point
    <3> HIDE DEF h, p, q
    <3>2. s - a[i] \in Int /\ p.x \in Int /\ p.y \in Int
      BY <1>5, <2>8 DEF Point
    <3>3. h.x * (s - a[i]) \in Int /\ h.y * (s - a[i]) \in Int
      BY <3>1, <3>2
    <3> QED BY <3>2, <3>3 DEF Point
  <2> HIDE DEF at, h
  <2>10. /\ GoalAtArc(route, s).s = s /\ GoalAtArc(route, s).link = route.link[i]
         /\ GoalAtArc(route, s).at = at
    BY <2>6
  <2>11. s <= a[i + 1]
    BY <2>5
  <2>12. i > 1 => s > a[i]
    <3>1. i > 1 => i - 1 \in 1 .. i - 1 /\ (i - 1) + 1 = i
      BY <2>5
    <3> QED BY <2>5, <3>1
  <2> QED BY <1>7, <2>5, <2>8, <2>9, <2>10, <2>11, <2>12 DEF n, a
<1> QED BY <1>6, <1>7

(* What the configuration check gives. *)
LEMMA LegLimits == LegMin \in Nat /\ LegMax \in Nat /\ LegMin < LegMax
<1>1. Configured.leg_min_m = LegMin /\ Configured.leg_max_m = LegMax
  BY DEF Configured, Config!RoadmapDefaults
<1>2. Configured.leg_min_m < Configured.leg_max_m
  BY AcceptedConfig DEF AcceptedConfig, Config!RoadmapValid
<1> QED BY <1>1, <1>2, FollowingAssumption DEF FollowingAssumption

(* The leg goal of a route: ahead, never before the last one, and on a     *)
(* segment the robot has not left behind.                                  *)
LEMMA LegGoalIsOnRoute ==
  ASSUME NEW ar, Drivable(ar.route), NEW p \in Point,
         ar.goalS \in {NoArc} \cup (0 .. RouteLength(ar.route))
  PROVE  LET goal == LegGoal(ar, p)
             proj == ProjectOntoRoute(ar.route, p)
         IN  /\ goal.s \in 0 .. RouteLength(ar.route)
             /\ goal.s > proj.s + LegMin \/ goal.s = RouteLength(ar.route)
             /\ ar.goalS # NoArc => goal.s >= ar.goalS
             /\ goal.link \in Link /\ goal.at \in Point
             /\ Len(ar.route.at) = 1 => goal.link = ar.route.link[1]
             /\ Len(ar.route.at) > 1 =>
                  \E i \in proj.segment .. Len(ar.route.at) - 1 :
                    /\ goal.link = ar.route.link[i]
                    /\ Arcs(ar.route)[i] < goal.s /\ goal.s <= Arcs(ar.route)[i + 1]
<1> DEFINE route == ar.route
           n == Len(route.at)
           a == Arcs(route)
           end == RouteLength(route)
           s == ProjectOntoRoute(route, p).s
           seg == ProjectOntoRoute(route, p).segment
           vertices == {a[i] : i \in DOMAIN a \ {1}}
           g == AdvanceGoalArc(vertices, end, s, ar.goalS, LegMin, LegMax)
           goal == GoalAtArc(route, g)
<1>1. Drivable(route) /\ n \in Nat \ {0} /\ Len(route.link) = n
  BY DrivablePlaces DEF Drivable
<1>2. a \in [1 .. n -> Nat]
  BY ArcsGrow
<1>3. /\ s \in 0 .. end
      /\ n = 1 => seg = 1
      /\ n > 1 => seg \in 1 .. n - 1 /\ a[seg] <= s
  BY ProjectionIsOnRoute
<1>4. end = a[n] /\ end \in Nat
  BY <1>1, <1>2 DEF RouteLength
<1>5. vertices \in SUBSET Nat
  BY <1>2
<1>6. LegGoal(ar, p) = goal
  BY DEF LegGoal
<1> HIDE DEF vertices, end, s, a, n, seg
<1>7. /\ g \in s .. end
      /\ g > s + LegMin \/ g = end
      /\ ar.goalS # NoArc => g >= ar.goalS
  <2>1. ar.goalS \in {NoArc} \cup (0 .. end)
    BY DEF end
  <2> DEFINE prev == ar.goalS
  <2>2. prev \in {NoArc} \cup (0 .. end)
    BY <2>1
  <2> HIDE DEF prev
  <2>3. LET f == AdvanceGoalArc(vertices, end, s, prev, LegMin, LegMax)
        IN  /\ f \in s .. end
            /\ f > s + LegMin \/ f = end
            /\ prev # NoArc => f >= prev
    BY <1>3, <1>4, <1>5, <2>2, LegLimits, LegGoalAdvances
  <2> QED BY <2>3, Zenon DEF prev
<1> HIDE DEF g
<1>8. g \in 0 .. RouteLength(route)
  BY <1>3, <1>4, <1>7 DEF end
<1>9. /\ goal.s = g /\ goal.link \in Link /\ goal.at \in Point
      /\ n = 1 => goal.link = route.link[1]
      /\ n > 1 => \E i \in 1 .. n - 1 :
           /\ goal.link = route.link[i] /\ g <= a[i + 1]
           /\ i > 1 => g > a[i]
  BY <1>1, <1>8, GoalIsOnSegment DEF n, a
<1>10. ASSUME n > 1
       PROVE  \E i \in seg .. n - 1 : goal.link = route.link[i] /\ a[i] < g /\ g <= a[i + 1]
  <2>1. PICK i \in 1 .. n - 1 : /\ goal.link = route.link[i] /\ g <= a[i + 1]
                                /\ i > 1 => g > a[i]
    BY <1>9, <1>10
  <2>2. /\ i \in 1 .. n /\ i + 1 \in 1 .. n /\ 1 \in 1 .. n
        /\ seg \in 1 .. n - 1 /\ seg \in 1 .. n /\ n \in 1 .. n
    BY <1>1, <1>3, <1>10
  <2>3. a[i] \in Nat /\ a[i + 1] \in Nat /\ a[seg] \in Nat /\ a[n] \in Nat /\ a[1] = 0
    <3>1. a[1] = 0
      BY ArcsGrow DEF a
    <3> QED BY <1>2, <2>2, <3>1
  <2>4. i + 1 < seg => a[i + 1] < a[seg]
    BY <2>2, ArcsIncrease DEF n, a
  <2>5. i + 1 < n => a[i + 1] < a[n]
    BY <2>2, ArcsIncrease DEF n, a
  <2>6. LegMin \in Nat /\ a[seg] <= s /\ s \in Nat /\ g \in Nat
    BY <1>3, <1>4, <1>7, <1>10, LegLimits
  <2>7. 0 < a[n]
    BY <1>10, <2>2, <2>3, ArcsIncrease DEF n, a
  <2>8. a[i] < g
    <3>1. g > 0
      BY <1>4, <1>7, <2>6, <2>7
    <3>2. CASE i = 1
      BY <2>3, <3>1, <3>2
    <3>3. CASE i # 1
      BY <2>1, <3>3
    <3> QED BY <3>2, <3>3
  <2>9. CASE g = end
    <3>1. i = n - 1
      BY <1>1, <1>4, <2>1, <2>2, <2>3, <2>5, <2>9
    <3> QED BY <1>1, <2>1, <2>2, <2>8, <3>1
  <2>10. CASE g # end
    <3>1. a[i + 1] > a[seg]
      BY <1>7, <2>1, <2>3, <2>6, <2>10
    <3>2. i + 1 # seg
      BY <2>3, <3>1
    <3>3. i >= seg
      BY <2>2, <2>3, <2>4, <3>1, <3>2
    <3> QED BY <1>1, <2>1, <2>2, <2>8, <3>3
  <2> QED BY <2>9, <2>10
<1>11. goal.s \in 0 .. end
  BY <1>3, <1>4, <1>7, <1>9
<1> HIDE DEF goal
<1> QED BY <1>1, <1>6, <1>7, <1>9, <1>10, <1>11 DEF end, s, seg, n, a

(***************************************************************************)
(* Routing.                                                                *)
(***************************************************************************)

Vertex == 1 .. Finish
EdgeType == [from : Node \cup {Start}, to : Node \cup {Finish}, cost : Nat, via : Link]
SnapType == [link : Link, at : Point]

(* The network, as the routing steps use it. *)
LEMMA Network ==
  /\ Len(At) \in Nat \ {0} /\ Node = 1 .. Len(At) /\ Start = Len(At) + 1 /\ Finish = Len(At) + 2
  /\ Len(Links) \in Nat \ {0} /\ Link = 1 .. Len(Links)
  /\ \A n \in Node : At[n] \in Point
  /\ \A l \in Link : /\ Links[l].a \in Node /\ Links[l].b \in Node
                     /\ Links[l].slowness \in Nat
<1> DEFINE L == [a : Node, b : Node, slowness : Nat \ {0}, oneway : BOOLEAN]
<1>1. At \in Seq(Point) /\ Node # {} /\ Links \in Seq(L) /\ Link # {}
  BY RoadmapAssumption, Zenon DEF RoadmapAssumption, WellFormed
<1> HIDE DEF L
<1>2. Len(At) \in Nat /\ Node = 1 .. Len(At) /\ \A n \in Node : At[n] \in Point
  <2>1. Len(At) \in Nat /\ Node = 1 .. Len(At)
    BY <1>1, LenProperties DEF Node
  <2>2. \A n \in 1 .. Len(At) : At[n] \in Point
    BY <1>1, ElementOfSeq
  <2> QED BY <2>1, <2>2
<1>3. Len(Links) \in Nat /\ Link = 1 .. Len(Links) /\ \A l \in Link : Links[l] \in L
  <2>1. Len(Links) \in Nat /\ Link = 1 .. Len(Links)
    BY <1>1, LenProperties DEF Link
  <2>2. \A l \in 1 .. Len(Links) : Links[l] \in L
    BY <1>1, ElementOfSeq
  <2> QED BY <2>1, <2>2
<1>4. Len(At) # 0 /\ Len(Links) # 0
  <2>1. 1 .. 0 = {}
    OBVIOUS
  <2> QED BY <1>1, <1>2, <1>3, <2>1
<1>5. \A l \in Link : /\ Links[l].a \in Node /\ Links[l].b \in Node
                      /\ Links[l].slowness \in Nat
  BY <1>3 DEF L
<1> QED BY <1>2, <1>3, <1>4, <1>5 DEF Start, Finish

(* A snapped place is on a link, and no place of the network is nearer.    *)
LEMMA SnapIsNearest ==
  ASSUME NEW p \in Point
  PROVE  /\ Snap(p) \in SnapType
         /\ \A l \in Link :
              Squared(p, Snap(p).at) <= Squared(p, Nearest(p, At[Links[l].a], At[Links[l].b]))
<1> DEFINE foot == [l \in Link |-> Nearest(p, At[Links[l].a], At[Links[l].b])]
           off == [k \in Link |-> Squared(p, foot[k])]
           l == FirstLeast(off)
           n == Len(Links)
<1>1. n \in Nat \ {0} /\ Link = 1 .. n
  BY Network
<1>2. ASSUME NEW k \in Link
      PROVE  foot[k] \in Point /\ off[k] \in Nat /\ off[k] = Squared(p, foot[k])
             /\ foot[k] = Nearest(p, At[Links[k].a], At[Links[k].b])
  <2>1. At[Links[k].a] \in Point /\ At[Links[k].b] \in Point
    BY Network
  <2>2. Nearest(p, At[Links[k].a], At[Links[k].b]) \in Point
    BY <2>1, NearestIsBetween
  <2>3. foot[k] = Nearest(p, At[Links[k].a], At[Links[k].b]) /\ off[k] = Squared(p, foot[k])
    OBVIOUS
  <2> HIDE DEF foot, off
  <2> QED BY <2>2, <2>3, SquaredIsNatural
<1>3. off \in [1 .. n -> Nat]
  <2>1. off = [k \in 1 .. n |-> off[k]]
    BY <1>1
  <2> HIDE DEF off, foot
  <2> QED BY <1>1, <1>2, <2>1
<1> HIDE DEF off
<1>4. l \in 1 .. n /\ \A k \in 1 .. n : off[l] <= off[k]
  BY <1>1, <1>3, FirstLeastExists
<1>5. Snap(p) = [link |-> l, at |-> foot[l]]
  BY DEF Snap, off
<1> HIDE DEF foot, l, n
<1>6. Snap(p).at = foot[l] /\ Snap(p) \in SnapType
  BY <1>1, <1>2, <1>4, <1>5 DEF SnapType
<1> QED BY <1>1, <1>2, <1>4, <1>6

(* The edges of a search join vertices, over links of the network.         *)
LEMMA EdgesAreTyped ==
  ASSUME NEW start \in SnapType, NEW finish \in SnapType, NEW open \in SUBSET Link
  PROVE  Edges(start, finish, open) \subseteq EdgeType
<1> DEFINE Edge(u, v, length, k) ==
             [from |-> u, to |-> v, cost |-> length * Links[k].slowness, via |-> k]
           ls == Links[start.link]
           lf == Links[finish.link]
           A == {Edge(Links[k].a, Links[k].b, Span(At[Links[k].a], At[Links[k].b]), k) : k \in open}
           B == {Edge(Links[k].b, Links[k].a, Span(At[Links[k].a], At[Links[k].b]), k) :
                   k \in {m \in open : ~Links[m].oneway}}
           nodes == {ls.b} \cup (IF ~ls.oneway THEN {ls.a} ELSE {})
           ends == {lf.a} \cup (IF ~lf.oneway THEN {lf.b} ELSE {})
           C == {Edge(Start, n, Span(start.at, At[n]), start.link) : n \in nodes}
           D == {Edge(n, Finish, Span(finish.at, At[n]), finish.link) : n \in ends}
           E == {Edge(Start, Finish, Span(start.at, finish.at), start.link)}
<1>1. Edges(start, finish, open) \subseteq A \cup B \cup C \cup D \cup E
  BY Zenon DEF Edges
<1>2. start.link \in Link /\ start.at \in Point /\ finish.link \in Link /\ finish.at \in Point
  BY DEF SnapType
<1>3. ASSUME NEW u \in Node \cup {Start}, NEW v \in Node \cup {Finish},
             NEW p \in Point, NEW q \in Point, NEW k \in Link
      PROVE  Edge(u, v, Span(p, q), k) \in EdgeType
  <2>1. Span(p, q) \in Nat /\ Links[k].slowness \in Nat
    BY SpanIsNatural, Network
  <2>2. Span(p, q) * Links[k].slowness \in Nat
    BY <2>1
  <2> QED BY <2>2 DEF EdgeType
<1>4. \A k \in Link : /\ Links[k].a \in Node /\ Links[k].b \in Node
                      /\ At[Links[k].a] \in Point /\ At[Links[k].b] \in Point
  BY Network
<1>5. nodes \subseteq Node /\ ends \subseteq Node /\ \A n \in Node : At[n] \in Point
  BY <1>2, <1>4, Network
<1> HIDE DEF Edge, nodes, ends
<1>6. A \subseteq EdgeType
  BY <1>3, <1>4
<1>7. B \subseteq EdgeType
  BY <1>3, <1>4
<1>8. C \subseteq EdgeType
  <2>1. ASSUME NEW n \in nodes
        PROVE  Edge(Start, n, Span(start.at, At[n]), start.link) \in EdgeType
    <3>1. n \in Node /\ At[n] \in Point
      BY <1>5
    <3> QED BY <1>2, <1>3, <3>1
  <2> QED BY <2>1
<1>9. D \subseteq EdgeType
  <2>1. ASSUME NEW n \in ends
        PROVE  Edge(n, Finish, Span(finish.at, At[n]), finish.link) \in EdgeType
    <3>1. n \in Node /\ At[n] \in Point
      BY <1>5
    <3> QED BY <1>2, <1>3, <3>1
  <2> QED BY <2>1
<1>10. E \subseteq EdgeType
  BY <1>2, <1>3
<1> QED BY <1>1, <1>6, <1>7, <1>8, <1>9, <1>10, Zenon

(* A search in progress.  What is done is nearer than what is not, and     *)
(* every vertex reached but the start was reached from a vertex done.      *)
SearchType ==
  [ dist : UNION {[D -> Nat] : D \in SUBSET Vertex},
    prev : UNION {[D -> EdgeType] : D \in SUBSET Vertex},
    done : SUBSET Vertex ]

Searching(search) ==
  /\ search \in SearchType
  /\ Start \in DOMAIN search.dist
  /\ DOMAIN search.prev = DOMAIN search.dist \ {Start}
  /\ search.done \subseteq DOMAIN search.dist
  /\ \A v \in DOMAIN search.prev : search.prev[v].from \in search.done
  /\ \A d \in search.done : \A v \in DOMAIN search.dist \ search.done :
        search.dist[d] <= search.dist[v]

(* The fields of a search in progress.                                     *)
LEMMA SearchFields ==
  ASSUME NEW search, Searching(search)
  PROVE  /\ search = [dist |-> search.dist, prev |-> search.prev, done |-> search.done]
         /\ DOMAIN search.dist \subseteq Vertex
         /\ search.dist \in [DOMAIN search.dist -> Nat]
         /\ search.prev \in [DOMAIN search.prev -> EdgeType]
         /\ search.done \subseteq DOMAIN search.dist
<1>1. search.dist \in UNION {[D -> Nat] : D \in SUBSET Vertex}
      /\ search.prev \in UNION {[D -> EdgeType] : D \in SUBSET Vertex}
      /\ search = [dist |-> search.dist, prev |-> search.prev, done |-> search.done]
  BY DEF Searching, SearchType
<1>2. PICK D \in SUBSET Vertex : search.dist \in [D -> Nat]
  BY <1>1
<1>3. PICK F \in SUBSET Vertex : search.prev \in [F -> EdgeType]
  BY <1>1
<1>4. DOMAIN search.dist = D /\ DOMAIN search.prev = F
  BY <1>2, <1>3
<1> QED BY <1>1, <1>2, <1>3, <1>4, Zenon DEF Searching

(* The nearest vertex of the fringe, the first of equals, exists.          *)
LEMMA NearestOfFringe ==
  ASSUME NEW D, NEW dist \in [D -> Nat], NEW fringe \in SUBSET D, fringe # {}, D \subseteq Vertex
  PROVE  \E v \in fringe : \A w \in fringe :
            dist[v] < dist[w] \/ (dist[v] = dist[w] /\ v <= w)
<1> DEFINE values == {dist[v] : v \in fringe}
<1>1. values \in SUBSET Nat /\ values # {}
  BY Zenon
<1>2. PICK least \in values : \A x \in values : least <= x
  <2> HIDE DEF values
  <2> QED BY <1>1, LeastExists, Zenon
<1> DEFINE nearest == {v \in fringe : dist[v] = least}
<1>3. nearest \in SUBSET Nat /\ nearest # {}
  <2>1. nearest # {}
    BY <1>2, Zenon
  <2>2. Vertex \subseteq Nat
    BY DEF Vertex
  <2> QED BY <2>1, <2>2, Zenon
<1>4. PICK v \in nearest : \A w \in nearest : v <= w
  <2> HIDE DEF nearest
  <2> QED BY <1>3, LeastExists, Zenon
<1>5. v \in fringe /\ dist[v] = least
  BY Zenon
<1>6. ASSUME NEW w \in fringe
      PROVE  dist[v] < dist[w] \/ (dist[v] = dist[w] /\ v <= w)
  <2>1. dist[w] \in values /\ dist[w] \in Nat /\ dist[v] \in Nat
    BY <1>5, Zenon
  <2>2. dist[v] <= dist[w]
    BY <1>2, <1>5, <2>1, Zenon
  <2>3. dist[v] = dist[w] => v <= w
    BY <1>4, <1>5, Zenon
  <2> HIDE DEF values, nearest
  <2> QED BY <2>1, <2>2, <2>3
<1> QED BY <1>5, <1>6

(* What a step of Dijkstra does: it stops, or it settles the nearest       *)
(* vertex u, and what it improves on it reaches from u, at no less than    *)
(* the distance of u, and it never improves on what is done.               *)
Settles(search, next, u, to) ==
  /\ u \in DOMAIN search.dist \ search.done /\ u # Finish
  /\ \A w \in DOMAIN search.dist \ search.done : search.dist[u] <= search.dist[w]
  /\ to \subseteq Node \cup {Finish} /\ to \cap search.done = {} /\ u \notin to
  /\ DOMAIN next.dist = DOMAIN search.dist \cup to
  /\ DOMAIN next.prev = DOMAIN search.prev \cup to
  /\ \A v \in to : /\ next.dist[v] \in Nat /\ next.dist[v] >= search.dist[u]
                   /\ next.prev[v] \in EdgeType /\ next.prev[v].from = u
  /\ \A v \in DOMAIN search.dist \ to : next.dist[v] = search.dist[v]
  /\ \A v \in DOMAIN search.prev \ to : next.prev[v] = search.prev[v]
  /\ next.done = search.done \cup {u}

(* What it improves on is reached by an edge, and then no edge from u      *)
(* leads anywhere faster.                                                  *)
Improves(search, next, u, to, edges) ==
  /\ \A v \in to : /\ next.prev[v] \in edges /\ next.prev[v].to = v
                   /\ next.dist[v] = search.dist[u] + next.prev[v].cost
                   /\ v \in DOMAIN search.dist => next.dist[v] <= search.dist[v]
  /\ \A e \in edges : e.from = u =>
       e.to \in DOMAIN next.dist /\ next.dist[e.to] <= search.dist[u] + e.cost

(* The search is over: nothing is left, or nothing nearer than the finish. *)
Stopped(search) ==
  LET fringe == DOMAIN search.dist \ search.done
  IN  fringe # {} => Finish \in fringe /\ \A w \in fringe : search.dist[Finish] <= search.dist[w]

(* Of the edges to one vertex one is the cheapest, the first of equals.    *)
LEMMA CheapestEdge ==
  ASSUME NEW out \in SUBSET EdgeType, NEW e \in out
  PROVE  \E b \in out : /\ b.to = e.to /\ b.cost <= e.cost
                        /\ \A f \in out : f.to = b.to =>
                             b.cost < f.cost \/ (b.cost = f.cost /\ b.via <= f.via)
<1> DEFINE K == {f \in out : f.to = e.to}
           costs == {f.cost : f \in K}
<1>1. \A f \in out : f.cost \in Nat /\ f.via \in Nat
  <2>1. Link \subseteq Nat
    BY Network
  <2> QED BY <2>1 DEF EdgeType
<1>2. costs \in SUBSET Nat /\ costs # {}
  BY <1>1, Zenon
<1>3. PICK c \in costs : \A x \in costs : c <= x
  <2> HIDE DEF costs
  <2> QED BY <1>2, LeastExists, Zenon
<1> DEFINE cheap == {f \in K : f.cost = c}
           vias == {f.via : f \in cheap}
<1>4. vias \in SUBSET Nat /\ vias # {}
  BY <1>1, <1>3, Zenon
<1>5. PICK i \in vias : \A x \in vias : i <= x
  <2> HIDE DEF vias
  <2> QED BY <1>4, LeastExists, Zenon
<1>6. PICK b \in cheap : b.via = i
  BY <1>5, Zenon
<1>7. b \in out /\ b.to = e.to /\ b.cost = c
  BY <1>6, Zenon
<1>8. ASSUME NEW f \in out, f.to = b.to
      PROVE  b.cost < f.cost \/ (b.cost = f.cost /\ b.via <= f.via)
  <2>1. f \in K /\ f.cost \in costs
    BY <1>7, <1>8, Zenon
  <2>2. b.cost <= f.cost
    BY <1>3, <1>7, <2>1, Zenon
  <2>3. f.cost = c => b.via <= f.via
    <3>1. f.cost = c => f.via \in vias
      BY <2>1, Zenon
    <3> QED BY <1>5, <1>6, <3>1, Zenon
  <2>4. b.cost \in Nat /\ f.cost \in Nat
    BY <1>1, <1>7
  <2> HIDE DEF K, costs, cheap, vias
  <2> QED BY <1>7, <2>2, <2>3, <2>4
<1>9. b.cost <= e.cost
  BY <1>3, <1>7, Zenon
<1> QED BY <1>7, <1>8, <1>9

(* One step of Dijkstra settles the nearest vertex of the fringe, or stops.*)
LEMMA SettleStep ==
  ASSUME NEW search, Searching(search), NEW edges \in SUBSET EdgeType
  PROVE  LET next == Settle(search, edges)
         IN  \/ next = search /\ Stopped(search)
             \/ \E u, to : /\ Settles(search, next, u, to) /\ next \in SearchType
                           /\ Improves(search, next, u, to, edges)
<1> DEFINE dist == search.dist
           fringe == DOMAIN dist \ search.done
           First(v) == \A w \in fringe :
             \/ dist[v] < dist[w]
             \/ dist[v] = dist[w] /\ v <= w
           u == CHOOSE v \in fringe : First(v)
           out  == {e \in edges : e.from = u}
           best == {e \in out : \A f \in out : f.to = e.to =>
                      e.cost < f.cost \/ (e.cost = f.cost /\ e.via <= f.via)}
           used == {e \in best : e.to \in DOMAIN dist => dist[u] + e.cost < dist[e.to]}
           Via(v) == CHOOSE e \in used : e.to = v
           to == {e.to : e \in used}
           nextDist == [v \in DOMAIN dist \cup to |->
                          IF v \in to THEN dist[u] + Via(v).cost ELSE dist[v]]
           nextPrev == [v \in DOMAIN search.prev \cup to |->
                          IF v \in to THEN Via(v) ELSE search.prev[v]]
           next == [dist |-> nextDist, prev |-> nextPrev, done |-> search.done \cup {u}]
<1>1. Settle(search, edges) = IF fringe = {} \/ u = Finish THEN search ELSE next
  BY DEF Settle
<1>2. /\ DOMAIN dist \subseteq Vertex /\ dist \in [DOMAIN dist -> Nat]
      /\ search.prev \in [DOMAIN search.prev -> EdgeType] /\ search.done \subseteq DOMAIN dist
      /\ DOMAIN search.prev \subseteq Vertex
      /\ \A d \in search.done : \A v \in fringe : dist[d] <= dist[v]
  <2>1. /\ DOMAIN search.dist \subseteq Vertex /\ search.dist \in [DOMAIN search.dist -> Nat]
        /\ search.prev \in [DOMAIN search.prev -> EdgeType]
    BY SearchFields
  <2>2. /\ search.done \subseteq DOMAIN search.dist
        /\ DOMAIN search.prev = DOMAIN search.dist \ {Start}
        /\ \A d \in search.done : \A v \in fringe : dist[d] <= dist[v]
    BY DEF Searching
  <2> QED BY <2>1, <2>2
<1>0. ASSUME fringe # {} PROVE u \in fringe /\ First(u)
  <2>1. \E v \in fringe : First(v)
    <3>1. fringe \in SUBSET DOMAIN dist
      OBVIOUS
    <3> HIDE DEF fringe, dist
    <3> QED BY <1>0, <1>2, <3>1, NearestOfFringe
  <2> HIDE DEF fringe, First
  <2> QED BY <2>1, Zenon
<1>3. CASE fringe = {} \/ u = Finish
  <2>1. Settle(search, edges) = search
    <3> HIDE DEF next, fringe, u
    <3> QED BY <1>1, <1>3, Zenon
  <2>2. ASSUME fringe # {}
        PROVE  Finish \in fringe /\ \A w \in fringe : dist[Finish] <= dist[w]
    <3>1. Finish \in fringe /\ First(Finish)
      <4> HIDE DEF fringe, First, u
      <4> QED BY <1>0, <1>3, <2>2
    <3>2. \A w \in fringe : dist[w] \in Nat
      <4>1. \A w \in fringe : w \in DOMAIN dist
        OBVIOUS
      <4> HIDE DEF fringe, dist
      <4> QED BY <1>2, <4>1
    <3>3. ASSUME NEW w \in fringe PROVE dist[Finish] <= dist[w]
      <4>1. dist[Finish] < dist[w] \/ dist[Finish] = dist[w]
        BY <3>1, Zenon
      <4>2. dist[Finish] \in Nat /\ dist[w] \in Nat
        <5> HIDE DEF fringe, dist
        <5> QED BY <3>1, <3>2
      <4> HIDE DEF dist
      <4> QED BY <4>1, <4>2
    <3> QED BY <3>1, <3>3
  <2>3. Stopped(search)
    BY <2>2, Zenon DEF Stopped
  <2> QED BY <2>1, <2>3
<1>4. CASE ~ (fringe = {} \/ u = Finish)
  <2>1. Settle(search, edges) = next
    BY <1>1, <1>4
  <2>2. u \in fringe /\ First(u)
    <3> HIDE DEF fringe, First, u
    <3> QED BY <1>0, <1>4
  <2>3. dist[u] \in Nat /\ \A w \in fringe : dist[w] \in Nat /\ dist[u] <= dist[w]
    <3>1. u \in DOMAIN dist /\ \A w \in fringe : w \in DOMAIN dist
      BY <2>2, Zenon
    <3>2. dist[u] \in Nat /\ \A w \in fringe : dist[w] \in Nat
      BY <1>2, <3>1
    <3>3. \A w \in fringe : dist[u] < dist[w] \/ dist[u] = dist[w]
      BY <2>2, Zenon
    <3> HIDE DEF fringe, dist, u
    <3> QED BY <3>2, <3>3
  <2> HIDE DEF u, First
  <2>4. \A e \in used : /\ e \in EdgeType /\ e \in edges /\ e.from = u
                        /\ e.to \in DOMAIN dist => dist[u] + e.cost < dist[e.to]
                        /\ \A f \in out : f.to = e.to =>
                             e.cost < f.cost \/ (e.cost = f.cost /\ e.via <= f.via)
    BY Zenon
  <2>15. ASSUME NEW e \in out, e.to \notin to
         PROVE  e.to \in DOMAIN dist /\ \E b \in out : b.to = e.to /\ b.cost <= e.cost
                                                   /\ ~ (dist[u] + b.cost < dist[e.to])
    <3>1. out \in SUBSET EdgeType
      OBVIOUS
    <3>2. PICK b \in out : /\ b.to = e.to /\ b.cost <= e.cost
                           /\ \A f \in out : f.to = b.to =>
                                b.cost < f.cost \/ (b.cost = f.cost /\ b.via <= f.via)
      <4> HIDE DEF out
      <4> QED BY <3>1, CheapestEdge
    <3>3. b \in best
      BY <3>2, Zenon
    <3>4. b \notin used
      BY <2>15, <3>2, Zenon
    <3>5. ~ (b.to \in DOMAIN dist => dist[u] + b.cost < dist[b.to])
      BY <3>3, <3>4, Zenon
    <3> HIDE DEF out, best, used, to
    <3> QED BY <3>2, <3>5, Zenon
  <2> HIDE DEF used
  <2>5. ASSUME NEW v \in to
        PROVE  /\ Via(v) \in EdgeType /\ Via(v).from = u /\ Via(v).to = v /\ Via(v).cost \in Nat
               /\ v \in DOMAIN dist => dist[u] + Via(v).cost < dist[v]
               /\ Via(v) \in edges
               /\ \A f \in out : f.to = v => Via(v).cost <= f.cost
    <3>1. Via(v) \in used /\ Via(v).to = v
      BY <2>5, Zenon
    <3>2. \A f \in out : f \in EdgeType
      BY Zenon
    <3> HIDE DEF Via, out
    <3>3. /\ Via(v) \in EdgeType /\ Via(v).from = u /\ Via(v) \in edges
          /\ v \in DOMAIN dist => dist[u] + Via(v).cost < dist[v]
          /\ \A f \in out : f.to = v =>
               Via(v).cost < f.cost \/ (Via(v).cost = f.cost /\ Via(v).via <= f.via)
      BY <2>4, <3>1, Zenon
    <3>4. Via(v).cost \in Nat
      BY <3>3 DEF EdgeType
    <3>5. ASSUME NEW f \in out, f.to = v PROVE Via(v).cost <= f.cost
      <4>1. f.cost \in Nat
        BY <3>2 DEF EdgeType
      <4>2. Via(v).cost < f.cost \/ Via(v).cost = f.cost
        BY <3>3, <3>5
      <4> QED BY <3>4, <4>1, <4>2
    <3> QED BY <3>1, <3>3, <3>4, <3>5
  <2> HIDE DEF to, Via
  <2>6. to \subseteq Node \cup {Finish}
    <3>1. \A v \in to : Via(v).to \in Node \cup {Finish}
      BY <2>5 DEF EdgeType
    <3> QED BY <2>5, <3>1
  <2>7. to \cap search.done = {} /\ u \notin to
    <3>1. ASSUME NEW v \in to, v \in search.done \cup {u}
          PROVE  FALSE
      <4>1. v \in DOMAIN dist /\ u \in DOMAIN dist
        BY <1>2, <2>2, <3>1
      <4>2. dist[v] <= dist[u] /\ dist[v] \in Nat
        BY <1>2, <2>2, <2>3, <3>1, <4>1
      <4>3. dist[u] + Via(v).cost < dist[v] /\ Via(v).cost \in Nat
        BY <2>5, <4>1
      <4> HIDE DEF dist
      <4> QED BY <2>3, <4>2, <4>3
    <3> QED BY <3>1
  <2>8. \A v \in to : /\ nextDist[v] \in Nat /\ nextDist[v] >= dist[u]
                      /\ nextPrev[v] \in EdgeType /\ nextPrev[v].from = u
    <3> TAKE v \in to
    <3>1. nextDist[v] = dist[u] + Via(v).cost /\ nextPrev[v] = Via(v)
      BY Zenon
    <3>2. Via(v).cost \in Nat /\ Via(v) \in EdgeType /\ Via(v).from = u
      BY <2>5
    <3> HIDE DEF nextDist, nextPrev, dist
    <3> QED BY <2>3, <3>1, <3>2
  <2>9. /\ \A v \in DOMAIN dist \ to : nextDist[v] = dist[v]
        /\ \A v \in DOMAIN search.prev \ to : nextPrev[v] = search.prev[v]
        /\ DOMAIN nextDist = DOMAIN dist \cup to /\ DOMAIN nextPrev = DOMAIN search.prev \cup to
    BY Zenon
  <2>10. Node \cup {Finish} \subseteq Vertex /\ Start \in Vertex
    BY Network DEF Vertex
  <2>11. next \in SearchType
    <3>1. nextDist \in [DOMAIN dist \cup to -> Nat]
      <4>1. \A v \in DOMAIN dist \cup to : nextDist[v] \in Nat
        <5> HIDE DEF nextDist, dist
        <5> QED BY <1>2, <2>8, <2>9
      <4>2. nextDist = [v \in DOMAIN dist \cup to |-> nextDist[v]]
        BY Zenon
      <4> HIDE DEF nextDist, dist
      <4> QED BY <4>1, <4>2
    <3>2. nextPrev \in [DOMAIN search.prev \cup to -> EdgeType]
      <4>1. \A v \in DOMAIN search.prev \cup to : nextPrev[v] \in EdgeType
        <5> HIDE DEF nextPrev
        <5> QED BY <1>2, <2>8, <2>9
      <4>2. nextPrev = [v \in DOMAIN search.prev \cup to |-> nextPrev[v]]
        BY Zenon
      <4> HIDE DEF nextPrev
      <4> QED BY <4>1, <4>2
    <3>3. DOMAIN dist \cup to \in SUBSET Vertex /\ DOMAIN search.prev \cup to \in SUBSET Vertex
          /\ search.done \cup {u} \in SUBSET Vertex
      BY <1>2, <2>2, <2>6, <2>10
    <3> HIDE DEF nextDist, nextPrev, dist
    <3>4. nextDist \in UNION {[D -> Nat] : D \in SUBSET Vertex}
      BY <3>1, <3>3
    <3>5. nextPrev \in UNION {[D -> EdgeType] : D \in SUBSET Vertex}
      BY <3>2, <3>3
    <3> QED BY <3>3, <3>4, <3>5 DEF SearchType
  <2>12. next.dist = nextDist /\ next.prev = nextPrev /\ next.done = search.done \cup {u}
    BY Zenon
  <2>16. ASSUME NEW v \in to
         PROVE  /\ nextPrev[v] \in edges /\ nextPrev[v].to = v
                /\ nextDist[v] = dist[u] + nextPrev[v].cost
                /\ v \in DOMAIN dist => nextDist[v] <= dist[v]
    <3>1. nextDist[v] = dist[u] + Via(v).cost /\ nextPrev[v] = Via(v)
      BY Zenon
    <3>2. v \in DOMAIN dist => dist[v] \in Nat
      <4> HIDE DEF dist
      <4> QED BY <1>2
    <3>3. Via(v) \in edges /\ Via(v).to = v /\ Via(v).cost \in Nat
          /\ (v \in DOMAIN dist => dist[u] + Via(v).cost < dist[v])
      BY <2>5
    <3> HIDE DEF nextDist, nextPrev, dist
    <3> QED BY <2>3, <3>1, <3>2, <3>3
  <2>17. ASSUME NEW e \in edges, e.from = u
         PROVE  e.to \in DOMAIN nextDist /\ nextDist[e.to] <= dist[u] + e.cost
    <3>1. e \in out /\ e.cost \in Nat
      BY <2>17 DEF EdgeType
    <3>2. CASE e.to \in to
      <4>1. nextDist[e.to] = dist[u] + Via(e.to).cost
        BY <3>2, Zenon
      <4>2. Via(e.to).cost <= e.cost /\ Via(e.to).cost \in Nat
        BY <2>5, <3>1, <3>2
      <4>3. e.to \in DOMAIN nextDist
        BY <2>9, <3>2
      <4> HIDE DEF nextDist, dist
      <4> QED BY <2>3, <3>1, <4>1, <4>2, <4>3
    <3>3. CASE e.to \notin to
      <4>1. PICK b \in out : e.to \in DOMAIN dist /\ b.cost <= e.cost
                              /\ ~ (dist[u] + b.cost < dist[e.to])
        BY <2>15, <3>1, <3>3
      <4>2. b.cost \in Nat
        BY <4>1 DEF EdgeType
      <4>3. nextDist[e.to] = dist[e.to] /\ e.to \in DOMAIN nextDist
        BY <2>9, <3>3, <4>1
      <4>4. dist[e.to] \in Nat
        <5> HIDE DEF dist
        <5> QED BY <1>2, <4>1
      <4> HIDE DEF nextDist, dist, out
      <4> QED BY <2>3, <3>1, <4>1, <4>2, <4>3, <4>4
    <3> QED BY <3>2, <3>3
  <2> HIDE DEF next, nextDist, nextPrev
  <2>19. Improves(search, next, u, to, edges)
    BY <2>12, <2>16, <2>17, Zenon DEF Improves
  <2>13. u # Finish
    BY <1>4
  <2>14. Settles(search, next, u, to)
    BY <2>2, <2>3, <2>6, <2>7, <2>8, <2>9, <2>12, <2>13, Zenon DEF Settles
  <2> QED BY <2>1, <2>11, <2>14, <2>19
<1> QED BY <1>3, <1>4

(* Predecessors lead back to the start in so many steps at most.           *)
Ranks(r, search, n) ==
  /\ r \in [DOMAIN search.dist -> 0 .. n] /\ r[Start] = 0
  /\ \A v \in DOMAIN search.prev : r[search.prev[v].from] < r[v]

Ranked(search, n) == \E r : Ranks(r, search, n)

(* Settling a vertex keeps the promises of a search.                       *)
LEMMA SettlesKeeps ==
  ASSUME NEW search, Searching(search), NEW next \in SearchType, NEW u, NEW to,
         Settles(search, next, u, to)
  PROVE  Searching(next)
<1>1. /\ Start \in DOMAIN search.dist /\ DOMAIN search.prev = DOMAIN search.dist \ {Start}
      /\ search.done \subseteq DOMAIN search.dist
      /\ \A v \in DOMAIN search.prev : search.prev[v].from \in search.done
      /\ \A d \in search.done : \A v \in DOMAIN search.dist \ search.done :
           search.dist[d] <= search.dist[v]
  BY DEF Searching
<1>2. \A v \in DOMAIN search.dist : search.dist[v] \in Nat
  BY SearchFields
<1>3. Start \notin to
  <2>1. Start \notin Node \cup {Finish}
    BY Network
  <2> QED BY <2>1 DEF Settles
<1>4. DOMAIN next.prev = DOMAIN next.dist \ {Start} /\ Start \in DOMAIN next.dist
  <2>1. DOMAIN next.dist = DOMAIN search.dist \cup to
        /\ DOMAIN next.prev = DOMAIN search.prev \cup to
    BY Zenon DEF Settles
  <2> QED BY <1>1, <1>3, <2>1
<1>5. next.done \subseteq DOMAIN next.dist
  BY <1>1, Zenon DEF Settles
<1>6. ASSUME NEW v \in DOMAIN next.prev PROVE next.prev[v].from \in next.done
  <2>1. CASE v \in to
    BY <2>1, Zenon DEF Settles
  <2>2. CASE v \notin to
    <3>1. v \in DOMAIN search.prev /\ next.prev[v] = search.prev[v]
      BY <2>2, <1>6, Zenon DEF Settles
    <3> QED BY <1>1, <3>1, Zenon DEF Settles
  <2> QED BY <2>1, <2>2
<1>7. ASSUME NEW d \in next.done, NEW v \in DOMAIN next.dist \ next.done
      PROVE  next.dist[d] <= next.dist[v]
  <2>1. u \in DOMAIN search.dist \ search.done /\ d \in search.done \cup {u}
        /\ to \cap search.done = {} /\ u \notin to
    BY Zenon DEF Settles
  <2>2. d \in DOMAIN search.dist \ to
    BY <1>1, <2>1
  <2>3. next.dist[d] = search.dist[d]
    BY <2>2, Zenon DEF Settles
  <2>4. search.dist[d] <= search.dist[u] /\ search.dist[d] \in Nat /\ search.dist[u] \in Nat
    <3>1. search.dist[d] \in Nat /\ search.dist[u] \in Nat
      BY <1>2, <2>1, <2>2
    <3>2. d \in search.done => search.dist[d] <= search.dist[u]
      BY <1>1, <2>1
    <3> QED BY <2>1, <3>1, <3>2
  <2>5. CASE v \in to
    <3>1. next.dist[v] \in Nat /\ next.dist[v] >= search.dist[u]
      BY <2>5, Zenon DEF Settles
    <3> QED BY <2>3, <2>4, <3>1
  <2>6. CASE v \notin to
    <3>1. v \in DOMAIN search.dist \ search.done /\ next.dist[v] = search.dist[v]
      BY <2>6, <1>7, Zenon DEF Settles
    <3>2. search.dist[u] <= search.dist[v] /\ search.dist[v] \in Nat
      BY <1>2, <3>1, Zenon DEF Settles
    <3> QED BY <2>3, <2>4, <3>1, <3>2
  <2> QED BY <2>5, <2>6
<1> QED BY <1>4, <1>5, <1>6, <1>7 DEF Searching

(* Settling a vertex leaves every way back short enough.                   *)
LEMMA SettlesKeepsRanks ==
  ASSUME NEW search, Searching(search), NEW next, NEW u, NEW to,
         Settles(search, next, u, to), NEW n \in Nat, Ranked(search, n)
  PROVE  Ranked(next, n + 1)
<1>1. PICK r : Ranks(r, search, n)
  BY DEF Ranked
<1> DEFINE m == n + 1
           q == [v \in DOMAIN search.dist \cup to |-> IF v \in to THEN m ELSE r[v]]
<1>2. m \in Nat /\ m > n /\ m \in 0 .. m /\ 0 .. n \subseteq 0 .. m
  OBVIOUS
<1> HIDE DEF m
<1>3. /\ Start \in DOMAIN search.dist /\ search.done \subseteq DOMAIN search.dist
      /\ DOMAIN search.prev \subseteq DOMAIN search.dist
      /\ \A v \in DOMAIN search.prev : search.prev[v].from \in search.done
  BY DEF Searching
<1>4. /\ DOMAIN next.dist = DOMAIN search.dist \cup to /\ to \cap search.done = {}
      /\ DOMAIN next.prev = DOMAIN search.prev \cup to /\ u \notin to /\ u \in DOMAIN search.dist
      /\ \A v \in to : next.prev[v].from = u
      /\ \A v \in DOMAIN search.prev \ to : next.prev[v] = search.prev[v]
  BY Zenon DEF Settles
<1>5. Start \notin to
  <2>1. Start \notin Node \cup {Finish} /\ to \subseteq Node \cup {Finish}
    BY Network DEF Settles
  <2> QED BY <2>1
<1>6. \A v \in DOMAIN search.dist : r[v] \in 0 .. n
  BY <1>1 DEF Ranks
<1>7. q \in [DOMAIN next.dist -> 0 .. m] /\ q[Start] = 0
  <2>1. \A v \in DOMAIN search.dist \cup to : (IF v \in to THEN m ELSE r[v]) \in 0 .. m
    BY <1>2, <1>6
  <2> QED BY <1>1, <1>3, <1>4, <1>5, <2>1 DEF Ranks
<1>8. ASSUME NEW v \in DOMAIN next.prev PROVE q[next.prev[v].from] < q[v]
  <2>1. CASE v \in to
    <3>1. next.prev[v].from = u /\ q[u] = r[u] /\ q[v] = m
      BY <1>4, <2>1
    <3>2. r[u] \in 0 .. n
      BY <1>4, <1>6
    <3> HIDE DEF q
    <3> QED BY <1>2, <3>1, <3>2
  <2>2. CASE v \notin to
    <3>1. v \in DOMAIN search.prev /\ v \in DOMAIN search.dist /\ next.prev[v] = search.prev[v]
      BY <1>3, <1>4, <2>2
    <3>2. search.prev[v].from \in search.done /\ search.prev[v].from \notin to
          /\ search.prev[v].from \in DOMAIN search.dist
      BY <1>3, <1>4, <3>1
    <3>3. q[v] = r[v] /\ q[search.prev[v].from] = r[search.prev[v].from]
      BY <2>2, <3>1, <3>2
    <3>4. r[search.prev[v].from] < r[v]
      BY <1>1, <3>1 DEF Ranks
    <3> HIDE DEF q
    <3> QED BY <3>1, <3>3, <3>4
  <2> QED BY <2>1, <2>2
<1>9. Ranks(q, next, m)
  <2> HIDE DEF q
  <2> QED BY <1>7, <1>8 DEF Ranks
<1> QED BY <1>9 DEF Ranked, m

(* Distances are those of the edges taken, and no edge that leaves a       *)
(* settled vertex is shorter.                                              *)
Relaxed(search, edges) ==
  /\ search.dist[Start] = 0 /\ Finish \notin search.done
  /\ \A v \in DOMAIN search.prev :
       /\ search.prev[v] \in edges /\ search.prev[v].to = v
       /\ search.dist[v] = search.dist[search.prev[v].from] + search.prev[v].cost
  /\ \A e \in edges : e.from \in search.done =>
       e.to \in DOMAIN search.dist /\ search.dist[e.to] <= search.dist[e.from] + e.cost

(* Settling a vertex keeps them so: no settled distance changes, and those *)
(* that change become less.                                                *)
LEMMA ImprovesKeeps ==
  ASSUME NEW search, Searching(search), NEW edges \in SUBSET EdgeType, Relaxed(search, edges),
         NEW next \in SearchType, NEW u, NEW to,
         Settles(search, next, u, to), Improves(search, next, u, to, edges)
  PROVE  Relaxed(next, edges)
<1>1. /\ Start \in DOMAIN search.dist /\ DOMAIN search.prev = DOMAIN search.dist \ {Start}
      /\ search.done \subseteq DOMAIN search.dist
      /\ \A v \in DOMAIN search.prev : search.prev[v].from \in search.done
  BY DEF Searching
<1>2. \A v \in DOMAIN search.dist : search.dist[v] \in Nat
  BY SearchFields
<1>3. /\ u \in DOMAIN search.dist /\ u # Finish /\ u \notin to
      /\ to \subseteq Node \cup {Finish} /\ to \cap search.done = {}
      /\ DOMAIN next.dist = DOMAIN search.dist \cup to
      /\ DOMAIN next.prev = DOMAIN search.prev \cup to
      /\ \A v \in to : next.dist[v] \in Nat /\ next.prev[v].from = u
      /\ \A v \in DOMAIN search.dist \ to : next.dist[v] = search.dist[v]
      /\ \A v \in DOMAIN search.prev \ to : next.prev[v] = search.prev[v]
      /\ next.done = search.done \cup {u}
  BY Zenon DEF Settles
<1>4. /\ \A v \in to : /\ next.prev[v] \in edges /\ next.prev[v].to = v
                       /\ next.dist[v] = search.dist[u] + next.prev[v].cost
                       /\ v \in DOMAIN search.dist => next.dist[v] <= search.dist[v]
      /\ \A e \in edges : e.from = u =>
           e.to \in DOMAIN next.dist /\ next.dist[e.to] <= search.dist[u] + e.cost
  BY DEF Improves
<1>5. /\ search.dist[Start] = 0 /\ Finish \notin search.done
      /\ \A v \in DOMAIN search.prev :
           /\ search.prev[v] \in edges /\ search.prev[v].to = v
           /\ search.dist[v] = search.dist[search.prev[v].from] + search.prev[v].cost
      /\ \A e \in edges : e.from \in search.done =>
           e.to \in DOMAIN search.dist /\ search.dist[e.to] <= search.dist[e.from] + e.cost
  BY DEF Relaxed
<1>6. \A d \in next.done : d \in DOMAIN search.dist /\ next.dist[d] = search.dist[d]
  BY <1>1, <1>3
<1>7. next.dist[Start] = 0 /\ Finish \notin next.done
  <2>1. Start \notin Node \cup {Finish}
    BY Network
  <2>2. Start \in DOMAIN search.dist \ to
    BY <1>1, <1>3, <2>1
  <2>3. next.dist[Start] = search.dist[Start]
    BY <1>3, <2>2, Zenon
  <2> QED BY <1>3, <1>5, <2>3
<1>8. ASSUME NEW v \in DOMAIN next.prev
      PROVE  /\ next.prev[v] \in edges /\ next.prev[v].to = v
             /\ next.dist[v] = next.dist[next.prev[v].from] + next.prev[v].cost
  <2>1. CASE v \in to
    <3>1. next.prev[v].from = u /\ next.dist[u] = search.dist[u]
      BY <1>3, <1>6, <2>1
    <3> QED BY <1>4, <2>1, <3>1
  <2>2. CASE v \notin to
    <3>1. v \in DOMAIN search.prev /\ next.prev[v] = search.prev[v]
          /\ next.dist[v] = search.dist[v]
      BY <1>1, <1>3, <2>2
    <3>2. search.prev[v].from \in next.done
      BY <1>1, <1>3, <3>1
    <3>3. next.dist[search.prev[v].from] = search.dist[search.prev[v].from]
      BY <1>6, <3>2
    <3> QED BY <1>5, <3>1, <3>3
  <2> QED BY <2>1, <2>2
<1>9. ASSUME NEW e \in edges, e.from \in next.done
      PROVE  e.to \in DOMAIN next.dist /\ next.dist[e.to] <= next.dist[e.from] + e.cost
  <2>1. next.dist[e.from] = search.dist[e.from]
    BY <1>6, <1>9
  <2>2. CASE e.from = u
    BY <1>4, <2>1, <2>2
  <2>3. CASE e.from # u
    <3>1. e.to \in DOMAIN search.dist /\ search.dist[e.to] <= search.dist[e.from] + e.cost
      BY <1>3, <1>5, <1>9, <2>3
    <3>2. next.dist[e.to] <= search.dist[e.to] /\ next.dist[e.to] \in Nat
      BY <1>2, <1>3, <1>4, <3>1
    <3>3. search.dist[e.to] \in Nat /\ search.dist[e.from] \in Nat /\ e.cost \in Nat
      <4>1. e.from \in DOMAIN search.dist
        BY <1>6, <1>9
      <4>2. e.cost \in Nat
        BY DEF EdgeType
      <4> QED BY <1>2, <3>1, <4>1, <4>2
    <3>4. e.to \in DOMAIN next.dist
      BY <1>3, <3>1
    <3> QED BY <2>1, <3>1, <3>2, <3>3, <3>4
  <2> QED BY <2>2, <2>3
<1> QED BY <1>7, <1>8, <1>9 DEF Relaxed

(* Each step settles one more vertex, or the search is over: counted.      *)
Counted(search, n, edges) ==
  \/ Settle(search, edges) = search
  \/ IsFiniteSet(search.done) /\ Cardinality(search.done) = n

(* Dijkstra's search keeps its promises to the end, and is over then: there*)
(* are fewer vertices to settle than steps.                                *)
LEMMA DijkstraSearches ==
  ASSUME NEW edges \in SUBSET EdgeType
  PROVE  /\ Searching(Dijkstra(edges)) /\ Ranked(Dijkstra(edges), Finish)
         /\ Relaxed(Dijkstra(edges), edges) /\ Stopped(Dijkstra(edges))
<1> DEFINE first == [dist |-> [v \in {Start} |-> 0], prev |-> <<>>, done |-> {}]
           X == {search \in SearchType : Searching(search) /\ Relaxed(search, edges)}
           step == [n \in 1 .. Finish |-> [search \in X |-> Settle(search, edges)]]
           After(f) == [n \in 0 .. Finish |-> IF n = 0 THEN first ELSE Settle(f[n - 1], edges)]
<1>1. Finish \in Nat /\ Start \in Vertex
  BY Network DEF Vertex
<1>2. first \in X /\ Ranked(first, 0) /\ Counted(first, 0, edges)
  <2> DEFINE d == [v \in {Start} |-> 0]
             e == <<>>
  <2>1. DOMAIN e = {} /\ e \in [{} -> EdgeType]
    OBVIOUS
  <2>2. d \in [{Start} -> Nat] /\ DOMAIN d = {Start} /\ d[Start] = 0
    OBVIOUS
  <2>3. first.dist = d /\ first.prev = e /\ first.done = {}
    OBVIOUS
  <2>4. {Start} \in SUBSET Vertex /\ {} \in SUBSET Vertex
    BY <1>1
  <2>5. d \in UNION {[D -> Nat] : D \in SUBSET Vertex}
    <3> HIDE DEF d
    <3> QED BY <2>2, <2>4
  <2>6. e \in UNION {[D -> EdgeType] : D \in SUBSET Vertex}
    <3> HIDE DEF e
    <3> QED BY <2>1, <2>4
  <2>7. first = [dist |-> d, prev |-> e, done |-> {}]
    OBVIOUS
  <2> HIDE DEF d, e
  <2>8. first \in SearchType
    <3> HIDE DEF first
    <3> QED BY <2>4, <2>5, <2>6, <2>7 DEF SearchType
  <2> HIDE DEF first
  <2>9. Searching(first)
    BY <2>1, <2>2, <2>3, <2>8 DEF Searching
  <2>10. Ranks(d, first, 0)
    <3>1. d \in [{Start} -> 0 .. 0]
      BY DEF d
    <3> QED BY <2>1, <2>2, <2>3, <3>1 DEF Ranks
  <2>11. Relaxed(first, edges)
    BY <2>1, <2>2, <2>3 DEF Relaxed
  <2>12. IsFiniteSet(first.done) /\ Cardinality(first.done) = 0
    BY <2>3, FS_EmptySet
  <2> QED BY <2>8, <2>9, <2>10, <2>11, <2>12 DEF Ranked, Counted
<1>3. ASSUME NEW search \in X
      PROVE  /\ Settle(search, edges) \in X
             /\ \A n \in Nat : Ranked(search, n) => Ranked(Settle(search, edges), n + 1)
             /\ \A n \in Nat : Counted(search, n, edges) =>
                               Counted(Settle(search, edges), n + 1, edges)
             /\ Settle(search, edges) = search => Stopped(search)
  <2> DEFINE next == Settle(search, edges)
  <2>1. Searching(search) /\ Relaxed(search, edges)
    OBVIOUS
  <2>2. \/ next = search /\ Stopped(search)
        \/ \E u, to : /\ Settles(search, next, u, to) /\ next \in SearchType
                      /\ Improves(search, next, u, to, edges)
    BY <2>1, SettleStep
  <2> HIDE DEF next
  <2>3. CASE next = search
    <3>1. ASSUME NEW n \in Nat, Ranked(search, n) PROVE Ranked(search, n + 1)
      <4>1. PICK r : Ranks(r, search, n)
        BY <3>1 DEF Ranked
      <4>2. 0 .. n \subseteq 0 .. n + 1
        OBVIOUS
      <4>3. Ranks(r, search, n + 1)
        BY <4>1, <4>2 DEF Ranks
      <4> QED BY <4>3 DEF Ranked
    <3>2. ~ \E u, to : Settles(search, next, u, to)
      BY <2>3 DEF Settles
    <3>3. Stopped(search)
      BY <2>2, <3>2
    <3>4. \A n \in Nat : Counted(next, n + 1, edges)
      BY <2>3 DEF next, Counted
    <3> QED BY <2>3, <3>1, <3>3, <3>4 DEF next
  <2>4. CASE next # search
    <3>1. PICK u, to : /\ Settles(search, next, u, to) /\ next \in SearchType
                       /\ Improves(search, next, u, to, edges)
      BY <2>2, <2>4
    <3>2. Searching(next)
      BY <2>1, <3>1, SettlesKeeps
    <3>4. Relaxed(next, edges)
      BY <2>1, <3>1, ImprovesKeeps
    <3>5. ASSUME NEW n \in Nat, Counted(search, n, edges)
          PROVE  Counted(next, n + 1, edges)
      <4>1. IsFiniteSet(search.done) /\ Cardinality(search.done) = n
        BY <2>4, <3>5 DEF Counted, next
      <4>2. next.done = search.done \cup {u} /\ u \notin search.done
        BY <3>1, Zenon DEF Settles
      <4>3. /\ IsFiniteSet(search.done \cup {u})
            /\ Cardinality(search.done \cup {u})
                 = IF u \in search.done THEN Cardinality(search.done)
                   ELSE Cardinality(search.done) + 1
        BY <4>1, FS_AddElement, Zenon
      <4>4. IsFiniteSet(next.done) /\ Cardinality(next.done) = n + 1
        BY <4>1, <4>2, <4>3
      <4> QED BY <4>4 DEF Counted
    <3>3. \A n \in Nat : Ranked(search, n) => Ranked(next, n + 1)
      BY <2>1, <3>1, SettlesKeepsRanks
    <3> QED BY <2>4, <3>1, <3>2, <3>3, <3>4, <3>5 DEF next
  <2> QED BY <2>3, <2>4
<1>4. PICK f : Iterates(f, step, first, Finish, X)
  <2>1. IsStep(step, Finish, X)
    <3>1. \A n \in 1 .. Finish : \A x \in X : step[n][x] = Settle(x, edges)
      OBVIOUS
    <3> HIDE DEF step, X
    <3> QED BY <1>3, <3>1 DEF IsStep
  <2> HIDE DEF step, X, first
  <2> QED BY <1>1, <1>2, <2>1, Iteration
<1>5. f = After(f)
  <2>1. f \in [0 .. Finish -> X] /\ f[0] = first
        /\ \A n \in 1 .. Finish : f[n] = step[n][f[n - 1]]
    BY <1>4 DEF Iterates
  <2> HIDE DEF first, X
  <2>2. ASSUME NEW n \in 0 .. Finish, n # 0
        PROVE  f[n] = Settle(f[n - 1], edges)
    <3>1. n \in 1 .. Finish /\ n - 1 \in 0 .. Finish
      BY <1>1, <2>2
    <3>2. f[n - 1] \in X
      BY <2>1, <3>1
    <3> QED BY <2>1, <3>1, <3>2
  <2> HIDE DEF step
  <2> QED BY <2>1, <2>2
<1>6. Dijkstra(edges) = (CHOOSE g : g = After(g))[Finish]
  BY DEF Dijkstra
<1> HIDE DEF first, X, step, After
<1> DEFINE g == CHOOSE h : h = After(h)
<1>7. g = After(g)
  BY <1>5
<1>8. Dijkstra(edges) = g[Finish]
  BY <1>6
<1> HIDE DEF g
<1>9. g[0] = first /\ \A n \in 1 .. Finish : g[n] = Settle(g[n - 1], edges)
  <2>1. g = [n \in 0 .. Finish |-> IF n = 0 THEN first ELSE Settle(g[n - 1], edges)]
    BY <1>7 DEF After
  <2>2. 0 \in 0 .. Finish /\ \A n \in 1 .. Finish : n \in 0 .. Finish /\ n # 0
    BY <1>1
  <2> QED BY <2>1, <2>2
<1> DEFINE bad == {n \in 0 .. Finish : ~ (g[n] \in X /\ Ranked(g[n], n) /\ Counted(g[n], n, edges))}
<1>10. CASE bad # {}
  <2>1. bad \in SUBSET Nat
    BY <1>1
  <2>2. PICK n \in bad : \A m \in bad : n <= m
    <3> HIDE DEF bad
    <3> QED BY <1>10, <2>1, LeastExists, Zenon
  <2>3. n \in 0 .. Finish /\ ~ (g[n] \in X /\ Ranked(g[n], n) /\ Counted(g[n], n, edges)) /\ n # 0
    BY <1>2, <1>9
  <2>4. /\ n - 1 \in 0 .. Finish /\ n \in 1 .. Finish /\ n - 1 \in Nat
          /\ ~ (n <= n - 1) /\ n - 1 + 1 = n
    BY <1>1, <2>3
  <2>5. g[n - 1] \in X /\ Ranked(g[n - 1], n - 1) /\ Counted(g[n - 1], n - 1, edges)
    BY <2>2, <2>4, Zenon
  <2>6. g[n] = Settle(g[n - 1], edges)
    BY <1>9, <2>4
  <2>7. Ranked(g[n], n - 1 + 1) /\ Counted(g[n], n - 1 + 1, edges) /\ g[n] \in X
    BY <1>3, <2>4, <2>5, <2>6
  <2> QED BY <2>3, <2>4, <2>7
<1>11. CASE bad = {}
  <2>1. Finish \in 0 .. Finish
    BY <1>1
  <2> DEFINE last == g[Finish]
  <2>2. last \in X /\ Ranked(last, Finish) /\ Counted(last, Finish, edges)
    BY <1>11, <2>1
  <2> HIDE DEF last
  <2>3. Searching(last) /\ Relaxed(last, edges)
    BY <2>2 DEF X
  <2>4. Settle(last, edges) = last
    <3>1. last.done \in SUBSET (1 .. Finish - 1)
      <4>1. DOMAIN last.dist \subseteq Vertex /\ last.done \subseteq DOMAIN last.dist
        BY <2>3, SearchFields
      <4>2. Finish \notin last.done
        BY <2>3 DEF Relaxed
      <4> QED BY <1>1, <4>1, <4>2 DEF Vertex
    <3>2. IsFiniteSet(1 .. Finish - 1) /\ Cardinality(1 .. Finish - 1) < Finish
      <4>1. 1 \in Int /\ Finish - 1 \in Int /\ Finish > 0
        BY <1>1 DEF Vertex
      <4>2. /\ IsFiniteSet(1 .. Finish - 1)
            /\ Cardinality(1 .. Finish - 1) = IF 1 > Finish - 1 THEN 0 ELSE (Finish - 1) - 1 + 1
        BY <4>1, FS_Interval
      <4> QED BY <1>1, <4>1, <4>2
    <3>3. Cardinality(last.done) <= Cardinality(1 .. Finish - 1)
      BY <3>1, <3>2, FS_Subset
    <3>4. IsFiniteSet(last.done) /\ Cardinality(last.done) \in Nat
          /\ Cardinality(1 .. Finish - 1) \in Nat
      BY <3>1, <3>2, FS_Subset, FS_CardinalityType
    <3>5. Cardinality(last.done) # Finish
      BY <1>1, <3>2, <3>3, <3>4
    <3> QED BY <2>2, <3>5 DEF Counted
  <2>5. Stopped(last)
    BY <1>3, <2>2, <2>4
  <2> QED BY <1>8, <2>2, <2>3, <2>5 DEF last
<1> QED BY <1>10, <1>11

(* Walking back along the predecessors comes to the start.                 *)
LEMMA WayBackEnds ==
  ASSUME NEW search, Searching(search), Ranked(search, Finish), Finish \in DOMAIN search.dist
  PROVE  LET back == WayBack(search.prev)
         IN  /\ back \in [0 .. Finish -> DOMAIN search.dist]
             /\ back[0] = Finish /\ back[Finish] = Start
             /\ \A n \in 1 .. Finish :
                  back[n] = IF back[n - 1] = Start THEN Start ELSE search.prev[back[n - 1]].from
<1> DEFINE X == DOMAIN search.dist
           prev == search.prev
           step == [n \in 1 .. Finish |-> [v \in X |-> IF v = Start THEN Start ELSE prev[v].from]]
           Back(f) == [n \in 0 .. Finish |->
                         IF n = 0 THEN Finish
                         ELSE IF f[n - 1] = Start THEN Start ELSE prev[f[n - 1]].from]
<1>1. /\ Finish \in Nat /\ Start \in X /\ DOMAIN prev = X \ {Start}
      /\ \A v \in X \ {Start} : prev[v].from \in X
  <2>1. Finish \in Nat
    BY Network
  <2>2. Start \in X /\ DOMAIN prev = X \ {Start} /\ search.done \subseteq X
        /\ \A v \in DOMAIN prev : prev[v].from \in search.done
    BY DEF Searching
  <2> QED BY <2>1, <2>2
<1>2. PICK f : Iterates(f, step, Finish, Finish, X)
  <2>1. IsStep(step, Finish, X)
    <3>1. \A n \in 1 .. Finish : \A x \in X :
            step[n][x] = IF x = Start THEN Start ELSE prev[x].from
      OBVIOUS
    <3> HIDE DEF step, X, prev
    <3> QED BY <1>1, <3>1 DEF IsStep
  <2>2. Finish \in X
    OBVIOUS
  <2> HIDE DEF step, X
  <2> QED BY <1>1, <2>1, <2>2, Iteration
<1>3. f = Back(f)
  <2>1. f \in [0 .. Finish -> X] /\ f[0] = Finish
        /\ \A n \in 1 .. Finish : f[n] = step[n][f[n - 1]]
    BY <1>2 DEF Iterates
  <2> HIDE DEF X, prev
  <2>2. ASSUME NEW n \in 0 .. Finish, n # 0
        PROVE  f[n] = IF f[n - 1] = Start THEN Start ELSE prev[f[n - 1]].from
    <3>1. n \in 1 .. Finish /\ n - 1 \in 0 .. Finish
      BY <1>1, <2>2
    <3>2. f[n - 1] \in X
      BY <2>1, <3>1
    <3> QED BY <2>1, <3>1, <3>2
  <2> HIDE DEF step
  <2> QED BY <2>1, <2>2
<1> DEFINE g == WayBack(prev)
<1>4. g = CHOOSE h : h = Back(h)
  BY DEF WayBack
<1> HIDE DEF X, step, Back, g
<1>5. g = Back(g)
  BY <1>3, <1>4
<1>6. /\ g[0] = Finish
      /\ \A n \in 1 .. Finish :
           g[n] = IF g[n - 1] = Start THEN Start ELSE prev[g[n - 1]].from
  <2>1. g = [n \in 0 .. Finish |->
               IF n = 0 THEN Finish
               ELSE IF g[n - 1] = Start THEN Start ELSE prev[g[n - 1]].from]
    BY <1>5 DEF Back
  <2>2. 0 \in 0 .. Finish /\ \A n \in 1 .. Finish : n \in 0 .. Finish /\ n # 0
    BY <1>1
  <2> HIDE DEF prev
  <2> QED BY <2>1, <2>2
<1>7. PICK r : Ranks(r, search, Finish)
  BY DEF Ranked
<1>8. /\ \A v \in X : r[v] \in Nat /\ r[v] <= Finish
      /\ r[Start] = 0 /\ \A v \in X \ {Start} : r[prev[v].from] < r[v]
  BY <1>1, <1>7 DEF Ranks, X
<1> HIDE DEF prev
<1> DEFINE Near(n) == (g[n] \in X /\ r[g[n]] + n <= Finish) \/ g[n] = Start
           bad == {n \in 0 .. Finish : ~ Near(n)}
<1>9. CASE bad # {}
  <2>1. bad \in SUBSET Nat
    BY <1>1
  <2>2. PICK n \in bad : \A m \in bad : n <= m
    <3> HIDE DEF bad
    <3> QED BY <1>9, <2>1, LeastExists, Zenon
  <2>3. n \in 0 .. Finish /\ ~ Near(n)
    BY Zenon
  <2>4. n # 0
    <3>1. Finish \in X
      BY DEF X
    <3>2. Near(0)
      BY <1>1, <1>6, <1>8, <3>1
    <3> HIDE DEF Near
    <3> QED BY <2>3, <3>2
  <2>5. n - 1 \in 0 .. Finish /\ ~ (n <= n - 1) /\ n \in 1 .. Finish
    BY <1>1, <2>3, <2>4
  <2>6. Near(n - 1)
    <3> HIDE DEF Near
    <3> QED BY <2>2, <2>5, Zenon
  <2>7. CASE g[n - 1] = Start
    BY <1>6, <2>3, <2>5, <2>7
  <2>8. CASE g[n - 1] # Start
    <3> DEFINE v == g[n - 1]
    <3>1. v \in X \ {Start} /\ r[v] + (n - 1) <= Finish /\ g[n] = prev[v].from
      BY <1>6, <2>5, <2>6, <2>8
    <3> HIDE DEF v
    <3>2. g[n] \in X /\ r[g[n]] < r[v]
      BY <1>1, <1>8, <3>1
    <3>3. r[v] \in Nat /\ r[g[n]] \in Nat
      BY <1>8, <3>1, <3>2
    <3> QED BY <1>1, <2>3, <2>5, <3>1, <3>2, <3>3
  <2> QED BY <2>7, <2>8
<1>10. CASE bad = {}
  <2>1. \A n \in 0 .. Finish : Near(n)
    BY <1>10, Zenon
  <2>2. \A n \in 0 .. Finish : g[n] \in X
    BY <1>1, <2>1
  <2>3. g \in [0 .. Finish -> X]
    <3>1. g = [n \in 0 .. Finish |->
                 IF n = 0 THEN Finish
                 ELSE IF g[n - 1] = Start THEN Start ELSE prev[g[n - 1]].from]
      BY <1>5 DEF Back
    <3>2. g = [n \in 0 .. Finish |-> g[n]]
      BY <3>1
    <3> QED BY <2>2, <3>2
  <2>4. g[Finish] = Start
    <3>1. Near(Finish) /\ Finish \in 0 .. Finish
      BY <1>1, <2>1
    <3>2. CASE g[Finish] # Start
      <4>1. g[Finish] \in X \ {Start} /\ r[g[Finish]] + Finish <= Finish
        BY <3>1, <3>2
      <4>2. r[prev[g[Finish]].from] < r[g[Finish]] /\ r[g[Finish]] \in Nat
            /\ r[prev[g[Finish]].from] \in Nat
        BY <1>1, <1>8, <4>1
      <4> QED BY <1>1, <4>1, <4>2
    <3> QED BY <3>2
  <2> QED BY <1>6, <2>3, <2>4 DEF g, X, prev
<1> QED BY <1>9, <1>10

(* A trail of visits: places of the plane, no two in a row the same.       *)
VisitType == [at : Point, via : Link]
Trail(t, at) ==
  /\ t \in Seq(VisitType) /\ t # <<>> /\ t[1].at = at
  /\ \A i \in 1 .. Len(t) - 1 : t[i].at # t[i + 1].at

(* Joining a visit keeps a trail one, and ends it at the visit.            *)
LEMMA JoinKeepsTrail ==
  ASSUME NEW t, NEW at, Trail(t, at), NEW visit \in VisitType
  PROVE  Trail(Join(t, visit), at) /\ Last(Join(t, visit)) = visit
<1> DEFINE n == Len(t)
<1>1. t \in Seq(VisitType) /\ t # <<>> /\ t[1].at = at
      /\ \A i \in 1 .. n - 1 : t[i].at # t[i + 1].at
  BY DEF Trail
<1>2. n \in Nat \ {0} /\ DOMAIN t = 1 .. n /\ t \in [1 .. n -> VisitType]
      /\ \A i \in 1 .. n : t[i] \in VisitType
  BY <1>1, LenProperties, EmptySeq, ElementOfSeq
<1>3. Last(t) = t[n]
  BY DEF Last
<1> HIDE DEF n
<1>4. CASE Last(t).at = visit.at
  <2> DEFINE s == [t EXCEPT ![n] = visit]
  <2>1. Join(t, visit) = s
    BY <1>4, Zenon DEF Join, n
  <2>2. s \in [1 .. n -> VisitType] /\ \A i \in 1 .. n : s[i] = IF i = n THEN visit ELSE t[i]
    BY <1>2
  <2> HIDE DEF s
  <2>3. s \in Seq(VisitType)
    BY <1>2, <2>2, SeqDef
  <2>4. Len(s) = n
    <3> DEFINE m == Len(s)
    <3>1. 1 .. m = 1 .. n /\ m \in Nat
      BY <2>2, <2>3, LenProperties
    <3> HIDE DEF m
    <3>2. n \in 1 .. m
      BY <1>2, <3>1
    <3>3. m \in 1 .. n
      BY <3>1, <3>2
    <3>4. m = n
      BY <1>2, <3>2, <3>3
    <3> QED BY <3>4 DEF m
  <2>5. \A i \in 1 .. n : s[i].at = t[i].at
    BY <1>2, <1>3, <1>4, <2>2
  <2>6. s # <<>> /\ s[1].at = at
    <3>1. 1 \in 1 .. n /\ Len(s) # 0
      BY <1>2, <2>4
    <3> QED BY <1>1, <2>3, <2>5, <3>1, EmptySeq
  <2>7. ASSUME NEW i \in 1 .. n - 1 PROVE s[i].at # s[i + 1].at
    <3>1. i \in 1 .. n /\ i + 1 \in 1 .. n
      BY <1>2
    <3> QED BY <1>1, <2>5, <3>1
  <2>8. Last(s) = visit
    <3>1. n \in 1 .. n
      BY <1>2
    <3> QED BY <2>2, <2>4, <3>1 DEF Last
  <2> QED BY <2>1, <2>3, <2>4, <2>6, <2>7, <2>8 DEF Trail
<1>5. CASE Last(t).at # visit.at
  <2> DEFINE s == Append(t, visit)
  <2>1. Join(t, visit) = s
    BY <1>5, Zenon DEF Join
  <2>2. /\ s \in Seq(VisitType) /\ Len(s) = n + 1 /\ s[n + 1] = visit
        /\ \A i \in 1 .. n : s[i] = t[i]
    BY <1>1, AppendProperties DEF n
  <2> HIDE DEF s
  <2>3. s # <<>> /\ s[1].at = at
    <3>1. 1 \in 1 .. n /\ Len(s) # 0
      BY <1>2, <2>2
    <3> QED BY <1>1, <2>2, <3>1, EmptySeq
  <2>4. ASSUME NEW i \in 1 .. n PROVE s[i].at # s[i + 1].at
    <3>1. CASE i = n
      BY <1>2, <1>3, <1>5, <2>2, <3>1
    <3>2. CASE i # n
      <4>1. i \in 1 .. n - 1 /\ i + 1 \in 1 .. n
        BY <1>2, <3>2
      <4> QED BY <1>1, <2>2, <4>1
    <3> QED BY <3>1, <3>2
  <2>5. Last(s) = visit
    BY <2>2 DEF Last
  <2>6. \A i \in 1 .. Len(s) - 1 : i \in 1 .. n
    BY <1>2, <2>2
  <2> QED BY <2>1, <2>2, <2>3, <2>4, <2>5, <2>6 DEF Trail
<1> QED BY <1>4, <1>5

(* What a route does for the robot at one snapped place and the waypoint   *)
(* at another.                                                             *)
Leads(route, start, finish) ==
  Drivable(route) /\ route.at[1] = start.at /\ Last(route.at) = finish.at

(* The trails from the first place of the way on, visit by visit.          *)
Joins(g, start, finish, prev) ==
  LET visit(n) == Visit(start, finish, prev, WayBack(prev)[Finish - n])
  IN  /\ g[0] = <<visit(0)>> /\ \A n \in 1 .. Finish : g[n] = Join(g[n - 1], visit(n))
      /\ \A n \in 0 .. Finish : visit(n) \in VisitType /\ Trail(g[n], start.at)
      /\ Last(g[Finish]).at = finish.at

AsRoute(trail) ==
  [ at   |-> [i \in DOMAIN trail |-> trail[i].at],
    link |-> [i \in DOMAIN trail |-> trail[IF i = Len(trail) THEN i ELSE i + 1].via] ]

(* The polyline of a finished search is its last trail. *)
LEMMA TrailsJoin ==
  ASSUME NEW start \in SnapType, NEW finish \in SnapType, NEW search, Searching(search),
         Ranked(search, Finish), Finish \in DOMAIN search.dist
  PROVE  \E g : /\ Joins(g, start, finish, search.prev)
               /\ Polyline(start, finish, search.prev) = AsRoute(g[Finish])
<1> DEFINE prev == search.prev
           back == WayBack(prev)
           visit(n) == Visit(start, finish, prev, back[Finish - n])
           X == {t \in Seq(VisitType) : Trail(t, start.at)}
           first == <<visit(0)>>
           step == [n \in 1 .. Finish |-> [t \in X |-> Join(t, visit(n))]]
           Joined(f) == [n \in 0 .. Finish |->
                           IF n = 0 THEN <<visit(0)>> ELSE Join(f[n - 1], visit(n))]
<1>1. /\ Finish \in Nat \ {0} /\ Start # Finish
      /\ back \in [0 .. Finish -> DOMAIN search.dist]
      /\ back[0] = Finish /\ back[Finish] = Start
  BY Network, WayBackEnds
<1>2. ASSUME NEW v \in DOMAIN search.dist
      PROVE  Visit(start, finish, prev, v) \in VisitType
  <2>1. v \in Vertex /\ (v # Start => prev[v] \in EdgeType)
    <3>1. DOMAIN search.dist \subseteq Vertex /\ prev \in [DOMAIN prev -> EdgeType]
      BY SearchFields
    <3>2. v # Start => v \in DOMAIN prev
      BY DEF Searching
    <3> HIDE DEF prev
    <3> QED BY <3>1, <3>2
  <2>2. start.at \in Point /\ finish.at \in Point /\ start.link \in Link
    BY DEF SnapType
  <2> DEFINE at == IF v = Start THEN start.at ELSE IF v = Finish THEN finish.at ELSE At[v]
             via == IF v = Start THEN start.link ELSE prev[v].via
  <2>3. v \in Node \/ v = Start \/ v = Finish
    BY <2>1, Network DEF Vertex
  <2>4. at \in Point
    BY <2>2, <2>3, Network
  <2>5. via \in Link
    BY <2>1, <2>2 DEF EdgeType
  <2>6. Visit(start, finish, prev, v) = [at |-> at, via |-> via]
    BY DEF Visit
  <2> HIDE DEF at, via
  <2> QED BY <2>4, <2>5, <2>6 DEF VisitType
<1>3. visit(0).at = start.at /\ visit(Finish).at = finish.at
  <2>1. Finish - 0 = Finish /\ Finish - Finish = 0
    BY <1>1
  <2>2. visit(0) = Visit(start, finish, prev, Start)
        /\ visit(Finish) = Visit(start, finish, prev, Finish)
    BY <1>1, <2>1
  <2> HIDE DEF visit
  <2> QED BY <1>1, <2>2 DEF Visit
<1>4. \A n \in 0 .. Finish : visit(n) \in VisitType
  <2> TAKE n \in 0 .. Finish
  <2>1. Finish - n \in 0 .. Finish
    BY <1>1
  <2>2. back[Finish - n] \in DOMAIN search.dist
    BY <1>1, <2>1
  <2> HIDE DEF back, prev
  <2> QED BY <1>2, <2>2
<1> HIDE DEF back, visit, prev
<1>5. first \in X
  <2> DEFINE v == visit(0)
  <2>1. v \in VisitType /\ v.at = start.at
    BY <1>1, <1>3, <1>4
  <2>2. first = <<v>>
    OBVIOUS
  <2> HIDE DEF v
  <2>3. <<v>> \in Seq(VisitType) /\ Len(<<v>>) = 1 /\ <<v>>[1] = v
    BY <2>1
  <2>4. <<v>> # <<>>
    BY <2>3, EmptySeq
  <2> QED BY <2>1, <2>2, <2>3, <2>4 DEF Trail
<1>6. \A t \in X : \A n \in 1 .. Finish :
        Join(t, visit(n)) \in X /\ Last(Join(t, visit(n))) = visit(n)
  <2> TAKE t \in X
  <2> TAKE n \in 1 .. Finish
  <2>1. visit(n) \in VisitType /\ Trail(t, start.at)
    BY <1>1, <1>4
  <2>2. Trail(Join(t, visit(n)), start.at) /\ Last(Join(t, visit(n))) = visit(n)
    BY <2>1, JoinKeepsTrail
  <2> QED BY <2>2 DEF Trail
<1>7. PICK f : Iterates(f, step, first, Finish, X)
  <2>1. IsStep(step, Finish, X)
    <3>1. \A n \in 1 .. Finish : \A x \in X : step[n][x] = Join(x, visit(n))
      OBVIOUS
    <3> HIDE DEF step, X
    <3> QED BY <1>6, <3>1 DEF IsStep
  <2> HIDE DEF step, X, first
  <2> QED BY <1>1, <1>5, <2>1, Iteration
<1>8. f = Joined(f)
  <2>1. f \in [0 .. Finish -> X] /\ f[0] = first
        /\ \A n \in 1 .. Finish : f[n] = step[n][f[n - 1]]
    BY <1>7 DEF Iterates
  <2> HIDE DEF X
  <2>2. ASSUME NEW n \in 0 .. Finish, n # 0
        PROVE  f[n] = Join(f[n - 1], visit(n))
    <3>1. n \in 1 .. Finish /\ n - 1 \in 0 .. Finish
      BY <1>1, <2>2
    <3>2. f[n - 1] \in X
      BY <2>1, <3>1
    <3> QED BY <2>1, <3>1, <3>2
  <2>3. f = [n \in 0 .. Finish |-> f[n]]
    BY <2>1
  <2> HIDE DEF step
  <2> QED BY <2>1, <2>2, <2>3
<1> DEFINE g == CHOOSE h : h = Joined(h)
           trail == g[Finish]
<1>9. Polyline(start, finish, prev) = AsRoute(trail)
  BY Zenon DEF Polyline, AsRoute, back, visit
<1> HIDE DEF Joined
<1>10. g = Joined(g)
  BY <1>8
<1> HIDE DEF g, first, X, step
<1>11. g[0] = first /\ \A n \in 1 .. Finish : g[n] = Join(g[n - 1], visit(n))
  <2>1. g = [n \in 0 .. Finish |-> IF n = 0 THEN first ELSE Join(g[n - 1], visit(n))]
    BY <1>10 DEF Joined, first
  <2>2. 0 \in 0 .. Finish /\ \A n \in 1 .. Finish : n \in 0 .. Finish /\ n # 0
    BY <1>1
  <2> QED BY <2>1, <2>2
<1> DEFINE bad == {n \in 0 .. Finish : g[n] \notin X}
<1>12. bad = {}
  <2> SUFFICES ASSUME bad # {} PROVE FALSE
    OBVIOUS
  <2>1. bad \in SUBSET Nat
    BY <1>1
  <2>2. PICK n \in bad : \A m \in bad : n <= m
    <3> HIDE DEF bad
    <3> QED BY <2>1, LeastExists, Zenon
  <2>3. n \in 0 .. Finish /\ g[n] \notin X /\ n # 0
    BY <1>5, <1>11
  <2>4. n - 1 \in 0 .. Finish /\ ~ (n <= n - 1) /\ n \in 1 .. Finish
    BY <1>1, <2>3
  <2>5. g[n - 1] \in X
    BY <2>2, <2>4, Zenon
  <2> QED BY <1>6, <1>11, <2>3, <2>4, <2>5
<1>13. Last(trail).at = finish.at
  <2>1. Finish \in 1 .. Finish /\ Finish - 1 \in 0 .. Finish
    BY <1>1
  <2>2. g[Finish - 1] \in X
    BY <1>12, <2>1
  <2>3. Last(trail) = visit(Finish)
    BY <1>6, <1>11, <2>1, <2>2
  <2> QED BY <1>3, <2>3
<1>14. \A n \in 0 .. Finish : Trail(g[n], start.at)
  BY <1>12, Zenon DEF X
<1>15. Joins(g, start, finish, prev)
  BY <1>4, <1>11, <1>13, <1>14, Zenon DEF Joins, first, visit, back
<1> QED BY <1>9, <1>15 DEF prev

(* The polyline of a finished search leads from the start to the finish.   *)
LEMMA PolylineLeads ==
  ASSUME NEW start \in SnapType, NEW finish \in SnapType, NEW search, Searching(search),
         Ranked(search, Finish), Finish \in DOMAIN search.dist
  PROVE  Leads(Polyline(start, finish, search.prev), start, finish)
<1>1. PICK g : /\ Joins(g, start, finish, search.prev)
               /\ Polyline(start, finish, search.prev) = AsRoute(g[Finish])
  BY TrailsJoin
<1> DEFINE trail == g[Finish]
<1>2. Trail(trail, start.at) /\ Last(trail).at = finish.at
  <2>1. Finish \in 0 .. Finish
    BY Network
  <2> QED BY <1>1, <2>1 DEF Joins
<1> HIDE DEF trail
<1> DEFINE n == Len(trail)
           at == [i \in DOMAIN trail |-> trail[i].at]
           link == [i \in DOMAIN trail |-> trail[IF i = Len(trail) THEN i ELSE i + 1].via]
           route == Polyline(start, finish, search.prev)
<1>14. /\ trail \in Seq(VisitType) /\ trail # <<>> /\ trail[1].at = start.at
       /\ \A i \in 1 .. n - 1 : trail[i].at # trail[i + 1].at
  BY <1>2 DEF Trail
<1>15. n \in Nat \ {0} /\ DOMAIN trail = 1 .. n /\ \A i \in 1 .. n : trail[i] \in VisitType
  BY <1>14, LenProperties, EmptySeq, ElementOfSeq
<1>16. \A i \in 1 .. n : trail[i].at \in Point /\ trail[i].via \in Link
  BY <1>15 DEF VisitType
<1>17. route.at = at /\ route.link = link
  <2>1. route = [at |-> at, link |-> link]
    BY <1>1, Zenon DEF AsRoute, trail
  <2> HIDE DEF at, link, route
  <2> QED BY <2>1
<1>18. trail[n].at = finish.at
  BY <1>2 DEF Last
<1> HIDE DEF n, route
<1>19. /\ at \in [1 .. n -> Point] /\ \A i \in 1 .. n : at[i] = trail[i].at
       /\ link \in [1 .. n -> Link]
  <2>1. \A i \in 1 .. n : (IF i = Len(trail) THEN i ELSE i + 1) \in 1 .. n
    <3> TAKE i \in 1 .. n
    <3>1. Len(trail) = n
      BY DEF n
    <3>2. i # n => i + 1 \in 1 .. n
      BY <1>15
    <3> QED BY <3>1, <3>2
  <2>2. \A i \in 1 .. n : trail[IF i = Len(trail) THEN i ELSE i + 1].via \in Link
    BY <1>16, <2>1
  <2> QED BY <1>15, <1>16, <2>2
<1> HIDE DEF at, link
<1>20. at \in Seq(Point) /\ link \in Seq(Link) /\ Len(at) = n /\ Len(link) = n
  <2>1. ASSUME NEW S, NEW s \in [1 .. n -> S] PROVE s \in Seq(S) /\ Len(s) = n
    <3>1. s \in Seq(S)
      BY <1>15, SeqDef
    <3> DEFINE m == Len(s)
    <3>2. 1 .. m = 1 .. n /\ m \in Nat
      BY <3>1, LenProperties
    <3> HIDE DEF m
    <3>3. n \in 1 .. m
      BY <1>15, <3>2
    <3>4. m \in 1 .. n
      BY <3>2, <3>3
    <3>5. m = n
      BY <1>15, <3>3, <3>4
    <3> QED BY <3>1, <3>5 DEF m
  <2> QED BY <1>19, <2>1
<1>21. at # <<>>
  BY <1>15, <1>20, EmptySeq
<1>22. \A i \in 1 .. n - 1 : at[i] # at[i + 1]
  <2> TAKE i \in 1 .. n - 1
  <2>1. i \in 1 .. n /\ i + 1 \in 1 .. n
    BY <1>15
  <2>2. trail[i].at # trail[i + 1].at
    BY <1>14 DEF n
  <2> QED BY <1>19, <2>1, <2>2
<1>23. Drivable(route)
  BY <1>17, <1>20, <1>21, <1>22 DEF Drivable
<1>24. at[1] = start.at /\ Last(at) = finish.at
  <2>1. 1 \in 1 .. n /\ n \in 1 .. n
    BY <1>15
  <2> QED BY <1>14, <1>18, <1>19, <1>20, <2>1 DEF Last
<1> QED BY <1>17, <1>23, <1>24 DEF Leads, route

(* A route leads from the place of the network nearest to the robot to the *)
(* one nearest to the waypoint, over places of which no two in a row are   *)
(* the same, whatever network, blocks and positions.                       *)
THEOREM RoutesLead ==
  ASSUME NEW from \in Point, NEW to \in Point, NEW blocks
  PROVE  LET route == Route(from, to, blocks)
         IN  route = NoRoute \/ Leads(route, Snap(from), Snap(to))
<1> DEFINE start == Snap(from)
           finish == Snap(to)
<1>1. start \in SnapType /\ finish \in SnapType
  BY SnapIsNearest
<1> HIDE DEF start, finish
<1>2. ASSUME NEW open \in SUBSET Link
      PROVE  RouteSnapped(start, finish, open) = NoRoute
             \/ Leads(RouteSnapped(start, finish, open), start, finish)
  <2> DEFINE search == Dijkstra(Edges(start, finish, open))
  <2>1. Searching(search) /\ Ranked(search, Finish)
    <3>1. Edges(start, finish, open) \in SUBSET EdgeType
      BY <1>1, EdgesAreTyped
    <3> QED BY <3>1, DijkstraSearches
  <2>2. RouteSnapped(start, finish, open)
          = IF Finish \in DOMAIN search.dist THEN Polyline(start, finish, search.prev) ELSE NoRoute
    BY DEF RouteSnapped
  <2> HIDE DEF search
  <2> QED BY <1>1, <2>1, <2>2, PolylineLeads
<1>3. {l \in Link : ~IsBlocked(blocks, l)} \in SUBSET Link /\ Link \in SUBSET Link
  OBVIOUS
<1>4. \/ Route(from, to, blocks) = RouteSnapped(start, finish, {l \in Link : ~IsBlocked(blocks, l)})
      \/ Route(from, to, blocks) = RouteSnapped(start, finish, Link)
  BY DEF Route, start, finish
<1> QED BY <1>2, <1>3, <1>4 DEF start, finish

(***************************************************************************)
(* The quickest way.                                                       *)
(***************************************************************************)

WayType == Vertex \X Nat

(* Ways and those with an edge more. *)
Longer(ways, edges) ==
  ways \cup UNION {{<<e.to, w[2] + e.cost>> : e \in {f \in edges : f.from = w[1]}} : w \in ways}

(* With at most an edge more. *)
ByOneEdge(v, t, ways, edges) ==
  \E u \in Vertex, s \in Nat, e \in edges :
    <<u, s>> \in ways /\ e.from = u /\ v = e.to /\ t = s + e.cost

OneMore(longer, ways, edges) ==
  /\ ways \subseteq longer
  /\ \A v, t : <<v, t>> \in longer => <<v, t>> \in ways \/ ByOneEdge(v, t, ways, edges)
  /\ \A u, s : \A e \in edges :
       <<u, s>> \in ways /\ e.from = u => <<e.to, s + e.cost>> \in longer

(* A longer way is a way, or one with an edge more. *)
LEMMA LongerWays ==
  ASSUME NEW edges \in SUBSET EdgeType, NEW ways \in SUBSET WayType
  PROVE  /\ Longer(ways, edges) \in SUBSET WayType
         /\ OneMore(Longer(ways, edges), ways, edges)
<1> DEFINE More(w) == {<<e.to, w[2] + e.cost>> : e \in {f \in edges : f.from = w[1]}}
<1>1. Longer(ways, edges) = ways \cup UNION {More(w) : w \in ways}
  BY DEF Longer
<1>2. \A w : \A x : x \in More(w) <=>
        \E e \in edges : e.from = w[1] /\ x = <<e.to, w[2] + e.cost>>
  BY Zenon
<1>3. ways \subseteq Longer(ways, edges)
  BY <1>1, Zenon
<1> HIDE DEF More
<1>4. ASSUME NEW x \in Longer(ways, edges)
      PROVE  \/ x \in ways
             \/ \E w \in ways, e \in edges : e.from = w[1] /\ x = <<e.to, w[2] + e.cost>>
  <2>1. x \in ways \/ \E w \in ways : x \in More(w)
    BY <1>1, Zenon
  <2>2. ASSUME NEW w \in ways, x \in More(w)
        PROVE  \E e \in edges : e.from = w[1] /\ x = <<e.to, w[2] + e.cost>>
    BY <1>2, <2>2, Zenon
  <2> QED BY <2>1, <2>2, Zenon
<1>5. ASSUME NEW w \in ways, NEW e \in edges, e.from = w[1]
      PROVE  <<e.to, w[2] + e.cost>> \in Longer(ways, edges)
  BY <1>1, <1>2, <1>5, Zenon
<1>6. ASSUME NEW w \in ways, NEW e \in edges
      PROVE  /\ w = <<w[1], w[2]>> /\ w[1] \in Vertex /\ w[2] \in Nat
             /\ <<e.to, w[2] + e.cost>> \in WayType
  <2>1. w = <<w[1], w[2]>> /\ w[1] \in Vertex /\ w[2] \in Nat
    BY DEF WayType
  <2>2. e.to \in Node \cup {Finish} /\ e.cost \in Nat
    BY DEF EdgeType
  <2>3. Node \cup {Finish} \subseteq Vertex
    BY Network DEF Vertex
  <2> QED BY <2>1, <2>2, <2>3 DEF WayType
<1>7. Longer(ways, edges) \in SUBSET WayType
  <2>1. ASSUME NEW x \in Longer(ways, edges) PROVE x \in WayType
    <3>1. CASE x \in ways
      BY <3>1
    <3>2. CASE \E w \in ways, e \in edges : e.from = w[1] /\ x = <<e.to, w[2] + e.cost>>
      BY <1>6, <3>2
    <3> QED BY <1>4, <3>1, <3>2
  <2> QED BY <2>1
<1>8. ASSUME NEW v, NEW t, <<v, t>> \in Longer(ways, edges), <<v, t>> \notin ways
      PROVE  ByOneEdge(v, t, ways, edges)
  <2>1. PICK w \in ways, e \in edges : e.from = w[1] /\ <<v, t>> = <<e.to, w[2] + e.cost>>
    BY <1>4, <1>8
  <2>2. v = e.to /\ t = w[2] + e.cost
    BY <2>1, Zenon
  <2>3. w = <<w[1], w[2]>> /\ w[1] \in Vertex /\ w[2] \in Nat
    BY <1>6
  <2> QED BY <2>1, <2>2, <2>3 DEF ByOneEdge
<1>9. ASSUME NEW u, NEW s, NEW e \in edges, <<u, s>> \in ways, e.from = u
      PROVE  <<e.to, s + e.cost>> \in Longer(ways, edges)
  <2> DEFINE w == <<u, s>>
  <2>1. w[1] = u /\ w[2] = s
    OBVIOUS
  <2>2. <<e.to, w[2] + e.cost>> \in Longer(ways, edges)
    <3> HIDE DEF w
    <3> QED BY <1>5, <1>9, <2>1 DEF w
  <2> QED BY <2>1, <2>2
<1>10. OneMore(Longer(ways, edges), ways, edges)
  <2> DEFINE longer == Longer(ways, edges)
  <2>1. \A v, t : <<v, t>> \in longer => <<v, t>> \in ways \/ ByOneEdge(v, t, ways, edges)
    BY <1>8, Zenon
  <2>2. \A u, s : \A e \in edges :
          <<u, s>> \in ways /\ e.from = u => <<e.to, s + e.cost>> \in longer
    BY <1>9, Zenon
  <2>3. ways \subseteq longer
    BY <1>3
  <2> HIDE DEF longer
  <2>4. OneMore(longer, ways, edges)
    BY <2>1, <2>2, <2>3, Zenon DEF OneMore
  <2> QED BY <2>4 DEF longer
<1> QED BY <1>7, <1>10

(* The ways by their number of edges. *)
Lengthens(ways, edges) ==
  /\ ways[0] = {<<Start, 0>>}
  /\ \A n \in 0 .. Finish : ways[n] \in SUBSET WayType
  /\ \A n \in 1 .. Finish : ways[n] = Longer(ways[n - 1], edges)
  /\ Ways(edges) = ways[Finish]

(* The ways are those after as many edges as there are vertices.           *)
LEMMA WaysLengthen ==
  ASSUME NEW edges \in SUBSET EdgeType
  PROVE  \E ways : Lengthens(ways, edges)
<1> DEFINE X == SUBSET WayType
           first == {<<Start, 0>>}
           step == [n \in 1 .. Finish |-> [w \in X |-> Longer(w, edges)]]
           Body(f) == [n \in 0 .. Finish |->
                         IF n = 0 THEN {<<Start, 0>>} ELSE Longer(f[n - 1], edges)]
<1>1. Finish \in Nat /\ Start \in Vertex
  BY Network DEF Vertex
<1>2. first \in X
  BY <1>1 DEF WayType
<1>3. \A w \in X : Longer(w, edges) \in X
  BY LongerWays
<1>4. PICK f : Iterates(f, step, first, Finish, X)
  <2>1. IsStep(step, Finish, X)
    <3>1. \A n \in 1 .. Finish : \A w \in X : step[n][w] = Longer(w, edges)
      OBVIOUS
    <3> HIDE DEF step, X
    <3> QED BY <1>3, <3>1 DEF IsStep
  <2> HIDE DEF step, X, first
  <2> QED BY <1>1, <1>2, <2>1, Iteration
<1>5. f = Body(f)
  <2>1. f \in [0 .. Finish -> X] /\ f[0] = first
        /\ \A n \in 1 .. Finish : f[n] = step[n][f[n - 1]]
    BY <1>4 DEF Iterates
  <2> HIDE DEF X
  <2>2. ASSUME NEW n \in 0 .. Finish, n # 0
        PROVE  f[n] = Longer(f[n - 1], edges)
    <3>1. n \in 1 .. Finish /\ n - 1 \in 0 .. Finish
      BY <1>1, <2>2
    <3>2. f[n - 1] \in X
      BY <2>1, <3>1
    <3> QED BY <2>1, <3>1, <3>2
  <2>3. f = [n \in 0 .. Finish |-> f[n]]
    BY <2>1
  <2> HIDE DEF step
  <2> QED BY <2>1, <2>2, <2>3
<1>6. Ways(edges) = (CHOOSE g : g = Body(g))[Finish]
  BY DEF Ways, Longer
<1> HIDE DEF X, step, Body, first
<1> DEFINE g == CHOOSE h : h = Body(h)
<1>7. g = Body(g)
  BY <1>5
<1>8. Ways(edges) = g[Finish]
  BY <1>6
<1> HIDE DEF g
<1>9. g[0] = first /\ \A n \in 1 .. Finish : g[n] = Longer(g[n - 1], edges)
  <2>1. g = [n \in 0 .. Finish |-> IF n = 0 THEN first ELSE Longer(g[n - 1], edges)]
    BY <1>7 DEF Body, first
  <2>2. 0 \in 0 .. Finish /\ \A n \in 1 .. Finish : n \in 0 .. Finish /\ n # 0
    BY <1>1
  <2> QED BY <2>1, <2>2
<1> DEFINE bad == {n \in 0 .. Finish : g[n] \notin X}
<1>10. bad = {}
  <2> SUFFICES ASSUME bad # {} PROVE FALSE
    OBVIOUS
  <2>1. bad \in SUBSET Nat
    BY <1>1
  <2>2. PICK n \in bad : \A m \in bad : n <= m
    <3> HIDE DEF bad
    <3> QED BY <2>1, LeastExists, Zenon
  <2>3. n \in 0 .. Finish /\ g[n] \notin X /\ n # 0
    BY <1>2, <1>9
  <2>4. n - 1 \in 0 .. Finish /\ ~ (n <= n - 1) /\ n \in 1 .. Finish
    BY <1>1, <2>3
  <2>5. g[n - 1] \in X
    BY <2>2, <2>4, Zenon
  <2> QED BY <1>3, <1>9, <2>3, <2>4, <2>5
<1>11. \A n \in 0 .. Finish : g[n] \in SUBSET WayType
  BY <1>10, Zenon DEF X
<1>12. Lengthens(g, edges)
  BY <1>8, <1>9, <1>11 DEF Lengthens, first
<1> QED BY <1>12

(* Any way takes as long as the search says, or longer than the finish.    *)
LEMMA NoWayIsQuicker ==
  ASSUME NEW edges \in SUBSET EdgeType, NEW search, Searching(search), Relaxed(search, edges),
         Stopped(search), NEW t \in Nat, <<Finish, t>> \in Ways(edges)
  PROVE  Finish \in DOMAIN search.dist /\ search.dist[Finish] <= t
<1> DEFINE dist == search.dist
           D == DOMAIN search.dist
           Known(v, s) == v \in D /\ dist[v] <= s
           Slow(v, s) == Known(v, s) \/ Known(Finish, s)
<1>1. PICK ways : Lengthens(ways, edges)
  BY WaysLengthen
<1>2. /\ ways[0] = {<<Start, 0>>} /\ \A n \in 0 .. Finish : ways[n] \in SUBSET WayType
      /\ \A n \in 1 .. Finish : ways[n] = Longer(ways[n - 1], edges)
      /\ Ways(edges) = ways[Finish]
  BY <1>1 DEF Lengthens
<1>3. /\ Start \in D /\ dist[Start] = 0 /\ \A v \in D : dist[v] \in Nat
      /\ \A e \in edges : e.from \in search.done =>
           e.to \in D /\ dist[e.to] <= dist[e.from] + e.cost
      /\ \A e \in edges : e.cost \in Nat
      /\ search.done \subseteq D
  <2>1. Start \in D /\ search.done \subseteq D
    BY DEF Searching
  <2>2. \A v \in D : dist[v] \in Nat
    BY SearchFields
  <2>3. \A e \in edges : e.cost \in Nat
    BY DEF EdgeType
  <2>4. dist[Start] = 0 /\ \A e \in edges : e.from \in search.done =>
           e.to \in D /\ dist[e.to] <= dist[e.from] + e.cost
    BY DEF Relaxed
  <2> QED BY <2>1, <2>2, <2>3, <2>4
<1>4. \A u \in D \ search.done : Finish \in D /\ dist[Finish] <= dist[u]
  BY Zenon DEF Stopped
<1>5. Finish \in Nat
  BY Network
<1> HIDE DEF dist, D
<1>6. ASSUME NEW u, NEW s \in Nat, NEW e \in edges, e.from = u, Slow(u, s)
      PROVE  Slow(e.to, s + e.cost)
  <2>1. CASE Known(Finish, s)
    BY <1>3, <2>1
  <2>2. CASE u \in search.done /\ Known(u, s)
    <3>1. e.to \in D /\ dist[e.to] <= dist[u] + e.cost /\ dist[u] <= s
      BY <1>3, <1>6, <2>2
    <3> QED BY <1>3, <2>2, <3>1
  <2>3. CASE u \notin search.done /\ Known(u, s)
    <3>1. Finish \in D /\ dist[Finish] <= dist[u] /\ dist[u] <= s
      BY <1>4, <2>3
    <3> QED BY <1>3, <2>3, <3>1
  <2> QED BY <1>6, <2>1, <2>2, <2>3
<1> DEFINE AllSlow(n) == \A v, s : <<v, s>> \in ways[n] => s \in Nat /\ Slow(v, s)
           bad == {n \in 0 .. Finish : ~ AllSlow(n)}
<1>7. AllSlow(0)
  <2>1. ASSUME NEW v, NEW s, <<v, s>> \in ways[0] PROVE s \in Nat /\ Slow(v, s)
    <3>1. <<v, s>> = <<Start, 0>>
      BY <1>2, <2>1, Zenon
    <3>2. v = Start /\ s = 0
      BY <3>1, Zenon
    <3> QED BY <1>3, <3>2
  <2> QED BY <2>1, Zenon
<1>8. ASSUME NEW n \in 1 .. Finish, AllSlow(n - 1) PROVE AllSlow(n)
  <2>1. n - 1 \in 0 .. Finish /\ ways[n] = Longer(ways[n - 1], edges)
        /\ ways[n - 1] \in SUBSET WayType
    BY <1>2, <1>5
  <2>3. OneMore(ways[n], ways[n - 1], edges)
    BY <2>1, LongerWays
  <2>2. ASSUME NEW v, NEW s, <<v, s>> \in ways[n] PROVE s \in Nat /\ Slow(v, s)
    <3> HIDE DEF Slow
    <3>1. CASE <<v, s>> \in ways[n - 1]
      BY <1>8, <3>1, Zenon
    <3>2. CASE <<v, s>> \notin ways[n - 1]
      <4>1. PICK u \in Vertex, r \in Nat, e \in edges :
              <<u, r>> \in ways[n - 1] /\ e.from = u /\ v = e.to /\ s = r + e.cost
        BY <2>2, <2>3, <3>2 DEF OneMore, ByOneEdge
      <4>2. Slow(u, r)
        BY <1>8, <4>1, Zenon
      <4>3. Slow(e.to, r + e.cost) /\ r + e.cost \in Nat
        BY <1>3, <1>6, <4>1, <4>2
      <4> QED BY <4>1, <4>3
    <3> QED BY <3>1, <3>2
  <2> QED BY <2>2, Zenon
<1> HIDE DEF AllSlow
<1>9. bad = {}
  <2> SUFFICES ASSUME bad # {} PROVE FALSE
    OBVIOUS
  <2>1. bad \in SUBSET Nat
    BY <1>5
  <2>2. PICK n \in bad : \A m \in bad : n <= m
    <3> HIDE DEF bad
    <3> QED BY <2>1, LeastExists, Zenon
  <2>3. n \in 0 .. Finish /\ ~ AllSlow(n) /\ n # 0
    BY <1>7
  <2>4. n - 1 \in 0 .. Finish /\ ~ (n <= n - 1) /\ n \in 1 .. Finish
    BY <1>5, <2>3
  <2>5. AllSlow(n - 1)
    BY <2>2, <2>4, Zenon
  <2> QED BY <1>8, <2>3, <2>4, <2>5
<1>10. AllSlow(Finish)
  <2>1. Finish \in 0 .. Finish
    BY <1>5
  <2> QED BY <1>9, <2>1
<1>11. Slow(Finish, t)
  BY <1>2, <1>10, Zenon DEF AllSlow
<1> QED BY <1>11 DEF dist, D

(* What the search found is a way. *)
LEMMA FoundIsAWay ==
  ASSUME NEW edges \in SUBSET EdgeType, NEW search, Searching(search), Relaxed(search, edges),
         Ranked(search, Finish), Finish \in DOMAIN search.dist
  PROVE  <<Finish, search.dist[Finish]>> \in Ways(edges)
<1> DEFINE dist == search.dist
           D == DOMAIN search.dist
           prev == search.prev
<1>1. PICK ways : Lengthens(ways, edges)
  BY WaysLengthen
<1>2. /\ ways[0] = {<<Start, 0>>} /\ \A n \in 0 .. Finish : ways[n] \in SUBSET WayType
      /\ \A n \in 1 .. Finish : ways[n] = Longer(ways[n - 1], edges)
      /\ Ways(edges) = ways[Finish]
  BY <1>1 DEF Lengthens
<1>3. PICK r : Ranks(r, search, Finish)
  BY DEF Ranked
<1>4. /\ Start \in D /\ dist[Start] = 0 /\ DOMAIN prev = D \ {Start}
      /\ \A v \in D \ {Start} : /\ prev[v] \in edges /\ prev[v].to = v /\ prev[v].from \in D
                                /\ dist[v] = dist[prev[v].from] + prev[v].cost
      /\ \A v \in D : r[v] \in 0 .. Finish
      /\ r[Start] = 0 /\ \A v \in D \ {Start} : r[prev[v].from] < r[v]
  <2>1. Start \in D /\ DOMAIN prev = D \ {Start} /\ search.done \subseteq D
        /\ \A v \in DOMAIN prev : prev[v].from \in search.done
    BY DEF Searching
  <2>2. dist[Start] = 0 /\ \A v \in DOMAIN prev :
           /\ prev[v] \in edges /\ prev[v].to = v
           /\ dist[v] = dist[prev[v].from] + prev[v].cost
    BY DEF Relaxed
  <2>3. (\A v \in D : r[v] \in 0 .. Finish) /\ r[Start] = 0
        /\ \A v \in DOMAIN prev : r[prev[v].from] < r[v]
    BY <1>3 DEF Ranks
  <2> QED BY <2>1, <2>2, <2>3
<1>5. Finish \in Nat /\ Finish \in D
  BY Network
<1> HIDE DEF dist, D, prev
<1> DEFINE Near(n) == \A v \in D : r[v] <= n => <<v, dist[v]>> \in ways[n]
           bad == {n \in 0 .. Finish : ~ Near(n)}
<1>6. Near(0)
  <2>1. ASSUME NEW v \in D, r[v] <= 0 PROVE v = Start
    <3>1. CASE v # Start
      <4>1. v \in D \ {Start}
        BY <3>1
      <4>2. r[prev[v].from] < r[v] /\ r[prev[v].from] \in Nat /\ r[v] \in Nat
        BY <1>4, <1>5, <4>1
      <4> QED BY <2>1, <4>2
    <3> QED BY <3>1
  <2> QED BY <1>2, <1>4, <2>1
<1>7. ASSUME NEW n \in 1 .. Finish, Near(n - 1) PROVE Near(n)
  <2>1. n - 1 \in 0 .. Finish /\ ways[n] = Longer(ways[n - 1], edges)
        /\ ways[n - 1] \in SUBSET WayType
    BY <1>2, <1>5
  <2>2. /\ ways[n - 1] \subseteq ways[n]
        /\ \A u, s : \A e \in edges :
              <<u, s>> \in ways[n - 1] /\ e.from = u => <<e.to, s + e.cost>> \in ways[n]
    <3>1. OneMore(ways[n], ways[n - 1], edges)
      BY <2>1, LongerWays
    <3> QED BY <3>1, Zenon DEF OneMore
  <2>3. ASSUME NEW v \in D, r[v] <= n PROVE <<v, dist[v]>> \in ways[n]
    <3>1. CASE r[v] <= n - 1
      BY <1>7, <2>2, <3>1, Zenon
    <3>2. CASE ~ (r[v] <= n - 1)
      <4>1. r[v] \in 0 .. Finish
        BY <1>4
      <4>2. r[v] = n
        BY <1>5, <2>3, <3>2, <4>1
      <4>3. v \in D \ {Start}
        BY <1>4, <4>2
      <4> DEFINE e == prev[v]
      <4>4. e \in edges /\ e.to = v /\ e.from \in D /\ dist[v] = dist[e.from] + e.cost
            /\ r[e.from] < r[v]
        BY <1>4, <4>3
      <4> HIDE DEF e
      <4>5. r[e.from] <= n - 1
        <5>1. r[e.from] \in 0 .. Finish
          BY <1>4, <4>4
        <5> QED BY <1>5, <4>2, <4>4, <5>1
      <4>6. <<e.from, dist[e.from]>> \in ways[n - 1]
        BY <1>7, <4>4, <4>5, Zenon
      <4>7. <<e.to, dist[e.from] + e.cost>> \in ways[n]
        BY <2>2, <4>4, <4>6, Zenon
      <4> QED BY <4>4, <4>7
    <3> QED BY <3>1, <3>2
  <2> QED BY <2>3
<1> HIDE DEF Near
<1>8. bad = {}
  <2> SUFFICES ASSUME bad # {} PROVE FALSE
    OBVIOUS
  <2>1. bad \in SUBSET Nat
    BY <1>5
  <2>2. PICK n \in bad : \A m \in bad : n <= m
    <3> HIDE DEF bad
    <3> QED BY <2>1, LeastExists, Zenon
  <2>3. n \in 0 .. Finish /\ ~ Near(n) /\ n # 0
    BY <1>6
  <2>4. n - 1 \in 0 .. Finish /\ ~ (n <= n - 1) /\ n \in 1 .. Finish
    BY <1>5, <2>3
  <2>5. Near(n - 1)
    BY <2>2, <2>4, Zenon
  <2> QED BY <1>7, <2>3, <2>4, <2>5
<1>9. Near(Finish)
  <2>1. Finish \in 0 .. Finish
    BY <1>5
  <2> QED BY <1>8, <2>1
<1>10. r[Finish] <= Finish
  BY <1>4, <1>5
<1> QED BY <1>2, <1>5, <1>9, <1>10 DEF Near, dist, D

(* Dijkstra's search with its virtual ends, its ties and its early stop    *)
(* comes to the least time of all ways over the edges it is given, and     *)
(* misses the finish only if no way leads there.                           *)
THEOREM SearchFindsTheQuickest ==
  ASSUME NEW edges \in SUBSET EdgeType
  PROVE  LET dist == Dijkstra(edges).dist
         IN  LeastTime(edges) = IF Finish \in DOMAIN dist THEN dist[Finish] ELSE Never
<1> DEFINE search == Dijkstra(edges)
           times == {w[2] : w \in {v \in Ways(edges) : v[1] = Finish}}
<1>1. /\ Searching(search) /\ Ranked(search, Finish)
      /\ Relaxed(search, edges) /\ Stopped(search)
  BY DijkstraSearches
<1> HIDE DEF search
<1>2. \A w \in Ways(edges) : w = <<w[1], w[2]>> /\ w[2] \in Nat
  <2>1. PICK ways : Lengthens(ways, edges)
    BY WaysLengthen
  <2>2. Finish \in 0 .. Finish
    BY Network
  <2>3. Ways(edges) \subseteq WayType
    BY <2>1, <2>2 DEF Lengthens
  <2> QED BY <2>3 DEF WayType
<1>3. ASSUME NEW t \in times
      PROVE  t \in Nat /\ <<Finish, t>> \in Ways(edges)
  BY <1>2
<1>4. ASSUME NEW t, <<Finish, t>> \in Ways(edges) PROVE t \in times
  <2> DEFINE w == <<Finish, t>>
  <2>1. w[1] = Finish /\ w[2] = t
    OBVIOUS
  <2> QED BY <1>4, <2>1, Zenon
<1>5. LeastTime(edges) = IF times = {} THEN Never ELSE Min(times)
  BY DEF LeastTime
<1> HIDE DEF times
<1>6. CASE Finish \in DOMAIN search.dist
  <2> DEFINE d == search.dist[Finish]
  <2>1. d \in times
    BY <1>1, <1>4, <1>6, FoundIsAWay
  <2>2. \A t \in times : d <= t
    BY <1>1, <1>3, NoWayIsQuicker
  <2> HIDE DEF d
  <2>3. Min(times) = d
    <3>1. \A t \in times : t \in Nat
      BY <1>3
    <3>2. \A m \in times : (\A t \in times : m <= t) => m = d
      BY <2>1, <2>2, <3>1
    <3>3. Min(times) = CHOOSE m \in times : \A t \in times : m <= t
      BY DEF Min
    <3> QED BY <2>1, <2>2, <3>2, <3>3, Zenon
  <2>4. LeastTime(edges) = d
    BY <1>5, <2>1, <2>3
  <2> QED BY <1>6, <2>4 DEF d, search
<1>7. CASE Finish \notin DOMAIN search.dist
  <2>1. times = {}
    BY <1>1, <1>3, <1>7, NoWayIsQuicker
  <2> QED BY <1>5, <1>7, <2>1 DEF search
<1> QED BY <1>6, <1>7

(* A nearest point is its own. *)
LEMMA NearestIsOnLink ==
  ASSUME NEW p \in Point, NEW a \in Point, NEW b \in Point
  PROVE  /\ Nearest(Nearest(p, a, b), a, b) = Nearest(p, a, b)
         /\ Nearest(a, a, b) = a /\ Nearest(b, a, b) = b
<1>1. /\ p.x \in Int /\ p.y \in Int /\ a.x \in Int /\ a.y \in Int /\ b.x \in Int /\ b.y \in Int
      /\ a = [x |-> a.x, y |-> a.y] /\ b = [x |-> b.x, y |-> b.y]
  BY DEF Point
<1>2. \A u, v, w \in Int : /\ Clamp(Clamp(u, v, w), v, w) = Clamp(u, v, w)
                           /\ Clamp(v, v, w) = v /\ Clamp(w, v, w) = w
  BY DEF Clamp
<1>3. /\ Clamp(Clamp(p.x, a.x, b.x), a.x, b.x) = Clamp(p.x, a.x, b.x)
      /\ Clamp(Clamp(p.y, a.y, b.y), a.y, b.y) = Clamp(p.y, a.y, b.y)
      /\ Clamp(a.x, a.x, b.x) = a.x /\ Clamp(a.y, a.y, b.y) = a.y
      /\ Clamp(b.x, a.x, b.x) = b.x /\ Clamp(b.y, a.y, b.y) = b.y
  BY <1>1, <1>2
<1> DEFINE x == Clamp(p.x, a.x, b.x)
           y == Clamp(p.y, a.y, b.y)
<1>4. Nearest(p, a, b) = [x |-> x, y |-> y]
  BY DEF Nearest
<1>5. Nearest([x |-> x, y |-> y], a, b) = [x |-> Clamp(x, a.x, b.x), y |-> Clamp(y, a.y, b.y)]
  BY DEF Nearest
<1> HIDE DEF x, y
<1>6. Clamp(x, a.x, b.x) = x /\ Clamp(y, a.y, b.y) = y
  BY <1>3 DEF x, y
<1>7. Nearest(a, a, b) = a /\ Nearest(b, a, b) = b
  BY <1>1, <1>3, Zenon DEF Nearest
<1> QED BY <1>4, <1>5, <1>6, <1>7

(* The place of a vertex, and the snapped places, which are on their link. *)
PlaceOf(start, finish, v) ==
  IF v = Start THEN start.at ELSE IF v = Finish THEN finish.at ELSE At[v]

Snapped == {s \in SnapType : OnLink(s.at, s.link)}

(* Snapping puts a place on the link it names.                             *)
LEMMA SnapIsOnLink ==
  ASSUME NEW p \in Point
  PROVE  Snap(p) \in Snapped
<1> DEFINE foot == [l \in Link |-> Nearest(p, At[Links[l].a], At[Links[l].b])]
           l == FirstLeast([k \in Link |-> Squared(p, foot[k])])
<1>1. Snap(p) = [link |-> l, at |-> foot[l]]
  BY DEF Snap
<1>2. Snap(p) \in SnapType
  BY SnapIsNearest
<1> HIDE DEF l
<1>3. l \in Link /\ Snap(p).link = l /\ Snap(p).at = Nearest(p, At[Links[l].a], At[Links[l].b])
  <2>1. l \in Link
    BY <1>1, <1>2 DEF SnapType
  <2> QED BY <1>1, <2>1
<1>4. At[Links[l].a] \in Point /\ At[Links[l].b] \in Point
  BY <1>3, Network
<1>5. OnLink(Snap(p).at, Snap(p).link)
  BY <1>3, <1>4, NearestIsOnLink DEF OnLink
<1> QED BY <1>2, <1>5 DEF Snapped

(* An edge runs along its link: its ends lie on it, its cost is the time   *)
(* between them, and only the partial links at the ends may be blocked.    *)
RunsAlong(e, start, finish, open) ==
  LET p == PlaceOf(start, finish, e.from)
      q == PlaceOf(start, finish, e.to)
  IN  /\ OnLink(p, e.via) /\ OnLink(q, e.via)
      /\ e.cost = Span(p, q) * Links[e.via].slowness
      /\ e.from = Start \/ e.to = Finish \/ e.via \in open

(* Every edge Dijkstra's search is given runs along its link.              *)
LEMMA EdgesRunAlong ==
  ASSUME NEW start \in Snapped, NEW finish \in Snapped, NEW open \in SUBSET Link,
         NEW e \in Edges(start, finish, open)
  PROVE  RunsAlong(e, start, finish, open)
<1> DEFINE Edge(u, v, length, k) ==
             [from |-> u, to |-> v, cost |-> length * Links[k].slowness, via |-> k]
           ls == Links[start.link]
           lf == Links[finish.link]
           A == {Edge(Links[k].a, Links[k].b, Span(At[Links[k].a], At[Links[k].b]), k) : k \in open}
           B == {Edge(Links[k].b, Links[k].a, Span(At[Links[k].a], At[Links[k].b]), k) :
                   k \in {m \in open : ~Links[m].oneway}}
           nodes == {ls.b} \cup (IF ~ls.oneway THEN {ls.a} ELSE {})
           ends == {lf.a} \cup (IF ~lf.oneway THEN {lf.b} ELSE {})
           C == {Edge(Start, n, Span(start.at, At[n]), start.link) : n \in nodes}
           D == {Edge(n, Finish, Span(finish.at, At[n]), finish.link) : n \in ends}
           E == {Edge(Start, Finish, Span(start.at, finish.at), start.link)}
           Place(v) == PlaceOf(start, finish, v)
<1>1. e \in A \cup B \cup C \cup D
      \/ (start.link = finish.link /\ e \in E)
  BY Zenon DEF Edges
<1>2. /\ start.link \in Link /\ start.at \in Point /\ OnLink(start.at, start.link)
      /\ finish.link \in Link /\ finish.at \in Point /\ OnLink(finish.at, finish.link)
  BY DEF Snapped, SnapType
<1>3. \A k \in Link : /\ Links[k].a \in Node /\ Links[k].b \in Node
                      /\ At[Links[k].a] \in Point /\ At[Links[k].b] \in Point
  BY Network
<1>4. ASSUME NEW k \in Link PROVE OnLink(At[Links[k].a], k) /\ OnLink(At[Links[k].b], k)
  BY <1>3, NearestIsOnLink DEF OnLink
<1>5. Place(Start) = start.at /\ Place(Finish) = finish.at /\ \A n \in Node : Place(n) = At[n]
  <2>1. Start # Finish /\ Start \notin Node /\ Finish \notin Node
    BY Network
  <2> QED BY <2>1 DEF PlaceOf
<1>6. \A p, q \in Point : Span(p, q) = Span(q, p)
  BY DEF Span, Gap, Point
<1>7. ASSUME NEW u, NEW v, NEW k \in Link, NEW length,
             OnLink(Place(u), k), OnLink(Place(v), k), length = Span(Place(u), Place(v)),
             u = Start \/ v = Finish \/ k \in open,
             e = Edge(u, v, length, k)
      PROVE  RunsAlong(e, start, finish, open)
  <2>1. e.from = u /\ e.to = v /\ e.via = k /\ e.cost = length * Links[k].slowness
    BY <1>7
  <2> QED BY <1>7, <2>1, Zenon DEF RunsAlong
<1> HIDE DEF Place, Edge
<1>8. CASE e \in A
  <2>1. PICK k \in open : e = Edge(Links[k].a, Links[k].b, Span(At[Links[k].a], At[Links[k].b]), k)
    BY <1>8
  <2>2. Place(Links[k].a) = At[Links[k].a] /\ Place(Links[k].b) = At[Links[k].b]
    BY <1>3, <1>5
  <2> QED BY <1>4, <1>7, <2>1, <2>2
<1>9. CASE e \in B
  <2>1. PICK k \in open : e = Edge(Links[k].b, Links[k].a, Span(At[Links[k].a], At[Links[k].b]), k)
    BY <1>9
  <2>2. Place(Links[k].a) = At[Links[k].a] /\ Place(Links[k].b) = At[Links[k].b]
    BY <1>3, <1>5
  <2>3. Span(At[Links[k].a], At[Links[k].b]) = Span(At[Links[k].b], At[Links[k].a])
    BY <1>3, <1>6
  <2> QED BY <1>4, <1>7, <2>1, <2>2, <2>3
<1>10. CASE e \in C
  <2>1. PICK n \in nodes : e = Edge(Start, n, Span(start.at, At[n]), start.link)
    BY <1>10
  <2>2. n \in Node /\ OnLink(At[n], start.link)
    <3>1. n = ls.a \/ n = ls.b
      BY <2>1
    <3> QED BY <1>2, <1>3, <1>4, <3>1
  <2>3. Place(n) = At[n]
    BY <1>5, <2>2
  <2> QED BY <1>2, <1>5, <1>7, <2>1, <2>2, <2>3
<1>11. CASE e \in D
  <2>1. PICK n \in ends : e = Edge(n, Finish, Span(finish.at, At[n]), finish.link)
    BY <1>11
  <2>2. n \in Node /\ OnLink(At[n], finish.link)
    <3>1. n = lf.a \/ n = lf.b
      BY <2>1
    <3> QED BY <1>2, <1>3, <1>4, <3>1
  <2>3. Place(n) = At[n] /\ At[n] \in Point
    BY <1>5, <2>2, Network
  <2>4. Span(finish.at, At[n]) = Span(At[n], finish.at)
    BY <1>2, <1>6, <2>3
  <2> QED BY <1>2, <1>5, <1>7, <2>1, <2>2, <2>3, <2>4
<1>12. CASE start.link = finish.link /\ e \in E
  <2>1. e = Edge(Start, Finish, Span(start.at, finish.at), start.link)
    BY <1>12
  <2> QED BY <1>2, <1>5, <1>7, <1>12, <2>1
<1> QED BY <1>1, <1>8, <1>9, <1>10, <1>11, <1>12

(* Two places lie on one link at most: links meet at their ends or cross,  *)
(* and none runs along another.                                            *)
LinksApart ==
  \A k, l \in Link : \A p, q \in Point :
    p # q /\ OnLink(p, k) /\ OnLink(q, k) /\ OnLink(p, l) /\ OnLink(q, l) => k = l

(* So the link under two places is the one they were found on.            *)
LEMMA UnderIsUnique ==
  ASSUME LinksApart, NEW p \in Point, NEW q \in Point, p # q, NEW l \in Link,
         OnLink(p, l), OnLink(q, l)
  PROVE  LinkUnder(p, q) = l
<1>1. \A k \in Link : OnLink(p, k) /\ OnLink(q, k) => k = l
  BY DEF LinksApart
<1>2. LinkUnder(p, q) = CHOOSE k \in Link : OnLink(p, k) /\ OnLink(q, k)
  BY DEF LinkUnder
<1> QED BY <1>1, <1>2, Zenon

(* The time between two places, and along a trail.                         *)
LegTime(p, q) == Span(p, q) * Links[LinkUnder(p, q)].slowness

Timed(f, t) ==
  /\ f \in [1 .. Len(t) -> Nat] /\ f[1] = 0
  /\ \A i \in 1 .. Len(t) - 1 : f[i + 1] = f[i] + LegTime(t[i].at, t[i + 1].at)

(* What joining a visit does to the places of a trail. *)
LEMMA JoinPlaces ==
  ASSUME NEW t, NEW at, Trail(t, at), NEW visit \in VisitType
  PROVE  LET s == Join(t, visit)
             n == Len(t)
         IN  IF Last(t).at = visit.at
             THEN /\ Len(s) = n /\ \A i \in 1 .. n : s[i].at = t[i].at
                  /\ s[n] = visit /\ \A i \in 1 .. n - 1 : s[i] = t[i]
             ELSE Len(s) = n + 1 /\ s[n + 1] = visit /\ \A i \in 1 .. n : s[i] = t[i]
<1> DEFINE n == Len(t)
<1>1. t \in Seq(VisitType) /\ t # <<>>
  BY DEF Trail
<1>2. n \in Nat \ {0} /\ DOMAIN t = 1 .. n /\ t \in [1 .. n -> VisitType]
  BY <1>1, LenProperties, EmptySeq
<1>3. Last(t) = t[n]
  BY DEF Last
<1> HIDE DEF n
<1>4. CASE Last(t).at = visit.at
  <2> DEFINE s == [t EXCEPT ![n] = visit]
  <2>1. Join(t, visit) = s
    BY <1>4, Zenon DEF Join, n
  <2>2. s \in [1 .. n -> VisitType] /\ \A i \in 1 .. n : s[i] = IF i = n THEN visit ELSE t[i]
    BY <1>2
  <2> HIDE DEF s
  <2>3. s \in Seq(VisitType)
    BY <1>2, <2>2, SeqDef
  <2>4. Len(s) = n
    <3> DEFINE m == Len(s)
    <3>1. 1 .. m = 1 .. n /\ m \in Nat
      BY <2>2, <2>3, LenProperties
    <3> HIDE DEF m
    <3>2. n \in 1 .. m
      BY <1>2, <3>1
    <3>3. m \in 1 .. n
      BY <3>1, <3>2
    <3>4. m = n
      BY <1>2, <3>2, <3>3
    <3> QED BY <3>4 DEF m
  <2>5. \A i \in 1 .. n : s[i].at = t[i].at
    BY <1>2, <1>3, <1>4, <2>2
  <2>6. s[n] = visit /\ \A i \in 1 .. n - 1 : s[i] = t[i]
    BY <1>2, <2>2
  <2> QED BY <1>4, <2>1, <2>4, <2>5, <2>6 DEF n
<1>5. CASE Last(t).at # visit.at
  <2> DEFINE s == Append(t, visit)
  <2>1. Join(t, visit) = s
    BY <1>5, Zenon DEF Join
  <2>2. Len(s) = n + 1 /\ s[n + 1] = visit /\ \A i \in 1 .. n : s[i] = t[i]
    BY <1>1, AppendProperties DEF n
  <2> HIDE DEF s
  <2> QED BY <1>5, <2>1, <2>2 DEF n
<1> QED BY <1>4, <1>5

(* A trail has come to vertex v, `time` after the start: it keeps to open  *)
(* links but for the first leg, and the last one when it is the finish.    *)
Reached(t, v, time, start, finish, open) ==
  /\ Last(t).at = PlaceOf(start, finish, v)
  /\ (v = Start => Len(t) = 1)
  /\ \E f : Timed(f, t) /\ f[Len(t)] = time
  /\ \A i \in 2 .. Len(t) - 1 :
       LinkUnder(t[i].at, t[i + 1].at) \in open \/ (v = Finish /\ i = Len(t) - 1)

(* Joining the visit at the end of an edge takes the edge's time, whether  *)
(* it adds a leg or is at the same place.                                  *)
LEMMA JoinReaches ==
  ASSUME LinksApart, NEW start \in Snapped, NEW finish \in Snapped, NEW open \in SUBSET Link,
         NEW e \in Edges(start, finish, open), NEW t, Trail(t, start.at), NEW time \in Nat,
         Reached(t, e.from, time, start, finish, open),
         NEW visit \in VisitType, visit.at = PlaceOf(start, finish, e.to)
  PROVE  Reached(Join(t, visit), e.to, time + e.cost, start, finish, open)
<1> DEFINE s == Join(t, visit)
           n == Len(t)
           p == Last(t).at
           q == visit.at
<1>1. start \in SnapType /\ finish \in SnapType
  BY DEF Snapped
<1>2. /\ e.from \in Node \cup {Start} /\ e.to \in Node \cup {Finish}
      /\ e.cost \in Nat /\ e.via \in Link
  <2>1. e \in EdgeType
    BY <1>1, EdgesAreTyped
  <2> QED BY <2>1 DEF EdgeType
<1>3. e.from # Finish /\ e.to # Start
  BY <1>2, Network
<1>4. RunsAlong(e, start, finish, open)
  BY EdgesRunAlong
<1>5. /\ t \in Seq(VisitType) /\ n \in Nat \ {0} /\ \A i \in 1 .. n : t[i] \in VisitType
      /\ p = t[n].at /\ \A i \in 1 .. n : t[i].at \in Point
  <2>1. t \in Seq(VisitType) /\ t # <<>>
    BY DEF Trail
  <2>2. n \in Nat \ {0} /\ \A i \in 1 .. n : t[i] \in VisitType
    BY <2>1, LenProperties, EmptySeq, ElementOfSeq
  <2> QED BY <2>1, <2>2 DEF VisitType, Last
<1>6. /\ p = PlaceOf(start, finish, e.from)
      /\ (e.from = Start => n = 1)
      /\ \A i \in 2 .. n - 1 : LinkUnder(t[i].at, t[i + 1].at) \in open
  BY <1>3, Zenon DEF Reached
<1>7. PICK f : Timed(f, t) /\ f[n] = time
  BY Zenon DEF Reached
<1>8. f \in [1 .. n -> Nat] /\ f[1] = 0
      /\ \A i \in 1 .. n - 1 : f[i + 1] = f[i] + LegTime(t[i].at, t[i + 1].at)
  BY <1>7 DEF Timed
<1>9. /\ OnLink(p, e.via) /\ OnLink(q, e.via) /\ e.cost = Span(p, q) * Links[e.via].slowness
      /\ (e.from = Start \/ e.to = Finish \/ e.via \in open)
  <2> DEFINE a == PlaceOf(start, finish, e.from)
             b == PlaceOf(start, finish, e.to)
  <2>1. p = a /\ q = b
    BY <1>6
  <2>2. /\ OnLink(a, e.via) /\ OnLink(b, e.via) /\ e.cost = Span(a, b) * Links[e.via].slowness
        /\ (e.from = Start \/ e.to = Finish \/ e.via \in open)
    BY <1>4, Zenon DEF RunsAlong
  <2> HIDE DEF a, b, p, q
  <2> QED BY <2>1, <2>2, Zenon
<1>10. p \in Point /\ q \in Point
  BY <1>5 DEF VisitType
<1>11. IF p = q
       THEN Len(s) = n /\ \A i \in 1 .. n : s[i].at = t[i].at
       ELSE Len(s) = n + 1 /\ s[n + 1] = visit /\ \A i \in 1 .. n : s[i] = t[i]
  BY JoinPlaces
<1> HIDE DEF n, p, q, s
<1>12. CASE p = q
  <2>1. Len(s) = n /\ \A i \in 1 .. n : s[i].at = t[i].at
    BY <1>11, <1>12
  <2>2. e.cost = 0
    <3>1. Span(p, q) = 0 /\ Links[e.via].slowness \in Nat
      BY <1>2, <1>10, <1>12, SpanIsNatural, Network
    <3> QED BY <1>9, <3>1
  <2>3. Last(s).at = q
    <3>1. n \in 1 .. n
      BY <1>5
    <3> QED BY <1>5, <1>12, <2>1, <3>1 DEF Last
  <2>4. \A i \in 1 .. n - 1 : s[i].at = t[i].at /\ s[i + 1].at = t[i + 1].at
    <3>1. \A i \in 1 .. n - 1 : i \in 1 .. n /\ i + 1 \in 1 .. n
      BY <1>5
    <3> QED BY <2>1, <3>1
  <2>5. Timed(f, s)
    BY <1>8, <2>1, <2>4 DEF Timed
  <2>6. \A i \in 2 .. n - 1 : LinkUnder(s[i].at, s[i + 1].at) \in open
    <3>1. \A i \in 2 .. n - 1 : i \in 1 .. n - 1
      BY <1>5
    <3> QED BY <1>6, <2>4, <3>1
  <2>7. f[Len(s)] = time + e.cost
    BY <1>7, <2>1, <2>2 DEF n
  <2> QED BY <1>3, <2>1, <2>3, <2>5, <2>6, <2>7 DEF Reached, s, q
<1>13. CASE p # q
  <2>1. Len(s) = n + 1 /\ s[n + 1] = visit /\ \A i \in 1 .. n : s[i] = t[i]
    BY <1>11, <1>13
  <2>2. LinkUnder(p, q) = e.via
    BY <1>2, <1>9, <1>10, <1>13, UnderIsUnique
  <2>3. LegTime(p, q) = e.cost
    BY <1>9, <2>2 DEF LegTime
  <2>4. Last(s).at = q
    BY <2>1 DEF Last, q
  <2>5. \A i \in 1 .. n - 1 : s[i] = t[i] /\ s[i + 1] = t[i + 1]
    <3>1. \A i \in 1 .. n - 1 : i \in 1 .. n /\ i + 1 \in 1 .. n
      BY <1>5
    <3> QED BY <2>1, <3>1
  <2>6. s[n].at = p /\ s[n + 1].at = q
    <3>1. n \in 1 .. n
      BY <1>5
    <3> QED BY <1>5, <2>1, <3>1 DEF q
  <2> DEFINE g == [i \in 1 .. n + 1 |-> IF i = n + 1 THEN time + e.cost ELSE f[i]]
  <2>7. /\ g \in [1 .. n + 1 -> Nat] /\ g[1] = 0 /\ g[n + 1] = time + e.cost
        /\ \A i \in 1 .. n : g[i] = f[i]
    BY <1>2, <1>5, <1>8
  <2> HIDE DEF g
  <2>8. ASSUME NEW i \in 1 .. n
        PROVE  g[i + 1] = g[i] + LegTime(s[i].at, s[i + 1].at)
    <3>1. CASE i = n
      BY <1>5, <1>7, <2>3, <2>6, <2>7, <3>1 DEF n
    <3>2. CASE i # n
      <4>1. i \in 1 .. n - 1 /\ i + 1 \in 1 .. n
        BY <1>5, <3>2
      <4> QED BY <1>8, <2>5, <2>7, <4>1
    <3> QED BY <3>1, <3>2
  <2>9. Timed(g, s)
    <3> DEFINE m == Len(s)
    <3>1. m = n + 1 /\ m - 1 = n
      BY <1>5, <2>1
    <3>2. g \in [1 .. m -> Nat] /\ g[1] = 0
      BY <2>7, <3>1
    <3>3. \A i \in 1 .. m - 1 : g[i + 1] = g[i] + LegTime(s[i].at, s[i + 1].at)
      BY <2>8, <3>1
    <3> HIDE DEF g, s
    <3> QED BY <3>2, <3>3, Zenon DEF Timed
  <2>10. ASSUME NEW i \in 2 .. n
         PROVE  LinkUnder(s[i].at, s[i + 1].at) \in open \/ (e.to = Finish /\ i = n)
    <3>1. CASE i = n
      <4>1. e.from # Start
        <5>1. n # 1
          BY <1>5, <2>10, <3>1
        <5> QED BY <1>6, <5>1
      <4> QED BY <1>9, <2>2, <2>6, <3>1, <4>1
    <3>2. CASE i # n
      <4>1. i \in 2 .. n - 1 /\ i \in 1 .. n - 1
        BY <1>5, <3>2
      <4> QED BY <1>6, <2>5, <4>1
    <3> QED BY <3>1, <3>2
  <2>11. Len(s) - 1 = n /\ g[Len(s)] = time + e.cost
    BY <1>5, <2>1, <2>7
  <2>12. \A i \in 2 .. Len(s) - 1 :
           LinkUnder(s[i].at, s[i + 1].at) \in open \/ (e.to = Finish /\ i = Len(s) - 1)
    BY <2>10, <2>11
  <2>13. Last(s).at = PlaceOf(start, finish, e.to)
    BY <2>4 DEF q
  <2> QED BY <1>3, <2>9, <2>11, <2>12, <2>13, Zenon DEF Reached, s
<1> QED BY <1>12, <1>13

(* While the way is at the start, the trail is a place. *)
LEMMA JoinStays ==
  ASSUME NEW start \in Snapped, NEW finish \in Snapped, NEW open,
         NEW t, Trail(t, start.at), Reached(t, Start, 0, start, finish, open),
         NEW visit \in VisitType, visit.at = start.at
  PROVE  Reached(Join(t, visit), Start, 0, start, finish, open)
<1> DEFINE s == Join(t, visit)
<1>1. Len(t) = 1 /\ Last(t).at = start.at
  BY Zenon DEF Reached, PlaceOf
<1>2. Len(s) = 1 /\ \A i \in 1 .. 1 : s[i].at = t[i].at
  BY <1>1, JoinPlaces
<1> HIDE DEF s
<1>3. t[1].at = start.at /\ s[1].at = start.at
  BY <1>1, <1>2 DEF Last
<1>4. Last(s).at = PlaceOf(start, finish, Start)
  BY <1>2, <1>3 DEF Last, PlaceOf
<1>5. \E f : Timed(f, s) /\ f[Len(s)] = 0
  <2> DEFINE f == [i \in 1 .. 1 |-> 0]
  <2>1. f \in [1 .. 1 -> Nat] /\ f[1] = 0 /\ 1 .. 1 - 1 = {}
    OBVIOUS
  <2> HIDE DEF f
  <2>2. Timed(f, s)
    BY <1>2, <2>1 DEF Timed
  <2> QED BY <1>2, <2>1, <2>2
<1>6. 2 .. Len(s) - 1 = {}
  BY <1>2
<1> QED BY <1>2, <1>4, <1>5, <1>6 DEF Reached, s

(* The trails of a finished search keep its time. *)
LEMMA TrailsKeepTime ==
  ASSUME LinksApart, NEW start \in Snapped, NEW finish \in Snapped, NEW open \in SUBSET Link,
         NEW search, Searching(search), Ranked(search, Finish),
         Relaxed(search, Edges(start, finish, open)), Finish \in DOMAIN search.dist,
         NEW g, Joins(g, start, finish, search.prev)
  PROVE  Reached(g[Finish], Finish, search.dist[Finish], start, finish, open)
<1> DEFINE dist == search.dist
           prev == search.prev
           back == WayBack(prev)
           v(n) == back[Finish - n]
           visit(n) == Visit(start, finish, prev, back[Finish - n])
           edges == Edges(start, finish, open)
<1>1. Finish \in Nat /\ start \in SnapType /\ finish \in SnapType
  BY Network DEF Snapped
<1>2. /\ back \in [0 .. Finish -> DOMAIN dist] /\ back[0] = Finish /\ back[Finish] = Start
      /\ \A n \in 1 .. Finish :
           back[n] = IF back[n - 1] = Start THEN Start ELSE prev[back[n - 1]].from
  BY WayBackEnds
<1>3. /\ g[0] = <<visit(0)>> /\ \A n \in 1 .. Finish : g[n] = Join(g[n - 1], visit(n))
      /\ \A n \in 0 .. Finish : visit(n) \in VisitType /\ Trail(g[n], start.at)
  BY Zenon DEF Joins
<1>4. \A n : visit(n).at = PlaceOf(start, finish, v(n))
  BY DEF Visit, PlaceOf
<1>5. /\ DOMAIN prev = DOMAIN dist \ {Start} /\ dist[Start] = 0
      /\ \A w \in DOMAIN prev : /\ prev[w] \in edges /\ prev[w].to = w
                                /\ dist[w] = dist[prev[w].from] + prev[w].cost
      /\ \A w \in DOMAIN dist : dist[w] \in Nat
  <2>1. \A w \in DOMAIN dist : dist[w] \in Nat
    BY SearchFields
  <2>2. DOMAIN prev = DOMAIN dist \ {Start}
    BY DEF Searching
  <2>3. dist[Start] = 0 /\ \A w \in DOMAIN prev :
          /\ prev[w] \in edges /\ prev[w].to = w
          /\ dist[w] = dist[prev[w].from] + prev[w].cost
    BY DEF Relaxed
  <2> QED BY <2>1, <2>2, <2>3
<1> HIDE DEF back, visit, edges
<1>6. \A n \in 0 .. Finish : v(n) \in DOMAIN dist
  <2> TAKE n \in 0 .. Finish
  <2>1. Finish - n \in 0 .. Finish
    BY <1>1
  <2> HIDE DEF dist
  <2> QED BY <1>2, <2>1
<1>7. v(0) = Start /\ v(Finish) = Finish
  <2>1. Finish - 0 = Finish /\ Finish - Finish = 0
    BY <1>1
  <2> QED BY <1>2, <2>1
<1>8. \A n \in 1 .. Finish : v(n - 1) = IF v(n) = Start THEN Start ELSE prev[v(n)].from
  <2> TAKE n \in 1 .. Finish
  <2> DEFINE m == Finish - (n - 1)
  <2>1. m \in 1 .. Finish /\ m - 1 = Finish - n
    BY <1>1
  <2> HIDE DEF m
  <2>2. back[m] = IF back[m - 1] = Start THEN Start ELSE prev[back[m - 1]].from
    BY <1>2, <2>1
  <2> QED BY <2>1, <2>2 DEF m
<1> HIDE DEF v, dist, prev
<1> DEFINE In(n) == Reached(g[n], v(n), dist[v(n)], start, finish, open)
           bad == {n \in 0 .. Finish : ~ In(n)}
<1>9. In(0)
  <2> DEFINE a == visit(0)
  <2>1. a.at = start.at
    BY <1>4, <1>7 DEF PlaceOf
  <2> HIDE DEF a
  <2> DEFINE t == <<a>>
             f == [i \in 1 .. 1 |-> 0]
  <2>2. Len(t) = 1 /\ t[1] = a /\ Last(t) = a
    BY DEF Last
  <2>3. f \in [1 .. 1 -> Nat] /\ f[1] = 0 /\ 1 .. 1 - 1 = {} /\ 2 .. 1 - 1 = {}
    OBVIOUS
  <2>4. g[0] = t
    BY <1>3 DEF a
  <2> HIDE DEF t, f
  <2>5. Timed(f, t) /\ f[Len(t)] = 0
    BY <2>2, <2>3 DEF Timed
  <2>6. Last(t).at = PlaceOf(start, finish, Start)
    BY <2>1, <2>2 DEF PlaceOf
  <2>7. Reached(t, Start, 0, start, finish, open)
    BY <2>2, <2>3, <2>5, <2>6 DEF Reached
  <2> QED BY <1>5, <1>7, <2>4, <2>7
<1>10. ASSUME NEW n \in 1 .. Finish, In(n - 1) PROVE In(n)
  <2>1. n - 1 \in 0 .. Finish /\ n \in 0 .. Finish
    BY <1>1
  <2>2. /\ g[n] = Join(g[n - 1], visit(n)) /\ visit(n) \in VisitType
        /\ Trail(g[n - 1], start.at) /\ visit(n).at = PlaceOf(start, finish, v(n))
    BY <1>3, <1>4, <2>1
  <2>3. CASE v(n) = Start
    <3>1. v(n - 1) = Start /\ dist[Start] = 0 /\ visit(n).at = start.at
      BY <1>5, <1>8, <2>2, <2>3 DEF PlaceOf
    <3>2. Reached(g[n - 1], Start, 0, start, finish, open)
      BY <1>10, <3>1
    <3>3. Reached(g[n], Start, 0, start, finish, open)
      BY <2>2, <3>1, <3>2, JoinStays
    <3> QED BY <2>3, <3>1, <3>3
  <2>4. CASE v(n) # Start
    <3> DEFINE e == prev[v(n)]
    <3>1. v(n) \in DOMAIN prev
      BY <1>5, <1>6, <2>1, <2>4
    <3>2. /\ e \in edges /\ e.to = v(n) /\ v(n - 1) = e.from
          /\ dist[v(n)] = dist[e.from] + e.cost
      BY <1>5, <1>8, <2>4, <3>1
    <3>3. dist[e.from] \in Nat
      BY <1>5, <1>6, <2>1, <3>2
    <3> HIDE DEF e
    <3>4. Reached(g[n - 1], e.from, dist[e.from], start, finish, open)
      BY <1>10, <3>2
    <3>5. Reached(Join(g[n - 1], visit(n)), e.to, dist[e.from] + e.cost, start, finish, open)
      BY <2>2, <3>2, <3>3, <3>4, JoinReaches DEF edges
    <3> QED BY <2>2, <3>2, <3>5
  <2> QED BY <2>3, <2>4
<1> HIDE DEF In
<1>11. bad = {}
  <2> SUFFICES ASSUME bad # {} PROVE FALSE
    OBVIOUS
  <2>1. bad \in SUBSET Nat
    BY <1>1
  <2>2. PICK n \in bad : \A m \in bad : n <= m
    <3> HIDE DEF bad
    <3> QED BY <2>1, LeastExists, Zenon
  <2>3. n \in 0 .. Finish /\ ~ In(n) /\ n # 0
    BY <1>9
  <2>4. n - 1 \in 0 .. Finish /\ ~ (n <= n - 1) /\ n \in 1 .. Finish
    BY <1>1, <2>3
  <2>5. In(n - 1)
    BY <2>2, <2>4, Zenon
  <2> QED BY <1>10, <2>3, <2>4, <2>5
<1>12. In(Finish)
  <2>1. Finish \in 0 .. Finish
    BY <1>1
  <2> QED BY <1>11, <2>1
<1> QED BY <1>7, <1>12 DEF In, dist

(* The time of a trail is that of the route made of it. *)
LEMMA TimedRoute ==
  ASSUME NEW t \in Seq(VisitType), t # <<>>, NEW f, Timed(f, t)
  PROVE  /\ TimeOnLinks(AsRoute(t)) = f[Len(t)]
         /\ Len(AsRoute(t).at) = Len(t) /\ \A i \in 1 .. Len(t) : AsRoute(t).at[i] = t[i].at
<1> DEFINE n == Len(t)
           at == [i \in DOMAIN t |-> t[i].at]
           Body(time) == [i \in DOMAIN at |->
              IF i = 1 THEN 0
              ELSE time[i - 1]
                     + Span(at[i - 1], at[i]) * Links[LinkUnder(at[i - 1], at[i])].slowness]
<1>1. n \in Nat \ {0} /\ DOMAIN t = 1 .. n /\ \A i \in 1 .. n : t[i] \in VisitType
  BY LenProperties, EmptySeq, ElementOfSeq
<1>2. AsRoute(t).at = at
  BY DEF AsRoute
<1> HIDE DEF n
<1>3. at \in [1 .. n -> Point] /\ \A i \in 1 .. n : at[i] = t[i].at
  BY <1>1 DEF VisitType
<1>4. DOMAIN at = 1 .. n
  BY <1>3
<1> HIDE DEF at
<1>5. Len(at) = n
  <2>1. at \in Seq(Point)
    BY <1>1, <1>3, SeqDef
  <2> DEFINE m == Len(at)
  <2>2. 1 .. m = 1 .. n /\ m \in Nat
    BY <1>4, <2>1, LenProperties
  <2> HIDE DEF m
  <2>3. n \in 1 .. m
    BY <1>1, <2>2
  <2>4. m \in 1 .. n
    BY <2>2, <2>3
  <2>5. m = n
    BY <1>1, <2>3, <2>4
  <2> QED BY <2>5 DEF m
<1>6. f \in [1 .. n -> Nat] /\ f[1] = 0
      /\ \A i \in 1 .. n - 1 : f[i + 1] = f[i] + LegTime(t[i].at, t[i + 1].at)
  BY DEF Timed, n
<1>7. ASSUME NEW i \in 1 .. n, i # 1
      PROVE  i - 1 \in 1 .. n /\ f[i] = f[i - 1] + LegTime(at[i - 1], at[i])
  <2>1. i - 1 \in 1 .. n - 1 /\ i - 1 \in 1 .. n /\ i - 1 + 1 = i
    BY <1>1, <1>7
  <2>2. f[i - 1 + 1] = f[i - 1] + LegTime(t[i - 1].at, t[i - 1 + 1].at)
    BY <1>6, <2>1
  <2> QED BY <1>3, <2>1, <2>2
<1>8. f = Body(f)
  <2>1. \A i \in 1 .. n : f[i] = IF i = 1 THEN 0
          ELSE f[i - 1] + Span(at[i - 1], at[i]) * Links[LinkUnder(at[i - 1], at[i])].slowness
    BY <1>6, <1>7 DEF LegTime
  <2>2. f = [i \in 1 .. n |-> f[i]]
    BY <1>6
  <2> QED BY <1>4, <2>1, <2>2
<1>9. Times(at) = CHOOSE time : time = Body(time)
  BY DEF Times
<1> DEFINE g == Times(at)
<1> HIDE DEF Body, g
<1>10. g = Body(g)
  BY <1>8, <1>9 DEF g
<1>11. \A i \in 1 .. n : g[i] = IF i = 1 THEN 0 ELSE g[i - 1] + LegTime(at[i - 1], at[i])
  <2>1. g = [i \in 1 .. n |->
               IF i = 1 THEN 0
               ELSE g[i - 1]
                      + Span(at[i - 1], at[i]) * Links[LinkUnder(at[i - 1], at[i])].slowness]
    BY <1>4, <1>10 DEF Body
  <2> QED BY <2>1, Zenon DEF LegTime
<1> DEFINE bad == {i \in 1 .. n : g[i] # f[i]}
<1>12. bad = {}
  <2> SUFFICES ASSUME bad # {} PROVE FALSE
    OBVIOUS
  <2>1. bad \in SUBSET Nat
    BY <1>1
  <2>2. PICK i \in bad : \A m \in bad : i <= m
    <3> HIDE DEF bad
    <3> QED BY <2>1, LeastExists, Zenon
  <2>3. i \in 1 .. n /\ g[i] # f[i] /\ i # 1
    <3>1. 1 \in 1 .. n
      BY <1>1
    <3> QED BY <1>6, <1>11, <3>1
  <2>4. i - 1 \in 1 .. n /\ ~ (i <= i - 1)
    BY <1>1, <2>3
  <2>5. g[i - 1] = f[i - 1]
    BY <2>2, <2>4, Zenon
  <2> QED BY <1>7, <1>11, <2>3, <2>5
<1>13. g[n] = f[n]
  <2>1. n \in 1 .. n
    BY <1>1
  <2> QED BY <1>12, <2>1
<1>14. TimeOnLinks(AsRoute(t)) = g[n]
  BY <1>2, <1>5, Zenon DEF TimeOnLinks, g
<1> QED BY <1>2, <1>3, <1>5, <1>13, <1>14 DEF n

(* A route over a set of links takes the least time there is, and drives   *)
(* others of them on its first and last leg only.                          *)
Quickest(route, start, finish, open) ==
  LET least == LeastTime(Edges(start, finish, open))
  IN  IF route = NoRoute THEN least = Never
      ELSE /\ Leads(route, start, finish) /\ least # Never /\ TimeOnLinks(route) = least
           /\ \A i \in 2 .. Len(route.at) - 2 : LinkUnder(route.at[i], route.at[i + 1]) \in open

(* The polyline of a finished search is such a route.                      *)
LEMMA SnappedRouteIsQuickest ==
  ASSUME LinksApart, NEW start \in Snapped, NEW finish \in Snapped, NEW open \in SUBSET Link
  PROVE  Quickest(RouteSnapped(start, finish, open), start, finish, open)
<1> DEFINE edges == Edges(start, finish, open)
           search == Dijkstra(edges)
           least == LeastTime(edges)
           route == RouteSnapped(start, finish, open)
<1>1. start \in SnapType /\ finish \in SnapType
  BY DEF Snapped
<1>2. edges \in SUBSET EdgeType
  BY <1>1, EdgesAreTyped
<1>3. Searching(search) /\ Ranked(search, Finish) /\ Relaxed(search, edges)
  BY <1>2, DijkstraSearches
<1>4. least = IF Finish \in DOMAIN search.dist THEN search.dist[Finish] ELSE Never
  BY <1>2, SearchFindsTheQuickest
<1>5. route = IF Finish \in DOMAIN search.dist
              THEN Polyline(start, finish, search.prev) ELSE NoRoute
  BY Zenon DEF RouteSnapped
<1>6. \A r : Leads(r, start, finish) => r # NoRoute
  BY DEF Leads, Drivable, NoRoute
<1> HIDE DEF search, route
<1>7. CASE Finish \in DOMAIN search.dist
  <2>1. PICK g : /\ Joins(g, start, finish, search.prev)
                 /\ Polyline(start, finish, search.prev) = AsRoute(g[Finish])
    BY <1>1, <1>3, <1>7, TrailsJoin
  <2> DEFINE t == g[Finish]
             n == Len(t)
  <2>2. Reached(t, Finish, search.dist[Finish], start, finish, open)
    BY <1>3, <1>7, <2>1, TrailsKeepTime
  <2>3. Trail(t, start.at)
    <3>1. Finish \in 0 .. Finish
      BY Network
    <3> QED BY <2>1, <3>1 DEF Joins
  <2>4. t \in Seq(VisitType) /\ t # <<>>
    BY <2>3 DEF Trail
  <2>5. n \in Nat
    BY <2>4, LenProperties
  <2>6. Leads(route, start, finish)
    BY <1>1, <1>3, <1>5, <1>7, PolylineLeads
  <2>7. route = AsRoute(t) /\ least = search.dist[Finish] /\ least # Never
    <3>1. search.dist[Finish] \in Nat
      BY <1>3, <1>7, SearchFields
    <3>2. least = search.dist[Finish]
      BY <1>4, <1>7
    <3> HIDE DEF least
    <3> QED BY <1>5, <1>7, <2>1, <3>1, <3>2 DEF Never
  <2>8. PICK f : Timed(f, t) /\ f[n] = search.dist[Finish]
    BY <2>2, Zenon DEF Reached
  <2>9. \A i \in 2 .. n - 1 : LinkUnder(t[i].at, t[i + 1].at) \in open \/ i = n - 1
    BY <2>2, Zenon DEF Reached
  <2> HIDE DEF t
  <2>10. /\ TimeOnLinks(route) = least
         /\ Len(route.at) = n /\ \A i \in 1 .. n : route.at[i] = t[i].at
    BY <2>4, <2>7, <2>8, TimedRoute
  <2> HIDE DEF n, least
  <2>11. \A i \in 2 .. n - 2 : LinkUnder(route.at[i], route.at[i + 1]) \in open
    <3> TAKE i \in 2 .. n - 2
    <3>1. i \in 2 .. n - 1 /\ i # n - 1 /\ i \in 1 .. n /\ i + 1 \in 1 .. n
      BY <2>5
    <3> QED BY <2>9, <2>10, <3>1
  <2>12. route # NoRoute
    BY <1>6, <2>6
  <2>13. Quickest(route, start, finish, open)
    BY <2>6, <2>7, <2>10, <2>11, <2>12, Zenon DEF Quickest, least
  <2> QED BY <2>13 DEF route
<1>8. CASE Finish \notin DOMAIN search.dist
  <2>1. route = NoRoute /\ least = Never
    BY <1>4, <1>5, <1>8
  <2>2. Quickest(route, start, finish, open)
    BY <2>1, Zenon DEF Quickest
  <2> QED BY <2>2 DEF route
<1> QED BY <1>7, <1>8

(* So does the route of the roadmap: around the blocked links if there is  *)
(* a way, else over all of them.                                           *)
LEMMA RouteIsQuickest ==
  ASSUME LinksApart, NEW from \in Point, NEW to \in Point, NEW blocks
  PROVE  LET open == {l \in Link : ~IsBlocked(blocks, l)}
             around == LeastTime(Edges(Snap(from), Snap(to), open))
         IN  Quickest(Route(from, to, blocks), Snap(from), Snap(to),
                      IF around # Never THEN open ELSE Link)
<1> DEFINE start == Snap(from)
           finish == Snap(to)
           open == {l \in Link : ~IsBlocked(blocks, l)}
           around == RouteSnapped(start, finish, open)
           all == RouteSnapped(start, finish, Link)
           least == LeastTime(Edges(start, finish, open))
<1>1. start \in Snapped /\ finish \in Snapped
  BY SnapIsOnLink
<1>2. open \in SUBSET Link /\ Link \in SUBSET Link
  OBVIOUS
<1>3. Quickest(around, start, finish, open) /\ Quickest(all, start, finish, Link)
  <2> HIDE DEF start, finish, open
  <2> QED BY <1>1, <1>2, SnappedRouteIsQuickest
<1>4. around = NoRoute <=> least = Never
  <2> HIDE DEF start, finish, open, around
  <2> QED BY <1>3, Zenon DEF Quickest
<1>5. Route(from, to, blocks)
        = IF around = NoRoute /\ \E l \in Link : IsBlocked(blocks, l) THEN all ELSE around
  BY Zenon DEF Route
<1>6. (~ \E l \in Link : IsBlocked(blocks, l)) => open = Link
  OBVIOUS
<1>7. CASE around # NoRoute
  BY <1>3, <1>4, <1>5, <1>7, Zenon
<1>8. CASE around = NoRoute /\ \E l \in Link : IsBlocked(blocks, l)
  BY <1>3, <1>4, <1>5, <1>8, Zenon
<1>9. CASE around = NoRoute /\ open = Link
  <2>1. Route(from, to, blocks) = around \/ Route(from, to, blocks) = all
    BY <1>5, Zenon
  <2>2. around = all
    BY <1>9
  <2>3. (IF least # Never THEN open ELSE Link) = Link
    BY <1>9
  <2>4. Quickest(Route(from, to, blocks), start, finish, Link)
    <3> HIDE DEF around, all, open, start, finish
    <3> QED BY <1>3, <2>1, <2>2, Zenon
  <2> QED BY <2>3, <2>4, Zenon
<1> QED BY <1>6, <1>7, <1>8, <1>9, Zenon

(***************************************************************************)
(* Labels.                                                                 *)
(***************************************************************************)

(* A route whose segments lie on the links that their labels say, but for  *)
(* the last one when the route ends at a node.                             *)
Labelled(route) ==
  LET n == Len(route.at)
  IN  /\ n = 1 => OnLink(route.at[1], route.link[1])
      /\ \A i \in 1 .. n - 1 :
           \/ OnLink(route.at[i], route.link[i]) /\ OnLink(route.at[i + 1], route.link[i])
           \/ i = n - 1 /\ \E k \in Node : At[k] = route.at[n]

(* The same of a trail that has come to vertex v.                          *)
LinkedTrail(t, v, start, finish) ==
  /\ Last(t).at = PlaceOf(start, finish, v)
  /\ OnLink(Last(t).at, Last(t).via)
  /\ (v = Start => Len(t) = 1)
  /\ \A i \in 1 .. Len(t) - 1 :
       \/ OnLink(t[i].at, t[i + 1].via) /\ OnLink(t[i + 1].at, t[i + 1].via)
       \/ v = Finish /\ i = Len(t) - 1 /\ \E k \in Node : At[k] = Last(t).at

(* An edge between nodes leads somewhere else. *)
LEMMA NodeEdgesLead ==
  ASSUME NEW start, NEW finish, NEW open \in SUBSET Link,
         NEW e \in Edges(start, finish, open), e.from \in Node, e.to \in Node
  PROVE  At[e.from] # At[e.to]
<1> DEFINE Edge(u, v, length, k) ==
             [from |-> u, to |-> v, cost |-> length * Links[k].slowness, via |-> k]
           A == {Edge(Links[k].a, Links[k].b, Span(At[Links[k].a], At[Links[k].b]), k) : k \in open}
           B == {Edge(Links[k].b, Links[k].a, Span(At[Links[k].a], At[Links[k].b]), k) :
                   k \in {m \in open : ~Links[m].oneway}}
<1>1. Start \notin Node /\ Finish \notin Node
  BY Network
<1>2. e \in A \cup B \/ e.from = Start \/ e.to = Finish
  BY DEF Edges
<1>3. \A k \in Link : At[Links[k].a] # At[Links[k].b]
  BY RoadmapAssumption DEF RoadmapAssumption, WellFormed
<1>4. \E k \in open : (e.from = Links[k].a /\ e.to = Links[k].b)
                      \/ (e.from = Links[k].b /\ e.to = Links[k].a)
  BY <1>1, <1>2
<1> QED BY <1>3, <1>4

(* Joining the visit at the end of an edge keeps the labels right.         *)
LEMMA JoinLinks ==
  ASSUME NEW start \in Snapped, NEW finish \in Snapped, NEW open \in SUBSET Link,
         NEW e \in Edges(start, finish, open), NEW t, Trail(t, start.at),
         LinkedTrail(t, e.from, start, finish),
         NEW visit \in VisitType, visit.at = PlaceOf(start, finish, e.to), visit.via = e.via
  PROVE  LinkedTrail(Join(t, visit), e.to, start, finish)
<1> DEFINE s == Join(t, visit)
           n == Len(t)
           p == Last(t).at
           q == visit.at
           k == e.via
<1>1. /\ e.from \in Node \cup {Start} /\ e.to \in Node \cup {Finish}
      /\ e.from # Finish /\ e.to # Start /\ Start \notin Node /\ Finish \notin Node
  <2>1. start \in SnapType /\ finish \in SnapType
    BY DEF Snapped
  <2>2. e \in EdgeType
    BY <2>1, EdgesAreTyped
  <2> QED BY <2>2, Network DEF EdgeType
<1>2. RunsAlong(e, start, finish, open)
  BY EdgesRunAlong
<1>3. t \in Seq(VisitType) /\ n \in Nat \ {0} /\ p = t[n].at
  <2>1. t \in Seq(VisitType) /\ t # <<>>
    BY DEF Trail
  <2> QED BY <2>1, LenProperties, EmptySeq DEF Last
<1>4. /\ p = PlaceOf(start, finish, e.from) /\ (e.from = Start => n = 1)
      /\ \A i \in 1 .. n - 1 : OnLink(t[i].at, t[i + 1].via) /\ OnLink(t[i + 1].at, t[i + 1].via)
  BY <1>1, Zenon DEF LinkedTrail
<1>5. OnLink(p, k) /\ OnLink(q, k)
  BY <1>2, <1>4, Zenon DEF RunsAlong
<1>6. IF p = q
      THEN /\ Len(s) = n /\ \A i \in 1 .. n : s[i].at = t[i].at
           /\ s[n] = visit /\ \A i \in 1 .. n - 1 : s[i] = t[i]
      ELSE Len(s) = n + 1 /\ s[n + 1] = visit /\ \A i \in 1 .. n : s[i] = t[i]
  BY JoinPlaces
<1>7. visit.via = k /\ visit.at = q /\ visit.at = PlaceOf(start, finish, e.to)
  OBVIOUS
<1> HIDE DEF n, p, q, s, k
<1>8. CASE p = q
  <2>1. /\ Len(s) = n /\ s[n] = visit /\ Last(s) = visit
        /\ \A i \in 1 .. n - 1 : s[i] = t[i]
    BY <1>6, <1>8 DEF Last
  <2>2. n # 1 => e.to = Finish /\ \E m \in Node : At[m] = q
    <3>1. SUFFICES ASSUME n # 1 PROVE e.to = Finish /\ \E m \in Node : At[m] = q
      OBVIOUS
    <3>2. e.from \in Node /\ e.from # Start /\ p = At[e.from]
      BY <1>1, <1>4, <3>1 DEF PlaceOf
    <3>3. e.to \in Node => q = At[e.to]
      BY <1>1, <1>7 DEF PlaceOf
    <3>4. e.to \notin Node
      BY <1>8, <3>2, <3>3, NodeEdgesLead
    <3> QED BY <1>1, <1>8, <3>2, <3>4
  <2>3. ASSUME NEW i \in 1 .. n - 1
        PROVE  \/ OnLink(s[i].at, s[i + 1].via) /\ OnLink(s[i + 1].at, s[i + 1].via)
               \/ e.to = Finish /\ i = n - 1 /\ \E m \in Node : At[m] = Last(s).at
    <3>1. CASE i = n - 1
      <4>1. n # 1
        BY <1>3, <3>1
      <4> QED BY <1>7, <2>1, <2>2, <3>1, <4>1
    <3>2. CASE i # n - 1
      <4>1. i + 1 \in 1 .. n - 1
        BY <1>3, <3>2
      <4>2. s[i] = t[i] /\ s[i + 1] = t[i + 1]
        BY <2>1, <4>1
      <4> QED BY <1>4, <4>2
    <3> QED BY <3>1, <3>2
  <2> QED BY <1>1, <1>5, <1>7, <2>1, <2>3 DEF LinkedTrail, s
<1>9. CASE p # q
  <2>1. /\ Len(s) = n + 1 /\ s[n + 1] = visit /\ Last(s) = visit
        /\ \A i \in 1 .. n : s[i] = t[i]
    BY <1>6, <1>9 DEF Last
  <2>2. ASSUME NEW i \in 1 .. n
        PROVE  OnLink(s[i].at, s[i + 1].via) /\ OnLink(s[i + 1].at, s[i + 1].via)
    <3>1. CASE i = n
      <4>1. s[i].at = p /\ s[i + 1] = visit
        BY <1>3, <2>1, <3>1
      <4> QED BY <1>5, <1>7, <4>1
    <3>2. CASE i # n
      <4>1. i \in 1 .. n - 1 /\ i + 1 \in 1 .. n
        BY <1>3, <3>2
      <4>2. s[i] = t[i] /\ s[i + 1] = t[i + 1]
        BY <2>1, <4>1
      <4> QED BY <1>4, <4>1, <4>2
    <3> QED BY <3>1, <3>2
  <2>3. Len(s) - 1 = n
    BY <1>3, <2>1
  <2> QED BY <1>1, <1>5, <1>7, <2>1, <2>2, <2>3 DEF LinkedTrail, s
<1> QED BY <1>8, <1>9

(* The trails of a finished search are labelled. *)
LEMMA TrailsAreLinked ==
  ASSUME NEW start \in Snapped, NEW finish \in Snapped, NEW open \in SUBSET Link,
         NEW search, Searching(search), Ranked(search, Finish),
         Relaxed(search, Edges(start, finish, open)), Finish \in DOMAIN search.dist,
         NEW g, Joins(g, start, finish, search.prev)
  PROVE  LinkedTrail(g[Finish], Finish, start, finish)
<1> DEFINE dist == search.dist
           prev == search.prev
           back == WayBack(prev)
           v(n) == back[Finish - n]
           visit(n) == Visit(start, finish, prev, back[Finish - n])
           edges == Edges(start, finish, open)
<1>1. Finish \in Nat /\ start \in SnapType /\ finish \in SnapType
  BY Network DEF Snapped
<1>2. /\ back \in [0 .. Finish -> DOMAIN dist] /\ back[0] = Finish /\ back[Finish] = Start
      /\ \A n \in 1 .. Finish :
           back[n] = IF back[n - 1] = Start THEN Start ELSE prev[back[n - 1]].from
  BY WayBackEnds
<1>3. /\ g[0] = <<visit(0)>> /\ \A n \in 1 .. Finish : g[n] = Join(g[n - 1], visit(n))
      /\ \A n \in 0 .. Finish : visit(n) \in VisitType /\ Trail(g[n], start.at)
  BY Zenon DEF Joins
<1>4. \A n : /\ visit(n).at = PlaceOf(start, finish, v(n))
             /\ visit(n).via = IF v(n) = Start THEN start.link ELSE prev[v(n)].via
  BY DEF Visit, PlaceOf
<1>5. /\ DOMAIN prev = DOMAIN dist \ {Start}
      /\ \A w \in DOMAIN prev : prev[w] \in edges /\ prev[w].to = w
  <2>1. DOMAIN prev = DOMAIN dist \ {Start}
    BY DEF Searching
  <2>2. \A w \in DOMAIN prev : prev[w] \in edges /\ prev[w].to = w
    BY DEF Relaxed
  <2> QED BY <2>1, <2>2
<1>6. start.link \in Link /\ OnLink(start.at, start.link)
  BY DEF Snapped, SnapType
<1> HIDE DEF back, visit, edges
<1>7. \A n \in 0 .. Finish : v(n) \in DOMAIN dist
  <2> TAKE n \in 0 .. Finish
  <2>1. Finish - n \in 0 .. Finish
    BY <1>1
  <2> HIDE DEF dist
  <2> QED BY <1>2, <2>1
<1>8. v(0) = Start /\ v(Finish) = Finish
  <2>1. Finish - 0 = Finish /\ Finish - Finish = 0
    BY <1>1
  <2> QED BY <1>2, <2>1
<1>9. \A n \in 1 .. Finish : v(n - 1) = IF v(n) = Start THEN Start ELSE prev[v(n)].from
  <2> TAKE n \in 1 .. Finish
  <2> DEFINE m == Finish - (n - 1)
  <2>1. m \in 1 .. Finish /\ m - 1 = Finish - n
    BY <1>1
  <2> HIDE DEF m
  <2>2. back[m] = IF back[m - 1] = Start THEN Start ELSE prev[back[m - 1]].from
    BY <1>2, <2>1
  <2> QED BY <2>1, <2>2 DEF m
<1> HIDE DEF v, dist, prev
<1> DEFINE In(n) == LinkedTrail(g[n], v(n), start, finish)
           bad == {n \in 0 .. Finish : ~ In(n)}
<1>10. ASSUME NEW t, Len(t) = 1, Last(t).at = start.at, Last(t).via = start.link
       PROVE  LinkedTrail(t, Start, start, finish)
  <2>1. 1 .. 1 - 1 = {}
    OBVIOUS
  <2> QED BY <1>6, <1>10, <2>1 DEF LinkedTrail, PlaceOf
<1>11. In(0)
  <2> DEFINE a == visit(0)
  <2>1. a.at = start.at /\ a.via = start.link
    BY <1>4, <1>8 DEF PlaceOf
  <2> HIDE DEF a
  <2> DEFINE t == <<a>>
  <2>2. Len(t) = 1 /\ Last(t) = a
    BY DEF Last
  <2>3. g[0] = t
    BY <1>3 DEF a
  <2> HIDE DEF t
  <2>4. LinkedTrail(t, Start, start, finish)
    BY <1>10, <2>1, <2>2
  <2> QED BY <1>8, <2>3, <2>4
<1>12. ASSUME NEW n \in 1 .. Finish, In(n - 1) PROVE In(n)
  <2>1. n - 1 \in 0 .. Finish /\ n \in 0 .. Finish
    BY <1>1
  <2>2. /\ g[n] = Join(g[n - 1], visit(n)) /\ visit(n) \in VisitType
        /\ Trail(g[n - 1], start.at) /\ visit(n).at = PlaceOf(start, finish, v(n))
    BY <1>3, <1>4, <2>1
  <2>3. CASE v(n) = Start
    <3>1. /\ v(n - 1) = Start /\ visit(n).at = start.at /\ visit(n).via = start.link
      BY <1>4, <1>9, <2>2, <2>3 DEF PlaceOf
    <3> DEFINE t == g[n - 1]
               u == visit(n)
               r == Join(t, u)
    <3>2. Len(t) = 1 /\ Last(t).at = start.at
      BY <1>12, <3>1 DEF LinkedTrail, PlaceOf
    <3>3. Trail(t, start.at) /\ u \in VisitType /\ u.at = start.at /\ u.via = start.link
      BY <2>2, <3>1
    <3> HIDE DEF t, u
    <3>4. Len(r) = 1 /\ r[1] = u
      BY <3>2, <3>3, JoinPlaces
    <3>5. Last(r).at = start.at /\ Last(r).via = start.link
      BY <3>3, <3>4 DEF Last
    <3> HIDE DEF r
    <3>6. LinkedTrail(r, Start, start, finish)
      BY <1>10, <3>4, <3>5
    <3> QED BY <2>2, <2>3, <3>6 DEF r, t, u
  <2>4. CASE v(n) # Start
    <3> DEFINE e == prev[v(n)]
    <3>1. v(n) \in DOMAIN prev
      BY <1>5, <1>7, <2>1, <2>4
    <3>2. /\ e \in edges /\ e.to = v(n) /\ v(n - 1) = e.from /\ visit(n).via = e.via
      BY <1>4, <1>5, <1>9, <2>4, <3>1
    <3> HIDE DEF e
    <3>3. LinkedTrail(g[n - 1], e.from, start, finish)
      BY <1>12, <3>2
    <3>4. LinkedTrail(Join(g[n - 1], visit(n)), e.to, start, finish)
      BY <2>2, <3>2, <3>3, JoinLinks DEF edges
    <3> QED BY <2>2, <3>2, <3>4
  <2> QED BY <2>3, <2>4
<1> HIDE DEF In
<1>13. bad = {}
  <2> SUFFICES ASSUME bad # {} PROVE FALSE
    OBVIOUS
  <2>1. bad \in SUBSET Nat
    BY <1>1
  <2>2. PICK n \in bad : \A m \in bad : n <= m
    <3> HIDE DEF bad
    <3> QED BY <2>1, LeastExists, Zenon
  <2>3. n \in 0 .. Finish /\ ~ In(n) /\ n # 0
    BY <1>11
  <2>4. n - 1 \in 0 .. Finish /\ ~ (n <= n - 1) /\ n \in 1 .. Finish
    BY <1>1, <2>3
  <2>5. In(n - 1)
    BY <2>2, <2>4, Zenon
  <2> QED BY <1>12, <2>3, <2>4, <2>5
<1>14. In(Finish)
  <2>1. Finish \in 0 .. Finish
    BY <1>1
  <2> QED BY <1>13, <2>1
<1> QED BY <1>8, <1>14 DEF In

(* A route is labelled by the trail it is made of.                         *)
LEMMA RouteLabels ==
  ASSUME NEW t \in Seq(VisitType), t # <<>>
  PROVE  LET n == Len(t)
             route == AsRoute(t)
         IN  /\ Len(route.at) = n /\ \A i \in 1 .. n : route.at[i] = t[i].at
             /\ route.link[n] = t[n].via
             /\ \A i \in 1 .. n - 1 : route.link[i] = t[i + 1].via
<1> DEFINE n == Len(t)
           at == [i \in DOMAIN t |-> t[i].at]
           link == [i \in DOMAIN t |-> t[IF i = Len(t) THEN i ELSE i + 1].via]
<1>1. n \in Nat \ {0} /\ DOMAIN t = 1 .. n /\ \A i \in 1 .. n : t[i] \in VisitType
  BY LenProperties, EmptySeq, ElementOfSeq
<1>2. AsRoute(t).at = at /\ AsRoute(t).link = link
  BY DEF AsRoute
<1>3. n \in 1 .. n /\ \A i \in 1 .. n - 1 : i \in 1 .. n /\ i # n
  <2> HIDE DEF n
  <2> QED BY <1>1
<1>4. link[n] = t[n].via /\ \A i \in 1 .. n - 1 : link[i] = t[i + 1].via
  <2>1. \A i \in 1 .. n : link[i] = t[IF i = n THEN i ELSE i + 1].via
    BY <1>1
  <2> HIDE DEF link, n
  <2> QED BY <1>3, <2>1
<1> HIDE DEF n, link
<1>5. at \in [1 .. n -> Point] /\ \A i \in 1 .. n : at[i] = t[i].at
  BY <1>1 DEF VisitType
<1> HIDE DEF at
<1>6. Len(at) = n
  <2>1. at \in Seq(Point) /\ DOMAIN at = 1 .. n
    BY <1>1, <1>5, SeqDef
  <2> DEFINE m == Len(at)
  <2>2. 1 .. m = 1 .. n /\ m \in Nat
    BY <2>1, LenProperties
  <2> HIDE DEF m
  <2>3. n \in 1 .. m
    BY <1>1, <2>2
  <2>4. m \in 1 .. n
    BY <2>2, <2>3
  <2>5. m = n
    BY <1>1, <2>3, <2>4
  <2> QED BY <2>5 DEF m
<1> QED BY <1>2, <1>4, <1>5, <1>6 DEF n

(* Routes are labelled, whatever network and blocks.                       *)
LEMMA RouteIsLabelled ==
  ASSUME NEW from \in Point, NEW to \in Point, NEW blocks
  PROVE  Route(from, to, blocks) = NoRoute \/ Labelled(Route(from, to, blocks))
<1> DEFINE start == Snap(from)
           finish == Snap(to)
<1>1. start \in Snapped /\ finish \in Snapped
  BY SnapIsOnLink
<1> HIDE DEF start, finish
<1>2. ASSUME NEW open \in SUBSET Link
      PROVE  RouteSnapped(start, finish, open) = NoRoute
             \/ Labelled(RouteSnapped(start, finish, open))
  <2> DEFINE edges == Edges(start, finish, open)
             search == Dijkstra(edges)
  <2>1. start \in SnapType /\ finish \in SnapType
    BY <1>1 DEF Snapped
  <2>2. Searching(search) /\ Ranked(search, Finish) /\ Relaxed(search, edges)
    <3>1. edges \in SUBSET EdgeType
      BY <2>1, EdgesAreTyped
    <3> QED BY <3>1, DijkstraSearches
  <2>3. RouteSnapped(start, finish, open)
          = IF Finish \in DOMAIN search.dist THEN Polyline(start, finish, search.prev) ELSE NoRoute
    BY DEF RouteSnapped
  <2> HIDE DEF search
  <2>4. ASSUME Finish \in DOMAIN search.dist
        PROVE  Labelled(Polyline(start, finish, search.prev))
    <3>1. PICK g : /\ Joins(g, start, finish, search.prev)
                   /\ Polyline(start, finish, search.prev) = AsRoute(g[Finish])
      BY <2>1, <2>2, <2>4, TrailsJoin
    <3> DEFINE t == g[Finish]
               n == Len(t)
               route == AsRoute(t)
    <3>2. LinkedTrail(t, Finish, start, finish)
      BY <1>1, <2>2, <2>4, <3>1, TrailsAreLinked
    <3>3. t \in Seq(VisitType) /\ t # <<>>
      <4>1. Finish \in 0 .. Finish
        BY Network
      <4> QED BY <3>1, <4>1 DEF Joins, Trail
    <3>4. Polyline(start, finish, search.prev) = route
      BY <3>1
    <3> HIDE DEF t
    <3>5. n \in Nat \ {0}
      BY <3>3, LenProperties, EmptySeq
    <3>6. /\ Len(route.at) = n /\ \A i \in 1 .. n : route.at[i] = t[i].at
          /\ route.link[n] = t[n].via
          /\ \A i \in 1 .. n - 1 : route.link[i] = t[i + 1].via
      BY <3>3, RouteLabels
    <3>7. /\ OnLink(t[n].at, t[n].via)
          /\ \A i \in 1 .. n - 1 :
               \/ OnLink(t[i].at, t[i + 1].via) /\ OnLink(t[i + 1].at, t[i + 1].via)
               \/ i = n - 1 /\ \E k \in Node : At[k] = t[n].at
      BY <3>2, Zenon DEF LinkedTrail, Last
    <3> HIDE DEF n, route
    <3>8. \A i \in 1 .. n - 1 : i \in 1 .. n /\ i + 1 \in 1 .. n
      BY <3>5
    <3>9. n \in 1 .. n
      BY <3>5
    <3>10. Labelled(route)
      BY <3>6, <3>7, <3>8, <3>9 DEF Labelled
    <3> QED BY <3>4, <3>10
  <2> QED BY <2>3, <2>4
<1>3. {l \in Link : ~IsBlocked(blocks, l)} \in SUBSET Link /\ Link \in SUBSET Link
  OBVIOUS
<1>4. \/ Route(from, to, blocks) = RouteSnapped(start, finish, {l \in Link : ~IsBlocked(blocks, l)})
      \/ Route(from, to, blocks) = RouteSnapped(start, finish, Link)
  BY DEF Route, start, finish
<1> QED BY <1>2, <1>3, <1>4

(***************************************************************************)
(* Following.                                                              *)
(***************************************************************************)

(* A route that is followed: the leg goal, once there is one, on it.       *)
IsActive(ar) ==
  /\ ar = [ route |-> ar.route, serves |-> ar.serves, goalS |-> ar.goalS,
            goalLink |-> ar.goalLink, best |-> ar.best, age |-> ar.age ]
  /\ Drivable(ar.route) /\ Labelled(ar.route)
  /\ ar.goalS \in {NoArc} \cup (0 .. RouteLength(ar.route))
  /\ ar.best \in Nat \cup {Farther} /\ ar.age \in 0 .. BlockAfter

FollowingTypes ==
  /\ robot \in Places /\ mission \in 0 .. Len(Goals)
  /\ blocked \in [Link -> 0 .. BlockedTimeout]
  /\ active # NoActive => IsActive(active) /\ active.goalS # NoArc
  /\ fails \in 0 .. BlameFails /\ sincePlan \in 0 .. ReplanEvery
  /\ held \in 0 .. HeldBound + 1

(* What the assumptions give, and the lengths of the sequences.            *)
LEMMA FollowingConstants ==
  /\ Places \subseteq Point /\ Len(Goals) \in Nat /\ DOMAIN Goals = 1 .. Len(Goals)
  /\ \A m \in 1 .. Len(Goals) : Goals[m] \in Point
  /\ Deviation \in Nat /\ BlockAfter \in Nat /\ BlockedTimeout \in Nat \ {0}
  /\ ReplanEvery \in Nat \ {0} /\ BlameFails \in Nat \ {0}
<1>1. Goals \in Seq(Point) /\ Places \subseteq Point /\ Deviation \in Nat /\ BlockAfter \in Nat
      /\ ReplanEvery \in Nat \ {0} /\ BlameFails \in Nat \ {0}
  BY FollowingAssumption DEF FollowingAssumption
<1>2. BlockedTimeout \in Nat \ {0}
  BY RoadmapAssumption DEF RoadmapAssumption, WellFormed
<1>3. Len(Goals) \in Nat /\ DOMAIN Goals = 1 .. Len(Goals)
  BY <1>1, LenProperties
<1>4. \A m \in 1 .. Len(Goals) : Goals[m] \in Point
  BY <1>1, ElementOfSeq
<1> QED BY <1>1, <1>2, <1>3, <1>4

(* Without a route there is none to drive. *)
LEMMA ActiveHasRoute ==
  ASSUME NEW ar, Drivable(ar.route)
  PROVE  ar # NoActive
<1>1. NoActive.route.at = <<>>
  BY DEF NoActive, NoRoute
<1> QED BY <1>1 DEF Drivable

(* Step 5b leaves a route that serves the mission, and keeps one that is   *)
(* good.                                                                   *)
LEMMA MaintainedRoute ==
  ASSUME FollowingTypes, NEW p \in Places
  PROVE  LET kept == MaintainRoute(p)
         IN  \/ kept = NoActive
             \/ /\ mission # 0 /\ IsActive(kept) /\ kept.serves = mission
                /\ \/ /\ kept = active /\ ~ MustReroute(active, p, mission)
                      /\ kept.goalS # NoArc
                   \/ /\ MustReroute(active, p, mission)
                      /\ Leads(kept.route, Snap(p), Snap(Goals[mission]))
                      /\ kept.goalS = NoArc /\ kept.best = Farther /\ kept.age = 0
<1> DEFINE kept == MaintainRoute(p)
           route == Route(p, Goals[mission], blocked)
<1>1. CASE mission = 0
  BY <1>1 DEF MaintainRoute
<1>2. CASE mission # 0 /\ MustReroute(active, p, mission)
  <2>1. kept = Reroute(p, mission)
    BY <1>2 DEF MaintainRoute
  <2>2. kept = IF route = NoRoute THEN NoActive
               ELSE [NoActive EXCEPT !.route = route, !.serves = mission]
    BY <2>1 DEF Reroute
  <2> HIDE DEF route, kept
  <2>3. CASE route = NoRoute
    BY <2>2, <2>3 DEF kept
  <2>4. CASE route # NoRoute
    <3>1. kept = [ route |-> route, serves |-> mission, goalS |-> NoArc, goalLink |-> 0,
                   best |-> Farther, age |-> 0 ]
      BY <2>2, <2>4 DEF NoActive
    <3>2. p \in Point /\ Goals[mission] \in Point
      BY <1>2, FollowingConstants DEF FollowingTypes
    <3>3. Leads(route, Snap(p), Snap(Goals[mission]))
      BY <2>4, <3>2, RoutesLead DEF route
    <3>4. IsActive(kept)
      <4>1. Labelled(route)
        BY <2>4, <3>2, RouteIsLabelled DEF route
      <4> QED BY <3>1, <3>3, <4>1, FollowingConstants DEF IsActive, Leads
    <3> QED BY <1>2, <3>1, <3>3, <3>4 DEF kept
  <2> QED BY <2>3, <2>4
<1>3. CASE mission # 0 /\ ~ MustReroute(active, p, mission)
  <2>1. kept = active
    BY <1>3 DEF MaintainRoute
  <2>2. active # NoActive /\ active.serves = mission
    BY <1>3 DEF MustReroute
  <2> HIDE DEF kept
  <2> QED BY <1>3, <2>1, <2>2 DEF FollowingTypes, kept
<1> QED BY <1>1, <1>2, <1>3

(* Step 5c: the leg goal is placed on the route, and its distance watched. *)
LEMMA LedRoute ==
  ASSUME NEW ar, IsActive(ar), NEW p \in Point
  PROVE  LET led  == AdvanceLeg(ar, p)
             goal == LegGoal(ar, p)
             d    == Squared(p, goal.at)
             gain == ar.goalS # goal.s \/ ar.best = Farther \/ d < ar.best
         IN  /\ led = [ route |-> ar.route, serves |-> ar.serves, goalS |-> goal.s,
                        goalLink |-> goal.link, best |-> IF gain THEN d ELSE ar.best,
                        age |-> IF gain THEN 0
                                ELSE IF ar.age < BlockAfter THEN ar.age + 1 ELSE ar.age ]
             /\ IsActive(led) /\ led.goalS # NoArc /\ led # NoActive
             /\ d \in Nat /\ led.best \in Nat /\ led.best <= d
<1> DEFINE goal == LegGoal(ar, p)
           d    == Squared(p, goal.at)
           gain == ar.goalS # goal.s \/ ar.best = Farther \/ d < ar.best
           best == IF gain THEN d ELSE ar.best
           age  == IF gain THEN 0 ELSE IF ar.age < BlockAfter THEN ar.age + 1 ELSE ar.age
           led  == [ route |-> ar.route, serves |-> ar.serves, goalS |-> goal.s,
                     goalLink |-> goal.link, best |-> best, age |-> age ]
<1>1. /\ Drivable(ar.route) /\ Labelled(ar.route) /\ ar.best \in Nat \cup {Farther} /\ ar.age \in 0 .. BlockAfter
      /\ ar.goalS \in {NoArc} \cup (0 .. RouteLength(ar.route))
      /\ ar = [ route |-> ar.route, serves |-> ar.serves, goalS |-> ar.goalS,
                goalLink |-> ar.goalLink, best |-> ar.best, age |-> ar.age ]
  BY DEF IsActive
<1>2. goal.s \in 0 .. RouteLength(ar.route) /\ goal.at \in Point
  BY <1>1, LegGoalIsOnRoute
<1>3. AdvanceLeg(ar, p) = [ ar EXCEPT !.goalS = goal.s, !.goalLink = goal.link,
                                      !.best = best, !.age = age ]
  <2> HIDE DEF goal
  <2>1. AdvanceLeg(ar, p) = [ ar EXCEPT !.goalS = goal.s, !.goalLink = goal.link,
                                        !.best = IF gain THEN d ELSE @,
                                        !.age = IF gain THEN 0
                                                ELSE IF @ < BlockAfter THEN @ + 1 ELSE @ ]
    BY Zenon DEF AdvanceLeg, goal
  <2> QED BY <2>1, Zenon
<1> HIDE DEF goal
<1>4. d \in Nat
  BY <1>2, SquaredIsNatural
<1> HIDE DEF d
<1>5. best \in Nat /\ best <= d /\ age \in 0 .. BlockAfter
  BY <1>1, <1>4, FollowingConstants DEF Farther
<1> HIDE DEF best, age, gain
<1>6. AdvanceLeg(ar, p) = led
  BY <1>1, <1>3
<1>7. /\ led.route = ar.route /\ led.goalS = goal.s /\ led.best = best /\ led.age = age
      /\ led = [ route |-> led.route, serves |-> led.serves, goalS |-> led.goalS,
                 goalLink |-> led.goalLink, best |-> led.best, age |-> led.age ]
  OBVIOUS
<1> HIDE DEF led
<1>8. IsActive(led)
  BY <1>1, <1>2, <1>5, <1>7 DEF IsActive
<1>9. led.goalS # NoArc
  <2>1. RouteLength(ar.route) \in Nat \/ TRUE
    OBVIOUS
  <2> QED BY <1>2, <1>7 DEF NoArc
<1>10. led # NoActive
  BY <1>1, <1>7, ActiveHasRoute
<1> QED BY <1>4, <1>5, <1>6, <1>7, <1>8, <1>9, <1>10 DEF led, goal, d, gain, best, age

(* Pausing the watchdog touches nothing but its time.                      *)
LEMMA PausedRoute ==
  ASSUME NEW ar, IsActive(ar), NEW mode
  PROVE  /\ Pause(ar, mode) = [ route |-> ar.route, serves |-> ar.serves, goalS |-> ar.goalS,
                                goalLink |-> ar.goalLink, best |-> ar.best,
                                age |-> IF mode = "recover" THEN 0 ELSE ar.age ]
         /\ IsActive(Pause(ar, mode)) /\ Pause(ar, mode) # NoActive
<1> DEFINE paused == Pause(ar, mode)
           after == [ route |-> ar.route, serves |-> ar.serves, goalS |-> ar.goalS,
                      goalLink |-> ar.goalLink, best |-> ar.best,
                      age |-> IF mode = "recover" THEN 0 ELSE ar.age ]
<1>1. /\ ar = [ route |-> ar.route, serves |-> ar.serves, goalS |-> ar.goalS,
                goalLink |-> ar.goalLink, best |-> ar.best, age |-> ar.age ]
      /\ Drivable(ar.route) /\ BlockAfter \in Nat
  BY FollowingConstants DEF IsActive
<1>2. ar # NoActive
  BY <1>1, ActiveHasRoute
<1>3. paused = after
  <2>1. CASE mode = "recover"
    <3>1. paused = [ar EXCEPT !.age = 0]
      BY <1>2, <2>1 DEF Pause
    <3> HIDE DEF paused
    <3> QED BY <1>1, <2>1, <3>1
  <2>2. CASE mode # "recover"
    BY <1>1, <2>2 DEF Pause
  <2> QED BY <2>1, <2>2
<1> HIDE DEF paused
<1>4. /\ after.route = ar.route /\ after.goalS = ar.goalS /\ after.best = ar.best
      /\ after = [ route |-> after.route, serves |-> after.serves, goalS |-> after.goalS,
                   goalLink |-> after.goalLink, best |-> after.best, age |-> after.age ]
      /\ after.age \in {0, ar.age}
  OBVIOUS
<1> HIDE DEF after
<1>5. IsActive(after) /\ after # NoActive
  <2>1. after.age \in 0 .. BlockAfter
    BY <1>1, <1>4 DEF IsActive
  <2>2. IsActive(after)
    BY <1>4, <2>1 DEF IsActive
  <2> QED BY <1>1, <1>4, <2>2, ActiveHasRoute
<1> QED BY <1>3, <1>5 DEF paused, after

(* After steps 5b and 5c there is no route, or one that serves the mission *)
(* with its leg goal placed.                                               *)
LEMMA LedServes ==
  ASSUME FollowingTypes, NEW p \in Places
  PROVE  LET led  == Led(p)
             kept == MaintainRoute(p)
         IN  \/ led = NoActive /\ kept = NoActive
             \/ /\ mission # 0 /\ kept # NoActive /\ IsActive(kept) /\ kept.serves = mission
                /\ led = AdvanceLeg(kept, p) /\ IsActive(led) /\ led # NoActive
                /\ led.goalS # NoArc /\ led.route = kept.route
                /\ led.goalS = LegGoal(kept, p).s /\ led.goalLink = LegGoal(kept, p).link
                /\ led.goalLink \in Link
<1> DEFINE kept == MaintainRoute(p)
           led == Led(p)
<1>1. p \in Point
  BY FollowingConstants
<1>2. CASE kept = NoActive
  BY <1>2 DEF Led
<1>3. CASE kept # NoActive
  <2>1. mission # 0 /\ IsActive(kept) /\ kept.serves = mission
    BY <1>3, MaintainedRoute
  <2>2. led = AdvanceLeg(kept, p)
    BY <1>3 DEF Led
  <2> HIDE DEF kept, led
  <2>3. IsActive(led) /\ led.goalS # NoArc /\ led # NoActive
    BY <1>1, <2>1, <2>2, LedRoute
  <2>4. led.route = kept.route /\ led.goalS = LegGoal(kept, p).s
        /\ led.goalLink = LegGoal(kept, p).link
    BY <1>1, <2>1, <2>2, LedRoute
  <2>5. LegGoal(kept, p).link \in Link
    BY <1>1, <2>1, LegGoalIsOnRoute DEF IsActive
  <2> QED BY <1>3, <2>1, <2>2, <2>3, <2>4, <2>5 DEF kept, led
<1> QED BY <1>2, <1>3

(* What a cycle does to the route and the blocks.                          *)
LEMMA CycleStep ==
  ASSUME FollowingTypes, NEW p \in Places, Cycle(p)
  PROVE  LET led == Led(p)
         IN  /\ robot' = p /\ mission' = mission
             /\ \/ /\ active' = NoActive /\ led # NoActive
                   /\ blocked' = ReportBlocked(Elapse(blocked), led.goalLink)
                   /\ held' = 0
                \/ /\ blocked' = Elapse(blocked)
                   /\ \E mode \in Modes :
                        /\ active' = Pause(led, mode)
                        /\ \/ held' = 0
                           \/ /\ p = robot /\ mission # 0 /\ NearNetwork(p)
                              /\ held' = AtMost(held + 1, HeldBound + 1)
                              /\ mode # "recover"
                              /\ led # NoActive => led.age < BlockAfter
             /\ fails' \in 0 .. BlameFails /\ sincePlan' \in 0 .. ReplanEvery
<1> DEFINE led == Led(p)
<1>1. PICK mode \in Modes, found \in BOOLEAN :
        LET since == IF sincePlan < ReplanEvery THEN sincePlan + 1 ELSE sincePlan
            due   == mode # "halt" /\ since >= ReplanEvery
            count == Fails(due, found, led)
            blame == Blames(led, mode, count)
            left  == Elapse(blocked)
            still == p = robot /\ mission # 0 /\ mode # "recover" /\ NearNetwork(p)
        IN  /\ due \/ found
            /\ robot' = p
            /\ sincePlan' = (IF due THEN 0 ELSE since)
            /\ fails' = count
            /\ blocked' = (IF blame THEN ReportBlocked(left, led.goalLink) ELSE left)
            /\ active' = (IF blame THEN NoActive ELSE Pause(led, mode))
            /\ held' = (IF still /\ ~blame THEN AtMost(held + 1, HeldBound + 1) ELSE 0)
            /\ UNCHANGED mission
  <2>1. PICK d \in {led} : \E mode \in Modes, found \in BOOLEAN :
        LET since == IF sincePlan < ReplanEvery THEN sincePlan + 1 ELSE sincePlan
            due   == mode # "halt" /\ since >= ReplanEvery
            count == Fails(due, found, d)
            blame == Blames(d, mode, count)
            left  == Elapse(blocked)
            still == p = robot /\ mission # 0 /\ mode # "recover" /\ NearNetwork(p)
        IN  /\ due \/ found
            /\ robot' = p
            /\ sincePlan' = (IF due THEN 0 ELSE since)
            /\ fails' = count
            /\ blocked' = (IF blame THEN ReportBlocked(left, d.goalLink) ELSE left)
            /\ active' = (IF blame THEN NoActive ELSE Pause(d, mode))
            /\ held' = (IF still /\ ~blame THEN AtMost(held + 1, HeldBound + 1) ELSE 0)
            /\ UNCHANGED mission
    BY Zenon DEF Cycle
  <2>2. d = led
    OBVIOUS
  <2> HIDE DEF led
  <2> QED BY <2>1, <2>2, Zenon
<1> DEFINE since == IF sincePlan < ReplanEvery THEN sincePlan + 1 ELSE sincePlan
           due   == mode # "halt" /\ since >= ReplanEvery
           count == Fails(due, found, led)
           blame == Blames(led, mode, count)
           left  == Elapse(blocked)
           still == p = robot /\ mission # 0 /\ mode # "recover" /\ NearNetwork(p)
<1>2. since \in 0 .. ReplanEvery
  BY FollowingConstants DEF FollowingTypes
<1>3. count \in 0 .. BlameFails
  <2> HIDE DEF due, led
  <2> QED BY FollowingConstants DEF Fails, FollowingTypes
<1>4. blame => led # NoActive
  BY DEF Blames
<1>5. ~blame /\ mode # "recover" /\ led # NoActive => ~(led.age >= BlockAfter)
  <2> HIDE DEF led, count
  <2> QED BY Zenon DEF Blames
<1>6. led # NoActive => led.age \in Nat
  <2>1. led # NoActive => IsActive(led)
    BY LedServes
  <2> HIDE DEF led
  <2> QED BY <2>1, FollowingConstants DEF IsActive
<1>7. /\ robot' = p /\ mission' = mission
      /\ sincePlan' = (IF due THEN 0 ELSE since)
      /\ fails' = count
      /\ blocked' = (IF blame THEN ReportBlocked(left, led.goalLink) ELSE left)
      /\ active' = (IF blame THEN NoActive ELSE Pause(led, mode))
      /\ held' = (IF still /\ ~blame THEN AtMost(held + 1, HeldBound + 1) ELSE 0)
  BY <1>1, Zenon
<1> HIDE DEF led, blame, count, since, due
<1>8. sincePlan' \in 0 .. ReplanEvery /\ fails' \in 0 .. BlameFails
  BY <1>2, <1>3, <1>7, FollowingConstants
<1>9. CASE blame
  BY <1>4, <1>7, <1>8, <1>9 DEF led
<1>10. CASE ~blame
  <2>1. led # NoActive => mode = "recover" \/ led.age < BlockAfter
    BY <1>5, <1>6, <1>10, FollowingConstants
  <2>2. \/ held' = 0
        \/ /\ p = robot /\ mission # 0 /\ NearNetwork(p)
           /\ held' = AtMost(held + 1, HeldBound + 1) /\ mode # "recover"
    BY <1>7, <1>10
  <2>3. blocked' = Elapse(blocked) /\ active' = Pause(led, mode)
    BY <1>7, <1>10
  <2> QED BY <1>1, <1>7, <1>8, <2>1, <2>2, <2>3 DEF led
<1> QED BY <1>9, <1>10

(* A cycle off every block leaves none at its full time but a new one.     *)
LEMMA ElapseKeepsBlocks ==
  ASSUME NEW blocks \in [Link -> 0 .. BlockedTimeout]
  PROVE  /\ Elapse(blocks) \in [Link -> 0 .. BlockedTimeout]
         /\ \A l \in Link : Elapse(blocks)[l] < BlockedTimeout
         /\ \A l \in Link : ReportBlocked(Elapse(blocks), l) \in [Link -> 0 .. BlockedTimeout]
         /\ \A l, k \in Link : k # l => ReportBlocked(Elapse(blocks), l)[k] < BlockedTimeout
<1>1. BlockedTimeout \in Nat \ {0}
  BY FollowingConstants
<1> DEFINE left == Elapse(blocks)
<1>2. ASSUME NEW l \in Link PROVE left[l] \in 0 .. BlockedTimeout /\ left[l] < BlockedTimeout
  BY <1>1 DEF Elapse
<1>3. left = [l \in Link |-> left[l]]
  BY DEF Elapse
<1> HIDE DEF left
<1>4. left \in [Link -> 0 .. BlockedTimeout]
  BY <1>2, <1>3
<1>5. ASSUME NEW l \in Link
      PROVE  /\ ReportBlocked(left, l) \in [Link -> 0 .. BlockedTimeout]
             /\ \A k \in Link : k # l => ReportBlocked(left, l)[k] = left[k]
  BY <1>1, <1>4 DEF ReportBlocked
<1> QED BY <1>2, <1>4, <1>5 DEF left

(* The types hold of every reachable state.                                *)
LEMMA FollowingStarts == RouteInit => FollowingTypes
<1> SUFFICES ASSUME RouteInit PROVE FollowingTypes
  OBVIOUS
<1>1. blocked \in [Link -> 0 .. BlockedTimeout]
  BY FollowingConstants DEF RouteInit, NoBlocks
<1> QED BY <1>1, FollowingConstants DEF RouteInit, FollowingTypes, HeldBound

(* Every step keeps the types.                                             *)
LEMMA FollowingKept ==
  FollowingTypes /\ [RouteNext]_vars => FollowingTypes'
<1> SUFFICES ASSUME FollowingTypes, [RouteNext]_vars PROVE FollowingTypes'
  OBVIOUS
<1> USE FollowingConstants
<1>1. ASSUME PlanningCycle PROVE FollowingTypes'
  <2>1. PICK p \in Places : Cycle(p)
    BY <1>1 DEF PlanningCycle
  <2> DEFINE led == Led(p)
  <2>2. /\ robot' = p /\ mission' = mission
        /\ \/ /\ active' = NoActive /\ led # NoActive
              /\ blocked' = ReportBlocked(Elapse(blocked), led.goalLink)
              /\ held' = 0
           \/ /\ blocked' = Elapse(blocked)
              /\ \E mode \in Modes : active' = Pause(led, mode)
              /\ held' = 0 \/ held' = AtMost(held + 1, HeldBound + 1)
        /\ fails' \in 0 .. BlameFails /\ sincePlan' \in 0 .. ReplanEvery
    BY <2>1, CycleStep
  <2>3. led # NoActive => IsActive(led) /\ led.goalS # NoArc /\ led.goalLink \in Link
    BY LedServes
  <2> HIDE DEF led
  <2>4. blocked' \in [Link -> 0 .. BlockedTimeout]
    BY <2>2, <2>3, ElapseKeepsBlocks DEF FollowingTypes
  <2>5. active' # NoActive => IsActive(active') /\ active'.goalS # NoArc
    <3>1. ASSUME NEW mode \in Modes, active' = Pause(led, mode), active' # NoActive
          PROVE  IsActive(active') /\ active'.goalS # NoArc
      <4>1. led # NoActive
        BY <3>1 DEF Pause
      <4>2. IsActive(Pause(led, mode)) /\ Pause(led, mode).goalS = led.goalS
        BY <2>3, <4>1, PausedRoute
      <4> QED BY <2>3, <3>1, <4>1, <4>2
    <3> QED BY <2>2, <3>1
  <2>6. held' \in 0 .. HeldBound + 1
    BY <2>2 DEF AtMost, HeldBound, FollowingTypes
  <2>7. robot' \in Places /\ mission' \in 0 .. Len(Goals)
    BY <2>2 DEF FollowingTypes
  <2>8. active' # NoActive => (IsActive(active))' /\ active'.goalS # NoArc
    BY <2>5 DEF IsActive
  <2> QED BY <2>2, <2>4, <2>6, <2>7, <2>8 DEF FollowingTypes
<1>2. ASSUME NewMission PROVE FollowingTypes'
  BY <1>2 DEF NewMission, FollowingTypes, HeldBound, IsActive
<1>3. ASSUME UNCHANGED vars PROVE FollowingTypes'
  BY <1>3 DEF vars, FollowingTypes, IsActive
<1> QED BY <1>1, <1>2, <1>3 DEF RouteNext

(* Of every reachable state: the blocks run within their time, the route   *)
(* that is followed is drivable, with its leg goal placed on it, and the   *)
(* watchdog's time, the failed replans and the replan timer stay within    *)
(* their limits (step 5b and 5c, main.rs).                                 *)
THEOREM RouteTypes == RouteSpec => []FollowingTypes
<1> QED BY FollowingStarts, FollowingKept, PTL DEF RouteSpec

(* Whatever the network, if no two of its links run along one another: the *)
(* route computed for any waypoint takes the least time there is around    *)
(* the blocked links, drives none of them from end to end unless every way *)
(* does, and is missing only if there is no way (roadmap.rs, `route`).     *)
THEOREM RoutesAreQuickest ==
  ASSUME LinksApart
  PROVE  RouteSpec => []QuickestAroundBlocks
<1>1. ASSUME FollowingTypes PROVE QuickestAroundBlocks
  <2> SUFFICES ASSUME NEW m \in DOMAIN Goals
               PROVE  LET route  == Route(robot, Goals[m], blocked)
                          start  == Snap(robot)
                          finish == Snap(Goals[m])
                          open   == {l \in Link : ~IsBlocked(blocked, l)}
                          around == LeastTime(Edges(start, finish, open))
                          least  == IF around # Never THEN around
                                    ELSE LeastTime(Edges(start, finish, Link))
                          inner  == {LinkUnder(route.at[i], route.at[i + 1]) :
                                       i \in 2 .. Len(route.at) - 2}
                      IN  IF route = NoRoute THEN least = Never
                          ELSE /\ route.at[1] = start.at /\ Last(route.at) = finish.at
                               /\ TimeOnLinks(route) = least
                               /\ around # Never => inner \subseteq open
    BY Zenon DEF QuickestAroundBlocks
  <2> DEFINE route  == Route(robot, Goals[m], blocked)
             start  == Snap(robot)
             finish == Snap(Goals[m])
             open   == {l \in Link : ~IsBlocked(blocked, l)}
             around == LeastTime(Edges(start, finish, open))
             used   == IF around # Never THEN open ELSE Link
             least  == LeastTime(Edges(start, finish, used))
             inner  == {LinkUnder(route.at[i], route.at[i + 1]) : i \in 2 .. Len(route.at) - 2}
  <2>1. robot \in Point /\ Goals[m] \in Point
    BY <1>1, FollowingConstants DEF FollowingTypes
  <2>2. Quickest(route, start, finish, used)
    BY <2>1, RouteIsQuickest
  <2>3. least = IF around # Never THEN around ELSE LeastTime(Edges(start, finish, Link))
    BY Zenon
  <2>4. around # Never => used = open
    BY Zenon
  <2> HIDE DEF route, start, finish, open, around, used
  <2>5. IF route = NoRoute THEN least = Never
        ELSE /\ Leads(route, start, finish) /\ TimeOnLinks(route) = least
             /\ \A i \in 2 .. Len(route.at) - 2 : LinkUnder(route.at[i], route.at[i + 1]) \in used
    BY <2>2, Zenon DEF Quickest
  <2>6. route # NoRoute => inner \subseteq used
    BY <2>5
  <2> HIDE DEF inner, least
  <2>7. IF route = NoRoute THEN least = Never
        ELSE /\ route.at[1] = start.at /\ Last(route.at) = finish.at
             /\ TimeOnLinks(route) = least
             /\ around # Never => inner \subseteq open
    BY <2>4, <2>5, <2>6, Zenon DEF Leads
  <2> QED BY <2>3, <2>7, Zenon DEF route, start, finish, open, around, inner
<1> QED BY <1>1, RouteTypes, PTL

(* Wherever the robot moves, the leg goal is farther ahead than minLeg or  *)
(* is the end of the route (advance_goal_arc): every cycle places it from  *)
(* where the robot is by then, so the property is inductive as it stands.  *)
THEOREM LegGoalStaysAhead == RouteSpec => []LegGoalIsAhead
<1>1. RouteInit => LegGoalIsAhead
  BY DEF RouteInit, LegGoalIsAhead
<1>2. ASSUME FollowingTypes, LegGoalIsAhead, [RouteNext]_vars PROVE LegGoalIsAhead'
  <2>1. ASSUME PlanningCycle PROVE LegGoalIsAhead'
    <3>1. PICK p \in Places : Cycle(p)
      BY <2>1 DEF PlanningCycle
    <3> DEFINE led == Led(p)
               kept == MaintainRoute(p)
               end == RouteLength(led.route)
               s == ProjectOntoRoute(led.route, p).s
    <3>2. robot' = p /\ (active' = NoActive \/ \E mode \in Modes : active' = Pause(led, mode))
      BY <1>2, <3>1, CycleStep
    <3>3. led # NoActive =>
            /\ IsActive(led) /\ IsActive(kept) /\ led.route = kept.route
            /\ led.goalS = LegGoal(kept, p).s
      BY <1>2, LedServes
    <3>4. led # NoActive => led.goalS > s + LegMin \/ led.goalS = end
      <4> SUFFICES ASSUME led # NoActive PROVE led.goalS > s + LegMin \/ led.goalS = end
        OBVIOUS
      <4>1. p \in Point /\ Drivable(kept.route)
            /\ kept.goalS \in {NoArc} \cup (0 .. RouteLength(kept.route))
        BY <3>3, FollowingConstants DEF IsActive
      <4> HIDE DEF kept, led
      <4>2. LegGoal(kept, p).s > ProjectOntoRoute(kept.route, p).s + LegMin
            \/ LegGoal(kept, p).s = RouteLength(kept.route)
        BY <4>1, LegGoalIsOnRoute
      <4> QED BY <3>3, <4>2
    <3> HIDE DEF led
    <3>5. ASSUME active' # NoActive
          PROVE  led # NoActive /\ active'.goalS = led.goalS /\ active'.route = led.route
      <4>1. PICK mode \in Modes : active' = Pause(led, mode)
        BY <3>2, <3>5
      <4>2. led # NoActive
        BY <3>5, <4>1 DEF Pause
      <4> QED BY <3>3, <4>1, <4>2, PausedRoute
    <3> QED BY <3>2, <3>4, <3>5 DEF LegGoalIsAhead
  <2>2. ASSUME NewMission PROVE LegGoalIsAhead'
    BY <1>2, <2>2 DEF NewMission, LegGoalIsAhead
  <2>3. ASSUME UNCHANGED vars PROVE LegGoalIsAhead'
    BY <1>2, <2>3 DEF vars, LegGoalIsAhead
  <2> QED BY <1>2, <2>1, <2>2, <2>3 DEF RouteNext
<1> QED BY <1>1, <1>2, RouteTypes, PTL DEF RouteSpec

(* On one route the leg goal never moves back, whichever way the robot     *)
(* does and however its projection jumps between the legs.                 *)
THEOREM LegGoalHoldsGround == RouteSpec => LegGoalNeverRetreats
<1>1. ASSUME FollowingTypes, [RouteNext]_vars
      PROVE  [SameRoute => active'.goalS >= active.goalS]_vars
  <2> SUFFICES ASSUME SameRoute, RouteNext PROVE active'.goalS >= active.goalS
    BY <1>1
  <2>1. active # NoActive /\ IsActive(active) /\ active.goalS # NoArc
    BY <1>1 DEF SameRoute, FollowingTypes
  <2>2. active.goalS \in Nat
    <3>1. RouteLength(active.route) \in Nat
      <4>1. /\ Len(active.route.at) \in 1 .. Len(active.route.at)
            /\ Arcs(active.route) \in [1 .. Len(active.route.at) -> Nat]
        BY <2>1, ArcsGrow, DrivablePlaces DEF IsActive
      <4> QED BY <4>1 DEF RouteLength
    <3> QED BY <2>1, <3>1 DEF IsActive, NoArc
  <2>3. CASE PlanningCycle
    <3>1. PICK p \in Places : Cycle(p)
      BY <2>3 DEF PlanningCycle
    <3> DEFINE led == Led(p)
               kept == MaintainRoute(p)
    <3>2. robot' = p /\ (active' = NoActive \/ \E mode \in Modes : active' = Pause(led, mode))
      BY <1>1, <3>1, CycleStep
    <3>3. PICK mode \in Modes : active' = Pause(led, mode)
      BY <3>2 DEF SameRoute
    <3>4. led # NoActive
      BY <3>3 DEF Pause, SameRoute
    <3>5. kept # NoActive /\ IsActive(led) /\ led.goalS = LegGoal(kept, p).s /\ mission # 0
      BY <1>1, <3>4, LedServes
    <3>6. kept = active
      BY <3>2, <3>5 DEF MaintainRoute, SameRoute
    <3>7. active'.goalS = led.goalS
      <4> HIDE DEF led
      <4> QED BY <3>3, <3>5, PausedRoute
    <3> HIDE DEF led, kept
    <3>8. LegGoal(active, p).s >= active.goalS
      <4>1. p \in Point
        BY FollowingConstants
      <4> QED BY <2>1, <4>1, LegGoalIsOnRoute DEF IsActive
    <3> QED BY <3>5, <3>6, <3>7, <3>8
  <2>4. CASE NewMission
    BY <2>2, <2>4 DEF NewMission
  <2> QED BY <2>3, <2>4 DEF RouteNext
<1> QED BY <1>1, RouteTypes, PTL DEF RouteSpec, LegGoalNeverRetreats

(* A link that is reported blocked is the one under the leg goal, on a     *)
(* segment the robot has not left behind, unless the leg goal is on the    *)
(* last leg to a waypoint at a node; on every network, whatever modes,     *)
(* failed replans, deviations and blocks (step 6a, main.rs).               *)
THEOREM OnlyLinksAheadAreBlamed == RouteSpec => BlameIsAhead
<1> DEFINE Ahead(l) ==
      LET led == Led(robot')
      IN  /\ led # NoActive
          /\ \/ OnLastLegToNode(led.route, led.goalS)
             \/ Carries(led.route, robot', led.goalS, l)
<1>1. ASSUME FollowingTypes, [RouteNext]_vars
      PROVE  [\A l \in Link : Reported(l) => Ahead(l)]_vars
  <2> SUFFICES ASSUME RouteNext, NEW l \in Link, Reported(l) PROVE Ahead(l)
    BY <1>1
  <2>1. CASE PlanningCycle
    <3>1. PICK p \in Places : Cycle(p)
      BY <2>1 DEF PlanningCycle
    <3> DEFINE led == Led(p)
               kept == MaintainRoute(p)
               route == led.route
               g == led.goalS
               n == Len(route.at)
               arcs == Arcs(route)
    <3>2. robot' = p
          /\ \/ led # NoActive /\ blocked' = ReportBlocked(Elapse(blocked), led.goalLink)
             \/ blocked' = Elapse(blocked)
      BY <1>1, <3>1, CycleStep
    <3>3. blocked \in [Link -> 0 .. BlockedTimeout] /\ blocked'[l] = BlockedTimeout
      BY <1>1 DEF FollowingTypes, Reported
    <3>4. led # NoActive /\ blocked' = ReportBlocked(Elapse(blocked), led.goalLink)
      BY <3>2, <3>3, FollowingConstants, ElapseKeepsBlocks
    <3>5. /\ IsActive(kept) /\ route = kept.route /\ g = LegGoal(kept, p).s
          /\ led.goalLink = LegGoal(kept, p).link /\ led.goalLink \in Link
      BY <1>1, <3>4, LedServes
    <3> HIDE DEF led
    <3>6. l = LegGoal(kept, p).link
      BY <3>3, <3>4, <3>5, FollowingConstants, ElapseKeepsBlocks
    <3>7. p \in Point
      BY FollowingConstants
    <3> HIDE DEF kept
    <3>8. Drivable(route) /\ Labelled(route)
          /\ kept.goalS \in {NoArc} \cup (0 .. RouteLength(kept.route))
      BY <3>5 DEF IsActive
    <3> HIDE DEF route, g
    <3>9. /\ n = 1 => l = route.link[1]
          /\ n > 1 => \E i \in ProjectOntoRoute(route, p).segment .. n - 1 :
               l = route.link[i] /\ arcs[i] < g /\ g <= arcs[i + 1]
      BY <3>5, <3>6, <3>7, <3>8, LegGoalIsOnRoute
    <3>10. n \in Nat \ {0} /\ arcs \in [1 .. n -> Nat]
      BY <3>8, DrivablePlaces, ArcsGrow
    <3>11. /\ n > 1 => ProjectOntoRoute(route, p).segment \in 1 .. n - 1
           /\ g \in Nat
      <4>1. g \in 0 .. RouteLength(route) /\ RouteLength(route) \in Nat
        BY <3>5, <3>7, <3>8, <3>10, LegGoalIsOnRoute DEF RouteLength
      <4> QED BY <3>7, <3>8, <4>1, ProjectionIsOnRoute
    <3>12. /\ n = 1 => OnLink(route.at[1], route.link[1])
           /\ \A i \in 1 .. n - 1 :
                \/ OnLink(route.at[i], route.link[i]) /\ OnLink(route.at[i + 1], route.link[i])
                \/ i = n - 1 /\ \E k \in Node : At[k] = route.at[n]
      BY <3>8, Zenon DEF Labelled
    <3>13. OnLastLegToNode(route, g) \/ Carries(route, p, g, l)
      <4>1. CASE n = 1
        BY <3>9, <3>12, <4>1 DEF Carries
      <4>2. CASE n # 1
        <5>1. n > 1
          <6> HIDE DEF n
          <6> QED BY <3>10, <4>2
        <5> DEFINE seg == ProjectOntoRoute(route, p).segment
        <5>2. seg \in 1 .. n - 1
          BY <3>11, <5>1
        <5>3. PICK i \in seg .. n - 1 : l = route.link[i] /\ arcs[i] < g /\ g <= arcs[i + 1]
          BY <3>9, <5>1
        <5> HIDE DEF seg
        <5>4. i \in 1 .. n - 1 /\ i \in 1 .. n
          BY <3>10, <5>2, <5>3
        <5>5. arcs[i] \in Nat
          BY <3>10, <5>4
        <5> HIDE DEF n, arcs
        <5>6. CASE OnLink(route.at[i], l) /\ OnLink(route.at[i + 1], l)
          <6>1. arcs[i] <= g
            BY <3>11, <5>3, <5>5
          <6> QED BY <5>3, <5>6, <6>1, Zenon DEF Carries, n, arcs, seg
        <5>7. CASE i = n - 1 /\ \E k \in Node : At[k] = route.at[n]
          <6>1. g > arcs[n - 1]
            BY <3>11, <5>3, <5>5, <5>7
          <6> QED BY <5>1, <5>7, <6>1, Zenon DEF OnLastLegToNode, n, arcs
        <5> QED BY <3>12, <5>3, <5>4, <5>6, <5>7
      <4> QED BY <4>1, <4>2
    <3> QED BY <3>2, <3>4, <3>13 DEF led, route, g
  <2>2. CASE NewMission
    BY <2>2 DEF NewMission, Reported
  <2> QED BY <2>1, <2>2 DEF RouteNext
<1> QED BY <1>1, RouteTypes, PTL DEF RouteSpec, BlameIsAhead

(* Squares grow with the distance.                                         *)
LEMMA SquaresGrow ==
  ASSUME NEW d \in Int, NEW e \in Int, \/ 0 <= d /\ d <= e
                                       \/ e <= d /\ d <= 0
  PROVE  d * d <= e * e
<1>1. ASSUME NEW m \in Nat, NEW k \in Nat PROVE m * m <= (m + k) * (m + k)
  <2>1. (m + k) * (m + k) = m * m + m * k + m * k + k * k
    OBVIOUS
  <2>2. m * k \in Nat /\ k * k \in Nat /\ m * m \in Nat
    OBVIOUS
  <2> QED BY <2>1, <2>2
<1>2. CASE 0 <= d /\ d <= e
  <2>1. d \in Nat /\ e - d \in Nat /\ e = d + (e - d)
    BY <1>2
  <2>2. d * d <= (d + (e - d)) * (d + (e - d))
    BY <1>1, <2>1
  <2> QED BY <2>1, <2>2
<1>3. CASE e <= d /\ d <= 0
  <2> DEFINE m == - d
             k == d - e
  <2>1. m \in Nat /\ k \in Nat /\ m + k = - e /\ m = - d
    BY <1>3
  <2>2. m * m <= (m + k) * (m + k)
    BY <1>1, <2>1
  <2> HIDE DEF m, k
  <2>3. m * m <= (- e) * (- e)
    BY <2>1, <2>2
  <2>4. (- d) * (- d) = d * d /\ (- e) * (- e) = e * e
    OBVIOUS
  <2> QED BY <2>1, <2>3, <2>4
<1> QED BY <1>2, <1>3

(* The nearest point of a segment is no farther than its first end.        *)
LEMMA NearestIsNoFarther ==
  ASSUME NEW p \in Point, NEW a \in Point, NEW b \in Point
  PROVE  Squared(p, Nearest(p, a, b)) <= Squared(p, a)
<1>1. ASSUME NEW v \in Int, NEW c \in Int, NEW d \in Int
      PROVE  /\ Clamp(v, c, d) \in Int
             /\ (v - Clamp(v, c, d)) * (v - Clamp(v, c, d)) <= (v - c) * (v - c)
  <2> DEFINE w == Clamp(v, c, d)
  <2>1. w \in Int
    BY DEF Clamp
  <2>2. \/ 0 <= v - w /\ v - w <= v - c
        \/ v - c <= v - w /\ v - w <= 0
    BY DEF Clamp
  <2> HIDE DEF w
  <2>3. (v - w) * (v - w) <= (v - c) * (v - c)
    <3>1. v - w \in Int /\ v - c \in Int
      BY <2>1
    <3> QED BY <2>2, <3>1, SquaresGrow
  <2> QED BY <2>1, <2>3 DEF w
<1>2. p.x \in Int /\ p.y \in Int /\ a.x \in Int /\ a.y \in Int /\ b.x \in Int /\ b.y \in Int
  BY DEF Point
<1> DEFINE x == Clamp(p.x, a.x, b.x)
           y == Clamp(p.y, a.y, b.y)
<1>3. x \in Int /\ (p.x - x) * (p.x - x) <= (p.x - a.x) * (p.x - a.x)
  BY <1>1, <1>2
<1>4. y \in Int /\ (p.y - y) * (p.y - y) <= (p.y - a.y) * (p.y - a.y)
  BY <1>1, <1>2
<1>5. Nearest(p, a, b) = [x |-> x, y |-> y]
  BY DEF Nearest
<1> HIDE DEF x, y
<1>6. Squared(p, Nearest(p, a, b)) = (p.x - x) * (p.x - x) + (p.y - y) * (p.y - y)
  BY <1>5 DEF Squared
<1>7. Squared(p, a) = (p.x - a.x) * (p.x - a.x) + (p.y - a.y) * (p.y - a.y)
  BY DEF Squared
<1> DEFINE sx == (p.x - x) * (p.x - x)
           sy == (p.y - y) * (p.y - y)
           tx == (p.x - a.x) * (p.x - a.x)
           ty == (p.y - a.y) * (p.y - a.y)
<1>8. sx \in Nat /\ sy \in Nat /\ tx \in Nat /\ ty \in Nat
  <2>1. p.x - x \in Int /\ p.y - y \in Int /\ p.x - a.x \in Int /\ p.y - a.y \in Int
    BY <1>2, <1>3, <1>4
  <2> QED BY <2>1, SquareIsNatural
<1>9. sx <= tx /\ sy <= ty
  BY <1>3, <1>4
<1> HIDE DEF sx, sy, tx, ty
<1>10. Squared(p, Nearest(p, a, b)) = sx + sy /\ Squared(p, a) = tx + ty
  BY <1>6, <1>7 DEF sx, sy, tx, ty
<1> QED BY <1>8, <1>9, <1>10

(* A robot is as near to a route as to its first place, at least.          *)
LEMMA ProjectionIsNear ==
  ASSUME NEW route, Drivable(route), NEW p \in Point
  PROVE  ProjectOntoRoute(route, p).off <= Squared(p, route.at[1])
<1> DEFINE n == Len(route.at)
           at == route.at
           foot == [i \in 1 .. n - 1 |-> Nearest(p, at[i], at[i + 1])]
           off == [k \in DOMAIN foot |-> Squared(p, foot[k])]
           i == FirstLeast(off)
<1>1. n \in Nat \ {0} /\ \A k \in 1 .. n : at[k] \in Point
  BY DrivablePlaces
<1>2. CASE n < 2
  <2>1. ProjectOntoRoute(route, p).off = Squared(p, at[1])
    BY <1>2 DEF ProjectOntoRoute
  <2>2. Squared(p, at[1]) \in Nat
    BY <1>1, SquaredIsNatural
  <2> QED BY <2>1, <2>2
<1>3. CASE ~ n < 2
  <2>1. ProjectOntoRoute(route, p) =
          [ segment |-> i, s |-> Arcs(route)[i] + Span(at[i], foot[i]),
            off |-> Squared(p, foot[i]) ]
    BY <1>3, Zenon DEF ProjectOntoRoute, n, at
  <2> HIDE DEF n, at
  <2>2. DOMAIN foot = 1 .. n - 1 /\ n - 1 \in Nat \ {0}
    BY <1>1, <1>3
  <2>3. ASSUME NEW k \in 1 .. n - 1
        PROVE  off[k] = Squared(p, foot[k]) /\ off[k] \in Nat
               /\ foot[k] = Nearest(p, at[k], at[k + 1])
    <3>1. at[k] \in Point /\ at[k + 1] \in Point
      BY <1>1
    <3>2. foot[k] = Nearest(p, at[k], at[k + 1])
      OBVIOUS
    <3>3. foot[k] \in Point
      BY <3>1, <3>2, NearestIsBetween
    <3>4. off[k] = Squared(p, foot[k])
      BY <2>2
    <3> HIDE DEF foot, off
    <3> QED BY <3>2, <3>3, <3>4, SquaredIsNatural
  <2>4. off \in [1 .. n - 1 -> Nat]
    <3>1. off = [k \in 1 .. n - 1 |-> off[k]]
      BY <2>2
    <3> HIDE DEF off, foot
    <3> QED BY <2>3, <3>1
  <2> HIDE DEF off
  <2>5. i \in 1 .. n - 1 /\ \A k \in 1 .. n - 1 : off[i] <= off[k]
    BY <2>2, <2>4, FirstLeastExists
  <2> HIDE DEF foot, i
  <2>6. off[i] <= off[1] /\ 1 \in 1 .. n - 1 /\ off[i] \in Nat /\ off[1] \in Nat
    BY <2>2, <2>3, <2>5
  <2>7. off[1] <= Squared(p, at[1])
    <3>1. at[1] \in Point /\ at[1 + 1] \in Point
      BY <1>1, <1>3
    <3> QED BY <2>3, <2>6, <3>1, NearestIsNoFarther
  <2>8. ProjectOntoRoute(route, p).off = off[i]
    BY <2>1, <2>3, <2>5
  <2>9. Squared(p, at[1]) \in Nat
    BY <1>1, SquaredIsNatural
  <2> QED BY <2>6, <2>7, <2>8, <2>9 DEF at
<1> QED BY <1>2, <1>3

(* A leg goal that is ahead is kept.                                       *)
LEMMA LegGoalIsKept ==
  ASSUME NEW ar, Drivable(ar.route), NEW p \in Point,
         ar.goalS \in 0 .. RouteLength(ar.route),
         \/ ar.goalS > ProjectOntoRoute(ar.route, p).s + LegMin
         \/ ar.goalS = RouteLength(ar.route)
  PROVE  LegGoal(ar, p) = GoalAtArc(ar.route, ar.goalS)
<1> DEFINE arcs == Arcs(ar.route)
           vertices == {arcs[i] : i \in DOMAIN arcs \ {1}}
           end == RouteLength(ar.route)
           s == ProjectOntoRoute(ar.route, p).s
           prev == ar.goalS
<1>1. LegGoal(ar, p) =
        GoalAtArc(ar.route, AdvanceGoalArc(vertices, end, s, prev, LegMin, LegMax))
  BY DEF LegGoal
<1>2. end \in Nat
  <2>1. /\ Len(ar.route.at) \in 1 .. Len(ar.route.at)
        /\ Arcs(ar.route) \in [1 .. Len(ar.route.at) -> Nat]
    BY ArcsGrow, DrivablePlaces
  <2> QED BY <2>1 DEF RouteLength
<1>3. s \in 0 .. end
  BY ProjectionIsOnRoute
<1>4. prev \in 0 .. end /\ (prev > s + LegMin \/ prev = end)
  OBVIOUS
<1> HIDE DEF vertices, end, s, prev
<1>5. AdvanceGoalArc(vertices, end, s, prev, LegMin, LegMax) = prev
  <2>1. AtMost(prev, end) = prev /\ prev # NoArc /\ prev >= s
        /\ (prev - s > LegMin \/ prev >= end)
    BY <1>2, <1>3, <1>4, LegLimits DEF AtMost, NoArc
  <2> QED BY <2>1, Zenon DEF AdvanceGoalArc
<1> QED BY <1>1, <1>5 DEF prev

(* A leg goal is the place of the route at its arc position.               *)
LEMMA LegGoalPlace ==
  ASSUME NEW ar, Drivable(ar.route), NEW p \in Point,
         ar.goalS \in {NoArc} \cup (0 .. RouteLength(ar.route))
  PROVE  LegGoal(ar, p) = GoalAtArc(ar.route, LegGoal(ar, p).s)
<1> DEFINE arcs == Arcs(ar.route)
           vertices == {arcs[i] : i \in DOMAIN arcs \ {1}}
           g == AdvanceGoalArc(vertices, RouteLength(ar.route), ProjectOntoRoute(ar.route, p).s,
                               ar.goalS, LegMin, LegMax)
<1>1. LegGoal(ar, p) = GoalAtArc(ar.route, g)
  BY DEF LegGoal
<1> HIDE DEF g
<1>2. LegGoal(ar, p).s \in 0 .. RouteLength(ar.route)
  BY LegGoalIsOnRoute
<1>3. CASE Len(ar.route.at) < 2
  BY <1>1, <1>3 DEF GoalAtArc
<1>4. CASE ~ Len(ar.route.at) < 2
  <2>1. GoalAtArc(ar.route, g).s = g
    BY <1>4 DEF GoalAtArc
  <2> QED BY <1>1, <2>1
<1> QED BY <1>3, <1>4

(* Stale blocks strand nobody: where a way leads at all, one leads around  *)
(* or through whatever is blocked.                                         *)
THEOREM BlocksStrandNobody ==
  ASSUME NEW from \in Point, NEW to \in Point, NEW blocks,
         RouteSnapped(Snap(from), Snap(to), Link) # NoRoute
  PROVE  Route(from, to, blocks) # NoRoute
<1> DEFINE open == {l \in Link : ~IsBlocked(blocks, l)}
           around == RouteSnapped(Snap(from), Snap(to), open)
<1>1. CASE \E l \in Link : IsBlocked(blocks, l)
  BY <1>1 DEF Route
<1>2. CASE ~ \E l \in Link : IsBlocked(blocks, l)
  <2>1. open = Link
    BY <1>2
  <2>2. Route(from, to, blocks) = around
    BY <1>2, Zenon DEF Route
  <2> HIDE DEF open
  <2> QED BY <2>1, <2>2
<1> QED BY <1>1, <1>2

(* A way leads from wherever the robot may be to every waypoint.           *)
WaysExist ==
  \A p \in Places, m \in DOMAIN Goals : RouteSnapped(Snap(p), Snap(Goals[m]), Link) # NoRoute

(* A robot that is held keeps its route and its leg goal, has not come     *)
(* closer to it, and has been watched for as long as it is held.           *)
HeldIsWatched ==
  held > 0 =>
    /\ mission # 0 /\ active # NoActive /\ active.serves = mission
    /\ ProjectOntoRoute(active.route, robot).off <= Deviation
    /\ active.best # Farther
    /\ active.best <= Squared(robot, GoalAtArc(active.route, active.goalS).at)
    /\ held <= active.age + 1 /\ active.age < BlockAfter

(* Near the network, a route the robot follows is near it too.             *)
LEMMA KeptRouteIsNear ==
  ASSUME FollowingTypes, WaysExist, NEW p \in Places, mission # 0, NearNetwork(p)
  PROVE  LET kept == MaintainRoute(p)
         IN  /\ kept # NoActive
             /\ ProjectOntoRoute(kept.route, p).off <= Deviation
<1> DEFINE kept == MaintainRoute(p)
<1>1. p \in Point /\ mission \in DOMAIN Goals /\ Goals[mission] \in Point
  BY FollowingConstants DEF FollowingTypes
<1>2. kept # NoActive
  <2>1. CASE MustReroute(active, p, mission)
    <3>1. Route(p, Goals[mission], blocked) # NoRoute
      BY <1>1, BlocksStrandNobody DEF WaysExist
    <3>2. kept = [NoActive EXCEPT !.route = Route(p, Goals[mission], blocked), !.serves = mission]
      BY <2>1, <3>1 DEF MaintainRoute, Reroute
    <3>3. kept.serves = mission /\ NoActive.serves = 0
      BY <3>2 DEF NoActive
    <3> QED BY <3>3
  <2>2. CASE ~ MustReroute(active, p, mission)
    BY <2>2 DEF MaintainRoute, MustReroute
  <2> QED BY <2>1, <2>2
<1>3. \/ kept = active /\ ~ MustReroute(active, p, mission)
      \/ Leads(kept.route, Snap(p), Snap(Goals[mission]))
  BY <1>2, MaintainedRoute
<1>4. IsActive(kept)
  BY <1>2, MaintainedRoute
<1>5. ProjectOntoRoute(kept.route, p).off \in Nat
  <2> HIDE DEF kept
  <2> QED BY <1>1, <1>4, ProjectionIsOnRoute DEF IsActive
<1> HIDE DEF kept
<1>6. CASE kept = active /\ ~ MustReroute(active, p, mission)
  <2>1. ~ (ProjectOntoRoute(kept.route, p).off > Deviation)
    BY <1>6 DEF MustReroute
  <2> QED BY <1>2, <1>5, <2>1, FollowingConstants DEF kept
<1>7. CASE Leads(kept.route, Snap(p), Snap(Goals[mission]))
  <2>1. ProjectOntoRoute(kept.route, p).off <= Squared(p, Snap(p).at)
    BY <1>1, <1>7, ProjectionIsNear DEF Leads
  <2>2. PICK l \in Link : Squared(p, Nearest(p, At[Links[l].a], At[Links[l].b])) <= Deviation
    BY DEF NearNetwork
  <2>3. /\ Snap(p).at \in Point
        /\ Squared(p, Snap(p).at) <= Squared(p, Nearest(p, At[Links[l].a], At[Links[l].b]))
    BY <1>1, SnapIsNearest DEF SnapType
  <2>4. Nearest(p, At[Links[l].a], At[Links[l].b]) \in Point
    BY <1>1, Network, NearestIsBetween
  <2> DEFINE a == Squared(p, Snap(p).at)
             b == Squared(p, Nearest(p, At[Links[l].a], At[Links[l].b]))
             c == ProjectOntoRoute(kept.route, p).off
  <2>5. a \in Nat /\ b \in Nat
    BY <1>1, <2>3, <2>4, SquaredIsNatural
  <2>6. c <= a /\ a <= b /\ b <= Deviation /\ c \in Nat
    BY <1>5, <2>1, <2>2, <2>3
  <2> HIDE DEF a, b, c
  <2>7. c <= Deviation
    BY <2>5, <2>6, FollowingConstants
  <2> QED BY <1>2, <2>7 DEF c, kept
<1> QED BY <1>3, <1>6, <1>7

(* One more cycle in place is one more cycle of the watchdog.              *)
LEMMA WatchedOneMore ==
  ASSUME FollowingTypes, HeldIsWatched, held > 0, LegGoalIsAhead
  PROVE  /\ MaintainRoute(robot) = active
         /\ Led(robot).age = active.age + 1
<1>1. /\ mission # 0 /\ active # NoActive /\ active.serves = mission
      /\ ProjectOntoRoute(active.route, robot).off <= Deviation
      /\ active.best # Farther
      /\ active.best <= Squared(robot, GoalAtArc(active.route, active.goalS).at)
      /\ active.age < BlockAfter
  BY DEF HeldIsWatched
<1>2. IsActive(active) /\ active.goalS # NoArc /\ robot \in Point
  BY <1>1, FollowingConstants DEF FollowingTypes
<1>3. ProjectOntoRoute(active.route, robot).off \in Nat
  BY <1>2, ProjectionIsOnRoute DEF IsActive
<1>4. ~ MustReroute(active, robot, mission)
  BY <1>1, <1>3, FollowingConstants DEF MustReroute
<1>5. MaintainRoute(robot) = active
  BY <1>1, <1>4 DEF MaintainRoute
<1>6. Led(robot) = AdvanceLeg(active, robot)
  BY <1>1, <1>5 DEF Led
<1>7. LegGoal(active, robot) = GoalAtArc(active.route, active.goalS)
  <2>1. \/ active.goalS > ProjectOntoRoute(active.route, robot).s + LegMin
        \/ active.goalS = RouteLength(active.route)
    BY <1>1 DEF LegGoalIsAhead
  <2> QED BY <1>2, <2>1, LegGoalIsKept DEF IsActive
<1> DEFINE goal == LegGoal(active, robot)
           d    == Squared(robot, goal.at)
           gain == active.goalS # goal.s \/ active.best = Farther \/ d < active.best
<1>8. /\ Led(robot).age = IF gain THEN 0
                          ELSE IF active.age < BlockAfter THEN active.age + 1 ELSE active.age
      /\ d \in Nat
  BY <1>2, <1>6, LedRoute
<1>9. goal.s = active.goalS
  <2>1. GoalAtArc(active.route, active.goalS).s = active.goalS
    BY <1>2, GoalIsOnSegment DEF IsActive
  <2> QED BY <1>7, <2>1
<1>10. active.best <= d /\ active.best \in Nat
  BY <1>1, <1>2, <1>7 DEF IsActive
<1> HIDE DEF d, goal
<1>11. ~ gain
  BY <1>1, <1>8, <1>9, <1>10
<1> QED BY <1>1, <1>5, <1>8, <1>11

(* Every step keeps the watch on a held robot.                             *)
LEMMA HeldKept ==
  ASSUME FollowingTypes, LegGoalIsAhead, HeldIsWatched, WaysExist, [RouteNext]_vars
  PROVE  HeldIsWatched'
<1>1. ASSUME PlanningCycle PROVE HeldIsWatched'
  <2>1. PICK p \in Places : Cycle(p)
    BY <1>1 DEF PlanningCycle
  <2> DEFINE led == Led(p)
             kept == MaintainRoute(p)
  <2>2. CASE held' = 0
    BY <2>2 DEF HeldIsWatched
  <2>3. CASE held' # 0
    <3>1. PICK mode \in Modes :
            /\ active' = Pause(led, mode) /\ robot' = p /\ mission' = mission
            /\ p = robot /\ mission # 0 /\ NearNetwork(p) /\ mode # "recover"
            /\ held' = AtMost(held + 1, HeldBound + 1)
            /\ led # NoActive => led.age < BlockAfter
      <4> HIDE DEF led
      <4> QED BY <2>1, <2>3, CycleStep DEF led
    <3>2. kept # NoActive /\ ProjectOntoRoute(kept.route, p).off <= Deviation
      BY <3>1, KeptRouteIsNear
    <3>3. /\ IsActive(kept) /\ kept.serves = mission /\ led = AdvanceLeg(kept, p)
          /\ IsActive(led) /\ led # NoActive /\ led.route = kept.route
      BY <3>2, LedServes
    <3>4. active' = led
      BY <3>1 DEF Pause
    <3>5. p \in Point
      BY FollowingConstants
    <3>6. /\ led.serves = mission /\ led.best \in Nat
          /\ led.best <= Squared(p, LegGoal(kept, p).at)
          /\ led.goalS = LegGoal(kept, p).s
      <4> HIDE DEF kept, led
      <4> QED BY <3>3, <3>5, LedRoute
    <3>7. LegGoal(kept, p) = GoalAtArc(led.route, led.goalS)
      <4> HIDE DEF kept, led
      <4> QED BY <3>3, <3>5, <3>6, LegGoalPlace DEF IsActive
    <3>8. held \in 0 .. HeldBound + 1 /\ HeldBound \in Nat /\ led.age \in Nat
          /\ led.age < BlockAfter
      <4> HIDE DEF led
      <4> QED BY <3>1, <3>3, FollowingConstants DEF FollowingTypes, HeldBound, IsActive
    <3>9. held + 1 <= led.age + 1
      <4>1. CASE held = 0
        BY <3>8, <4>1
      <4>2. CASE held # 0
        <5>1. held > 0
          BY <3>8, <4>2
        <5>2. led.age = active.age + 1 /\ held <= active.age + 1
          BY <3>1, <5>1, WatchedOneMore DEF HeldIsWatched
        <5> HIDE DEF led
        <5> QED BY <3>8, <5>2
      <4> QED BY <4>1, <4>2
    <3>10. held' <= led.age + 1
      <4> HIDE DEF led
      <4> QED BY <3>1, <3>8, <3>9 DEF AtMost
    <3> HIDE DEF led, kept
    <3> QED BY <3>1, <3>2, <3>3, <3>4, <3>6, <3>7, <3>8, <3>10
        DEF HeldIsWatched, Farther
  <2> QED BY <2>2, <2>3
<1>2. ASSUME NewMission PROVE HeldIsWatched'
  BY <1>2 DEF NewMission, HeldIsWatched
<1>3. ASSUME UNCHANGED vars PROVE HeldIsWatched'
  BY <1>3 DEF vars, HeldIsWatched
<1> QED BY <1>1, <1>2, <1>3 DEF RouteNext

(* Where ways lead everywhere, a robot that is held near the network has a *)
(* link reported within link_block_after_s, over and over: its route stays *)
(* near it, so no cycle reroutes; the leg goal is kept, so none starts the *)
(* watchdog anew; and its distance cannot become less, so none is progress.*)
THEOREM HeldRobotIsHeard ==
  ASSUME WaysExist
  PROVE  RouteSpec => []HeldRobotReports
<1>1. RouteInit => HeldIsWatched
  BY DEF RouteInit, HeldIsWatched
<1>2. FollowingTypes /\ LegGoalIsAhead /\ HeldIsWatched /\ [RouteNext]_vars => HeldIsWatched'
  BY HeldKept
<1>3. FollowingTypes /\ HeldIsWatched => HeldRobotReports
  <2> SUFFICES ASSUME FollowingTypes, HeldIsWatched PROVE HeldRobotReports
    OBVIOUS
  <2>1. held \in Nat /\ BlockAfter \in Nat
    BY FollowingConstants DEF FollowingTypes, HeldBound
  <2>2. CASE held = 0
    BY <2>1, <2>2 DEF HeldRobotReports, HeldBound
  <2>3. CASE held > 0
    <3>1. /\ active # NoActive /\ held <= active.age + 1 /\ active.age < BlockAfter
          /\ active.age \in 0 .. BlockAfter
      BY <2>3 DEF HeldIsWatched, FollowingTypes, IsActive
    <3> QED BY <2>1, <3>1 DEF HeldRobotReports, HeldBound
  <2> QED BY <2>1, <2>2, <2>3
<1> QED BY <1>1, <1>2, <1>3, RouteTypes, LegGoalStaysAhead, PTL DEF RouteSpec
================================================================================
