--------------------------- MODULE ObstacleViewProofs ---------------------------
(***************************************************************************)
(* Proofs about the obstacles that planning sees, for every world, scan,   *)
(* tracker and depth of the memories: the nearest in each sector is covered*)
(* (NearestIsCovered), what is gone fades (PhantomsFade), and a mover of   *)
(* a known, steady speed leaves nothing behind (MoversLeaveNoFence).       *)
(*                                                                         *)
(* Covering goes from the return outwards: clusters do not overlap, so that*)
(* the list of measurements has every compact cluster; a measurement is    *)
(* taken by the track that it is nearest to, or starts one; the nearest    *)
(* return of a sector, when it is in no compact cluster, is a point of the *)
(* newest frame, or a mover is there.  Fading is an invariant over all memories: since when there is   *)
(* nothing to see bounds the misses of a track, the repetitions of a scan, *)
(* the place of a frame in the memory and the age of what was received.    *)
(* For the mover every remembered point carries its age: its place in the  *)
(* memory and the repetitions of its scan tell where the mover was then.   *)
(*                                                                         *)
(* Sums and the greedy association are recursive functions, so that there  *)
(* is one must be shown first: lemma Iteration.                            *)
(***************************************************************************)
EXTENDS ObstacleView, FiniteSetTheorems, SequenceTheorems, TLAPS

(* A nonempty set of natural numbers has a least. *)
LEMMA LeastExists ==
  ASSUME NEW S \in SUBSET Nat, S # {}
  PROVE  \E n \in S : \A m \in S : n <= m
<1>1. PICK n \in S : \A m \in S : ~ (<<m, n>> \in OpToRel(<, Nat))
  BY NatLessThanWellFounded, WFMin, Zenon
<1>2. ASSUME NEW m \in S PROVE n <= m
  <2>1. m \in Nat /\ n \in Nat
    OBVIOUS
  <2>2. m < n => <<m, n>> \in OpToRel(<, Nat)
    BY <2>1, Zenon DEF OpToRel
  <2>3. ~ (m < n)
    BY <1>1, <2>2, Zenon
  <2> QED BY <2>1, <2>3, SMT
<1> QED BY <1>2

(* Repeating a step on a set X: f[n] is reached from the base in n steps.  *)
IsStep(step, N, X) == \A n \in 1 .. N : \A x \in X : step[n][x] \in X
Iterates(f, step, base, N, X) ==
  f \in [0 .. N -> X] /\ f[0] = base /\ \A n \in 1 .. N : f[n] = step[n][f[n - 1]]

(* Repeating a step from a start gives a function of the number of steps.  *)
LEMMA Iteration ==
  ASSUME NEW N \in Nat, NEW X, NEW base \in X, NEW step, IsStep(step, N, X)
  PROVE  \E f : Iterates(f, step, base, N, X)
<1> USE DEF IsStep, Iterates
<1> DEFINE Good(k, f) == f \in [0 .. k -> X] /\ f[0] = base
                           /\ \A n \in 1 .. k : f[n] = step[n][f[n - 1]]
           bad == {k \in 0 .. N : ~ \E f : Good(k, f)}
<1>1. CASE bad # {}
  <2>1. bad \in SUBSET Nat
    OBVIOUS
  <2>2. PICK k \in bad : \A m \in bad : k <= m
    <3> HIDE DEF bad
    <3> QED BY <1>1, <2>1, LeastExists, Zenon
  <2>3. k \in 0 .. N /\ ~ \E f : Good(k, f)
    OBVIOUS
  <2>4. CASE k = 0
    <3> DEFINE f == [i \in 0 .. 0 |-> base]
    <3>1. f \in [0 .. 0 -> X] /\ f[0] = base /\ 1 .. 0 = {}
      OBVIOUS
    <3>2. Good(0, f)
      BY <3>1
    <3> QED BY <2>3, <2>4, <3>2, Zenon
  <2>5. CASE k # 0
    <3>1. k - 1 \in 0 .. N /\ ~ (k <= k - 1) /\ k \in 1 .. N
      BY <2>3, <2>5
    <3>2. ~ (k - 1 \in bad)
      BY <2>2, <3>1, Zenon
    <3>3. PICK f : Good(k - 1, f)
      BY <3>1, <3>2, Zenon
    <3> DEFINE y == step[k][f[k - 1]]
               g == [i \in 0 .. k |-> IF i = k THEN y ELSE f[i]]
    <3>4. f[k - 1] \in X
      BY <3>1, <3>3
    <3>5. y \in X
      BY <3>1, <3>4, Zenon
    <3>6. g \in [0 .. k -> X]
      <4> HIDE DEF y
      <4> QED BY <3>1, <3>3, <3>5
    <3>7. g[0] = base
      BY <2>5, <3>1, <3>3
    <3>8. ASSUME NEW n \in 1 .. k PROVE g[n] = step[n][g[n - 1]]
      <4>1. n - 1 \in 0 .. k /\ n \in 0 .. k /\ n - 1 # k
        BY <3>1
      <4>2. g[n - 1] = f[n - 1]
        BY <4>1
      <4>3. CASE n = k
        BY <4>1, <4>2, <4>3
      <4>4. CASE n # k
        <5>1. n \in 1 .. k - 1
          BY <3>1, <4>4
        <5>2. g[n] = f[n]
          BY <4>1, <4>4
        <5> QED BY <3>3, <4>2, <5>1, <5>2
      <4> QED BY <4>3, <4>4
    <3>9. Good(k, g)
      <4> HIDE DEF g
      <4> QED BY <3>6, <3>7, <3>8
    <3> QED BY <2>3, <3>9, Zenon
  <2> QED BY <2>4, <2>5
<1>2. CASE bad = {}
  <2>1. N \in 0 .. N
    OBVIOUS
  <2>2. ~ (N \in bad)
    BY <1>2, Zenon
  <2>3. PICK f : Good(N, f)
    BY <2>1, <2>2, Zenon
  <2> QED BY <2>3
<1> QED BY <1>1, <1>2

(***************************************************************************)
(* A set in order.                                                         *)
(***************************************************************************)

Rank(S, n) == Cardinality({m \in S : m < n})

(* Ranks count from zero, and no two members have the same.                *)
LEMMA RanksDiffer ==
  ASSUME NEW S \in SUBSET Nat, IsFiniteSet(S)
  PROVE  /\ \A n \in S : Rank(S, n) \in 0 .. Cardinality(S) - 1
         /\ \A n, k \in S : Rank(S, n) = Rank(S, k) => n = k
<1>1. ASSUME NEW n \in S, NEW T \in SUBSET {m \in S : m < n}
      PROVE  IsFiniteSet(T) /\ Cardinality(T) \in 0 .. Cardinality(S) - 1
  <2>1. T \in SUBSET S /\ T # S
    OBVIOUS
  <2>2. /\ IsFiniteSet(T) /\ Cardinality(T) <= Cardinality(S)
        /\ Cardinality(S) # Cardinality(T)
    BY <2>1, FS_Subset
  <2>3. Cardinality(T) \in Nat /\ Cardinality(S) \in Nat
    BY <2>2, FS_CardinalityType
  <2> QED BY <2>2, <2>3
<1>2. ASSUME NEW n \in S, NEW k \in S, n < k PROVE Rank(S, n) # Rank(S, k)
  <2> DEFINE T == {m \in S : m < n}
             U == {m \in S : m < k}
  <2>1. n \in Nat /\ k \in Nat
    OBVIOUS
  <2>2. n \in U /\ ~ (n \in T)
    BY <1>2, <2>1
  <2>5. ASSUME NEW m \in T PROVE m \in U
    <3>1. m \in S /\ m \in Nat /\ m < n
      OBVIOUS
    <3> QED BY <1>2, <2>1, <3>1
  <2>3. IsFiniteSet(U)
    BY <1>1
  <2>4. Cardinality(U) # Cardinality(T)
    <3> HIDE DEF T, U
    <3>1. U # T
      BY <2>2
    <3> QED BY <2>5, <2>3, <3>1, FS_Subset
  <2> QED BY <2>4 DEF Rank
<1>3. \A n \in S : Rank(S, n) \in 0 .. Cardinality(S) - 1
  BY <1>1 DEF Rank
<1>4. ASSUME NEW n \in S, NEW k \in S, Rank(S, n) = Rank(S, k) PROVE n = k
  <2>1. n \in Nat /\ k \in Nat
    OBVIOUS
  <2>2. ~ (n < k) /\ ~ (k < n)
    BY <1>2, <1>4
  <2> QED BY <2>1, <2>2
<1> QED BY <1>3, <1>4

(* InOrder lists the members of a set, all of them and each once.          *)
LEMMA InOrderLists ==
  ASSUME NEW S \in SUBSET Nat, IsFiniteSet(S)
  PROVE  /\ InOrder(S) \in Seq(S) /\ Len(InOrder(S)) = Cardinality(S)
         /\ \A n \in S : \E i \in DOMAIN InOrder(S) : InOrder(S)[i] = n
<1> DEFINE N == Cardinality(S)
           rank == [n \in S |-> Rank(S, n)]
           member(i) == CHOOSE n \in S : Rank(S, n) = i - 1
<1>1. N \in Nat
  BY FS_CardinalityType
<1>2. IsFiniteSet(0 .. N - 1) /\ Cardinality(0 .. N - 1) = N
  <2> HIDE DEF N
  <2>1. 0 \in Int /\ N - 1 \in Int
    BY <1>1
  <2>2. /\ IsFiniteSet(0 .. N - 1)
        /\ Cardinality(0 .. N - 1) = IF 0 > N - 1 THEN 0 ELSE (N - 1) - 0 + 1
    BY <2>1, FS_Interval
  <2> QED BY <1>1, <2>2
<1>3. rank \in Injection(S, 0 .. N - 1)
  <2>1. rank \in [S -> 0 .. N - 1]
    BY RanksDiffer
  <2>2. \A n, k \in S : rank[n] = rank[k] => n = k
    BY RanksDiffer
  <2> QED BY <2>1, <2>2 DEF Injection, IsInjective
<1>4. rank \in Surjection(S, 0 .. N - 1)
  <2> HIDE DEF rank
  <2> QED BY <1>2, <1>3, FS_Injection
<1>5. ASSUME NEW i \in 1 .. N PROVE member(i) \in S /\ Rank(S, member(i)) = i - 1
  <2>1. i - 1 \in 0 .. N - 1
    BY <1>1
  <2>2. \E n \in S : rank[n] = i - 1
    BY <1>4, <2>1 DEF Surjection
  <2>3. \E n \in S : Rank(S, n) = i - 1
    BY <2>2
  <2> QED BY <2>3
<1>6. InOrder(S) = [i \in 1 .. N |-> member(i)]
  BY DEF InOrder, Rank
<1>7. InOrder(S) \in Seq(S) /\ Len(InOrder(S)) = N
  <2> HIDE DEF N, member
  <2>1. InOrder(S) \in [1 .. N -> S]
    BY <1>5, <1>6
  <2> QED BY <1>1, <2>1, LenProperties
<1>8. ASSUME NEW n \in S PROVE \E i \in DOMAIN InOrder(S) : InOrder(S)[i] = n
  <2> DEFINE i == Rank(S, n) + 1
  <2>1. Rank(S, n) \in 0 .. N - 1
    BY RanksDiffer
  <2>2. i \in 1 .. N /\ i - 1 = Rank(S, n)
    <3> HIDE DEF N
    <3> QED BY <1>1, <2>1
  <2>3. member(i) \in S /\ Rank(S, member(i)) = Rank(S, n)
    BY <1>5, <2>2
  <2>4. member(i) = n
    <3> HIDE DEF member, rank, i, N
    <3>1. \A j, k \in S : Rank(S, j) = Rank(S, k) => j = k
      BY RanksDiffer
    <3> QED BY <2>3, <3>1, Zenon
  <2>5. i \in DOMAIN InOrder(S) /\ InOrder(S)[i] = n
    <3> HIDE DEF member, i, N
    <3> QED BY <1>6, <2>2, <2>4
  <2> QED BY <2>5
<1> QED BY <1>7, <1>8

(***************************************************************************)
(* Numbers.                                                                *)
(***************************************************************************)

(* What is assumed of the constants, in one place. *)
LEMMA Constants ==
  /\ LastPlace \in Nat /\ Seam \in Place /\ Unit \in Nat \ {0}
  /\ Eps \in Nat /\ MinPts \in Nat \ {0} /\ MaxTrackExtent \in Nat
  /\ Gate \in Nat /\ AlphaOf10 \in 1 .. 10 /\ ConfirmHits \in Nat \ {0} /\ MaxMisses \in Nat
  /\ MaxSpeed \in Nat /\ Worlds \subseteq SUBSET SUBSET Place /\ WalkerSize \in Nat
  /\ Walks \subseteq Int /\ MaxRepeat \in Nat /\ Depth \in Nat \ {0} /\ Hold \in Nat \ {0}
  /\ GhostSlack \in Nat
BY TrackerAssumption, ViewAssumption

(* Quotients are numbers. *)
LEMMA RoundedTyped ==
  ASSUME NEW n \in Int, NEW d \in Nat \ {0}
  PROVE  Rounded(n, d) \in Int
<1> DEFINE q == (2 * Size(n) + d) \div (2 * d)
<1>1. Size(n) \in Nat
  BY DEF Size
<1>2. 2 * d \in Nat \ {0} /\ 2 * Size(n) + d \in Nat
  BY <1>1
<1>3. q \in Int
  <2> DEFINE a == 2 * Size(n) + d
             b == 2 * d
  <2>1. a \in Nat /\ b \in Nat \ {0}
    BY <1>2
  <2> HIDE DEF a, b
  <2>2. a \div b \in Int
    BY <2>1
  <2> QED BY <2>2 DEF a, b
<1> HIDE DEF q
<1>4. Rounded(n, d) = IF n < 0 THEN -q ELSE q
  BY DEF Rounded, q
<1> QED BY <1>3, <1>4

(* Half of a number rounds no further down. *)
LEMMA HalfRounded ==
  ASSUME NEW n \in Nat
  PROVE  Rounded(n, 2) \in Nat /\ 2 * Rounded(n, 2) >= n
BY DEF Rounded, Size

(* A gap is a natural number. *)
LEMMA GapTyped ==
  ASSUME NEW a \in Int, NEW b \in Int
  PROVE  Gap(a, b) \in Nat
BY DEF Gap, Size

(* A place has a position. *)
LEMMA AtTyped ==
  ASSUME NEW p \in Int
  PROVE  At(p) \in Int
BY Constants DEF At

(***************************************************************************)
(* The order of the beams.                                                 *)
(***************************************************************************)

(* Every place has a beam of its own. *)
LEMMA BeamsDiffer ==
  /\ \A p \in Place : Beam(p) \in 0 .. LastPlace
  /\ \A p, q \in Place : Beam(p) = Beam(q) => p = q
<1>1. ASSUME NEW p \in Place PROVE Beam(p) \in 0 .. LastPlace
  BY Constants DEF Beam, Place
<1>2. ASSUME NEW p \in Place, NEW q \in Place, Beam(p) = Beam(q) PROVE p = q
  BY <1>2, Constants DEF Beam, Place
<1> QED BY <1>1, <1>2

(* Some places have a first. *)
LEMMA FirstIsMember ==
  ASSUME NEW c \in SUBSET Place, c # {}
  PROVE  FirstOf(c) \in c /\ \A q \in c : Beam(FirstOf(c)) <= Beam(q)
<1> DEFINE beams == {Beam(q) : q \in c}
<1>1. beams \in SUBSET Nat /\ beams # {}
  BY BeamsDiffer
<1>2. PICK n \in beams : \A m \in beams : n <= m
  <2> HIDE DEF beams
  <2> QED BY <1>1, LeastExists, Zenon
<1>3. \E p \in c : \A q \in c : Beam(p) <= Beam(q)
  <2>1. PICK p \in c : n = Beam(p)
    OBVIOUS
  <2>2. \A q \in c : Beam(q) \in beams
    OBVIOUS
  <2> QED BY <1>2, <2>1, <2>2
<1> QED BY <1>3 DEF FirstOf

(* So do they have a last. *)
LEMMA LastIsMember ==
  ASSUME NEW c \in SUBSET Place, c # {}
  PROVE  LastOf(c) \in c
<1> DEFINE left == {LastPlace - Beam(q) : q \in c}
<1>1. left \in SUBSET Nat /\ left # {}
  BY BeamsDiffer, Constants
<1>2. PICK n \in left : \A m \in left : n <= m
  <2> HIDE DEF left
  <2> QED BY <1>1, LeastExists, Zenon
<1>3. \E p \in c : \A q \in c : Beam(q) <= Beam(p)
  <2>1. PICK p \in c : n = LastPlace - Beam(p)
    OBVIOUS
  <2>2. ASSUME NEW q \in c PROVE Beam(q) <= Beam(p)
    <3>1. n <= LastPlace - Beam(q)
      BY <1>2
    <3>2. Beam(p) \in 0 .. LastPlace /\ Beam(q) \in 0 .. LastPlace
      BY BeamsDiffer
    <3> QED BY <2>1, <3>1, <3>2, Constants
  <2> QED BY <2>2
<1> QED BY <1>3 DEF LastOf

(***************************************************************************)
(* Clusters.                                                               *)
(***************************************************************************)

(* From a return to the next there is no gap. *)
Link(returns, r) == Adjacent(r, FirstOf({n \in returns : Beam(r) < Beam(n)}))
OneChain(returns, p, q) ==
  \A r \in returns :
    (Beam(p) <= Beam(r) /\ Beam(r) < Beam(q)) \/ (Beam(q) <= Beam(r) /\ Beam(r) < Beam(p))
      => Link(returns, r)
ChainOf(returns, p) == {q \in returns : OneChain(returns, p, q)}

(* The chains of cluster_by are the classes of OneChain. *)
LEMMA ChainsAreClasses ==
  ASSUME NEW returns \in SUBSET Place
  PROVE  Chains(returns) = {ChainOf(returns, p) : p \in returns}
<1>1. ASSUME NEW p \in returns, NEW q \in returns
      PROVE  (IF Beam(p) <= Beam(q) THEN Chained(returns, p, q) ELSE Chained(returns, q, p))
               = OneChain(returns, p, q)
  <2>1. \A r \in returns : Beam(r) \in Nat
    BY BeamsDiffer
  <2>2. CASE Beam(p) <= Beam(q)
    <3>1. \A r \in returns : ~ (Beam(q) <= Beam(r) /\ Beam(r) < Beam(p))
      BY <2>1, <2>2
    <3>2. OneChain(returns, p, q) <=> Chained(returns, p, q)
      BY <3>1, Zenon DEF OneChain, Chained, Link
    <3>3. OneChain(returns, p, q) \in BOOLEAN /\ Chained(returns, p, q) \in BOOLEAN
      BY Zenon DEF OneChain, Chained
    <3> QED BY <2>2, <3>2, <3>3, Zenon
  <2>3. CASE ~ (Beam(p) <= Beam(q))
    <3>1. \A r \in returns : ~ (Beam(p) <= Beam(r) /\ Beam(r) < Beam(q))
      BY <2>1, <2>3
    <3>2. OneChain(returns, p, q) <=> Chained(returns, q, p)
      BY <3>1, Zenon DEF OneChain, Chained, Link
    <3>3. OneChain(returns, p, q) \in BOOLEAN /\ Chained(returns, q, p) \in BOOLEAN
      BY Zenon DEF OneChain, Chained
    <3> QED BY <2>3, <3>2, <3>3, Zenon
  <2> QED BY <2>2, <2>3
<1>2. ASSUME NEW p \in returns
      PROVE  {q \in returns : IF Beam(p) <= Beam(q) THEN Chained(returns, p, q)
                                                   ELSE Chained(returns, q, p)}
               = ChainOf(returns, p)
  BY <1>1, Zenon DEF ChainOf
<1> QED BY <1>2, Zenon DEF Chains

(* Being on a chain goes both ways and on. *)
LEMMA OneChainIsTransitive ==
  ASSUME NEW returns \in SUBSET Place, NEW p \in returns, NEW q \in returns, NEW s \in returns,
         OneChain(returns, p, q), OneChain(returns, q, s)
  PROVE  OneChain(returns, p, s) /\ OneChain(returns, q, p)
<1>1. \A r \in returns : Beam(r) \in Nat
  BY BeamsDiffer
<1>2. ASSUME NEW r \in returns,
             \/ Beam(p) <= Beam(r) /\ Beam(r) < Beam(s)
             \/ Beam(s) <= Beam(r) /\ Beam(r) < Beam(p)
      PROVE  Link(returns, r)
  <2>1. \/ Beam(p) <= Beam(r) /\ Beam(r) < Beam(q)
        \/ Beam(q) <= Beam(r) /\ Beam(r) < Beam(p)
        \/ Beam(q) <= Beam(r) /\ Beam(r) < Beam(s)
        \/ Beam(s) <= Beam(r) /\ Beam(r) < Beam(q)
    BY <1>1, <1>2
  <2> QED BY <2>1, Zenon DEF OneChain
<1> QED BY <1>2, Zenon DEF OneChain

(* Sets of places of which no two overlap, none empty.                     *)
Apart(groups) ==
  /\ groups \subseteq SUBSET Place /\ {} \notin groups
  /\ \A c, d \in groups : c \cap d # {} => c = d

(* Chains do not overlap: a return that is on two makes them one.          *)
LEMMA ChainsAreApart ==
  ASSUME NEW returns \in SUBSET Place
  PROVE  Apart(Chains(returns)) /\ UNION Chains(returns) \subseteq returns
<1>1. Chains(returns) = {ChainOf(returns, p) : p \in returns}
  BY ChainsAreClasses
<1>2. \A p \in returns : ChainOf(returns, p) \subseteq returns /\ p \in ChainOf(returns, p)
  <2>1. \A p \in returns : Beam(p) \in Nat
    BY BeamsDiffer
  <2>2. \A p \in returns : OneChain(returns, p, p)
    BY <2>1 DEF OneChain
  <2> QED BY <2>2 DEF ChainOf
<1>3. ASSUME NEW p \in returns, NEW q \in returns, NEW s,
             s \in ChainOf(returns, p), s \in ChainOf(returns, q)
      PROVE  ChainOf(returns, p) = ChainOf(returns, q)
  <2>1. s \in returns /\ OneChain(returns, p, s) /\ OneChain(returns, q, s)
    BY <1>3 DEF ChainOf
  <2>2. OneChain(returns, s, p) /\ OneChain(returns, s, q)
    <3>1. \A r \in returns : OneChain(returns, r, s) => OneChain(returns, s, r)
      BY DEF OneChain
    <3> QED BY <2>1, <3>1
  <2>3. OneChain(returns, p, q) /\ OneChain(returns, q, p)
    BY <2>1, <2>2, OneChainIsTransitive
  <2>4. \A r \in returns : OneChain(returns, p, r) <=> OneChain(returns, q, r)
    BY <2>3, OneChainIsTransitive
  <2> QED BY <2>4 DEF ChainOf
<1>4. ASSUME NEW c \in Chains(returns), NEW d \in Chains(returns), c \cap d # {}
      PROVE  c = d
  <2>1. PICK p \in returns, q \in returns : c = ChainOf(returns, p) /\ d = ChainOf(returns, q)
    BY <1>1
  <2>2. PICK s : s \in c /\ s \in d
    BY <1>4
  <2> QED BY <1>3, <2>1, <2>2
<1>5. \A c \in Chains(returns) : c \subseteq returns /\ c # {}
  BY <1>1, <1>2
<1> QED BY <1>4, <1>5 DEF Apart

(* Joining the first and the last across the seam keeps them apart.        *)
LEMMA MergedIsApart ==
  ASSUME NEW groups, Apart(groups)
  PROVE  Apart(Merged(groups)) /\ UNION Merged(groups) \subseteq UNION groups
<1> DEFINE head == CHOOSE c \in groups : FirstOf(UNION groups) \in c
           tail == CHOOSE c \in groups : LastOf(UNION groups) \in c
           joined == (groups \ {head, tail}) \cup {head \cup tail}
<1>1. CASE Cardinality(groups) < 2
  BY <1>1 DEF Merged
<1>2. CASE ~ (Cardinality(groups) < 2) /\ ~ Adjacent(FirstOf(head), LastOf(tail))
  BY <1>2 DEF Merged
<1>3. CASE ~ (Cardinality(groups) < 2) /\ Adjacent(FirstOf(head), LastOf(tail))
  <2>1. Merged(groups) = joined
    BY <1>3 DEF Merged
  <2>2. UNION groups \in SUBSET Place /\ UNION groups # {}
    <3>1. groups # {}
      BY <1>3, FS_EmptySet
    <3> QED BY <3>1 DEF Apart
  <2>3. head \in groups /\ tail \in groups
    <3>1. FirstOf(UNION groups) \in UNION groups /\ LastOf(UNION groups) \in UNION groups
      BY <2>2, FirstIsMember, LastIsMember
    <3>2. \E c \in groups : FirstOf(UNION groups) \in c
      BY <3>1
    <3>3. \E c \in groups : LastOf(UNION groups) \in c
      BY <3>1
    <3> QED BY <3>2, <3>3
  <2> HIDE DEF head, tail
  <2>4. joined \subseteq SUBSET Place /\ {} \notin joined /\ UNION joined \subseteq UNION groups
    BY <2>3 DEF Apart
  <2>5. ASSUME NEW c \in joined, NEW d \in joined, c \cap d # {} PROVE c = d
    <3>1. \A g \in groups \ {head, tail} : g \cap (head \cup tail) = {}
      BY <2>3 DEF Apart
    <3>2. CASE c \in groups \ {head, tail} /\ d \in groups \ {head, tail}
      BY <2>5, <3>2 DEF Apart
    <3>3. CASE c = head \cup tail \/ d = head \cup tail
      BY <2>5, <3>1, <3>3
    <3> QED BY <3>2, <3>3
  <2>6. Apart(joined)
    <3> HIDE DEF joined
    <3> QED BY <2>4, <2>5, Zenon DEF Apart
  <2> QED BY <2>1, <2>4, <2>6
<1> QED BY <1>1, <1>2, <1>3

(* The clusters of a scan are sets of its returns, apart from each other.  *)
LEMMA ClustersAreApart ==
  ASSUME NEW returns \in SUBSET Place
  PROVE  /\ Apart(ClusterScanReturns(returns))
         /\ UNION ClusterScanReturns(returns) \subseteq returns
<1> DEFINE near == returns \ Far
           groups == {c \in Chains(near) : Cardinality(c) >= MinPts}
<1>1. near \in SUBSET Place
  OBVIOUS
<1>2. Apart(Chains(near)) /\ UNION Chains(near) \subseteq near
  <2> HIDE DEF near
  <2> QED BY <1>1, ChainsAreApart
<1>3. Apart(groups) /\ UNION groups \subseteq near
  <2> HIDE DEF near
  <2> QED BY <1>2 DEF Apart
<1>4. Apart(Merged(groups)) /\ UNION Merged(groups) \subseteq UNION groups
  <2> HIDE DEF groups
  <2> QED BY <1>3, MergedIsApart
<1>5. ClusterScanReturns(returns) = Merged(groups)
  BY DEF ClusterScanReturns
<1> QED BY <1>3, <1>4, <1>5

(* The sum over a cluster is a number. *)
LEMMA TotalTyped ==
  ASSUME NEW c
  PROVE  Total(c) \in Int
<1> DEFINE N == LastPlace + 1
           term(n) == IF n - 1 \in c THEN At(n - 1) ELSE 0
           step == [n \in 1 .. N |-> [x \in Int |-> x + term(n)]]
           Sums(g) == g = [n \in 0 .. N |-> IF n = 0 THEN 0 ELSE g[n - 1] + term(n)]
           sum == CHOOSE g : Sums(g)
<1>1. N \in Nat
  BY Constants
<1>2. \A n \in 1 .. N : term(n) \in Int
  BY AtTyped
<1>3. IsStep(step, N, Int)
  <2> HIDE DEF term, N
  <2> QED BY <1>2 DEF IsStep
<1>4. PICK f : Iterates(f, step, 0, N, Int)
  <2> HIDE DEF step, N
  <2> QED BY <1>1, <1>3, Iteration
<1>5. Sums(f)
  <2>1. f \in [0 .. N -> Int] /\ f[0] = 0
    BY <1>4 DEF Iterates
  <2>2. ASSUME NEW n \in 0 .. N PROVE f[n] = IF n = 0 THEN 0 ELSE f[n - 1] + term(n)
    <3>1. CASE n = 0
      BY <2>1, <3>1
    <3>2. CASE n # 0
      <4>1. n \in 1 .. N /\ n - 1 \in 0 .. N
        BY <1>1, <3>2
      <4>2. f[n] = step[n][f[n - 1]] /\ f[n - 1] \in Int
        BY <1>4, <2>1, <4>1 DEF Iterates
      <4> HIDE DEF term
      <4> QED BY <3>2, <4>1, <4>2
    <3> QED BY <3>1, <3>2
  <2> HIDE DEF N, term
  <2> QED BY <2>1, <2>2
<1>6. Sums(sum)
  <2> HIDE DEF Sums
  <2> QED BY <1>5
<1>7. Total(c) = sum[N]
  BY DEF Total
<1>8. sum[0] = 0 /\ \A n \in 1 .. N : sum[n] = sum[n - 1] + term(n)
  <2> HIDE DEF sum, term
  <2>1. ASSUME NEW n \in 1 .. N PROVE n \in 0 .. N /\ n # 0
    BY <1>1
  <2>2. 0 \in 0 .. N
    BY <1>1
  <2> QED BY <1>6, <2>1, <2>2
<1>9. \A n \in 0 .. N : sum[n] \in Int
  <2> DEFINE bad == {n \in 0 .. N : sum[n] \notin Int}
  <2>1. CASE bad # {}
    <3>1. bad \in SUBSET Nat
      BY <1>1
    <3>2. PICK n \in bad : \A m \in bad : n <= m
      <4> HIDE DEF bad
      <4> QED BY <2>1, <3>1, LeastExists, Zenon
    <3>3. n \in 0 .. N /\ sum[n] \notin Int
      OBVIOUS
    <3> HIDE DEF sum, N, term
    <3>4. n # 0
      BY <1>8, <3>3
    <3>5. n \in 1 .. N /\ n - 1 \in 0 .. N /\ ~ (n <= n - 1)
      BY <1>1, <3>3, <3>4
    <3>6. sum[n - 1] \in Int
      BY <3>2, <3>5
    <3> QED BY <1>2, <1>8, <3>3, <3>5, <3>6
  <2> QED BY <2>1
<1>10. N \in 0 .. N
  BY <1>1
<1> QED BY <1>7, <1>9, <1>10

(* Finitely many numbers, by a bound on them, have a largest.              *)
LEMMA MaxIsLargest ==
  ASSUME NEW S \in SUBSET Nat, S # {}, IsFiniteSet(S)
  PROVE  Max(S) \in S /\ \A x \in S : x <= Max(S)
<1> DEFINE ranks == {Cardinality(S) - 1 - Rank(S, n) : n \in S}
<1>1. Cardinality(S) \in Nat /\ \A n \in S : Rank(S, n) \in 0 .. Cardinality(S) - 1
  BY FS_CardinalityType, RanksDiffer
<1>2. ranks \in SUBSET Nat /\ ranks # {}
  <2>1. ASSUME NEW n \in S PROVE Cardinality(S) - 1 - Rank(S, n) \in Nat
    <3>1. Rank(S, n) \in 0 .. Cardinality(S) - 1
      BY <1>1
    <3> QED BY <1>1, <3>1
  <2> QED BY <2>1
<1>3. PICK k \in ranks : \A m \in ranks : k <= m
  <2> HIDE DEF ranks
  <2> QED BY <1>2, LeastExists, Zenon
<1>4. PICK n \in S : k = Cardinality(S) - 1 - Rank(S, n)
  OBVIOUS
<1>5. ASSUME NEW x \in S PROVE n >= x
  <2>1. k <= Cardinality(S) - 1 - Rank(S, x)
    BY <1>3
  <2>2. Rank(S, x) <= Rank(S, n)
    BY <1>1, <1>4, <2>1
  <2>3. CASE n < x
    <3> DEFINE T == {m \in S : m < n}
               U == {m \in S : m < x}
    <3>1. n \in U /\ ~ (n \in T)
      BY <2>3
    <3>2. ASSUME NEW m \in T PROVE m \in U
      <4>1. m \in Nat /\ n \in Nat /\ x \in Nat /\ m < n
        OBVIOUS
      <4> QED BY <2>3, <4>1
    <3>3. U \in SUBSET S
      OBVIOUS
    <3>4. IsFiniteSet(U)
      <4> HIDE DEF U
      <4> QED BY <3>3, FS_Subset
    <3>5. Cardinality(T) <= Cardinality(U) /\ Cardinality(U) # Cardinality(T)
      <4> HIDE DEF T, U
      <4> QED BY <3>1, <3>2, <3>4, FS_Subset
    <3>6. Rank(S, n) = Cardinality(T) /\ Rank(S, x) = Cardinality(U)
      BY DEF Rank
    <3> HIDE DEF T, U
    <3> QED BY <1>1, <2>2, <3>5, <3>6
  <2> QED BY <2>3
<1>6. \E m \in S : \A x \in S : m >= x
  BY <1>5
<1>7. Max(S) \in S /\ \A x \in S : Max(S) >= x
  BY <1>6, Zenon DEF Max
<1> QED BY <1>7

(* Center and Extent: the extent spans the cluster.                        *)
LEMMA ExtentSpans ==
  ASSUME NEW c \in SUBSET Place, c # {}
  PROVE  /\ Center(c) \in Int /\ Extent(c) \in Nat
         /\ \A p \in c : Gap(At(p), Center(c)) <= Extent(c)
<1> DEFINE x == Center(c)
           gaps == {Gap(At(p), x) : p \in c}
<1>1. IsFiniteSet(c) /\ Cardinality(c) \in Nat \ {0}
  <2>1. IsFiniteSet(Place)
    BY Constants, FS_Interval DEF Place
  <2>2. IsFiniteSet(c)
    BY <2>1, FS_Subset
  <2> QED BY <2>2, FS_EmptySet, FS_CardinalityType
<1>2. x \in Int
  BY <1>1, TotalTyped, RoundedTyped DEF Center
<1>3. \A p \in c : Gap(At(p), x) \in Nat
  <2> HIDE DEF x
  <2>1. \A p \in c : p \in Int
    BY DEF Place
  <2>2. \A p \in c : At(p) \in Int
    BY <2>1, AtTyped
  <2> QED BY <1>2, <2>2, GapTyped
<1>4. gaps \in SUBSET Nat /\ gaps # {}
  BY <1>3
<1>5. IsFiniteSet(gaps)
  <2> DEFINE g == [p \in c |-> Gap(At(p), x)]
  <2>1. g \in Surjection(c, gaps)
    <3>1. g \in [c -> gaps]
      OBVIOUS
    <3>2. \A y \in gaps : \E p \in c : g[p] = y
      OBVIOUS
    <3> HIDE DEF g, gaps
    <3> QED BY <3>1, <3>2 DEF Surjection
  <2> HIDE DEF g, gaps
  <2> QED BY <1>1, <2>1, FS_Surjection
<1>6. Max(gaps) \in gaps /\ \A y \in gaps : y <= Max(gaps)
  <2> HIDE DEF gaps
  <2> QED BY <1>4, <1>5, MaxIsLargest
<1>7. Extent(c) = Max(gaps)
  BY DEF Extent
<1>8. \A p \in c : Gap(At(p), x) \in gaps
  OBVIOUS
<1> HIDE DEF x, gaps
<1>9. Extent(c) \in Nat
  BY <1>4, <1>6, <1>7
<1> QED BY <1>2, <1>6, <1>7, <1>8, <1>9 DEF x

(* What the tracker is given, and what it keeps. *)
Measurement == [x : Int, radius : 0 .. MaxTrackExtent]
Track == [x : Int, v : Int, radius : Nat, hits : Nat, misses : Nat]

(* Every return of a compact cluster is measured. *)
LEMMA MeasurementsCover ==
  ASSUME NEW returns \in SUBSET Place
  PROVE  /\ Measurements(returns) \in Seq(Measurement)
         /\ \A p \in UNION Compact(returns) : \E i \in DOMAIN Measurements(returns) :
              Gap(At(p), Measurements(returns)[i].x) <= Measurements(returns)[i].radius
<1> DEFINE compact == Compact(returns)
           S == {Beam(FirstOf(c)) : c \in compact}
           starts == InOrder(S)
           at(i) == CHOOSE d \in compact : Beam(FirstOf(d)) = starts[i]
           ms == [i \in DOMAIN starts |-> [x |-> Center(at(i)), radius |-> Extent(at(i))]]
<1>1. /\ Apart(compact) /\ \A c \in compact : c \in SUBSET Place /\ c # {}
      /\ \A c \in compact : Extent(c) <= MaxTrackExtent
  BY ClustersAreApart DEF Compact, Apart
<1>2. /\ \A c \in compact : FirstOf(c) \in c /\ Beam(FirstOf(c)) \in 0 .. LastPlace
      /\ \A c, d \in compact : Beam(FirstOf(c)) = Beam(FirstOf(d)) => c = d
  <2> HIDE DEF compact
  <2>1. ASSUME NEW c \in compact PROVE FirstOf(c) \in c
    BY <1>1, FirstIsMember
  <2>2. \A c \in compact : FirstOf(c) \in Place
    BY <1>1, <2>1
  <2>3. ASSUME NEW c \in compact, NEW d \in compact, Beam(FirstOf(c)) = Beam(FirstOf(d))
        PROVE  c = d
    <3>1. FirstOf(c) = FirstOf(d)
      BY <2>2, <2>3, BeamsDiffer
    <3>2. FirstOf(c) \in c \cap d
      BY <2>1, <3>1
    <3> QED BY <1>1, <3>2 DEF Apart
  <2> QED BY <2>1, <2>2, <2>3, BeamsDiffer
<1>3. S \in SUBSET Nat /\ IsFiniteSet(S)
  <2> HIDE DEF compact
  <2>1. S \in SUBSET (0 .. LastPlace)
    BY <1>2
  <2>2. IsFiniteSet(0 .. LastPlace)
    BY Constants, FS_Interval
  <2> HIDE DEF S
  <2>3. IsFiniteSet(S)
    BY <2>1, <2>2, FS_Subset
  <2> QED BY <2>1, <2>3
<1>4. /\ starts \in Seq(S)
      /\ \A n \in S : \E i \in DOMAIN starts : starts[i] = n
  <2> HIDE DEF S
  <2> QED BY <1>3, InOrderLists
<1>5. ASSUME NEW i \in DOMAIN starts
      PROVE  at(i) \in compact /\ Beam(FirstOf(at(i))) = starts[i]
  <2>1. starts[i] \in S
    <3> HIDE DEF starts, S
    <3> QED BY <1>4
  <2>2. \E d \in compact : Beam(FirstOf(d)) = starts[i]
    BY <2>1
  <2> QED BY <2>2
<1>6. ms = Measurements(returns)
  BY DEF Measurements
<1>7. ms \in Seq(Measurement)
  <2>1. ASSUME NEW i \in DOMAIN starts
        PROVE  [x |-> Center(at(i)), radius |-> Extent(at(i))] \in Measurement
    <3> HIDE DEF compact, starts, at
    <3>1. at(i) \in SUBSET Place /\ at(i) # {} /\ Extent(at(i)) <= MaxTrackExtent
      BY <1>1, <1>5
    <3>2. Center(at(i)) \in Int /\ Extent(at(i)) \in Nat
      BY <3>1, ExtentSpans
    <3> QED BY <3>1, <3>2, Constants DEF Measurement
  <2>2. DOMAIN starts = 1 .. Len(starts) /\ Len(starts) \in Nat
    <3> HIDE DEF starts, S
    <3> QED BY <1>4
  <2> HIDE DEF starts, at
  <2> QED BY <2>1, <2>2
<1>8. ASSUME NEW p \in UNION compact
      PROVE  \E i \in DOMAIN ms : Gap(At(p), ms[i].x) <= ms[i].radius
  <2>1. PICK c \in compact : p \in c
    OBVIOUS
  <2>2. PICK i \in DOMAIN starts : starts[i] = Beam(FirstOf(c))
    BY <1>4
  <2>3. at(i) = c
    <3> HIDE DEF at, starts, compact
    <3> QED BY <1>2, <1>5, <2>2
  <2>4. Gap(At(p), Center(c)) <= Extent(c)
    <3> HIDE DEF compact
    <3> QED BY <1>1, <2>1, ExtentSpans
  <2>5. i \in DOMAIN ms /\ ms[i] = [x |-> Center(c), radius |-> Extent(c)]
    BY <2>3
  <2> HIDE DEF ms
  <2> QED BY <2>4, <2>5
<1> HIDE DEF ms, compact
<1>9. \A p \in UNION compact : \E i \in DOMAIN ms : Gap(At(p), ms[i].x) <= ms[i].radius
  BY <1>8
<1> QED BY <1>6, <1>7, <1>9 DEF compact

(***************************************************************************)
(* The tracker.                                                            *)
(***************************************************************************)

(* At most one measurement is the nearest, and it is not taken yet.        *)
LEMMA NearestIsOne ==
  ASSUME NEW t \in Track, NEW ms \in Seq(Measurement), NEW assigned, NEW dt \in Nat \ {0}
  PROVE  /\ Nearest(t, ms, assigned, dt) \subseteq DOMAIN ms \ assigned
         /\ \A i, j \in Nearest(t, ms, assigned, dt) : i = j
<1> DEFINE near == Candidates(t, ms, assigned, dt)
           d(i) == Gap(ms[i].x, Predicted(t, dt))
           N == Nearest(t, ms, assigned, dt)
<1>1. N = {i \in near : \A j \in near : d(i) < d(j) \/ (d(i) = d(j) /\ i <= j)}
  BY DEF Nearest
<1>2. near \subseteq DOMAIN ms \ assigned
  BY DEF Candidates
<1>3. ASSUME NEW i \in DOMAIN ms PROVE i \in Nat /\ ms[i].x \in Int
  <2>1. i \in 1 .. Len(ms) /\ ms[i] \in Measurement
    OBVIOUS
  <2> QED BY <2>1 DEF Measurement
<1>4. Predicted(t, dt) \in Int
  <2>1. t.x \in Int /\ t.v \in Int
    BY DEF Track
  <2> QED BY <2>1 DEF Predicted
<1>5. \A i \in DOMAIN ms : d(i) \in Nat
  BY <1>3, <1>4, GapTyped
<1> HIDE DEF near, d, N
<1>6. ASSUME NEW i \in N, NEW j \in N PROVE i = j
  <2>1. i \in near /\ j \in near
    BY <1>1
  <2>2. /\ i \in Nat /\ j \in Nat /\ d(i) \in Nat /\ d(j) \in Nat
        /\ (d(i) < d(j) \/ (d(i) = d(j) /\ i <= j))
        /\ (d(j) < d(i) \/ (d(j) = d(i) /\ j <= i))
    BY <1>1, <1>2, <1>3, <1>5, <2>1
  <2> QED BY <2>2
<1>7. N \subseteq DOMAIN ms \ assigned
  BY <1>1, <1>2
<1> QED BY <1>6, <1>7 DEF N

(* What the first k tracks have taken, one track after the other. *)
LEMMA AssignedSteps ==
  ASSUME NEW old \in Seq(Track), NEW ms \in Seq(Measurement), NEW dt \in Nat \ {0}
  PROVE  /\ Assigned(old, ms, dt)[0] = {}
         /\ \A k \in 1 .. Len(old) :
              Assigned(old, ms, dt)[k] = Assigned(old, ms, dt)[k - 1]
                \cup Nearest(old[k], ms, Assigned(old, ms, dt)[k - 1], dt)
<1> DEFINE N == Len(old)
           X == SUBSET DOMAIN ms
           took(n, x) == x \cup Nearest(old[n], ms, x, dt)
           step == [n \in 1 .. N |-> [x \in X |-> took(n, x)]]
           Takes(g) == g = [k \in 0 .. N |-> IF k = 0 THEN {} ELSE took(k, g[k - 1])]
           taken == CHOOSE g : Takes(g)
<1>1. N \in Nat /\ \A n \in 1 .. N : old[n] \in Track
  OBVIOUS
<1>2. \A n \in 1 .. N : \A x \in X : took(n, x) \in X
  BY <1>1, NearestIsOne
<1>3. IsStep(step, N, X)
  <2> HIDE DEF took, N, X
  <2> QED BY <1>2 DEF IsStep
<1>4. PICK f : Iterates(f, step, {}, N, X)
  <2>1. {} \in X
    OBVIOUS
  <2> HIDE DEF step, N, X
  <2> QED BY <1>1, <1>3, <2>1, Iteration
<1>5. Takes(f)
  <2>1. f \in [0 .. N -> X] /\ f[0] = {}
    BY <1>4 DEF Iterates
  <2>2. ASSUME NEW k \in 0 .. N PROVE f[k] = IF k = 0 THEN {} ELSE took(k, f[k - 1])
    <3>1. CASE k = 0
      BY <2>1, <3>1
    <3>2. CASE k # 0
      <4>1. k \in 1 .. N /\ k - 1 \in 0 .. N
        BY <1>1, <3>2
      <4>2. f[k] = step[k][f[k - 1]] /\ f[k - 1] \in X
        BY <1>4, <2>1, <4>1 DEF Iterates
      <4> HIDE DEF took, X, N
      <4> QED BY <3>2, <4>1, <4>2
    <3> QED BY <3>1, <3>2
  <2> HIDE DEF N, took, X
  <2> QED BY <2>1, <2>2
<1>6. Takes(taken)
  <2> HIDE DEF Takes
  <2> QED BY <1>5
<1>7. Assigned(old, ms, dt) = taken
  BY DEF Assigned
<1>8. taken[0] = {} /\ \A k \in 1 .. N : taken[k] = took(k, taken[k - 1])
  <2> HIDE DEF taken, took
  <2>1. ASSUME NEW k \in 1 .. N PROVE k \in 0 .. N /\ k # 0
    BY <1>1
  <2>2. 0 \in 0 .. N
    BY <1>1
  <2> QED BY <1>6, <2>1, <2>2
<1> HIDE DEF taken
<1> QED BY <1>7, <1>8

(* A measurement that is taken is the nearest one of some track.           *)
LEMMA TakenBySome ==
  ASSUME NEW old \in Seq(Track), NEW ms \in Seq(Measurement), NEW dt \in Nat \ {0},
         NEW i \in Assigned(old, ms, dt)[Len(old)]
  PROVE  \E k \in 1 .. Len(old) :
           i \in Nearest(old[k], ms, Assigned(old, ms, dt)[k - 1], dt)
<1> DEFINE N == Len(old)
           taken == Assigned(old, ms, dt)
           having == {k \in 0 .. N : i \in taken[k]}
<1>1. N \in Nat /\ N \in having
  OBVIOUS
<1>2. having \in SUBSET Nat /\ having # {}
  BY <1>1
<1>3. PICK k \in having : \A m \in having : k <= m
  <2> HIDE DEF having
  <2> QED BY <1>2, LeastExists, Zenon
<1>4. k \in 0 .. N /\ i \in taken[k]
  OBVIOUS
<1>5. taken[0] = {} /\ \A n \in 1 .. N :
        taken[n] = taken[n - 1] \cup Nearest(old[n], ms, taken[n - 1], dt)
  BY AssignedSteps
<1> HIDE DEF N, taken
<1>6. k # 0
  BY <1>4, <1>5
<1>7. k \in 1 .. N /\ k - 1 \in 0 .. N /\ ~ (k <= k - 1)
  BY <1>1, <1>4, <1>6
<1>8. ~ (i \in taken[k - 1])
  BY <1>3, <1>7
<1>9. i \in Nearest(old[k], ms, taken[k - 1], dt)
  BY <1>4, <1>5, <1>7, <1>8
<1> QED BY <1>7, <1>9 DEF N, taken

(* A track that is updated is where its measurement is, and no less than   *)
(* half as large.                                                          *)
LEMMA UpdatedTrack ==
  ASSUME NEW t \in Track, NEW m \in Measurement, NEW dt \in Nat \ {0}
  PROVE  /\ Updated(t, m, dt) \in Track
         /\ Updated(t, m, dt).x = m.x /\ 2 * Updated(t, m, dt).radius >= m.radius
         /\ Updated(t, m, dt).misses = 0
<1> DEFINE raw == Rounded(m.x - t.x, dt)
           v == Clamped(Rounded(AlphaOf10 * raw + (10 - AlphaOf10) * t.v, 10))
           r == Rounded(t.radius + m.radius, 2)
           h == IF t.hits < ConfirmHits THEN t.hits + 1 ELSE t.hits
<1>1. /\ t.x \in Int /\ t.v \in Int /\ t.radius \in Nat /\ t.hits \in Nat
      /\ m.x \in Int /\ m.radius \in Nat
  BY DEF Track, Measurement
<1>2. m.x - t.x \in Int /\ t.radius + m.radius \in Nat /\ t.radius + m.radius >= m.radius
  BY <1>1
<1>3. raw \in Int
  BY <1>2, RoundedTyped
<1>4. v \in Int
  <2> HIDE DEF raw
  <2>1. AlphaOf10 * raw \in Int /\ (10 - AlphaOf10) * t.v \in Int
    BY <1>1, <1>3, Constants
  <2>2. AlphaOf10 * raw + (10 - AlphaOf10) * t.v \in Int /\ 10 \in Nat \ {0}
    BY <2>1
  <2>3. Rounded(AlphaOf10 * raw + (10 - AlphaOf10) * t.v, 10) \in Int
    BY <2>2, RoundedTyped
  <2> QED BY <2>3, Constants DEF Clamped
<1>5. r \in Nat /\ 2 * r >= t.radius + m.radius
  BY <1>2, HalfRounded
<1>6. h \in Nat
  BY <1>1
<1>7. Updated(t, m, dt) = [t EXCEPT !.v = v, !.x = m.x, !.radius = r, !.hits = h, !.misses = 0]
  BY DEF Updated
<1> HIDE DEF v, r, h
<1>8. Updated(t, m, dt) = [x |-> m.x, v |-> v, radius |-> r, hits |-> h, misses |-> 0]
  BY <1>7 DEF Track
<1>9. 2 * r >= m.radius
  BY <1>1, <1>2, <1>5
<1> QED BY <1>1, <1>4, <1>5, <1>6, <1>8, <1>9 DEF Track

(* A track that coasts is missed once more. *)
LEMMA CoastedTrack ==
  ASSUME NEW t \in Track, NEW dt \in Nat \ {0}
  PROVE  Coasted(t, dt) \in Track /\ Coasted(t, dt).misses = t.misses + 1
<1>1. t.x + t.v * dt \in Int /\ t.misses + 1 \in Nat
  BY DEF Track
<1> QED BY <1>1 DEF Coasted, Predicted, Track

(* A new track is its measurement. *)
LEMMA SpawnedTrack ==
  ASSUME NEW m \in Measurement
  PROVE  /\ Spawned(m) \in Track /\ Spawned(m).x = m.x /\ Spawned(m).radius = m.radius
         /\ Spawned(m).misses = 0
<1>1. m.x \in Int /\ m.radius \in Nat
  BY Constants DEF Measurement
<1> QED BY <1>1 DEF Spawned, Track

(* Association keeps the tracks in place, one by one: a track that was     *)
(* nearest to a measurement is updated by it, the others coast.            *)
LEMMA AssociatedTracks ==
  ASSUME NEW old \in Seq(Track), NEW ms \in Seq(Measurement), NEW dt \in Nat \ {0}
  PROVE  /\ Associated(old, ms, dt) \in Seq(Track)
         /\ Len(Associated(old, ms, dt)) = Len(old)
         /\ \A i \in Assigned(old, ms, dt)[Len(old)] :
              /\ i \in DOMAIN ms
              /\ \E k \in DOMAIN old :
                   /\ Associated(old, ms, dt)[k].x = ms[i].x
                   /\ 2 * Associated(old, ms, dt)[k].radius >= ms[i].radius
                   /\ Associated(old, ms, dt)[k].misses = 0
         /\ ms = << >> => \A k \in DOMAIN old :
              Associated(old, ms, dt)[k].misses = old[k].misses + 1
<1> DEFINE taken == Assigned(old, ms, dt)
           near(k) == Nearest(old[k], ms, taken[k - 1], dt)
           of(k) == CHOOSE i \in near(k) : TRUE
           new == [k \in DOMAIN old |-> IF near(k) = {} THEN Coasted(old[k], dt)
                                        ELSE Updated(old[k], ms[of(k)], dt)]
<1>1. new = Associated(old, ms, dt)
  BY DEF Associated
<1>2. \A k \in DOMAIN old : k \in 1 .. Len(old) /\ old[k] \in Track
  OBVIOUS
<1>3. ASSUME NEW k \in DOMAIN old
      PROVE  near(k) \subseteq DOMAIN ms /\ \A i, j \in near(k) : i = j
  <2> HIDE DEF taken
  <2> QED BY <1>2, NearestIsOne
<1> HIDE DEF taken, near
<1>4. ASSUME NEW i \in DOMAIN ms PROVE ms[i] \in Measurement
  OBVIOUS
<1>5. ASSUME NEW k \in DOMAIN old
      PROVE  /\ new[k] \in Track
             /\ \A i \in near(k) : /\ i \in DOMAIN ms /\ new[k].x = ms[i].x
                                   /\ 2 * new[k].radius >= ms[i].radius /\ new[k].misses = 0
             /\ near(k) = {} => new[k].misses = old[k].misses + 1
  <2>1. CASE near(k) = {}
    <3>1. new[k] = Coasted(old[k], dt)
      BY <2>1
    <3> HIDE DEF new
    <3> QED BY <1>2, <2>1, <3>1, CoastedTrack
  <2>2. CASE near(k) # {}
    <3>1. of(k) \in near(k)
      BY <2>2
    <3>2. new[k] = Updated(old[k], ms[of(k)], dt)
      BY <2>2
    <3> HIDE DEF new, of
    <3>3. ms[of(k)] \in Measurement
      BY <1>3, <1>4, <3>1
    <3>4. \A i \in near(k) : i = of(k)
      BY <1>3, <3>1
    <3>5. /\ new[k] \in Track
          /\ new[k].x = ms[of(k)].x /\ 2 * new[k].radius >= ms[of(k)].radius
          /\ new[k].misses = 0
      <4> DEFINE m == ms[of(k)]
      <4>1. old[k] \in Track /\ m \in Measurement
        BY <1>2, <3>3
      <4> HIDE DEF m
      <4>2. /\ Updated(old[k], m, dt) \in Track
            /\ Updated(old[k], m, dt).x = m.x /\ 2 * Updated(old[k], m, dt).radius >= m.radius
            /\ Updated(old[k], m, dt).misses = 0
        BY <4>1, UpdatedTrack
      <4>3. new[k] = Updated(old[k], m, dt)
        BY <3>2 DEF m
      <4> QED BY <4>2, <4>3 DEF m
    <3> QED BY <1>3, <2>2, <3>4, <3>5
  <2> QED BY <2>1, <2>2
<1>6. new \in Seq(Track) /\ Len(new) = Len(old)
  <2>1. DOMAIN old = 1 .. Len(old) /\ Len(old) \in Nat
    OBVIOUS
  <2>2. new \in [1 .. Len(old) -> Track]
    <3>1. DOMAIN new = 1 .. Len(old) /\ new = [k \in 1 .. Len(old) |-> new[k]]
      BY <2>1
    <3>2. \A k \in 1 .. Len(old) : new[k] \in Track
      BY <1>5, <2>1
    <3> HIDE DEF new
    <3> QED BY <3>1, <3>2
  <2> HIDE DEF new
  <2> QED BY <2>1, <2>2, LenProperties
<1>7. ASSUME NEW i \in taken[Len(old)]
      PROVE  /\ i \in DOMAIN ms
             /\ \E k \in DOMAIN old : /\ new[k].x = ms[i].x /\ 2 * new[k].radius >= ms[i].radius
                                      /\ new[k].misses = 0
  <2>1. PICK k \in 1 .. Len(old) : i \in near(k)
    BY TakenBySome DEF taken, near
  <2>2. k \in DOMAIN old
    OBVIOUS
  <2> HIDE DEF new
  <2> QED BY <1>5, <2>1, <2>2
<1>8. ASSUME ms = << >>, NEW k \in DOMAIN old
      PROVE  new[k].misses = old[k].misses + 1
  <2>1. near(k) = {}
    BY <1>3, <1>8
  <2> HIDE DEF new
  <2> QED BY <1>5, <2>1
<1> HIDE DEF new
<1>9. \A i \in taken[Len(old)] :
        /\ i \in DOMAIN ms
        /\ \E k \in DOMAIN old : /\ new[k].x = ms[i].x /\ 2 * new[k].radius >= ms[i].radius
                                 /\ new[k].misses = 0
  BY <1>7
<1>10. ms = << >> => \A k \in DOMAIN old : new[k].misses = old[k].misses + 1
  BY <1>8
<1> QED BY <1>1, <1>6, <1>9, <1>10, Zenon DEF taken

(* What no track has taken starts a track. *)
LEMMA FreshTracks ==
  ASSUME NEW old \in Seq(Track), NEW ms \in Seq(Measurement), NEW dt \in Nat \ {0}
  PROVE  /\ Fresh(old, ms, dt) \in Seq(Track)
         /\ \A i \in DOMAIN ms \ Assigned(old, ms, dt)[Len(old)] : \E k \in DOMAIN Fresh(old, ms, dt) :
              /\ Fresh(old, ms, dt)[k].x = ms[i].x /\ Fresh(old, ms, dt)[k].radius = ms[i].radius
              /\ Fresh(old, ms, dt)[k].misses = 0
         /\ ms = << >> => Fresh(old, ms, dt) = << >>
<1> DEFINE S == DOMAIN ms \ Assigned(old, ms, dt)[Len(old)]
           rest == InOrder(S)
           new == [i \in DOMAIN rest |-> Spawned(ms[rest[i]])]
<1>1. S \in SUBSET (1 .. Len(ms)) /\ Len(ms) \in Nat /\ \A i \in S : ms[i] \in Measurement
  OBVIOUS
<1>2. S \in SUBSET Nat /\ IsFiniteSet(S)
  <2> HIDE DEF S
  <2>1. IsFiniteSet(1 .. Len(ms))
    BY <1>1, FS_Interval
  <2>2. IsFiniteSet(S)
    BY <1>1, <2>1, FS_Subset
  <2> QED BY <1>1, <2>2
<1>3. /\ rest \in Seq(S) /\ Len(rest) = Cardinality(S)
      /\ \A n \in S : \E i \in DOMAIN rest : rest[i] = n
  <2> HIDE DEF S
  <2> QED BY <1>2, InOrderLists
<1>4. new = Fresh(old, ms, dt)
  BY DEF Fresh
<1> HIDE DEF S, rest
<1>5. DOMAIN rest = 1 .. Len(rest) /\ Len(rest) \in Nat /\ \A i \in DOMAIN rest : rest[i] \in S
  BY <1>3
<1>6. ASSUME NEW i \in DOMAIN rest
      PROVE  /\ new[i] \in Track /\ new[i].x = ms[rest[i]].x /\ new[i].radius = ms[rest[i]].radius
             /\ new[i].misses = 0
  <2>1. new[i] = Spawned(ms[rest[i]]) /\ ms[rest[i]] \in Measurement
    BY <1>1, <1>5
  <2> HIDE DEF new
  <2> QED BY <2>1, SpawnedTrack
<1>7. new \in Seq(Track)
  <2>1. DOMAIN new = 1 .. Len(rest) /\ new = [i \in 1 .. Len(rest) |-> new[i]]
    BY <1>5
  <2> HIDE DEF new
  <2>2. new \in [1 .. Len(rest) -> Track]
    BY <1>5, <1>6, <2>1
  <2> QED BY <1>5, <2>2, LenProperties
<1>8. DOMAIN new = DOMAIN rest
  OBVIOUS
<1>9. \A i \in S : \E k \in DOMAIN new :
        new[k].x = ms[i].x /\ new[k].radius = ms[i].radius /\ new[k].misses = 0
  <2> HIDE DEF new
  <2> QED BY <1>3, <1>6, <1>8
<1>10. ms = << >> => new = << >>
  <2>1. ASSUME ms = << >> PROVE new = << >>
    <3>1. S = {}
      BY <2>1 DEF S
    <3>2. Len(rest) = 0
      BY <1>3, <3>1, FS_EmptySet
    <3>3. DOMAIN new = {}
      BY <1>5, <1>8, <3>2
    <3> HIDE DEF new
    <3>4. Len(new) = 0
      BY <1>7, <3>3
    <3> QED BY <1>7, <3>4, EmptySeq
  <2> QED BY <2>1
<1> HIDE DEF new
<1> QED BY <1>4, <1>7, <1>9, <1>10, Zenon DEF S

(* Retaining keeps the tracks that have not been missed too often.         *)
LEMMA RetainedTracks ==
  ASSUME NEW old \in Seq(Track)
  PROVE  /\ Retained(old) \in Seq(Track)
         /\ \A k \in DOMAIN old : old[k].misses <= MaxMisses =>
              \E j \in DOMAIN Retained(old) : Retained(old)[j] = old[k]
         /\ \A j \in DOMAIN Retained(old) : \E k \in DOMAIN old :
              Retained(old)[j] = old[k] /\ old[k].misses <= MaxMisses
<1> DEFINE S == {k \in DOMAIN old : old[k].misses <= MaxMisses}
           kept == InOrder(S)
           new == [i \in DOMAIN kept |-> old[kept[i]]]
<1>1. S \in SUBSET (1 .. Len(old)) /\ Len(old) \in Nat /\ \A i \in S : old[i] \in Track
  OBVIOUS
<1>2. S \in SUBSET Nat /\ IsFiniteSet(S)
  <2> HIDE DEF S
  <2>1. IsFiniteSet(1 .. Len(old))
    BY <1>1, FS_Interval
  <2>2. IsFiniteSet(S)
    BY <1>1, <2>1, FS_Subset
  <2> QED BY <1>1, <2>2
<1>3. kept \in Seq(S) /\ \A n \in S : \E i \in DOMAIN kept : kept[i] = n
  <2> HIDE DEF S
  <2> QED BY <1>2, InOrderLists
<1>4. new = Retained(old)
  BY DEF Retained
<1> HIDE DEF kept
<1>5. DOMAIN kept = 1 .. Len(kept) /\ Len(kept) \in Nat /\ \A i \in DOMAIN kept : kept[i] \in S
  <2> HIDE DEF S
  <2> QED BY <1>3
<1>6. new \in Seq(Track)
  <2>1. \A i \in DOMAIN kept : old[kept[i]] \in Track
    BY <1>5, <1>1
  <2>2. new \in [1 .. Len(kept) -> Track]
    BY <1>5, <2>1
  <2> HIDE DEF new
  <2> QED BY <1>5, <2>2, LenProperties
<1>7. ASSUME NEW k \in DOMAIN old, old[k].misses <= MaxMisses
      PROVE  \E j \in DOMAIN new : new[j] = old[k]
  <2>1. k \in S
    BY <1>7
  <2>2. PICK i \in DOMAIN kept : kept[i] = k
    BY <1>3, <2>1
  <2> QED BY <2>2
<1>8. ASSUME NEW j \in DOMAIN new
      PROVE  \E k \in DOMAIN old : new[j] = old[k] /\ old[k].misses <= MaxMisses
  <2>1. kept[j] \in S /\ new[j] = old[kept[j]]
    BY <1>5
  <2> QED BY <2>1
<1> HIDE DEF new
<1>9. \A k \in DOMAIN old : old[k].misses <= MaxMisses => \E j \in DOMAIN new : new[j] = old[k]
  BY <1>7
<1>10. \A j \in DOMAIN new : \E k \in DOMAIN old : new[j] = old[k] /\ old[k].misses <= MaxMisses
  BY <1>8
<1> QED BY <1>4, <1>6, <1>9, <1>10, Zenon

(* An update leaves a track for every measurement, where it is and at least*)
(* half as large; a track of no measurement has been missed once more.     *)
LEMMA UpdateCovers ==
  ASSUME NEW old \in Seq(Track), NEW ms \in Seq(Measurement), NEW dt \in Nat \ {0}
  PROVE  /\ Update(old, ms, dt) \in Seq(Track)
         /\ \A j \in DOMAIN Update(old, ms, dt) : Update(old, ms, dt)[j].misses <= MaxMisses
         /\ \A i \in DOMAIN ms : \E j \in DOMAIN Update(old, ms, dt) :
              /\ Update(old, ms, dt)[j].x = ms[i].x
              /\ 2 * Update(old, ms, dt)[j].radius >= ms[i].radius
         /\ ms = << >> => \A j \in DOMAIN Update(old, ms, dt) : \E k \in DOMAIN old :
              Update(old, ms, dt)[j].misses = old[k].misses + 1
<1> DEFINE A == Associated(old, ms, dt)
           F == Fresh(old, ms, dt)
           all == A \o F
           new == Retained(all)
<1>1. A \in Seq(Track) /\ Len(A) = Len(old) /\ F \in Seq(Track)
  BY AssociatedTracks, FreshTracks
<1>2. all \in Seq(Track)
  <2> HIDE DEF A, F
  <2> QED BY <1>1
<1>3. ASSUME NEW i \in DOMAIN ms
      PROVE  \E k \in DOMAIN all :
               all[k].x = ms[i].x /\ 2 * all[k].radius >= ms[i].radius /\ all[k].misses = 0
  <2>1. CASE i \in Assigned(old, ms, dt)[Len(old)]
    <3>1. PICK k \in DOMAIN old :
            A[k].x = ms[i].x /\ 2 * A[k].radius >= ms[i].radius /\ A[k].misses = 0
      BY <2>1, AssociatedTracks
    <3> HIDE DEF A, F
    <3>2. k \in DOMAIN all /\ all[k] = A[k]
      BY <1>1
    <3> HIDE DEF all
    <3> QED BY <3>1, <3>2
  <2>2. CASE ~ (i \in Assigned(old, ms, dt)[Len(old)])
    <3>1. i \in DOMAIN ms \ Assigned(old, ms, dt)[Len(old)]
      BY <2>2
    <3>2. PICK k \in DOMAIN F : F[k].x = ms[i].x /\ F[k].radius = ms[i].radius /\ F[k].misses = 0
      BY <3>1, FreshTracks
    <3> HIDE DEF A, F
    <3>3. Len(A) + k \in DOMAIN all /\ all[Len(A) + k] = F[k]
      BY <1>1
    <3>4. ms[i] \in Measurement
      OBVIOUS
    <3>5. ms[i].radius \in Nat
      BY <3>4, Constants DEF Measurement
    <3> HIDE DEF all
    <3> QED BY <3>2, <3>3, <3>5
  <2> QED BY <2>1, <2>2
<1>4. /\ new \in Seq(Track)
      /\ \A k \in DOMAIN all : all[k].misses <= MaxMisses => \E j \in DOMAIN new : new[j] = all[k]
      /\ \A j \in DOMAIN new : \E k \in DOMAIN all : new[j] = all[k] /\ all[k].misses <= MaxMisses
  <2> HIDE DEF all
  <2> QED BY <1>2, RetainedTracks
<1>5. ms = << >> => \A k \in DOMAIN all : k \in DOMAIN old /\ all[k].misses = old[k].misses + 1
  <2>1. ASSUME ms = << >>, NEW k \in DOMAIN all
        PROVE  k \in DOMAIN old /\ all[k].misses = old[k].misses + 1
    <3>1. F = << >> /\ \A n \in DOMAIN old : A[n].misses = old[n].misses + 1
      BY <2>1, AssociatedTracks, FreshTracks
    <3> HIDE DEF A, F
    <3>2. k \in DOMAIN old /\ all[k] = A[k]
      BY <1>1, <3>1
    <3> HIDE DEF all
    <3> QED BY <3>1, <3>2
  <2> HIDE DEF all
  <2> QED BY <2>1
<1> HIDE DEF new, all
<1>6. ASSUME NEW i \in DOMAIN ms
      PROVE  \E j \in DOMAIN new : new[j].x = ms[i].x /\ 2 * new[j].radius >= ms[i].radius
  <2>1. PICK k \in DOMAIN all :
          all[k].x = ms[i].x /\ 2 * all[k].radius >= ms[i].radius /\ all[k].misses = 0
    BY <1>3
  <2>2. PICK j \in DOMAIN new : new[j] = all[k]
    BY <1>4, <2>1, Constants
  <2> QED BY <2>1, <2>2
<1>7. \A i \in DOMAIN ms : \E j \in DOMAIN new :
        new[j].x = ms[i].x /\ 2 * new[j].radius >= ms[i].radius
  BY <1>6
<1>8. \A j \in DOMAIN new : new[j].misses <= MaxMisses
  BY <1>4, Zenon
<1>9. ms = << >> => \A j \in DOMAIN new : \E k \in DOMAIN old : new[j].misses = old[k].misses + 1
  <2>1. ASSUME ms = << >>, NEW j \in DOMAIN new
        PROVE  \E k \in DOMAIN old : new[j].misses = old[k].misses + 1
    <3>1. PICK k \in DOMAIN all : new[j] = all[k]
      BY <1>4
    <3> QED BY <1>5, <2>1, <3>1
  <2> QED BY <2>1
<1>10. new = Update(old, ms, dt)
  BY DEF Update, new, all
<1> QED BY <1>4, <1>7, <1>8, <1>9, <1>10, Zenon

(***************************************************************************)
(* The state.                                                              *)
(***************************************************************************)

Tracked == [x : Int, v : Int, radius : Nat]
Detections == [points : SUBSET Place, tracked : Seq(Tracked)]

WorldTypeOK ==
  /\ posts \in Worlds /\ walker \in Int /\ stride \in Int
  /\ vacant \in 0 .. FadeBound
SensTypeOK ==
  /\ tracks \in Seq(Track) /\ since \in 0 .. MaxRepeat
  /\ prev_detections \in Detections /\ Len(prev_detections.tracked) = Len(tracks)
PlanningTypeOK ==
  /\ frames \in Seq(SUBSET Place) /\ Len(frames) = Depth
  /\ last_tracked \in Seq(Tracked) /\ tracked_age \in 0 .. Hold
ViewTypeOK == WorldTypeOK /\ SensTypeOK /\ PlanningTypeOK

(* Since when there is nothing to see, whatever is still seen tells how    *)
(* long that can be: a track by its misses, of which there is one in       *)
(* MaxRepeat + 1 cycles; a point by its scan, which is repeated MaxRepeat  *)
(* times; a remembered point by its place in the memory; what planning was *)
(* told by its age.                                                        *)
TracksFade ==
  \A k \in DOMAIN tracks :
    /\ tracks[k].misses <= MaxMisses
    /\ vacant <= tracks[k].misses * (MaxRepeat + 1) + since
PointsFade == prev_detections.points # {} => vacant <= since
FramesFade == \A k \in 1 .. Depth : frames[k] # {} => vacant <= MaxRepeat + Depth - k
TrackedFade ==
  last_tracked # << >> /\ tracked_age < Hold =>
    vacant < (MaxMisses + 1) * (MaxRepeat + 1) + tracked_age
Fading == TracksFade /\ PointsFade /\ FramesFade /\ TrackedFade /\ PhantomsFade

(* The bound outlasts the tracks and the memory of points. *)
LEMMA FadeBounds ==
  /\ FadeBound \in Nat \ {0}
  /\ FadeBound >= (MaxMisses + 1) * (MaxRepeat + 1) + Hold - 1
  /\ FadeBound >= MaxRepeat + Depth
<1> DEFINE a == (MaxMisses + 1) * (MaxRepeat + 1) + Hold - 1
           b == MaxRepeat + Depth
<1>1. a \in Nat /\ b \in Nat \ {0}
  <2>1. (MaxMisses + 1) * (MaxRepeat + 1) \in Nat
    BY Constants
  <2> QED BY <2>1, Constants
<1>2. FadeBound = Max({a, b})
  BY DEF FadeBound
<1> HIDE DEF a, b
<1>3. \E x \in {a, b} : \A y \in {a, b} : x >= y
  BY <1>1
<1>4. Max({a, b}) \in {a, b} /\ \A y \in {a, b} : Max({a, b}) >= y
  BY <1>3, Zenon DEF Max
<1>5. FadeBound \in Nat \ {0} /\ FadeBound >= a /\ FadeBound >= b
  BY <1>1, <1>2, <1>4
<1> QED BY <1>5 DEF a, b

(* Between two misses there are at most MaxRepeat repeated scans. *)
LEMMA MissCounts ==
  ASSUME NEW m \in Nat
  PROVE  /\ m * (MaxRepeat + 1) \in Nat
         /\ (m + 1) * (MaxRepeat + 1) = m * (MaxRepeat + 1) + MaxRepeat + 1
         /\ m <= MaxMisses =>
              m * (MaxRepeat + 1) + MaxRepeat < (MaxMisses + 1) * (MaxRepeat + 1)
<1>1. \A a, b \in Nat : a * b \in Nat /\ (a + 1) * b = a * b + b
  OBVIOUS
<1>2. \A a, b, c \in Nat : a <= c => a * b <= c * b
  OBVIOUS
<1> DEFINE r == MaxRepeat + 1
<1>3. r \in Nat /\ MaxMisses \in Nat /\ r = MaxRepeat + 1 /\ MaxRepeat \in Nat
  BY Constants
<1> HIDE DEF r
<1>4. m * r \in Nat /\ (m + 1) * r = m * r + r
  BY <1>1, <1>3
<1>5. MaxMisses * r \in Nat /\ (MaxMisses + 1) * r = MaxMisses * r + r
  BY <1>1, <1>3
<1>6. m <= MaxMisses => m * r <= MaxMisses * r
  BY <1>2, <1>3
<1>7. m <= MaxMisses => m * r + MaxRepeat < (MaxMisses + 1) * r
  BY <1>3, <1>4, <1>5, <1>6
<1>8. (m + 1) * r = m * r + MaxRepeat + 1
  BY <1>3, <1>4
<1> QED BY <1>4, <1>7, <1>8 DEF r

(* To begin with there is nothing in view. *)
LEMMA InitFades == Init => ViewTypeOK /\ Fading /\ NearestIsCovered
<1> SUFFICES ASSUME Init PROVE ViewTypeOK /\ Fading /\ NearestIsCovered
  OBVIOUS
<1>1. /\ posts \in Worlds /\ walker \in Walks /\ tracks = << >> /\ since = 0
      /\ prev_detections = [points |-> {}, tracked |-> << >>]
      /\ frames = [k \in 1 .. Depth |-> {}] /\ last_tracked = << >> /\ tracked_age = Hold
      /\ view = {} /\ stride = 0 /\ returned = {} /\ vacant = 0
  BY DEF Init, NoDetections
<1>2. WorldTypeOK
  BY <1>1, FadeBounds, Constants DEF WorldTypeOK
<1>3. SensTypeOK
  BY <1>1, Constants DEF SensTypeOK, Detections
<1>4. frames \in Seq(SUBSET Place) /\ Len(frames) = Depth
  <2>1. frames \in [1 .. Depth -> SUBSET Place]
    BY <1>1
  <2> QED BY <2>1, Constants, LenProperties
<1>5. PlanningTypeOK
  BY <1>1, <1>4, Constants DEF PlanningTypeOK
<1>6. TracksFade /\ PointsFade /\ TrackedFade /\ PhantomsFade /\ NearestIsCovered
  BY <1>1 DEF TracksFade, PointsFade, TrackedFade, PhantomsFade, NearestIsCovered
<1>7. FramesFade
  BY <1>1 DEF FramesFade
<1> QED BY <1>2, <1>3, <1>5, <1>6, <1>7 DEF ViewTypeOK, Fading

(* The world keeps its type, and vacant counts the cycles without things.  *)
LEMMA WorldMovesTyped ==
  ASSUME WorldTypeOK, WorldMoves
  PROVE  /\ WorldTypeOK' /\ Things' \in SUBSET Place
         /\ vacant' <= vacant + 1 /\ (Things' # {} => vacant' = 0)
<1>1. /\ posts' = posts /\ walker' \in Walks /\ stride' \in Strides
      /\ vacant' = IF Things' = {} THEN Ticked(vacant, FadeBound) ELSE 0
  BY DEF WorldMoves
<1>2. /\ Ticked(vacant, FadeBound) \in 0 .. FadeBound /\ Ticked(vacant, FadeBound) <= vacant + 1
      /\ 0 \in 0 .. FadeBound /\ 0 <= vacant + 1
  BY FadeBounds DEF WorldTypeOK, Ticked
<1>3. vacant' \in 0 .. FadeBound /\ vacant' <= vacant + 1 /\ (Things' # {} => vacant' = 0)
  BY <1>1, <1>2
<1>4. Things' \in SUBSET Place
  <2>1. UNION posts' \in SUBSET Place
    BY <1>1, Constants DEF WorldTypeOK
  <2> QED BY <2>1 DEF Things
<1>5. posts' \in Worlds /\ walker' \in Int /\ stride' \in Int
  BY <1>1, ViewAssumption DEF WorldTypeOK
<1> QED BY <1>3, <1>4, <1>5 DEF WorldTypeOK

(***************************************************************************)
(* The aggregator: a new scan, or the last one again.                      *)
(***************************************************************************)

(* What is published of a track is where the track is. *)
LEMMA PublishedTrack ==
  ASSUME NEW t \in Track
  PROVE  /\ Published(t) \in Tracked
         /\ Published(t).x = t.x /\ Published(t).radius = t.radius
<1>1. t.x \in Int /\ t.v \in Int /\ t.radius \in Nat
  BY DEF Track
<1> QED BY <1>1 DEF Published, Tracked

(* Of the returns in a sector one is the nearest.                          *)
LEMMA NearestExists ==
  ASSUME NEW returns \in SUBSET Place, NEW p \in returns
  PROVE  \E q \in NearestPerSector(returns) :
           SectorOf[q] = SectorOf[p] /\ RangeOf[q] <= RangeOf[p]
<1> DEFINE S == {q \in returns : SectorOf[q] = SectorOf[p]}
           ranges == {RangeOf[q] : q \in S}
<1>1. \A q \in returns : RangeOf[q] \in Nat /\ Beam(q) \in Nat
  BY BeamsDiffer, ViewAssumption
<1>2. ranges \in SUBSET Nat /\ ranges # {}
  BY <1>1
<1>3. PICK r \in ranges : \A m \in ranges : r <= m
  <2> HIDE DEF ranges
  <2> QED BY <1>2, LeastExists
<1> DEFINE T == {q \in S : RangeOf[q] = r}
           beams == {Beam(q) : q \in T}
<1>4. beams \in SUBSET Nat /\ beams # {}
  BY <1>1, <1>3
<1>5. PICK b \in beams : \A m \in beams : b <= m
  <2> HIDE DEF beams
  <2> QED BY <1>4, LeastExists
<1>6. PICK q \in T : Beam(q) = b
  BY <1>5
<1>7. ASSUME NEW n \in returns, SectorOf[n] = SectorOf[q] PROVE Nearer(q, n)
  <2>1. n \in S /\ RangeOf[q] = r /\ r <= RangeOf[n]
    BY <1>3, <1>6, <1>7
  <2>2. CASE RangeOf[n] = r
    BY <1>5, <1>6, <2>1, <2>2 DEF Nearer
  <2>3. CASE ~ (RangeOf[n] = r)
    BY <1>1, <1>6, <2>1, <2>3 DEF Nearer
  <2> QED BY <2>2, <2>3
<1>8. q \in NearestPerSector(returns)
  BY <1>6, <1>7 DEF NearestPerSector
<1> QED BY <1>3, <1>6, <1>8

(* What is sampled was returned; the nearest return of a sector is sampled *)
(* unless a compact cluster owns it.                                       *)
LEMMA SampledReturns ==
  ASSUME NEW returns
  PROVE  /\ StaticReturns(returns) \subseteq returns
         /\ \A q \in NearestPerSector(returns) :
              q \in returns /\ (q \in StaticReturns(returns) \/ q \in UNION Compact(returns))
BY DEF StaticReturns, NearestPerSector

(* Detections and tracks after a new scan: a return that a compact cluster *)
(* owns has a track at its cluster, at least half as large.                *)
LEMMA NewScanCovers ==
  ASSUME SensTypeOK, NEW returns \in SUBSET Place, NewScan(returns)
  PROVE  /\ SensTypeOK' /\ since' = 0
         /\ prev_detections'.points = StaticReturns(returns)
         /\ \A p \in returns \cap UNION Compact(returns) : \E j \in DOMAIN prev_detections'.tracked :
              Gap(At(p), prev_detections'.tracked[j].x)
                <= prev_detections'.tracked[j].radius + MaxTrackExtent \div 2
         /\ \A j \in DOMAIN tracks' : tracks'[j].misses <= MaxMisses
         /\ returns = {} => \A j \in DOMAIN tracks' : \E k \in DOMAIN tracks :
              tracks'[j].misses = tracks[k].misses + 1
<1> DEFINE ms == Measurements(returns)
           dt == since + 1
           new == Update(tracks, ms, dt)
           shown == [i \in DOMAIN tracks' |-> Published(tracks'[i])]
<1>1. /\ tracks' = new /\ since' = 0
      /\ prev_detections' = [points |-> StaticReturns(returns), tracked |-> shown]
  BY DEF NewScan
<1>2. ms \in Seq(Measurement) /\ dt \in Nat \ {0} /\ tracks \in Seq(Track)
  BY MeasurementsCover DEF SensTypeOK
<1>3. /\ new \in Seq(Track)
      /\ \A j \in DOMAIN new : new[j].misses <= MaxMisses
      /\ \A i \in DOMAIN ms : \E j \in DOMAIN new :
           new[j].x = ms[i].x /\ 2 * new[j].radius >= ms[i].radius
      /\ ms = << >> => \A j \in DOMAIN new : \E k \in DOMAIN tracks :
           new[j].misses = tracks[k].misses + 1
  <2> HIDE DEF ms, dt
  <2> QED BY <1>2, UpdateCovers
<1> HIDE DEF new, dt
<1>4. tracks' \in Seq(Track) /\ \A j \in DOMAIN tracks' : j \in Nat /\ tracks'[j] \in Track
  BY <1>1, <1>3
<1>5. \A j \in DOMAIN tracks' :
        shown[j] \in Tracked /\ shown[j].x = new[j].x /\ shown[j].radius = new[j].radius
  BY <1>1, <1>4, PublishedTrack
<1>6. shown \in Seq(Tracked) /\ Len(shown) = Len(tracks')
  <2>1. DOMAIN tracks' = 1 .. Len(tracks') /\ Len(tracks') \in Nat
    BY <1>4
  <2>2. DOMAIN shown = 1 .. Len(tracks') /\ shown = [j \in 1 .. Len(tracks') |-> shown[j]]
    BY <2>1
  <2> HIDE DEF shown
  <2>3. shown \in [1 .. Len(tracks') -> Tracked]
    BY <1>5, <2>1, <2>2
  <2> QED BY <2>1, <2>3, LenProperties
<1>7. DOMAIN shown = DOMAIN tracks'
  OBVIOUS
<1> HIDE DEF shown, ms
<1>8. StaticReturns(returns) \in SUBSET Place
  BY SampledReturns
<1>9. SensTypeOK'
  BY <1>1, <1>4, <1>6, <1>8, Constants DEF SensTypeOK, Detections
<1>10. ASSUME NEW p \in returns \cap UNION Compact(returns)
       PROVE  \E j \in DOMAIN shown :
                Gap(At(p), shown[j].x) <= shown[j].radius + MaxTrackExtent \div 2
  <2>1. p \in UNION Compact(returns)
    OBVIOUS
  <2>2. PICK i \in DOMAIN ms : Gap(At(p), ms[i].x) <= ms[i].radius
    BY <2>1, MeasurementsCover DEF ms
  <2>3. PICK j \in DOMAIN new : new[j].x = ms[i].x /\ 2 * new[j].radius >= ms[i].radius
    BY <1>3
  <2>4. j \in DOMAIN shown /\ shown[j].x = ms[i].x /\ shown[j].radius = new[j].radius
    BY <1>1, <1>5, <1>7, <2>3
  <2>5. ms[i] \in Measurement /\ new[j] \in Track
    BY <1>2, <1>3
  <2>6. ms[i].x \in Int /\ ms[i].radius \in 0 .. MaxTrackExtent /\ new[j].radius \in Nat
    BY <2>5 DEF Measurement, Track
  <2>7. Gap(At(p), ms[i].x) \in Nat
    <3>1. At(p) \in Int
      BY AtTyped DEF Place
    <3> QED BY <2>6, <3>1, GapTyped
  <2>8. \A g, m, r, e \in Nat : g <= m /\ 2 * r >= m /\ m <= e => g <= r + e \div 2
    OBVIOUS
  <2>9. Gap(At(p), ms[i].x) <= new[j].radius + MaxTrackExtent \div 2
    BY <2>2, <2>3, <2>6, <2>7, <2>8, Constants
  <2> QED BY <2>4, <2>9
<1>11. ASSUME returns = {} PROVE ms = << >>
  <2>1. DOMAIN ms = {}
    <3>1. Compact({}) = {}
      <4>1. UNION ClusterScanReturns({}) \subseteq {} /\ {} \notin ClusterScanReturns({})
        BY ClustersAreApart DEF Apart
      <4>2. ClusterScanReturns({}) = {}
        BY <4>1
      <4> QED BY <4>2 DEF Compact
    <3>2. {Beam(FirstOf(c)) : c \in Compact(returns)} = {}
      BY <1>11, <3>1
    <3>3. DOMAIN ms = DOMAIN InOrder({Beam(FirstOf(c)) : c \in Compact(returns)})
      BY DEF ms, Measurements
    <3>4. DOMAIN InOrder({}) = {}
      BY FS_EmptySet DEF InOrder
    <3> QED BY <3>2, <3>3, <3>4
  <2>2. Len(ms) = 0
    BY <1>2, <2>1
  <2> QED BY <1>2, <2>2, EmptySeq
<1> QED BY <1>1, <1>3, <1>9, <1>10, <1>11

(* A scan of nothing is one more miss for every track, and no points.      *)
LEMMA NewScanFades ==
  ASSUME ViewTypeOK, TracksFade, WorldMoves, NEW returns \in SUBSET Place,
         returns \subseteq Things', NewScan(returns)
  PROVE  SensTypeOK' /\ TracksFade' /\ PointsFade'
<1>1. /\ SensTypeOK' /\ since' = 0 /\ prev_detections'.points = StaticReturns(returns)
      /\ \A j \in DOMAIN tracks' : tracks'[j].misses <= MaxMisses
      /\ returns = {} => \A j \in DOMAIN tracks' : \E k \in DOMAIN tracks :
           tracks'[j].misses = tracks[k].misses + 1
  BY NewScanCovers DEF ViewTypeOK
<1>2. vacant' \in Nat /\ vacant \in Nat /\ vacant' <= vacant + 1 /\ (Things' # {} => vacant' = 0)
  BY WorldMovesTyped, FadeBounds DEF ViewTypeOK, WorldTypeOK
<1>3. since \in 0 .. MaxRepeat /\ tracks \in Seq(Track) /\ tracks' \in Seq(Track)
  BY <1>1 DEF ViewTypeOK, SensTypeOK
<1>4. ASSUME NEW j \in DOMAIN tracks' PROVE tracks'[j].misses \in Nat
  <2>1. tracks'[j] \in Track
    BY <1>3
  <2> QED BY <2>1 DEF Track
<1>5. ASSUME NEW j \in DOMAIN tracks'
      PROVE  vacant' <= tracks'[j].misses * (MaxRepeat + 1) + since'
  <2>1. CASE Things' # {}
    BY <1>1, <1>2, <1>4, <2>1, MissCounts
  <2>2. CASE Things' = {}
    <3>1. PICK k \in DOMAIN tracks : tracks'[j].misses = tracks[k].misses + 1
      BY <1>1, <2>2
    <3>2. tracks[k].misses \in Nat
      <4>1. tracks[k] \in Track
        BY <1>3
      <4> QED BY <4>1 DEF Track
    <3>3. vacant <= tracks[k].misses * (MaxRepeat + 1) + since
      BY DEF TracksFade
    <3> DEFINE old == tracks[k].misses * (MaxRepeat + 1)
    <3>4. old \in Nat /\ tracks'[j].misses * (MaxRepeat + 1) = old + MaxRepeat + 1
      BY <3>1, <3>2, MissCounts
    <3> HIDE DEF old
    <3>5. vacant' <= old + MaxRepeat + 1
      <4>1. vacant <= old + since
        BY <3>3 DEF old
      <4> QED BY <1>2, <1>3, <3>4, <4>1, Constants
    <3>6. old + MaxRepeat + 1 + 0 = old + MaxRepeat + 1
      BY <3>4, Constants
    <3> QED BY <1>1, <3>4, <3>5, <3>6
  <2> QED BY <2>1, <2>2
<1>6. PointsFade'
  <2>1. ASSUME prev_detections'.points # {} PROVE vacant' <= since'
    <3>1. returns # {}
      BY <1>1, <2>1, SampledReturns
    <3> QED BY <1>1, <1>2, <3>1
  <2> QED BY <2>1 DEF PointsFade
<1>7. TracksFade'
  BY <1>1, <1>5 DEF TracksFade
<1> QED BY <1>1, <1>6, <1>7

(* The same scan again takes one of its repetitions. *)
LEMMA SameScanFades ==
  ASSUME ViewTypeOK, TracksFade, PointsFade, WorldMoves, SameScan
  PROVE  SensTypeOK' /\ TracksFade' /\ PointsFade'
<1>1. since < MaxRepeat /\ since' = since + 1 /\ tracks' = tracks
      /\ prev_detections' = prev_detections
  BY DEF SameScan
<1>2. vacant' \in Nat /\ vacant \in Nat /\ vacant' <= vacant + 1
  BY WorldMovesTyped, FadeBounds DEF ViewTypeOK, WorldTypeOK
<1>3. since \in 0 .. MaxRepeat /\ tracks \in Seq(Track)
  BY DEF ViewTypeOK, SensTypeOK
<1>4. SensTypeOK'
  BY <1>1, Constants DEF ViewTypeOK, SensTypeOK
<1>5. TracksFade'
  <2>1. ASSUME NEW j \in DOMAIN tracks
        PROVE  /\ tracks[j].misses <= MaxMisses
               /\ vacant' <= tracks[j].misses * (MaxRepeat + 1) + since'
    <3>1. tracks[j] \in Track
      BY <1>3
    <3>2. tracks[j].misses \in Nat
      BY <3>1 DEF Track
    <3> DEFINE m == tracks[j].misses * (MaxRepeat + 1)
    <3>3. m \in Nat
      BY <3>2, MissCounts
    <3>4. tracks[j].misses <= MaxMisses /\ vacant <= m + since
      BY DEF TracksFade
    <3> HIDE DEF m
    <3>5. vacant' <= m + since'
      BY <1>1, <1>2, <1>3, <3>3, <3>4
    <3> QED BY <3>4, <3>5 DEF m
  <2> QED BY <1>1, <2>1 DEF TracksFade
<1>6. PointsFade'
  BY <1>1, <1>2, <1>3 DEF PointsFade
<1> QED BY <1>4, <1>5, <1>6

(***************************************************************************)
(* Planning: a frame into the memory, and what is seen of it.              *)
(***************************************************************************)

(* The newest frame is the last one, the others have moved on. *)
LEMMA PushMoves ==
  ASSUME PlanningTypeOK, NEW frame \in SUBSET Place
  PROVE  /\ Push(frame) \in Seq(SUBSET Place) /\ Len(Push(frame)) = Depth
         /\ Push(frame)[Depth] = frame
         /\ \A k \in 1 .. Depth - 1 : Push(frame)[k] = frames[k + 1]
<1>1. /\ frames \in Seq(SUBSET Place) /\ Len(frames) = Depth /\ Depth \in Nat \ {0}
      /\ frames # << >>
  BY Constants, EmptySeq DEF PlanningTypeOK
<1>2. /\ Tail(frames) \in Seq(SUBSET Place) /\ Len(Tail(frames)) = Depth - 1
      /\ \A k \in 1 .. Depth - 1 : Tail(frames)[k] = frames[k + 1]
  BY <1>1, HeadTailProperties
<1> DEFINE t == Tail(frames)
<1> HIDE DEF t
<1>3. /\ Append(t, frame) \in Seq(SUBSET Place) /\ Len(Append(t, frame)) = Depth
      /\ Append(t, frame)[Depth] = frame
      /\ \A k \in 1 .. Depth - 1 : Append(t, frame)[k] = t[k]
  <2>1. t \in Seq(SUBSET Place) /\ Len(t) = Depth - 1
    BY <1>2 DEF t
  <2> QED BY <1>1, <2>1, AppendProperties
<1> QED BY <1>2, <1>3 DEF t, Push

(* Planning over detections: memory and view fade if the detections do.    *)
LEMMA PlanFades ==
  ASSUME ViewTypeOK, FramesFade, WorldMoves, NEW frame \in SUBSET Place, NEW told,
         Plan(frame, told),
         frame # {} => vacant' <= MaxRepeat,
         DOMAIN told # {} => vacant' < FadeBound
  PROVE  /\ frames' \in Seq(SUBSET Place) /\ Len(frames') = Depth
         /\ FramesFade' /\ PhantomsFade'
<1>1. /\ frames' = Push(frame)
      /\ view' = Obstacles(UnionExcludingGhosts(frames', told), told)
  BY DEF Plan
<1>2. /\ frames' \in Seq(SUBSET Place) /\ Len(frames') = Depth /\ frames'[Depth] = frame
      /\ \A k \in 1 .. Depth - 1 : frames'[k] = frames[k + 1]
  BY <1>1, PushMoves DEF ViewTypeOK
<1>3. vacant' \in Nat /\ vacant \in Nat /\ vacant' <= vacant + 1
  BY WorldMovesTyped, FadeBounds DEF ViewTypeOK, WorldTypeOK
<1>4. ASSUME NEW k \in 1 .. Depth, frames'[k] # {}
      PROVE  vacant' <= MaxRepeat + Depth - k
  <2>1. CASE k = Depth
    BY <1>2, <1>3, <1>4, <2>1, Constants
  <2>2. CASE k # Depth
    <3>1. k \in 1 .. Depth - 1 /\ k + 1 \in 1 .. Depth
      BY <2>2, Constants
    <3>2. vacant <= MaxRepeat + Depth - (k + 1)
      BY <1>2, <1>4, <3>1 DEF FramesFade
    <3> QED BY <1>3, <3>1, <3>2, Constants
  <2> QED BY <2>1, <2>2
<1>5. ASSUME NEW b \in view' PROVE vacant' < FadeBound
  <2>1. CASE DOMAIN told # {}
    BY <2>1
  <2>2. CASE DOMAIN told = {}
    <3>1. PICK k \in DOMAIN frames' : frames'[k] # {}
      BY <1>1, <2>2 DEF Obstacles, UnionExcludingGhosts
    <3>2. k \in 1 .. Depth
      BY <1>2, <3>1
    <3>3. vacant' <= MaxRepeat + Depth - k
      BY <1>4, <3>1, <3>2
    <3> QED BY <1>3, <3>2, <3>3, FadeBounds, Constants
  <2> QED BY <2>1, <2>2
<1>6. PhantomsFade'
  <2>1. ASSUME vacant' = FadeBound, view' # {} PROVE FALSE
    <3>1. vacant' < FadeBound
      BY <1>5, <2>1
    <3> QED BY <2>1, <3>1, FadeBounds
  <2>2. FadeBound' = FadeBound
    BY DEF FadeBound
  <2> QED BY <2>1, <2>2 DEF PhantomsFade
<1> QED BY <1>2, <1>4, <1>6 DEF FramesFade

(* Receiving: what is known now is known by planning. *)
LEMMA ReceiveFades ==
  ASSUME ViewTypeOK, Fading, WorldMoves, SensTypeOK', TracksFade', PointsFade', Receive
  PROVE  PlanningTypeOK' /\ FramesFade' /\ TrackedFade' /\ PhantomsFade'
<1> DEFINE frame == prev_detections'.points
           told == last_tracked'
<1>1. /\ told = prev_detections'.tracked /\ tracked_age' = 0 /\ Plan(frame, told)
  BY DEF Receive
<1>2. /\ frame \in SUBSET Place /\ told \in Seq(Tracked) /\ Len(told) = Len(tracks')
      /\ tracks' \in Seq(Track) /\ since' \in 0 .. MaxRepeat
  BY <1>1 DEF SensTypeOK, Detections
<1>3. vacant' \in Nat
  BY WorldMovesTyped, FadeBounds DEF ViewTypeOK, WorldTypeOK
<1>4. frame # {} => vacant' <= MaxRepeat
  BY <1>2, <1>3, Constants DEF PointsFade
<1>5. ASSUME told # << >> PROVE vacant' < (MaxMisses + 1) * (MaxRepeat + 1)
  <2>1. 1 \in DOMAIN tracks'
    BY <1>2, <1>5, EmptySeq
  <2>2. tracks'[1] \in Track
    BY <1>2, <2>1
  <2>3. tracks'[1].misses \in Nat /\ tracks'[1].misses <= MaxMisses
        /\ vacant' <= tracks'[1].misses * (MaxRepeat + 1) + since'
    BY <2>1, <2>2 DEF TracksFade, Track
  <2> DEFINE m == tracks'[1].misses * (MaxRepeat + 1)
             bound == (MaxMisses + 1) * (MaxRepeat + 1)
  <2>4. m \in Nat /\ m + MaxRepeat < bound /\ bound \in Nat
    <3>1. bound \in Nat
      BY MissCounts, Constants
    <3> QED BY <2>3, <3>1, MissCounts
  <2>5. vacant' <= m + since'
    BY <2>3
  <2> HIDE DEF m, bound
  <2>6. since' \in 0 .. MaxRepeat /\ MaxRepeat \in Nat
    BY <1>2, Constants
  <2>7. \A v, n, s, r, b \in Nat : v <= n + s /\ s <= r /\ n + r < b => v < b
    OBVIOUS
  <2>8. since' \in Nat /\ since' <= MaxRepeat
    BY <2>6
  <2>9. vacant' < bound
    BY <1>3, <2>4, <2>5, <2>6, <2>7, <2>8, Zenon
  <2> QED BY <2>9 DEF bound
<1>6. DOMAIN told # {} => vacant' < FadeBound
  <2>1. ASSUME DOMAIN told # {} PROVE vacant' < FadeBound
    <3> DEFINE bound == (MaxMisses + 1) * (MaxRepeat + 1)
    <3>1. told # << >>
      BY <2>1
    <3>2. vacant' < bound /\ bound \in Nat /\ FadeBound >= bound + Hold - 1
      BY <1>5, <3>1, FadeBounds, MissCounts, Constants
    <3> HIDE DEF bound
    <3> QED BY <1>3, <3>2, FadeBounds, Constants
  <2> QED BY <2>1
<1>7. /\ frames' \in Seq(SUBSET Place) /\ Len(frames') = Depth
      /\ FramesFade' /\ PhantomsFade'
  <2> HIDE DEF frame, told
  <2> QED BY <1>1, <1>2, <1>4, <1>6, PlanFades DEF Fading
<1>8. PlanningTypeOK'
  BY <1>1, <1>2, <1>7, Constants DEF PlanningTypeOK
<1>9. TrackedFade'
  <2> DEFINE bound == (MaxMisses + 1) * (MaxRepeat + 1)
  <2>1. bound \in Nat
    BY MissCounts, Constants
  <2>2. told # << >> => vacant' < bound
    BY <1>5
  <2> HIDE DEF bound
  <2>3. told # << >> => vacant' < bound + tracked_age'
    BY <1>1, <1>3, <2>1, <2>2
  <2> QED BY <2>3 DEF TrackedFade, bound
<1> QED BY <1>7, <1>8, <1>9

(* Missing a message: what planning was told gets older.                   *)
LEMMA MissFades ==
  ASSUME ViewTypeOK, Fading, WorldMoves, Miss
  PROVE  PlanningTypeOK' /\ FramesFade' /\ TrackedFade' /\ PhantomsFade'
<1> DEFINE told == Held
           bound == (MaxMisses + 1) * (MaxRepeat + 1)
<1>1. /\ tracked_age' = IF tracked_age < Hold THEN tracked_age + 1 ELSE tracked_age
      /\ last_tracked' = last_tracked /\ Plan({}, told)
  BY DEF Miss
<1>2. vacant' \in Nat /\ vacant \in Nat /\ vacant' <= vacant + 1
  BY WorldMovesTyped, FadeBounds DEF ViewTypeOK, WorldTypeOK
<1>3. tracked_age \in 0 .. Hold /\ last_tracked \in Seq(Tracked)
  BY DEF ViewTypeOK, PlanningTypeOK
<1>4. tracked_age' \in 0 .. Hold /\ (tracked_age' < Hold => tracked_age' = tracked_age + 1)
  BY <1>1, <1>3, Constants
<1>5. bound \in Nat /\ FadeBound >= bound + Hold - 1
  BY FadeBounds, MissCounts, Constants
<1>6. last_tracked # << >> /\ tracked_age < Hold => vacant < bound + tracked_age
  BY DEF Fading, TrackedFade
<1> HIDE DEF bound
<1>7. last_tracked # << >> /\ tracked_age' < Hold => vacant' < bound + tracked_age'
  BY <1>2, <1>3, <1>4, <1>5, <1>6, Constants
<1>8. DOMAIN told # {} => vacant' < FadeBound
  <2>1. ASSUME DOMAIN told # {} PROVE vacant' < FadeBound
    <3>1. tracked_age' < Hold /\ DOMAIN last_tracked # {}
      BY <2>1 DEF Held
    <3>2. last_tracked # << >>
      BY <3>1
    <3>3. vacant' < bound + tracked_age'
      BY <1>7, <3>1, <3>2
    <3> QED BY <1>2, <1>4, <1>5, <3>1, <3>3, FadeBounds, Constants
  <2> QED BY <2>1
<1>9. /\ frames' \in Seq(SUBSET Place) /\ Len(frames') = Depth
      /\ FramesFade' /\ PhantomsFade'
  <2> HIDE DEF told
  <2>1. {} \in SUBSET Place
    OBVIOUS
  <2> QED BY <1>1, <1>8, <2>1, PlanFades DEF Fading
<1>10. PlanningTypeOK'
  BY <1>1, <1>3, <1>4, <1>9 DEF PlanningTypeOK
<1>11. TrackedFade'
  BY <1>1, <1>7 DEF TrackedFade, bound
<1> QED BY <1>9, <1>10, <1>11

(***************************************************************************)
(* What a scan returned is covered.                                        *)
(***************************************************************************)

(* How far an obstacle may be from the return that it stands for. *)
Slack == Max({GhostSlack, MaxTrackExtent \div 2})

(* The slack of a ghost and of a track that is half as large. *)
LEMMA SlackCovers ==
  Slack \in Nat /\ GhostSlack <= Slack /\ MaxTrackExtent \div 2 <= Slack
<1> DEFINE e == MaxTrackExtent \div 2
<1>1. e \in Nat /\ GhostSlack \in Nat
  BY Constants
<1>2. Slack = Max({GhostSlack, e})
  BY DEF Slack
<1> HIDE DEF e
<1>3. \E x \in {GhostSlack, e} : \A y \in {GhostSlack, e} : x >= y
  BY <1>1
<1>4. Max({GhostSlack, e}) \in {GhostSlack, e} /\ \A y \in {GhostSlack, e} : Max({GhostSlack, e}) >= y
  BY <1>3, Zenon DEF Max
<1>5. Slack \in Nat /\ GhostSlack <= Slack /\ e <= Slack
  BY <1>1, <1>2, <1>4
<1> QED BY <1>5 DEF e

(* A point of the newest frame is in view, or a mover is there instead.    *)
LEMMA NewestFrameCovered ==
  ASSUME NEW remembered \in Seq(SUBSET Place), Len(remembered) = Depth,
         NEW told \in Seq(Tracked), NEW p \in remembered[Depth]
  PROVE  \E o \in Obstacles(UnionExcludingGhosts(remembered, told), told) :
           Gap(At(p), o.x) <= o.radius + Slack
<1> DEFINE seen == Obstacles(UnionExcludingGhosts(remembered, told), told)
<1>1. Depth \in DOMAIN remembered /\ p \in Place
  BY Constants
<1>2. At(p) \in Int
  BY <1>1, AtTyped DEF Place
<1>3. CASE IsGhost(p, Depth - Depth, told)
  <2>1. PICK i \in DOMAIN told :
          Gap(At(p), told[i].x - told[i].v * (Depth - Depth)) <= told[i].radius + GhostSlack
    BY <1>3 DEF IsGhost
  <2>2. told[i] \in Tracked
    OBVIOUS
  <2>3. told[i].x \in Int /\ told[i].v \in Int /\ told[i].radius \in Nat
    BY <2>2 DEF Tracked
  <2>4. told[i].x - told[i].v * (Depth - Depth) = told[i].x
    <3>1. Depth - Depth = 0
      BY Constants
    <3>2. told[i].v * 0 = 0
      BY <2>3
    <3> QED BY <2>3, <3>1, <3>2
  <2>5. Gap(At(p), told[i].x) <= told[i].radius + Slack
    <3>1. Gap(At(p), told[i].x) <= told[i].radius + GhostSlack
      BY <2>1, <2>4
    <3>2. Gap(At(p), told[i].x) \in Nat
      BY <1>2, <2>3, GapTyped
    <3> QED BY <2>3, <3>1, <3>2, SlackCovers, Constants
  <2>6. [x |-> told[i].x, radius |-> told[i].radius] \in seen
    BY DEF Obstacles
  <2> HIDE DEF seen
  <2>7. \E o \in seen : Gap(At(p), o.x) <= o.radius + Slack
    BY <2>5, <2>6
  <2> QED BY <2>7, Zenon DEF seen
<1>4. CASE ~ IsGhost(p, Depth - Depth, told)
  <2>1. p \in UnionExcludingGhosts(remembered, told)
    BY <1>1, <1>4 DEF UnionExcludingGhosts
  <2>2. [x |-> At(p), radius |-> 0] \in seen
    BY <2>1 DEF Obstacles
  <2>3. Gap(At(p), At(p)) = 0
    BY <1>2 DEF Gap, Size
  <2> HIDE DEF seen
  <2>4. Gap(At(p), At(p)) <= 0 + Slack
    BY <2>3, SlackCovers
  <2>5. \E o \in seen : Gap(At(p), o.x) <= o.radius + Slack
    BY <2>2, <2>4
  <2> QED BY <2>5, Zenon DEF seen
<1> QED BY <1>3, <1>4

(* Planning has just been told of a new scan. *)
LEMMA ReceiveCovers ==
  ASSUME ViewTypeOK, NEW returns \in SUBSET Place, NewScan(returns), Receive,
         NEW p \in NearestPerSector(returns)
  PROVE  p \in returns /\ \E o \in view' : Gap(At(p), o.x) <= o.radius + Slack
<1> DEFINE told == last_tracked'
<1>1. /\ told = prev_detections'.tracked /\ frames' = Push(prev_detections'.points)
      /\ view' = Obstacles(UnionExcludingGhosts(frames', told), told)
  BY DEF Receive, Plan
<1>2. /\ SensTypeOK' /\ prev_detections'.points = StaticReturns(returns)
      /\ \A q \in returns \cap UNION Compact(returns) : \E j \in DOMAIN told :
           Gap(At(q), told[j].x) <= told[j].radius + MaxTrackExtent \div 2
  BY <1>1, NewScanCovers DEF ViewTypeOK
<1>3. StaticReturns(returns) \in SUBSET Place /\ told \in Seq(Tracked)
  BY <1>1, <1>2 DEF SensTypeOK, Detections
<1>4. /\ frames' \in Seq(SUBSET Place) /\ Len(frames') = Depth
      /\ frames'[Depth] = StaticReturns(returns)
  BY <1>1, <1>2, <1>3, PushMoves DEF ViewTypeOK
<1> HIDE DEF told
<1>7. p \in returns /\ p \in Place
  BY SampledReturns
<1>5. CASE p \in StaticReturns(returns)
  BY <1>1, <1>3, <1>4, <1>5, <1>7, NewestFrameCovered
<1>6. CASE p \in UNION Compact(returns)
  <2>1. PICK j \in DOMAIN told :
          Gap(At(p), told[j].x) <= told[j].radius + MaxTrackExtent \div 2
    BY <1>2, <1>6, <1>7
  <2>2. told[j] \in Tracked
    BY <1>3
  <2>3. told[j].x \in Int /\ told[j].radius \in Nat
    BY <2>2 DEF Tracked
  <2>4. Gap(At(p), told[j].x) \in Nat
    <3>1. At(p) \in Int
      BY <1>7, AtTyped DEF Place
    <3> QED BY <2>3, <3>1, GapTyped
  <2>5. \A g, r, e, f \in Nat : g <= r + e /\ e <= f => g <= r + f
    OBVIOUS
  <2>6. MaxTrackExtent \div 2 \in Nat
    BY Constants
  <2>7. Gap(At(p), told[j].x) <= told[j].radius + Slack
    BY <2>1, <2>3, <2>4, <2>5, <2>6, SlackCovers
  <2>8. [x |-> told[j].x, radius |-> told[j].radius] \in view'
    BY <1>1 DEF Obstacles
  <2> QED BY <1>7, <2>7, <2>8
<1> QED BY <1>5, <1>6, SampledReturns

(***************************************************************************)
(* The steps, and the theorems.                                            *)
(***************************************************************************)

(* A cycle, whatever is seen of the world, published and received.         *)
LEMMA NextFades ==
  ViewTypeOK /\ Fading /\ Next => (ViewTypeOK /\ Fading /\ NearestIsCovered)'
<1> SUFFICES ASSUME ViewTypeOK, Fading, Next
             PROVE  (ViewTypeOK /\ Fading /\ NearestIsCovered)'
  OBVIOUS
<1>1. CASE Scan
  <2>1. PICK dropped \in Dropouts :
          /\ WorldMoves /\ NewScan(Things' \ dropped)
          /\ \/ Receive /\ Told(Things' \ dropped)
             \/ Miss /\ Told({})
    BY <1>1 DEF Scan
  <2> DEFINE returns == Things' \ dropped
  <2>2. WorldTypeOK' /\ Things' \in SUBSET Place
    BY <2>1, WorldMovesTyped DEF ViewTypeOK
  <2>3. returns \in SUBSET Place /\ returns \subseteq Things'
    BY <2>2
  <2>4. SensTypeOK' /\ TracksFade' /\ PointsFade'
    <3>1. NewScan(returns)
      BY <2>1
    <3> HIDE DEF returns
    <3> QED BY <2>1, <2>3, <3>1, NewScanFades DEF Fading
  <2>5. CASE Receive /\ Told(returns)
    <3>1. PlanningTypeOK' /\ FramesFade' /\ TrackedFade' /\ PhantomsFade'
      BY <2>1, <2>4, <2>5, ReceiveFades
    <3>2. returned' = returns /\ NewScan(returns)
      BY <2>1, <2>5 DEF Told
    <3>3. NearestIsCovered'
      <4>1. \A q \in NearestPerSector(returns) : q \in returns /\ Covered(q)'
        <5> HIDE DEF returns
        <5> QED BY <2>3, <2>5, <3>2, ReceiveCovers DEF Covered, Slack
      <4> HIDE DEF returns
      <4> QED BY <2>3, <3>2, <4>1, NearestExists DEF NearestIsCovered
    <3> QED BY <2>2, <2>4, <3>1, <3>3 DEF ViewTypeOK, Fading
  <2>6. CASE Miss /\ Told({})
    <3>1. PlanningTypeOK' /\ FramesFade' /\ TrackedFade' /\ PhantomsFade'
      BY <2>1, <2>6, MissFades
    <3>2. NearestIsCovered'
      BY <2>6 DEF Told, NearestIsCovered
    <3> QED BY <2>2, <2>4, <3>1, <3>2 DEF ViewTypeOK, Fading
  <2> QED BY <2>1, <2>5, <2>6
<1>2. CASE Repeat
  <2>1. WorldMoves /\ SameScan /\ Told({}) /\ (Receive \/ Miss)
    BY <1>2 DEF Repeat
  <2>2. WorldTypeOK'
    BY <2>1, WorldMovesTyped DEF ViewTypeOK
  <2>3. SensTypeOK' /\ TracksFade' /\ PointsFade'
    BY <2>1, SameScanFades DEF Fading
  <2>4. PlanningTypeOK' /\ FramesFade' /\ TrackedFade' /\ PhantomsFade'
    BY <2>1, <2>3, ReceiveFades, MissFades
  <2>5. NearestIsCovered'
    BY <2>1 DEF Told, NearestIsCovered
  <2> QED BY <2>2, <2>3, <2>4, <2>5 DEF ViewTypeOK, Fading
<1> QED BY <1>1, <1>2 DEF Next

(* The inductive invariant: types, and what every memory says of how long  *)
(* there has been nothing.                                                 *)
THEOREM ViewInvariant == Spec => [](ViewTypeOK /\ Fading /\ NearestIsCovered)
<1> DEFINE Inv == ViewTypeOK /\ Fading /\ NearestIsCovered
<1>1. Init => Inv
  BY InitFades
<1>2. Inv /\ [Next]_vars => Inv'
  <2>1. CASE Next
    BY <2>1, NextFades
  <2>2. CASE UNCHANGED vars
    <3>1. /\ UNCHANGED <<posts, walker, stride, vacant>>
          /\ UNCHANGED <<tracks, since, prev_detections>>
          /\ UNCHANGED <<frames, last_tracked, tracked_age, view, returned>>
      BY <2>2 DEF vars, worldVars, sensVars, planningVars
    <3>2. ViewTypeOK => ViewTypeOK'
      BY <3>1 DEF ViewTypeOK, WorldTypeOK, SensTypeOK, PlanningTypeOK
    <3>3. Fading => Fading'
      BY <3>1 DEF Fading, TracksFade, PointsFade, FramesFade, TrackedFade, PhantomsFade
    <3>4. NearestIsCovered => NearestIsCovered'
      BY <3>1 DEF NearestIsCovered, Covered
    <3> QED BY <3>2, <3>3, <3>4
  <2> QED BY <2>1, <2>2
<1> QED BY <1>1, <1>2, PTL DEF Spec

(* The nearest return of every sector of a scan that planning is told of   *)
(* has an obstacle in view, for every world, every division into sectors   *)
(* and every tracker (NearestIsCovered; main.rs:372-425, tracker.rs,       *)
(* planning step 4).                                                       *)
THEOREM NearestIsAlwaysCovered == Spec => []NearestIsCovered
BY ViewInvariant, PTL

(* FadeBound cycles after there is nothing, planning sees nothing, whatever*)
(* was tracked, remembered or coasted (PhantomsFade).                      *)
THEOREM PhantomsAlwaysFade == Spec => []PhantomsFade
<1>1. ViewTypeOK /\ Fading /\ NearestIsCovered => PhantomsFade
  BY DEF Fading
<1> QED BY <1>1, ViewInvariant, PTL

(***************************************************************************)
(* What a mover leaves behind.                                             *)
(***************************************************************************)

(* A point that was seen age cycles ago was on a post, or where the walker *)
(* was then, as long as it has not changed its stride since.               *)
SeenThen(p, age) == p \in UNION posts \/ (steady >= age => p \in Body(walker - stride * age))
StepsTyped == steady \in Nat /\ walker \in Int /\ stride \in Int
ScanRemembered ==
  \A p \in prev_detections.points : \E age \in 0 .. MaxRepeat : age = since /\ SeenThen(p, age)
FramesRemembered ==
  \A k \in 1 .. Depth : \A p \in frames[k] :
    \E late \in 0 .. MaxRepeat : SeenThen(p, Depth - k + late)
(* What is in view is what planning was last told, at the age it has.      *)
ViewIsPlanned ==
  tracked_age = 0 => view = Obstacles(UnionExcludingGhosts(frames, last_tracked), last_tracked)
Trailing ==
  StepsTyped /\ ScanRemembered /\ FramesRemembered /\ ViewIsPlanned /\ MoversLeaveNoFence

(* A cycle makes what was seen a cycle older. *)
LEMMA SeenAges ==
  ASSUME StepsTyped, WorldMoves, NEW p, NEW age \in Nat, SeenThen(p, age)
  PROVE  SeenThen(p, age + 1)'
<1>1. PICK s \in Strides :
        walker' = walker + s /\ stride' = s /\ steady' = IF s = stride THEN Ticked(steady, Oldest) ELSE 1
  BY DEF WorldMoves
<1>2. posts' = posts /\ s \in Int
  BY ViewAssumption DEF WorldMoves
<1>3. CASE p \in UNION posts
  BY <1>2, <1>3 DEF SeenThen
<1>4. CASE steady >= age => p \in Body(walker - stride * age)
  <2> SUFFICES ASSUME steady' >= age + 1 PROVE p \in Body(walker' - stride' * (age + 1))
    BY DEF SeenThen
  <2>1. walker' - stride' * (age + 1) = walker - s * age
    BY <1>1, <1>2 DEF StepsTyped
  <2>2. CASE s = stride
    <3>1. steady >= age
      BY <1>1, <2>2 DEF Ticked, StepsTyped
    <3> QED BY <1>4, <2>1, <2>2, <3>1
  <2>3. CASE s # stride
    <3>1. age = 0 /\ steady >= age
      BY <1>1, <2>3 DEF StepsTyped
    <3>2. walker - s * age = walker - stride * age
      BY <1>2, <3>1 DEF StepsTyped
    <3> QED BY <1>4, <2>1, <3>1, <3>2
  <2> QED BY <2>2, <2>3
<1> QED BY <1>3, <1>4 DEF SeenThen

(* The steps of the walker. *)
LEMMA StepsKept ==
  ASSUME StepsTyped, WorldMoves
  PROVE  StepsTyped'
<1>1. PICK s \in Strides :
        walker' = walker + s /\ stride' = s /\ steady' = IF s = stride THEN Ticked(steady, Oldest) ELSE 1
  BY DEF WorldMoves
<1> QED BY <1>1, ViewAssumption DEF StepsTyped, Ticked

(* A scan's points were there when it was taken; repeated, they are older. *)
LEMMA ScansRemember ==
  ASSUME StepsTyped, ScanRemembered, since \in Nat, WorldMoves,
         SameScan \/ \E dropped \in Dropouts : NewScan(Things' \ dropped)
  PROVE  ScanRemembered'
<1>0. StepsTyped'
  BY StepsKept
<1>1. CASE SameScan
  <2>1. since < MaxRepeat /\ since' = since + 1 /\ prev_detections' = prev_detections
    BY <1>1 DEF SameScan
  <2>2. ASSUME NEW p \in prev_detections'.points
        PROVE  \E age \in 0 .. MaxRepeat : age = since' /\ SeenThen(p, age)'
    <3>1. PICK age \in 0 .. MaxRepeat : age = since /\ SeenThen(p, age)
      BY <2>1 DEF ScanRemembered
    <3>2. age \in Nat /\ age + 1 \in 0 .. MaxRepeat /\ age + 1 = since'
      BY <2>1, <3>1, Constants
    <3>3. SeenThen(p, age + 1)'
      BY <3>1, <3>2, SeenAges
    <3> QED BY <3>2, <3>3
  <2> QED BY <2>2 DEF ScanRemembered
<1>2. ASSUME NEW dropped \in Dropouts, NewScan(Things' \ dropped) PROVE ScanRemembered'
  <2>1. since' = 0 /\ prev_detections'.points \subseteq Things' /\ 0 \in 0 .. MaxRepeat
    BY <1>2, Constants, SampledReturns DEF NewScan
  <2>2. ASSUME NEW p \in prev_detections'.points PROVE SeenThen(p, 0)'
    <3>1. p \in Things'
      BY <2>1
    <3>2. walker' - stride' * 0 = walker'
      <4>1. \A w, d \in Int : w - d * 0 = w
        OBVIOUS
      <4> QED BY <1>0, <4>1 DEF StepsTyped
    <3> QED BY <3>1, <3>2 DEF SeenThen, Things
  <2> QED BY <2>1, <2>2 DEF ScanRemembered
<1> QED BY <1>1, <1>2

(* A frame holds nothing, or the scan, which is repeated MaxRepeat times   *)
(* at most; the other frames are a cycle older.                            *)
LEMMA FramesRemember ==
  ASSUME ViewTypeOK, StepsTyped, FramesRemembered, WorldMoves, SensTypeOK', ScanRemembered',
         NEW frame, frame = {} \/ frame = prev_detections'.points, frames' = Push(frame)
  PROVE  FramesRemembered'
<1>1. PlanningTypeOK /\ frame \in SUBSET Place
  BY DEF ViewTypeOK, SensTypeOK, Detections
<1>2. frames'[Depth] = frame /\ \A k \in 1 .. Depth - 1 : frames'[k] = frames[k + 1]
  BY <1>1, PushMoves
<1>3. Depth \in Nat \ {0} /\ MaxRepeat \in Nat
  BY Constants
<1>4. ASSUME NEW k \in 1 .. Depth, NEW p \in frames'[k]
      PROVE  \E late \in 0 .. MaxRepeat : SeenThen(p, Depth - k + late)'
  <2>1. CASE k = Depth
    <3>1. p \in prev_detections'.points
      BY <1>2, <1>4, <2>1
    <3>2. PICK late \in 0 .. MaxRepeat : SeenThen(p, late)'
      BY <3>1 DEF ScanRemembered
    <3>3. Depth - k + late = late
      BY <1>3, <2>1
    <3> QED BY <3>2, <3>3 DEF SeenThen
  <2>2. CASE k # Depth
    <3>1. k \in 1 .. Depth - 1 /\ k + 1 \in 1 .. Depth
      BY <1>3, <2>2
    <3>2. p \in frames[k + 1]
      BY <1>2, <1>4, <3>1
    <3>3. PICK late \in 0 .. MaxRepeat : SeenThen(p, Depth - (k + 1) + late)
      BY <3>1, <3>2 DEF FramesRemembered
    <3>4. Depth - (k + 1) + late \in Nat /\ (Depth - (k + 1) + late) + 1 = Depth - k + late
      BY <1>3, <3>1
    <3>5. SeenThen(p, (Depth - (k + 1) + late) + 1)'
      <4> DEFINE age == Depth - (k + 1) + late
      <4>1. age \in Nat /\ SeenThen(p, age)
        BY <3>3, <3>4
      <4> HIDE DEF age
      <4>2. SeenThen(p, age + 1)'
        BY <4>1, SeenAges
      <4> QED BY <4>2 DEF age
    <3>6. SeenThen(p, Depth - k + late)'
      BY <3>4, <3>5 DEF SeenThen
    <3> QED BY <3>6
  <2> QED BY <2>1, <2>2
<1> QED BY <1>4 DEF FramesRemembered

(* What a mover whose speed is known was seen at is taken for its ghost.   *)
LEMMA RememberedAreGhosts ==
  ASSUME ViewTypeOK, StepsTyped, FramesRemembered, ViewIsPlanned
  PROVE  MoversLeaveNoFence
<1> SUFFICES ASSUME steady >= Oldest, Known, NEW p \in Place \ UNION posts,
                    [x |-> At(p), radius |-> 0] \in view
             PROVE  IsTrack([x |-> At(p), radius |-> 0])
  BY DEF MoversLeaveNoFence
<1> DEFINE o == [x |-> At(p), radius |-> 0]
<1>1. PICK i \in DOMAIN last_tracked :
        /\ tracked_age = 0 /\ last_tracked[i].v = At(stride)
        /\ Size(last_tracked[i].v) >= GhostMinSpeed
        /\ \A late \in 0 .. MaxRepeat : \A q \in Body(walker - stride * late) :
             Gap(At(q), last_tracked[i].x) <= last_tracked[i].radius + GhostSlack
  BY DEF Known
<1>2. o \in Obstacles(UnionExcludingGhosts(frames, last_tracked), last_tracked)
  BY <1>1 DEF ViewIsPlanned
<1>3. CASE \E j \in DOMAIN last_tracked : o = [x |-> last_tracked[j].x, radius |-> last_tracked[j].radius]
  BY <1>3 DEF IsTrack
<1>4. CASE \E q \in UnionExcludingGhosts(frames, last_tracked) : o = [x |-> At(q), radius |-> 0]
  <2>1. PICK q \in UnionExcludingGhosts(frames, last_tracked) : At(p) = At(q)
    BY <1>4
  <2>2. PICK k \in DOMAIN frames : q \in frames[k] /\ ~IsGhost(q, Depth - k, last_tracked)
    BY <2>1 DEF UnionExcludingGhosts
  <2>3. frames \in Seq(SUBSET Place) /\ Len(frames) = Depth /\ Depth \in Nat \ {0} /\ MaxRepeat \in Nat
    BY Constants DEF ViewTypeOK, PlanningTypeOK
  <2>4. k \in 1 .. Depth /\ q \in Place
    <3>1. k \in 1 .. Depth
      BY <2>3
    <3>2. frames[k] \in SUBSET Place
      BY <2>3, <3>1
    <3> QED BY <2>2, <3>1, <3>2
  <2>5. p = q
    BY <2>1, <2>4, Constants DEF At, Place
  <2>6. PICK late \in 0 .. MaxRepeat : SeenThen(q, Depth - k + late)
    BY <2>2, <2>4 DEF FramesRemembered
  <2>7. steady >= Depth - k + late
    BY <2>3, <2>4 DEF Oldest, StepsTyped
  <2>8. q \in Body(walker - stride * (Depth - k + late))
    BY <2>5, <2>6, <2>7 DEF SeenThen
  <2> DEFINE age == Depth - k
             back == q + stride * age
  <2>9. age \in Nat /\ back \in Int /\ q \in Int /\ walker \in Int /\ stride \in Int
    BY <2>3, <2>4, Constants DEF StepsTyped, Place
  <2>10. back \in Body(walker - stride * late)
    <3>1. stride * (Depth - k + late) = stride * age + stride * late
      BY <2>3, <2>4, <2>9
    <3>2. stride * age \in Int /\ stride * late \in Int
      BY <2>9
    <3>3. WalkerSize \in Nat
      BY ViewAssumption
    <3> HIDE DEF age
    <3> QED BY <2>8, <2>9, <3>1, <3>2, <3>3 DEF Body
  <2>11. Gap(At(back), last_tracked[i].x) <= last_tracked[i].radius + GhostSlack
    BY <1>1, <2>10
  <2>12. At(back) - last_tracked[i].x = At(q) - (last_tracked[i].x - last_tracked[i].v * age)
    <3>1. last_tracked[i].x \in Int
      <4>1. last_tracked[i] \in Tracked
        BY DEF ViewTypeOK, PlanningTypeOK
      <4> QED BY <4>1 DEF Tracked
    <3>2. At(back) = At(q) + At(stride) * age
      <4>1. Unit \in Int
        BY Constants
      <4>2. Unit * (q + stride * age) = Unit * q + (Unit * stride) * age
        <5> HIDE DEF age
        <5> QED BY <2>9, <4>1
      <4> HIDE DEF age
      <4> QED BY <4>2 DEF At
    <3>3. At(q) \in Int /\ At(stride) * age \in Int
      <4>1. At(q) \in Int /\ At(stride) \in Int
        BY <2>9, Constants DEF At
      <4> HIDE DEF age
      <4> QED BY <2>9, <4>1
    <3> HIDE DEF age, back
    <3> QED BY <1>1, <3>1, <3>2, <3>3
  <2>13. Gap(At(q), last_tracked[i].x - last_tracked[i].v * age)
           <= last_tracked[i].radius + GhostSlack
    <3> HIDE DEF age, back
    <3> QED BY <2>11, <2>12 DEF Gap
  <2>14. IsGhost(q, age, last_tracked)
    <3> HIDE DEF age
    <3> QED BY <1>1, <2>13 DEF IsGhost
  <2> QED BY <2>2, <2>14
<1> QED BY <1>2, <1>3, <1>4 DEF Obstacles

(* To begin with nothing is remembered. *)
LEMMA InitTrails == Init => Trailing
<1> SUFFICES ASSUME Init PROVE Trailing
  OBVIOUS
<1>1. /\ walker \in Int /\ stride = 0 /\ steady = 0 /\ prev_detections.points = {}
      /\ frames = [k \in 1 .. Depth |-> {}] /\ tracked_age = Hold /\ Hold # 0
  BY ViewAssumption DEF Init, NoDetections
<1>2. StepsTyped /\ ScanRemembered /\ ViewIsPlanned
  BY <1>1 DEF StepsTyped, ScanRemembered, ViewIsPlanned
<1>3. FramesRemembered
  BY <1>1 DEF FramesRemembered
<1>4. ViewTypeOK
  BY InitFades
<1> QED BY <1>2, <1>3, <1>4, RememberedAreGhosts DEF Trailing

(* A cycle ages what is remembered. *)
LEMMA NextTrails == ViewTypeOK /\ ViewTypeOK' /\ Trailing /\ Next => Trailing'
<1> SUFFICES ASSUME ViewTypeOK, ViewTypeOK', Trailing, Next PROVE Trailing'
  OBVIOUS
<1>1. /\ WorldMoves /\ (Receive \/ Miss)
      /\ SameScan \/ \E dropped \in Dropouts : NewScan(Things' \ dropped)
  BY DEF Next, Scan, Repeat
<1>0. StepsTyped /\ ScanRemembered /\ FramesRemembered
  BY DEF Trailing
<1>2. StepsTyped'
  BY <1>0, <1>1, StepsKept
<1>3. ScanRemembered'
  <2>1. since \in Nat
    BY Constants DEF ViewTypeOK, SensTypeOK
  <2> QED BY <1>0, <1>1, <2>1, ScansRemember
<1>4. FramesRemembered'
  <2>1. SensTypeOK'
    BY DEF ViewTypeOK
  <2>2. CASE Receive
    <3>1. frames' = Push(prev_detections'.points)
      BY <2>2 DEF Receive, Plan
    <3> QED BY <1>0, <1>1, <1>3, <2>1, <3>1, FramesRemember
  <2>3. CASE Miss
    <3>1. frames' = Push({})
      BY <2>3 DEF Miss, Plan
    <3> QED BY <1>0, <1>1, <1>3, <2>1, <3>1, FramesRemember
  <2> QED BY <1>1, <2>2, <2>3
<1>5. ViewIsPlanned'
  <2>1. CASE Receive
    BY <2>1 DEF Receive, Plan, ViewIsPlanned, Obstacles, UnionExcludingGhosts, IsGhost
  <2>2. CASE Miss
    <3>1. tracked_age' # 0
      BY <2>2, Constants DEF Miss, ViewTypeOK, PlanningTypeOK
    <3> QED BY <3>1 DEF ViewIsPlanned
  <2> QED BY <1>1, <2>1, <2>2
<1>6. MoversLeaveNoFence'
  BY <1>2, <1>4, <1>5, RememberedAreGhosts, PTL
<1> QED BY <1>2, <1>3, <1>4, <1>5, <1>6 DEF Trailing

(* A mover whose speed is known leaves no fence behind, for every world,   *)
(* tracker, rate of scans and depth of the memory: while it keeps its      *)
(* stride every point that was seen of it is taken for its ghost, and what *)
(* stays in view is on a post (MoversLeaveNoFence; main.rs:353-392).       *)
THEOREM MoversNeverLeaveAFence == Spec => []MoversLeaveNoFence
<1> DEFINE Inv == ViewTypeOK /\ Fading /\ NearestIsCovered
<1>1. Init => Trailing
  BY InitTrails
<1>2. Inv /\ Inv' /\ Trailing /\ [Next]_vars => Trailing'
  <2>1. CASE Next
    BY <2>1, NextTrails
  <2>2. CASE UNCHANGED vars
    <3>1. /\ UNCHANGED <<posts, walker, stride, steady>>
          /\ UNCHANGED <<since, prev_detections>>
          /\ UNCHANGED <<frames, last_tracked, tracked_age, view>>
      BY <2>2 DEF vars, worldVars, sensVars, planningVars
    <3>2. Trailing => Trailing'
      BY <3>1 DEF Trailing, StepsTyped, ScanRemembered, FramesRemembered, ViewIsPlanned,
           MoversLeaveNoFence, SeenThen, Known, IsTrack, Obstacles, UnionExcludingGhosts, IsGhost
    <3> QED BY <3>2
  <2> QED BY <2>1, <2>2
<1>3. Spec => []Inv
  BY ViewInvariant
<1>4. Trailing => MoversLeaveNoFence
  BY DEF Trailing
<1> HIDE DEF Inv
<1> QED BY <1>1, <1>2, <1>3, <1>4, PTL DEF Spec

=============================================================================
