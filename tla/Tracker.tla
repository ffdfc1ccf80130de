-------------------------------- MODULE Tracker --------------------------------
(***************************************************************************)
(* What sensperc makes of one lidar scan: clusters of returns, the gates   *)
(* that tell objects from structure, and the tracks of the objects with    *)
(* their velocities (perception/tracker.rs).  Operators on values: the     *)
(* tracks are a sequence of records, in the order of the code's Vec.       *)
(*                                                                         *)
(* The plane is unrolled to a line of places, one beam for each.  A scan   *)
(* starts at the place Seam and wraps, so that an object may lie across    *)
(* the seam while its neighbours on the line are as close as they are.     *)
(* Positions and speeds (per cycle) are in units of which a place has      *)
(* Unit; quotients are rounded to the nearest one.                         *)
(***************************************************************************)
EXTENDS Integers, Sequences, FiniteSets, FiniteSetsExt

CONSTANTS
  LastPlace, Seam, Unit,  \* places 0 .. LastPlace, the first beam of a scan, units per place
  Far,               \* the places beyond max_range
  Flat,              \* the places on the flat face of a wall
  Eps, MinPts,       \* eps_between at the distance of the places, min_pts
  MinMajorLen, MaxTrackExtent,
  Gate, AlphaOf10,   \* gate, ema_alpha in tenths
  ConfirmHits, MaxMisses, StaticSpeed, MaxSpeed

Place == 0 .. LastPlace

ASSUME TrackerAssumption ==
  /\ LastPlace \in Nat /\ Seam \in Place /\ Unit \in Nat \ {0}
  /\ Far \subseteq Place /\ Flat \subseteq Place
  /\ Eps \in Nat /\ MinPts \in Nat \ {0} /\ MinMajorLen \in Nat /\ MaxTrackExtent \in Nat
  /\ Gate \in Nat /\ AlphaOf10 \in 1 .. 10 /\ ConfirmHits \in Nat \ {0} /\ MaxMisses \in Nat
  /\ StaticSpeed \in Nat /\ MaxSpeed \in Nat

Size(n)    == IF n < 0 THEN -n ELSE n
Gap(a, b)  == Size(a - b)
Rounded(n, d) ==
  LET q == (2 * Size(n) + d) \div (2 * d) IN IF n < 0 THEN -q ELSE q
At(p) == Unit * p

(* A finite set of numbers in ascending order.                             *)
InOrder(S) ==
  [i \in 1 .. Cardinality(S) |->
     CHOOSE n \in S : Cardinality({m \in S : m < n}) = i - 1]

(***************************************************************************)
(* Clustering: runs of returns in beam order without a gap above eps.      *)
(***************************************************************************)

Beam(p) == IF p < Seam THEN p - Seam + LastPlace + 1 ELSE p - Seam
FirstOf(c) == CHOOSE p \in c : \A q \in c : Beam(p) <= Beam(q)
LastOf(c)  == CHOOSE p \in c : \A q \in c : Beam(q) <= Beam(p)
Adjacent(p, q) == Gap(At(p), At(q)) <= Eps

(* From p to q every return is adjacent to the next.                       *)
Chained(returns, p, q) ==
  \A r \in returns : Beam(p) <= Beam(r) /\ Beam(r) < Beam(q) =>
    Adjacent(r, FirstOf({n \in returns : Beam(r) < Beam(n)}))
Chains(returns) ==
  {{q \in returns : IF Beam(p) <= Beam(q) THEN Chained(returns, p, q)
                                          ELSE Chained(returns, q, p)} : p \in returns}

(* The groups that are large enough, the first and the last of them joined *)
(* when they meet at the seam.                                             *)
Merged(groups) ==
  IF Cardinality(groups) < 2 THEN groups
  ELSE LET head == CHOOSE c \in groups : FirstOf(UNION groups) \in c
           tail == CHOOSE c \in groups : LastOf(UNION groups) \in c
       IN  IF Adjacent(FirstOf(head), LastOf(tail))
           THEN (groups \ {head, tail}) \cup {head \cup tail} ELSE groups

ClusterScanReturns(returns) ==
  Merged({c \in Chains(returns \ Far) : Cardinality(c) >= MinPts})

(* The sum of a cluster's places, along the line.                          *)
Total(c) ==
  LET sum[n \in 0 .. LastPlace + 1] ==
        IF n = 0 THEN 0 ELSE sum[n - 1] + (IF n - 1 \in c THEN At(n - 1) ELSE 0)
  IN  sum[LastPlace + 1]
Center(c) == Rounded(Total(c), Cardinality(c))
Extent(c) == LET x == Center(c) IN Max({Gap(At(p), x) : p \in c})
IsWallLike(c) == c \subseteq Flat /\ At(Max(c)) - At(Min(c)) > MinMajorLen
Compact(returns) ==
  {c \in ClusterScanReturns(returns) : Extent(c) <= MaxTrackExtent /\ ~IsWallLike(c)}

(* The clusters as the tracker gets them: in beam order.                   *)
Measurements(returns) ==
  LET compact == Compact(returns)
      starts  == InOrder({Beam(FirstOf(c)) : c \in compact})
  IN  [i \in DOMAIN starts |->
         LET c == CHOOSE d \in compact : Beam(FirstOf(d)) = starts[i]
         IN  [x |-> Center(c), radius |-> Extent(c)]]

(***************************************************************************)
(* ClusterTracker.update.                                                  *)
(***************************************************************************)

Predicted(t, dt) == t.x + t.v * dt
Clamped(v) == IF v > MaxSpeed THEN MaxSpeed ELSE IF v < -MaxSpeed THEN -MaxSpeed ELSE v

(* The unassigned measurement nearest to the prediction, the first of them:*)
(* none or one.                                                            *)
Candidates(t, ms, assigned, dt) ==
  {i \in DOMAIN ms \ assigned : Gap(ms[i].x, Predicted(t, dt)) <= Gate}
Nearest(t, ms, assigned, dt) ==
  LET near == Candidates(t, ms, assigned, dt)
      d(i) == Gap(ms[i].x, Predicted(t, dt))
  IN  {i \in near : \A j \in near : d(i) < d(j) \/ (d(i) = d(j) /\ i <= j)}

Updated(t, m, dt) ==
  LET raw == Rounded(m.x - t.x, dt)
  IN  [t EXCEPT !.v = Clamped(Rounded(AlphaOf10 * raw + (10 - AlphaOf10) * t.v, 10)),
                !.x = m.x, !.radius = Rounded(t.radius + m.radius, 2),
                !.hits = IF @ < ConfirmHits THEN @ + 1 ELSE @, !.misses = 0]
Coasted(t, dt) == [t EXCEPT !.x = Predicted(t, dt), !.misses = @ + 1]
Spawned(m) == [x |-> m.x, v |-> 0, radius |-> m.radius, hits |-> 1, misses |-> 0]

(* Greedy, in the order of the tracks: what the first k have taken.        *)
Assigned(tracks, ms, dt) ==
  LET taken[k \in 0 .. Len(tracks)] ==
        IF k = 0 THEN {}
        ELSE LET before == taken[k - 1] IN before \cup Nearest(tracks[k], ms, before, dt)
  IN  taken
Associated(tracks, ms, dt) ==
  LET taken == Assigned(tracks, ms, dt)
  IN  [k \in DOMAIN tracks |->
         LET near == Nearest(tracks[k], ms, taken[k - 1], dt)
         IN  IF near = {} THEN Coasted(tracks[k], dt)
             ELSE Updated(tracks[k], ms[CHOOSE i \in near : TRUE], dt)]
Fresh(tracks, ms, dt) ==
  LET rest == InOrder(DOMAIN ms \ Assigned(tracks, ms, dt)[Len(tracks)])
  IN  [i \in DOMAIN rest |-> Spawned(ms[rest[i]])]

(* Mutant: a track is kept for one miss too many.                         *)
RetainedLonger(tracks) ==
  LET kept == InOrder({k \in DOMAIN tracks : tracks[k].misses <= MaxMisses + 1})
  IN  [i \in DOMAIN kept |-> tracks[kept[i]]]
Retained(tracks) ==
  LET kept == InOrder({k \in DOMAIN tracks : tracks[k].misses <= MaxMisses})
  IN  [i \in DOMAIN kept |-> tracks[kept[i]]]

Update(tracks, ms, dt) == Retained(Associated(tracks, ms, dt) \o Fresh(tracks, ms, dt))

(* The velocity of a track is published once it is confirmed and moving.   *)
PublishVelocity(t) == t.hits >= ConfirmHits /\ Size(t.v) >= StaticSpeed
Published(t) == [x |-> t.x, v |-> IF PublishVelocity(t) THEN t.v ELSE 0, radius |-> t.radius]
=============================================================================
