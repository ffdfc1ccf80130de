------------------------------ MODULE ObstacleView ------------------------------
(***************************************************************************)
(* From the world to the obstacles that planning plans among: a scan with  *)
(* dropped returns, the detections the aggregator makes of it, a CH1 that  *)
(* loses messages, and the two memories of the planning loop, one for      *)
(* points and one for tracked objects (sensperc/src/main.rs, planning/src/ *)
(* main.rs).  A step is one cycle of both 10 Hz loops.                     *)
(*                                                                         *)
(* The world is a set of posts and one walker.  The robot stands: a place  *)
(* has one sector of the scan and one distance.                            *)
(***************************************************************************)
EXTENDS Tracker

CONSTANTS
  Worlds,            \* sets of posts, a post being a set of places
  WalkerSize, Walks, \* places a walker covers, where it may be
  Strides,           \* places a walker may go in a cycle
  Dropouts,          \* sets of places whose returns a scan may lack
  SectorOf, RangeOf, \* of each place, its sector (OBSTACLE_SECTORS) and its distance
  MaxRepeat,         \* cycles in a row without a new scan
  Depth, Hold,       \* depth of ObstacleMemory, cycles last_tracked is coasted
  GhostMinSpeed, GhostSlack

ASSUME ViewAssumption ==
  /\ Worlds \subseteq SUBSET SUBSET Place /\ WalkerSize \in Nat
  /\ Walks \subseteq Int /\ Strides \subseteq Int /\ Walks # {} /\ 0 \in Strides
  /\ Dropouts \subseteq SUBSET Place /\ Place \in Dropouts
  /\ SectorOf \in [Place -> Nat] /\ RangeOf \in [Place -> Nat]
  /\ MaxRepeat \in Nat /\ Depth \in Nat \ {0} /\ Hold \in Nat \ {0}
  /\ GhostMinSpeed \in Nat /\ GhostSlack \in Nat

VARIABLES
  posts, walker,     \* what there is; the walker covers places from walker on
  tracks,            \* ClusterTracker
  since,             \* cycles since last_track_update
  prev_detections,
  frames,            \* ObstacleMemory, the newest frame last
  last_tracked, tracked_age,
  view,              \* obstacles
  stride, steady,    \* history: the walker's last stride, and how long it has kept it
  returned,          \* history: the returns of the scan planning has just been told of
  unseen,            \* history: cycles since a return of a post got to planning
  vacant             \* history: cycles in which there has been nothing to see

worldVars    == <<posts, walker, stride, steady, vacant>>
sensVars     == <<tracks, since, prev_detections>>
planningVars == <<frames, last_tracked, tracked_age, view>>
vars == <<worldVars, sensVars, planningVars, returned, unseen>>

Body(w) == w .. w + WalkerSize - 1
Things == (UNION posts) \cup (Body(walker) \cap Place)
Ticked(n, bound) == IF n < bound THEN n + 1 ELSE n
(* When everything there was has faded: after the misses of the tracker, at*)
(* the rate of new scans, and the time planning holds what it was told; and*)
(* after the last scan has been repeated and forgotten.                    *)
FadeBound == Max({(MaxMisses + 1) * (MaxRepeat + 1) + Hold - 1, MaxRepeat + Depth})
(* The age of the oldest scan of which a point may be remembered.          *)
Oldest == Depth - 1 + MaxRepeat
NoDetections == [points |-> {}, tracked |-> << >>]

Init ==
  /\ posts \in Worlds /\ walker \in Walks
  /\ tracks = << >> /\ since = 0 /\ prev_detections = NoDetections
  /\ frames = [k \in 1 .. Depth |-> {}]
  /\ last_tracked = << >> /\ tracked_age = Hold /\ view = {}
  /\ stride = 0 /\ steady = 0 /\ returned = {} /\ vacant = 0
  /\ unseen = [o \in posts |-> Depth]

WorldMoves ==
  /\ UNCHANGED posts
  /\ \E s \in Strides :
       /\ walker + s \in Walks /\ walker' = walker + s
       /\ stride' = s /\ steady' = IF s = stride THEN Ticked(steady, Oldest) ELSE 1
  /\ vacant' = IF Things' = {} THEN Ticked(vacant, FadeBound) ELSE 0

(***************************************************************************)
(* The aggregator.                                                         *)
(***************************************************************************)

(* Of two returns, the nearer, or the first of two at one distance.        *)
Nearer(p, q) == RangeOf[p] < RangeOf[q] \/ (RangeOf[p] = RangeOf[q] /\ Beam(p) <= Beam(q))
(* Mutant: the last return of a sector overwrites the others.              *)
LastPerSector(returns) ==
  {p \in returns : \A q \in returns : SectorOf[q] = SectorOf[p] => Beam(q) <= Beam(p)}
NearestPerSector(returns) ==
  {p \in returns : \A q \in returns : SectorOf[q] = SectorOf[p] => Nearer(p, q)}

(* What the compact clusters do not own, one return for each sector, goes  *)
(* out as points.                                                          *)
StaticReturns(returns) == NearestPerSector(returns \ UNION Compact(returns))

(* A new scan: cluster, track, sample.                                     *)
NewScan(returns) ==
  /\ tracks' = Update(tracks, Measurements(returns), since + 1)
  /\ since' = 0
  /\ prev_detections' = [points |-> StaticReturns(returns),
                         tracked |-> [i \in DOMAIN tracks' |-> Published(tracks'[i])]]

(* The scan of the last cycle: its detections once more.                   *)
SameScan ==
  /\ since < MaxRepeat /\ since' = since + 1
  /\ UNCHANGED <<tracks, prev_detections>>

(***************************************************************************)
(* Planning: step 4.                                                       *)
(***************************************************************************)

CoastedObstacle(o, n) == [o EXCEPT !.x = @ + o.v * n]

(* A remembered point is a ghost where a mover was when it was captured.   *)
IsGhost(p, age, tracked) ==
  \E i \in DOMAIN tracked :
    /\ Size(tracked[i].v) >= GhostMinSpeed
    /\ Gap(At(p), tracked[i].x - tracked[i].v * age) <= tracked[i].radius + GhostSlack
(* Mutant: no ghost is evicted.                                            *)
EveryFrame(remembered, tracked) == UNION {remembered[k] : k \in DOMAIN remembered}
UnionExcludingGhosts(remembered, tracked) ==
  UNION {{p \in remembered[k] : ~IsGhost(p, Depth - k, tracked)} : k \in DOMAIN remembered}

(* Mutant: a miss clears the memory.                                       *)
PushClearing(frame) == IF frame = {} THEN [k \in 1 .. Depth |-> {}] ELSE Append(Tail(frames), frame)
Push(frame) == Append(Tail(frames), frame)

Obstacles(points, tracked) ==
  {[x |-> At(p), radius |-> 0] : p \in points}
    \cup {[x |-> tracked[i].x, radius |-> tracked[i].radius] : i \in DOMAIN tracked}
Plan(frame, tracked) ==
  /\ frames' = Push(frame)
  /\ view' = Obstacles(UnionExcludingGhosts(frames', tracked), tracked)

Receive ==
  /\ last_tracked' = prev_detections'.tracked /\ tracked_age' = 0
  /\ Plan(prev_detections'.points, last_tracked')

Held ==
  IF tracked_age' < Hold
  THEN [i \in DOMAIN last_tracked |-> CoastedObstacle(last_tracked[i], tracked_age')]
  ELSE << >>
Miss ==
  /\ tracked_age' = IF tracked_age < Hold THEN tracked_age + 1 ELSE tracked_age
  /\ UNCHANGED last_tracked
  /\ Plan({}, Held)

(* History: of which posts planning has heard.                             *)
Told(returns) ==
  /\ returned' = returns
  /\ unseen' = [o \in posts' |-> IF o \cap returns # {} THEN 0 ELSE Ticked(unseen[o], Depth)]

Scan ==
  \E dropped \in Dropouts :
    /\ WorldMoves /\ NewScan(Things' \ dropped)
    /\ \/ Receive /\ Told(Things' \ dropped)
       \/ Miss /\ Told({})
Repeat ==
  /\ WorldMoves /\ SameScan /\ Told({})
  /\ Receive \/ Miss

Next == Scan \/ Repeat
Spec == Init /\ [][Next]_vars

(* "The closest obstacle in EVERY direction survives sampling" (sensperc/  *)
(* src/main.rs:333-335, 648-653): of the scan that planning is told of, no *)
(* return of a sector is nearer than one that has an obstacle for it,      *)
(* wherever the scan begins, whatever is clustered, tracked, sampled and   *)
(* taken for a ghost: a tracked one may be smaller than what was seen by   *)
(* half of its growth, a ghost is within the slack of its mover.           *)
Covered(p) ==
  \E o \in view : Gap(At(p), o.x) <= o.radius + Max({GhostSlack, MaxTrackExtent \div 2})
NearestIsCovered ==
  \A p \in returned : \E q \in returned :
    SectorOf[q] = SectorOf[p] /\ RangeOf[q] <= RangeOf[p] /\ Covered(q)

(* A post that the walker keeps away from stays in view while its returns  *)
(* are missing, or messages are lost, for fewer cycles than the memory is  *)
(* deep, whether it was a point or a track (main.rs:353, 527-529).         *)
Reach == Gate + Unit * Depth
Alone(o) ==
  \A p \in o : \A q \in Body(walker) \cup UNION (posts \ {o}) : Gap(At(p), At(q)) > Reach
PostsAreRemembered ==
  \A o \in posts : unseen[o] < Depth /\ Alone(o) =>
    \E p \in o, b \in view : Gap(At(p), b.x) <= b.radius + GhostSlack

(* A mover whose speed is known leaves no fence behind: while it keeps its *)
(* stride, no point is remembered where nothing stands, however often the  *)
(* scan that saw it was repeated (main.rs:1916-1925).                      *)
Known ==
  \E i \in DOMAIN last_tracked :
    /\ tracked_age = 0 /\ last_tracked[i].v = At(stride)
    /\ Size(last_tracked[i].v) >= GhostMinSpeed
    /\ \A late \in 0 .. MaxRepeat : \A p \in Body(walker - stride * late) :
         Gap(At(p), last_tracked[i].x) <= last_tracked[i].radius + GhostSlack
IsTrack(o) == \E i \in DOMAIN last_tracked :
  o = [x |-> last_tracked[i].x, radius |-> last_tracked[i].radius]
MoversLeaveNoFence ==
  steady >= Oldest /\ Known =>
    \A p \in Place \ UNION posts :
      LET o == [x |-> At(p), radius |-> 0] IN o \in view => IsTrack(o)

(* What is gone fades: planning sees nothing FadeBound cycles after there  *)
(* is nothing.                                                             *)
PhantomsFade == vacant = FadeBound => view = {}
=============================================================================
