------------------------------ MODULE Sensing ------------------------------
(***************************************************************************)
(* The sensperc process: the sensor reader, SLAM and aggregator threads    *)
(* (src/sensperc/src/main.rs, slam/mod.rs) over the shared SensorStore     *)
(* (store/mod.rs, ring_buffer.rs, atomic_slot.rs), with the two sources of *)
(* poses and the odometry that the control process publishes on CH3.       *)
(*                                                                         *)
(* A tick is the period of CH3 and of the simulator's poses (50 ms); a     *)
(* slot's store or load, and a pop or push of a queue, is one step.  Data  *)
(* are reduced to when they were taken: a pose, a velocity and a scan are  *)
(* the number of ticks since the instant they describe (their lag), which  *)
(* is also their stamp, since each source stamps its pose with the instant *)
(* it describes.  Lags saturate at AgeMax, the ages of slots one tick past *)
(* the last threshold.  A pose, its entry in the history and its           *)
(* confidence are stored in one step.  Frames of reference, the occupancy  *)
(* grid, the IMU, camera detections and what the scans show are left out.  *)
(***************************************************************************)
EXTENDS Integers, Sequences, SequencesExt

CONSTANTS
    Platforms,      \* which sources are run: "sim" has poses, "hw" has none
    HistoryLen,     \* POSE_HISTORY_LEN
    LidarCapacity,  \* capacity of lidar_buffer
    Ch3Capacity,    \* messages the sockets of CH3 hold (RCVHWM and SNDHWM)
    CyclePeriod,    \* ticks between two cycles of the aggregator
    FallbackAge,    \* age beyond which odometry replaces a slot (0.5 s)
    SlamYield,      \* age up to which SLAM leaves a pose alone (0.05 s)
    SlamStall,      \* bound: ticks a scan waits for SLAM
    AgeMax          \* bound: lags and ages are counted up to here

ASSUME SensingAssumption ==
    /\ Platforms \subseteq {"sim", "hw"}
    /\ {HistoryLen, LidarCapacity, Ch3Capacity, CyclePeriod} \subseteq Nat \ {0}
    /\ {FallbackAge, SlamYield, SlamStall, AgeMax}
          \subseteq Nat
    /\ SlamYield <= FallbackAge

VARIABLES
    platform,         \* the source selected at startup
    latest_pose,      \* AtomicSlot: age of the store, lag of the pose
    latest_velocity,  \* AtomicSlot: the same of the velocity
    localization_confidence,
    pose_history,     \* stamps of the poses on record, oldest first
    latest_scan,      \* lag of the scan in the slot, or Nothing
    lidar_buffer,     \* lags of the scans queued for SLAM
    ch3,              \* lags of the VehicleStates waiting in the socket
    reader,           \* reader thread: step, and what its source delivered
    slam,             \* SLAM thread: step, its scan, did it take the newest,
                      \* are there lines of the scan before
    aggregator,       \* aggregator thread: step, message, ticks to its cycle,
                      \* is a scan unread, what it has loaded
    world,            \* is the newest scan in the published detections
    published         \* lags and skew in the WorldState of this tick

vars == <<platform, latest_pose, latest_velocity, localization_confidence,
          pose_history, latest_scan, lidar_buffer, ch3, reader, slam,
          aggregator, world, published>>

Nothing == -1
Lag == 0 .. AgeMax
Confidences == {0, 60, 80, 100}

(* A lag one tick later.                                                   *)
Later(lag) == IF lag \in {Nothing, AgeMax} THEN lag ELSE lag + 1
LaterAll(lags) == [i \in DOMAIN lags |-> Later(lags[i])]

(* An AtomicSlot that was never written has an infinite age.               *)
EmptySlot == [age |-> FallbackAge + 1, lag |-> Nothing]
Stored(lag) == [age |-> 0, lag |-> lag]
LaterSlot(slot) ==
    [age |-> IF slot.age > FallbackAge THEN slot.age ELSE slot.age + 1,
     lag |-> Later(slot.lag)]

NothingPublished == [pose |-> Nothing, velocity |-> Nothing,
                     skew |-> 0, skew_of_latest |-> 0]

Init ==
    /\ platform \in Platforms
    /\ latest_pose = EmptySlot
    /\ latest_velocity = EmptySlot
    /\ localization_confidence = 0
    /\ pose_history = <<>>
    /\ latest_scan = Nothing
    /\ lidar_buffer = <<>>
    /\ ch3 = <<>>
    /\ reader = [pc |-> "idle", scan |-> Nothing, pose |-> Nothing,
                 velocity |-> Nothing]
    /\ slam = [pc |-> "idle", scan |-> Nothing, newest |-> TRUE,
               lines |-> FALSE]
    /\ aggregator = [pc |-> "idle", message |-> Nothing, wait |-> 0,
                     fresh |-> FALSE, is_new |-> FALSE, scan |-> Nothing,
                     pose |-> Nothing, velocity |-> Nothing]
    /\ world = TRUE
    /\ published = NothingPublished

-----------------------------------------------------------------------------
(* SensorStore                                                             *)

(* Mutant: a second pose with the same stamp is recorded too.              *)
RecordedTwice(history, lag) ==
    IF history # <<>> /\ Last(history) < lag THEN history
    ELSE Append(IF Len(history) = HistoryLen THEN Tail(history) ELSE history,
                lag)

(* push_stamped_pose keeps the history monotonic and bounded; the slot     *)
(* takes the pose in any case.                                             *)
Recorded(history, lag) ==
    IF history # <<>> /\ Last(history) <= lag THEN history
    ELSE Append(IF Len(history) = HistoryLen THEN Tail(history) ELSE history,
                lag)

PushStampedPose(lag) ==
    /\ latest_pose' = Stored(lag)
    /\ pose_history' = Recorded(pose_history, lag)

(* pose_at: interpolated between two stamps, which gives the pose of the   *)
(* instant asked for, and clamped to the ends of the record.  Without a    *)
(* record, the aggregator takes the pose that it has loaded.               *)
PoseAt(lag) ==
    CASE pose_history = <<>> -> aggregator.pose
      [] pose_history # <<>> /\ lag >= Head(pose_history) -> Head(pose_history)
      [] pose_history # <<>> /\ lag <= Last(pose_history) -> Last(pose_history)
      [] OTHER -> lag

Skew(a, b) ==
    IF Nothing \in {a, b} THEN 0 ELSE IF a > b THEN a - b ELSE b - a
-----------------------------------------------------------------------------
(* SensorReader thread: one pass over what the source delivered, in the    *)
(* order of the loop: scan, pose and confidence, velocity.  What it has    *)
(* received is gone from the source (Option::take).                        *)

(* ArrayQueue::push on the queue of SLAM.                                  *)
PushScan == lidar_buffer' = Append(lidar_buffer, reader.scan)

ReadScan ==
    /\ reader.pc = "scan"
    /\ latest_scan' = reader.scan
    /\ world' = FALSE
    /\ slam' = [slam EXCEPT !.newest = FALSE]
    /\ aggregator' = [aggregator EXCEPT !.fresh = TRUE]
    /\ reader' = [reader EXCEPT !.pc = "push"]
    /\ UNCHANGED <<platform, latest_pose, latest_velocity,
                   localization_confidence, pose_history, lidar_buffer, ch3,
                   published>>

(* The next step, of those for which the source delivered something.       *)
AfterPose(bundle) == IF bundle.velocity = Nothing THEN "idle" ELSE "velocity"
AfterPush(bundle) == IF bundle.pose = Nothing THEN AfterPose(bundle) ELSE "pose"

(* Mutant: RingBuffer::push, which loses the new item of a full queue.     *)
PushDropping ==
    /\ reader.pc = "push"
    /\ lidar_buffer' = IF Len(lidar_buffer) < LidarCapacity
                       THEN Append(lidar_buffer, reader.scan)
                       ELSE Tail(lidar_buffer)
    /\ reader' = [reader EXCEPT !.pc = AfterPush(reader),
                                    !.scan = Nothing]
    /\ UNCHANGED <<platform, latest_pose, latest_velocity,
                   localization_confidence, pose_history, latest_scan, ch3,
                   slam, aggregator, world, published>>

(* push_overwrite: a push and, when the queue is full, a pop and a push.   *)
PushOverwrite ==
    /\ \/ /\ reader.pc = "push" /\ Len(lidar_buffer) < LidarCapacity
          /\ PushScan
          /\ reader' = [reader EXCEPT !.pc = AfterPush(reader),
                                    !.scan = Nothing]
       \/ /\ reader.pc = "push" /\ Len(lidar_buffer) = LidarCapacity
          /\ reader' = [reader EXCEPT !.pc = "drop_oldest"]
          /\ UNCHANGED lidar_buffer
       \/ /\ reader.pc = "drop_oldest"
          /\ lidar_buffer' = IF lidar_buffer = <<>> THEN <<>>
                             ELSE Tail(lidar_buffer)
          /\ reader' = [reader EXCEPT !.pc = "retry"]
       \/ /\ reader.pc = "retry"
          /\ PushScan
          /\ reader' = [reader EXCEPT !.pc = AfterPush(reader),
                                    !.scan = Nothing]
    /\ UNCHANGED <<platform, latest_pose, latest_velocity,
                   localization_confidence, pose_history, latest_scan, ch3,
                   slam, aggregator, world, published>>

ReadPose ==
    /\ reader.pc = "pose"
    /\ PushStampedPose(reader.pose)
    /\ localization_confidence' = 100
    /\ reader' = [reader EXCEPT !.pc = AfterPose(reader), !.pose = Nothing]
    /\ UNCHANGED <<platform, latest_velocity, latest_scan, lidar_buffer, ch3,
                   slam, aggregator, world, published>>

ReadVelocity ==
    /\ reader.pc = "velocity"
    /\ latest_velocity' = Stored(reader.velocity)
    /\ reader' = [reader EXCEPT !.pc = "idle", !.velocity = Nothing]
    /\ UNCHANGED <<platform, latest_pose, localization_confidence,
                   pose_history, latest_scan, lidar_buffer, ch3, slam,
                   aggregator, world, published>>

Reader ==
    \/ ReadScan \/ PushOverwrite \/ ReadPose \/ ReadVelocity
-----------------------------------------------------------------------------
(* SlamFrontend thread                                                     *)

StoreUnchanged ==
    UNCHANGED <<platform, latest_velocity, pose_history, latest_scan, ch3,
                reader, aggregator, world, published>>

(* pop_latest: pops until the queue is empty and keeps the last item.      *)
PopLatest ==
    /\ slam.pc \in {"idle", "drain"}
    /\ IF lidar_buffer # <<>>
       THEN /\ slam' = [slam EXCEPT !.pc = "drain",
                                    !.scan = Head(lidar_buffer)]
            /\ lidar_buffer' = Tail(lidar_buffer)
       ELSE /\ slam.pc = "drain"
            /\ slam' = [slam EXCEPT !.pc = "match",
                                    !.newest = slam.scan = latest_scan]
            /\ UNCHANGED lidar_buffer
    /\ StoreUnchanged
    /\ UNCHANGED <<latest_pose, localization_confidence>>

(* A pose of lower priority or no longer fresh may be replaced; a pose     *)
(* exactly SlamYield ticks old may be seen on either side of the limit.    *)
SlamMayWrite ==
    \/ latest_pose.age >= SlamYield
    \/ localization_confidence < 80

(* Line features are extracted and matched with those of the previous      *)
(* scan.  A scan with too few points is skipped and leaves those, another  *)
(* leaves its own, if it shows any; a match asks for lines in both.        *)
MatchScan ==
    /\ slam.pc = "match"
    /\ \/ \E lines \in BOOLEAN :
             slam' = [slam EXCEPT !.pc = "idle", !.scan = Nothing,
                                  !.lines = lines]
       \/ /\ slam.lines
          /\ SlamMayWrite
          /\ slam' = [slam EXCEPT !.pc = "store"]
    /\ StoreUnchanged
    /\ UNCHANGED <<latest_pose, localization_confidence, lidar_buffer>>

SlamStorePose ==
    /\ slam.pc = "store"
    /\ latest_pose' = Stored(slam.scan)
    /\ localization_confidence' = 80
    /\ slam' = [slam EXCEPT !.pc = "idle", !.scan = Nothing]
    /\ StoreUnchanged
    /\ UNCHANGED lidar_buffer

Slam == PopLatest \/ MatchScan \/ SlamStorePose
-----------------------------------------------------------------------------
(* Aggregator thread: one VehicleState per cycle, then the WorldState      *)

(* Mutant: odometry is never considered for a slot once written.           *)
FallbackFirstOnly(slot) == slot = EmptySlot

FallbackDue(slot) == slot.age > FallbackAge

ReceiveVehicleState ==
    /\ aggregator.pc = "idle"
    /\ aggregator.wait = 0
    /\ IF ch3 = <<>>
       THEN /\ aggregator' = [aggregator EXCEPT !.pc = "compose"]
            /\ UNCHANGED ch3
       ELSE /\ aggregator' = [aggregator EXCEPT
                   !.pc = IF FallbackDue(latest_pose) THEN "pose"
                          ELSE "velocity",
                   !.message = Head(ch3)]
            /\ ch3' = Tail(ch3)
    /\ UNCHANGED <<platform, latest_pose, latest_velocity,
                   localization_confidence, pose_history, latest_scan,
                   lidar_buffer, reader, slam, world, published>>

FallbackPose ==
    /\ aggregator.pc = "pose"
    /\ PushStampedPose(aggregator.message)
    /\ localization_confidence' = 60
    /\ aggregator' = [aggregator EXCEPT !.pc = "velocity"]
    /\ UNCHANGED <<platform, latest_velocity, latest_scan, lidar_buffer, ch3,
                   reader, slam, world, published>>

FallbackVelocity ==
    /\ aggregator.pc = "velocity"
    /\ latest_velocity' = IF FallbackDue(latest_velocity)
                          THEN Stored(aggregator.message) ELSE latest_velocity
    /\ aggregator' = [aggregator EXCEPT !.pc = "compose", !.message = Nothing]
    /\ UNCHANGED <<platform, latest_pose, localization_confidence,
                   pose_history, latest_scan, lidar_buffer, ch3, reader, slam,
                   world, published>>

(* Mutant: the aggregator takes scans from SLAM's queue.                   *)
IsQueuedScan == lidar_buffer # <<>>

(* is_new_scan: the scan in the slot has another sequence than the last.   *)
IsNewScan == aggregator.fresh

AggregatorLoads ==
    UNCHANGED <<platform, latest_pose, latest_velocity,
                localization_confidence, pose_history, latest_scan,
                lidar_buffer, ch3, reader, slam, world, published>>

(* The loads of one cycle, each at its own time.                           *)
LoadScan ==
    /\ aggregator.pc = "compose"
    /\ aggregator' = [aggregator EXCEPT !.pc = "load_pose", !.fresh = FALSE,
                           !.is_new = IsNewScan, !.scan = latest_scan]
    /\ AggregatorLoads

LoadPose ==
    /\ aggregator.pc = "load_pose"
    /\ aggregator' = [aggregator EXCEPT !.pc = "load_velocity",
                                        !.pose = latest_pose.lag]
    /\ AggregatorLoads

LoadVelocity ==
    /\ aggregator.pc = "load_velocity"
    /\ aggregator' = [aggregator EXCEPT !.pc = "publish",
                                        !.velocity = latest_velocity.lag]
    /\ AggregatorLoads

(* Detections of a new scan, projected with the pose of its stamp, or else *)
(* the previous ones again; published with the pose and velocity loaded.   *)
(* A scan that came since has made the detections those of the one before. *)
Publish ==
    /\ aggregator.pc = "publish"
    /\ world' = (world \/ (aggregator.is_new /\ ~aggregator.fresh))
    /\ published' = [pose     |-> aggregator.pose,
                     velocity |-> aggregator.velocity,
                     skew     |-> IF aggregator.is_new
                                  THEN Skew(PoseAt(aggregator.scan), aggregator.scan)
                                  ELSE 0,
                     skew_of_latest |-> Skew(aggregator.pose, aggregator.scan)]
    /\ aggregator' = [aggregator EXCEPT !.pc = "idle", !.wait = CyclePeriod,
                           !.is_new = FALSE, !.scan = Nothing,
                           !.pose = Nothing, !.velocity = Nothing]
    /\ UNCHANGED <<platform, latest_pose, latest_velocity,
                   localization_confidence, pose_history, latest_scan,
                   lidar_buffer, ch3, reader, slam>>

Aggregator ==
    \/ ReceiveVehicleState \/ FallbackPose \/ FallbackVelocity
    \/ LoadScan \/ LoadPose \/ LoadVelocity \/ Publish
-----------------------------------------------------------------------------
(* A tick passes once the reader and the aggregator, which keep their      *)
(* rates, and SLAM, which may fall behind, are between cycles.  The source *)
(* delivers a bundle, or drops parts of it; a scan is newer than the one   *)
(* before and up to a tick old.  The control process publishes.            *)
Tick ==
    /\ reader.pc = "idle" /\ slam.pc = "idle"
    /\ aggregator.pc = "idle" /\ aggregator.wait > 0
    /\ \A i \in DOMAIN lidar_buffer : lidar_buffer[i] < SlamStall
    /\ \E bundle \in [scan : {Nothing, 0, 1}, pose : {Nothing, 0},
                       velocity : {Nothing, 0}] :
          /\ platform = "hw" => bundle.pose = Nothing /\ bundle.velocity = Nothing
          /\ bundle.scan # Nothing =>
                latest_scan = Nothing \/ bundle.scan < Later(latest_scan)
          /\ reader' = [pc |-> IF bundle.scan # Nothing THEN "scan"
                               ELSE AfterPush(bundle),
                        scan |-> bundle.scan, pose |-> bundle.pose,
                        velocity |-> bundle.velocity]
    /\ ch3' = IF Len(ch3) < Ch3Capacity
              THEN Append(LaterAll(ch3), 0) ELSE LaterAll(ch3)
    /\ latest_pose' = LaterSlot(latest_pose)
    /\ latest_velocity' = LaterSlot(latest_velocity)
    /\ pose_history' = LaterAll(pose_history)
    /\ latest_scan' = Later(latest_scan)
    /\ lidar_buffer' = LaterAll(lidar_buffer)
    /\ published' = NothingPublished
    /\ aggregator' = [aggregator EXCEPT !.wait = aggregator.wait - 1]
    /\ UNCHANGED <<platform, localization_confidence, slam, world>>

Next == Reader \/ Slam \/ Aggregator \/ Tick

Spec == Init /\ [][Next]_vars
-----------------------------------------------------------------------------
(* The newest scan is never lost on its way to SLAM, whatever the reader   *)
(* pushes while pop_latest drains the queue (ring_buffer.rs:35 and 55).    *)
NewestScanReachesSlam ==
    reader.pc \notin {"push", "drop_oldest", "retry"} /\ latest_scan # Nothing
        => \/ lidar_buffer # <<>> /\ Last(lidar_buffer) = latest_scan
           \/ slam.scan = latest_scan
           \/ slam.newest

(* A scan is in the published detections one cycle after it was taken at   *)
(* the latest, though SLAM takes scans too and the aggregator re-emits     *)
(* (main.rs:341, "planning must never see the world blink empty").         *)
NewScanReachesPlanning ==
    latest_scan > CyclePeriod + 1 => world

(* Stamps on record are in order and distinct, so that pose_at never       *)
(* divides by nothing (store/mod.rs:129), with two threads that record     *)
(* poses of their own sources and a VehicleState that may be old.          *)
HistoryIsOrdered ==
    \A i \in 1 .. Len(pose_history) - 1 :
        pose_history[i] > pose_history[i + 1] \/ pose_history[i + 1] = AgeMax

(* Odometry in a WorldState is as old as a socket full of messages, read   *)
(* one per cycle while two are sent (main.rs:290), plus the age a slot may *)
(* reach, and no older.                                                    *)
LagBound == CyclePeriod * Ch3Capacity + FallbackAge - 1
LagIsBounded ==
    /\ published.pose <= LagBound
    /\ published.velocity <= LagBound

(* store/mod.rs:59: "Obstacle projection must use the pose the robot had   *)
(* AT SCAN TIME: pairing a scan with the latest pose displaces projected   *)
(* obstacles", so the pose used is no farther from the scan's instant than *)
(* the latest pose is.                                                     *)
ProjectedAtScanTime ==
    published.pose # Nothing => published.skew <= published.skew_of_latest
=============================================================================
