---------------------------- MODULE SensingProofs ----------------------------
(***************************************************************************)
(* Proofs about Sensing for every capacity, period, age and platform: the  *)
(* record of poses stays in order, a new scan reaches planning in time and *)
(* the newest one reaches SLAM, and published odometry has a bounded lag.  *)
(*                                                                         *)
(* None of the properties is inductive by itself.  That a scan is not lost *)
(* rests on where it is while SLAM drains the queue (NewestQueued), that it *)
(* is published in time on the cycle that is due (ScanPending), and the lag *)
(* of odometry (LagInv) on the place of each message in the socket, on what *)
(* the SLAM thread carries, and on a slot aging as fast as what it holds.  *)
(***************************************************************************)
EXTENDS Sensing, SequenceTheorems, TLAPS

Lags == Nat \cup {Nothing}
Slot == [age : 0 .. FallbackAge + 1, lag : Lags]

StoreType ==
    /\ latest_pose \in Slot /\ latest_velocity \in Slot
    /\ localization_confidence \in Confidences
    /\ pose_history \in Seq(Lag)
    /\ latest_scan \in Lags
    /\ lidar_buffer \in Seq(Nat)
    /\ ch3 \in Seq(Lag)
    /\ world \in BOOLEAN

(* While a scan is on its way into the queue, the slot holds it. *)
ReaderType ==
    /\ reader \in [pc : {"idle", "scan", "push", "drop_oldest", "retry", "pose", "velocity"},
                   scan : {Nothing, 0, 1}, pose : {Nothing, 0}, velocity : {Nothing, 0}]
    /\ reader.pc \in {"scan", "push", "drop_oldest", "retry"} => reader.scan # Nothing
    /\ reader.pc \in {"push", "drop_oldest", "retry"} => reader.scan = latest_scan
    /\ reader.pc = "pose" => reader.pose # Nothing
    /\ reader.pc = "velocity" => reader.velocity # Nothing

SlamType ==
    slam \in [pc : {"idle", "drain", "match", "store"}, scan : Lags, newest : BOOLEAN,
              lines : BOOLEAN]

AggregatorSteps == {"idle", "pose", "velocity", "compose",
                    "load_pose", "load_velocity", "publish"}
Loading == aggregator.pc \in {"load_pose", "load_velocity", "publish"}
AggregatorType ==
    /\ aggregator \in [pc : AggregatorSteps, message : Lag \cup {Nothing},
                       wait : 0 .. CyclePeriod, fresh : BOOLEAN, is_new : BOOLEAN,
                       scan : Lags, pose : Lags, velocity : Lags]
    /\ aggregator.pc \in {"pose", "velocity"} => aggregator.message # Nothing

TypeInv == StoreType /\ ReaderType /\ SlamType /\ AggregatorType

-----------------------------------------------------------------------------
(* The constants as the steps use them. *)
LEMMA Constants ==
    /\ HistoryLen \in Nat \ {0} /\ LidarCapacity \in Nat \ {0} /\ Ch3Capacity \in Nat \ {0}
    /\ CyclePeriod \in Nat \ {0} /\ FallbackAge \in Nat /\ SlamYield \in Nat
    /\ SlamStall \in Nat /\ AgeMax \in Nat
BY SensingAssumption DEF SensingAssumption

(* An empty sequence is one without length.                                *)
LEMMA EmptyIsShort ==
    ASSUME NEW S, NEW s \in Seq(S)
    PROVE  s = <<>> <=> Len(s) = 0
BY EmptySeq

(* A queue is empty after a pop if it held one item.                       *)
LEMMA TailIsEmpty ==
    ASSUME NEW S, NEW s \in Seq(S), s # <<>>
    PROVE  Tail(s) = <<>> <=> Len(s) = 1
<1> DEFINE t == Tail(s)
<1>1. t \in Seq(S) /\ Len(t) = Len(s) - 1 /\ Len(s) \in Nat
    BY HeadTailProperties, LenProperties
<1> HIDE DEF t
<1>2. t = <<>> <=> Len(s) = 1
    BY SMTT(20), <1>1, EmptyIsShort
<1> QED BY <1>2 DEF t

(* A lag never grows by more than the tick, and orders stay. *)
LEMMA LaterLag ==
    ASSUME NEW lag \in Lags
    PROVE  /\ Later(lag) \in Lags /\ Later(lag) <= lag + 1
           /\ Later(lag) = Nothing <=> lag = Nothing
           /\ lag \in Lag => Later(lag) \in Lag
           /\ lag \in Nat => Later(lag) \in Nat
BY Constants DEF Later, Lags, Lag, Nothing

(* A tick keeps two stamps in order, but for those too old to be told      *)
(* apart.                                                                  *)
LEMMA LaterOrder ==
    ASSUME NEW a \in Lag, NEW b \in Lag, a > b \/ b = AgeMax
    PROVE  Later(a) > Later(b) \/ Later(b) = AgeMax
BY Constants DEF Later, Lag, Nothing

(* A tick ages each item of a queue and leaves its length alone.           *)
LEMMA LaterSequence ==
    ASSUME NEW S, NEW s \in Seq(S), \A e \in S : Later(e) \in S
    PROVE  /\ LaterAll(s) \in Seq(S) /\ Len(LaterAll(s)) = Len(s)
           /\ \A i \in 1 .. Len(s) : LaterAll(s)[i] = Later(s[i])
           /\ LaterAll(s) = <<>> <=> s = <<>>
<1>1. Len(s) \in Nat /\ DOMAIN s = 1 .. Len(s) /\ \A i \in 1 .. Len(s) : s[i] \in S
    BY LenProperties, ElementOfSeq
<1> DEFINE n == Len(s)
           t == [i \in 1 .. n |-> Later(s[i])]
<1>2. LaterAll(s) = t
    BY <1>1 DEF LaterAll
<1>3. t \in [1 .. n -> S]
    BY <1>1
<1>4. t \in Seq(S)
    BY <1>1, <1>3, SeqDef
<1>5. Len(t) = n
    <2>1. DOMAIN t = 1 .. n /\ DOMAIN t = 1 .. Len(t) /\ Len(t) \in Nat
        BY <1>4, LenProperties
    <2> HIDE DEF t
    <2>2. 1 .. n = 1 .. Len(t)
        BY <2>1
    <2> QED BY <2>1, <2>2, <1>1
<1>6. \A i \in 1 .. n : t[i] = Later(s[i])
    OBVIOUS
<1> HIDE DEF t
<1>7. t = <<>> <=> s = <<>>
    BY <1>1, <1>4, <1>5, EmptySeq
<1> QED BY <1>2, <1>4, <1>5, <1>6, <1>7

(* What a slot holds after a store.                                        *)
LEMMA StoredSlot ==
    ASSUME NEW lag \in Lags
    PROVE  Stored(lag) \in Slot /\ Stored(lag).age = 0 /\ Stored(lag).lag = lag
BY Constants DEF Stored, Slot

(* A slot within its limit ages by a whole tick.                           *)
LEMMA LaterSlotFields ==
    ASSUME NEW slot \in Slot
    PROVE  /\ LaterSlot(slot) \in Slot
           /\ LaterSlot(slot).lag = Later(slot.lag)
           /\ LaterSlot(slot).age <= FallbackAge
                => slot.age <= FallbackAge /\ LaterSlot(slot).age = slot.age + 1
<1>1. slot.age \in 0 .. FallbackAge + 1 /\ slot.lag \in Lags
    BY DEF Slot
<1>2. Later(slot.lag) \in Lags
    BY <1>1, LaterLag
<1> QED BY <1>1, <1>2, Constants DEF LaterSlot, Slot

(* push_stamped_pose keeps the history a sequence of lags.                 *)
LEMMA RecordedFields ==
    ASSUME NEW h \in Seq(Lag), NEW lag \in Lag
    PROVE  Recorded(h, lag) \in Seq(Lag)
<1> DEFINE g == IF Len(h) = HistoryLen THEN Tail(h) ELSE h
<1>1. g \in Seq(Lag)
    BY Constants, HeadTailProperties, EmptySeq
<1> HIDE DEF g
<1>2. Append(g, lag) \in Seq(Lag)
    BY <1>1, AppendProperties
<1> QED BY <1>2 DEF Recorded, g

(* A process that starts is well typed.                                    *)
LEMMA TypeInit == Init => TypeInv
<1> SUFFICES ASSUME Init PROVE TypeInv
    OBVIOUS
<1>1. EmptySlot \in Slot
    BY Constants DEF EmptySlot, Slot, Lags, Nothing
<1>2. StoreType
    BY <1>1, EmptySeq, Constants DEF Init, StoreType, Lags, Nothing, Confidences
<1>3. ReaderType
    BY DEF Init, ReaderType, Nothing
<1>4. SlamType
    BY DEF Init, SlamType, Nothing, Lags
<1>5. AggregatorType
    BY Constants DEF Init, AggregatorType, AggregatorSteps, Nothing, Lags
<1> QED BY <1>2, <1>3, <1>4, <1>5 DEF TypeInv

(* The reader's actions. *)
LEMMA ReaderKeepsTypes ==
    ASSUME TypeInv, Reader
    PROVE  TypeInv'
<1> USE DEF TypeInv
<1>1. CASE ReadScan
    <2>1. StoreType'
        <3>1. world' \in BOOLEAN
            BY <1>1, Zenon DEF ReadScan
        <3>2. latest_scan' \in Lags
            BY <1>1 DEF ReadScan, ReaderType, Lags
        <3> QED BY <1>1, <3>1, <3>2 DEF ReadScan, StoreType
    <2>2. ReaderType'
        BY <1>1 DEF ReadScan, ReaderType
    <2>3. SlamType'
        BY <1>1 DEF ReadScan, SlamType
    <2>4. AggregatorType'
        BY <1>1 DEF ReadScan, AggregatorType
    <2> QED BY <2>1, <2>2, <2>3, <2>4
<1>2. CASE PushOverwrite
    <2>1. lidar_buffer \in Seq(Nat)
        BY DEF StoreType
    <2>2. PushScan /\ reader.scan \in Nat => lidar_buffer' \in Seq(Nat)
        BY <2>1, AppendProperties DEF PushScan
    <2>3. reader.pc \in {"push", "retry"} => reader.scan \in Nat
        BY DEF ReaderType, Nothing
    <2>4. lidar_buffer' \in Seq(Nat)
        BY SMTT(20), <1>2, <2>1, <2>2, <2>3, HeadTailProperties, EmptySeq DEF PushOverwrite
    <2>5. StoreType'
        BY <1>2, <2>4 DEF PushOverwrite, StoreType
    <2>6. ReaderType'
        BY <1>2 DEF PushOverwrite, ReaderType, AfterPush, AfterPose
    <2> QED BY <1>2, <2>5, <2>6 DEF PushOverwrite, SlamType, AggregatorType
<1>3. CASE ReadPose
    <2>1. reader.pose \in Lag
        BY <1>3, Constants DEF ReadPose, ReaderType, Lag, Nothing
    <2>2. latest_pose' \in Slot /\ pose_history' \in Seq(Lag)
        BY <1>3, <2>1, StoredSlot, RecordedFields
        DEF ReadPose, PushStampedPose, StoreType, Lag, Lags
    <2>3. StoreType'
        BY <1>3, <2>2 DEF ReadPose, StoreType, Confidences
    <2>4. ReaderType'
        BY <1>3 DEF ReadPose, ReaderType, AfterPose
    <2> QED BY <1>3, <2>3, <2>4 DEF ReadPose, SlamType, AggregatorType
<1>4. CASE ReadVelocity
    <2>1. reader.velocity \in Lags
        BY DEF ReaderType, Lags
    <2>2. latest_velocity' \in Slot
        BY <1>4, <2>1, StoredSlot DEF ReadVelocity, StoreType
    <2>3. StoreType'
        BY <1>4, <2>2 DEF ReadVelocity, StoreType
    <2>4. ReaderType'
        BY <1>4 DEF ReadVelocity, ReaderType
    <2> QED BY <1>4, <2>3, <2>4 DEF ReadVelocity, SlamType, AggregatorType
<1> QED BY <1>1, <1>2, <1>3, <1>4 DEF Reader

(* The SLAM thread's actions. *)
LEMMA SlamKeepsTypes ==
    ASSUME TypeInv, Slam
    PROVE  TypeInv'
<1> USE DEF TypeInv
<1>1. CASE PopLatest
    <2>1. lidar_buffer # <<>> => Head(lidar_buffer) \in Nat /\ Tail(lidar_buffer) \in Seq(Nat)
        BY HeadTailProperties DEF StoreType
    <2>2. StoreType' /\ ReaderType' /\ AggregatorType'
        <3>1. /\ UNCHANGED <<latest_pose, latest_velocity, localization_confidence,
                             pose_history, latest_scan, ch3, world>>
              /\ UNCHANGED <<reader, aggregator>>
              /\ lidar_buffer' \in Seq(Nat)
            BY <1>1, <2>1 DEF PopLatest, StoreUnchanged, StoreType
        <3>2. StoreType'
            BY <3>1 DEF StoreType
        <3>3. ReaderType'
            BY <3>1 DEF ReaderType
        <3>4. AggregatorType'
            BY <3>1 DEF AggregatorType
        <3> QED BY <3>2, <3>3, <3>4
    <2>3. SlamType'
        <3>1. CASE lidar_buffer # <<>>
            BY <1>1, <2>1, <3>1 DEF PopLatest, SlamType, Lags
        <3>2. CASE lidar_buffer = <<>>
            <4> DEFINE c == slam.scan = latest_scan
            <4>1. c \in BOOLEAN
                OBVIOUS
            <4> HIDE DEF c
            <4>2. [slam EXCEPT !.pc = "match", !.newest = c]
                    \in [pc : {"idle", "drain", "match", "store"}, scan : Lags,
                         newest : BOOLEAN, lines : BOOLEAN]
                BY <4>1 DEF SlamType
            <4>3. slam' = [slam EXCEPT !.pc = "match", !.newest = c]
                BY <1>1, <3>2 DEF PopLatest, c
            <4> QED BY <4>2, <4>3 DEF SlamType
        <3> QED BY <3>1, <3>2
    <2> QED BY <2>2, <2>3
<1>2. CASE MatchScan
    <2>1. StoreType' /\ ReaderType' /\ AggregatorType'
        <3>1. /\ UNCHANGED <<latest_pose, latest_velocity, localization_confidence,
                             pose_history, latest_scan, lidar_buffer, ch3, world>>
              /\ UNCHANGED <<reader, aggregator>>
            BY <1>2 DEF MatchScan, StoreUnchanged
        <3>2. StoreType'
            BY <3>1 DEF StoreType
        <3>3. ReaderType'
            BY <3>1 DEF ReaderType
        <3>4. AggregatorType'
            BY <3>1 DEF AggregatorType
        <3> QED BY <3>2, <3>3, <3>4
    <2>2. SlamType'
        BY <1>2 DEF MatchScan, SlamType, Lags
    <2> QED BY <2>1, <2>2
<1>3. CASE SlamStorePose
    <2>1. latest_pose' \in Slot
        BY <1>3, StoredSlot DEF SlamStorePose, SlamType
    <2>2. StoreType' /\ ReaderType' /\ AggregatorType'
        <3>1. /\ UNCHANGED <<latest_velocity, pose_history, latest_scan, lidar_buffer,
                             ch3, world>>
              /\ UNCHANGED <<reader, aggregator>>
              /\ localization_confidence' \in Confidences
            BY <1>3 DEF SlamStorePose, StoreUnchanged, Confidences
        <3>2. StoreType'
            BY <2>1, <3>1 DEF StoreType
        <3>3. ReaderType'
            BY <3>1 DEF ReaderType
        <3>4. AggregatorType'
            BY <3>1 DEF AggregatorType
        <3> QED BY <3>2, <3>3, <3>4
    <2>3. SlamType'
        BY <1>3 DEF SlamStorePose, SlamType, Lags
    <2> QED BY <2>2, <2>3
<1> QED BY <1>1, <1>2, <1>3 DEF Slam

(* The aggregator's actions. *)
LEMMA AggregatorKeepsTypes ==
    ASSUME TypeInv, Aggregator
    PROVE  TypeInv'
<1> USE DEF TypeInv
<1>1. CASE ReceiveVehicleState
    <2>1. ch3 # <<>> => Head(ch3) \in Lag /\ Tail(ch3) \in Seq(Lag)
        BY HeadTailProperties DEF StoreType
    <2>2. StoreType' /\ ReaderType' /\ SlamType'
        <3>1. ch3' \in Seq(Lag)
            BY <1>1, <2>1 DEF ReceiveVehicleState, StoreType
        <3>2. UNCHANGED <<latest_pose, latest_velocity, localization_confidence, pose_history,
                          latest_scan, lidar_buffer, reader, slam, world>>
            BY <1>1 DEF ReceiveVehicleState
        <3> QED BY <3>1, <3>2 DEF StoreType, ReaderType, SlamType
    <2>3. AggregatorType'
        <3>1. CASE ch3 = <<>>
            BY <1>1, <3>1 DEF ReceiveVehicleState, AggregatorType, AggregatorSteps
        <3>2. CASE ch3 # <<>>
            <4> DEFINE m == Head(ch3)
                       p == IF FallbackDue(latest_pose) THEN "pose" ELSE "velocity"
            <4>1. m \in Lag /\ m # Nothing /\ p \in {"pose", "velocity"}
                BY <2>1, <3>2, Constants DEF Lag, Nothing
            <4>2. aggregator' = [aggregator EXCEPT !.pc = p, !.message = m]
                BY <1>1, <3>2 DEF ReceiveVehicleState
            <4> HIDE DEF m, p
            <4> QED BY <4>1, <4>2 DEF AggregatorType, AggregatorSteps
        <3> QED BY <3>1, <3>2
    <2> QED BY <2>2, <2>3
<1>2. CASE FallbackPose
    <2>1. aggregator.message \in Lag
        BY <1>2 DEF FallbackPose, AggregatorType
    <2>2. latest_pose' \in Slot /\ pose_history' \in Seq(Lag)
        BY <1>2, <2>1, StoredSlot, RecordedFields
        DEF FallbackPose, PushStampedPose, StoreType, Lag, Lags
    <2>3. StoreType'
        BY <1>2, <2>2 DEF FallbackPose, StoreType, Confidences
    <2>4. AggregatorType'
        BY <1>2 DEF FallbackPose, AggregatorType, AggregatorSteps
    <2> QED BY <1>2, <2>3, <2>4 DEF FallbackPose, ReaderType, SlamType
<1>3. CASE FallbackVelocity
    <2>1. aggregator.message \in Lags
        BY DEF AggregatorType, Lag, Lags
    <2>2. latest_velocity' \in Slot
        BY <1>3, <2>1, StoredSlot DEF FallbackVelocity, StoreType
    <2>3. StoreType'
        BY <1>3, <2>2 DEF FallbackVelocity, StoreType
    <2>4. AggregatorType'
        BY <1>3 DEF FallbackVelocity, AggregatorType, AggregatorSteps
    <2> QED BY <1>3, <2>3, <2>4 DEF FallbackVelocity, ReaderType, SlamType
<1>4. CASE Publish
    <2>1. world' \in BOOLEAN
        BY <1>4, Zenon DEF Publish
    <2>2. StoreType'
        BY <1>4, <2>1 DEF Publish, StoreType
    <2>3. AggregatorType'
        <3> DEFINE f == FALSE
                   c == CyclePeriod
                   n == Nothing
        <3>1. c \in 0 .. CyclePeriod /\ n \in Lags
            BY Constants DEF Lags
        <3>2. f \in BOOLEAN
            BY Zenon
        <3>3. aggregator' = [aggregator EXCEPT !.pc = "idle", !.wait = c, !.is_new = f,
                                               !.scan = n, !.pose = n, !.velocity = n]
            BY <1>4 DEF Publish
        <3> HIDE DEF c, f, n
        <3> QED BY <3>1, <3>2, <3>3 DEF AggregatorType, AggregatorSteps
    <2> QED BY <1>4, <2>2, <2>3 DEF Publish, ReaderType, SlamType
<1>5. CASE LoadScan
    <2>1. StoreType' /\ ReaderType' /\ SlamType'
        BY <1>5 DEF LoadScan, AggregatorLoads, StoreType, ReaderType, SlamType
    <2>2. AggregatorType'
        <3> DEFINE f == FALSE
                   n == IsNewScan
        <3>1. n \in BOOLEAN /\ latest_scan \in Lags
            BY DEF IsNewScan, AggregatorType, StoreType
        <3>2. f \in BOOLEAN
            BY Zenon
        <3>3. aggregator' = [aggregator EXCEPT !.pc = "load_pose", !.fresh = f,
                                               !.is_new = n, !.scan = latest_scan]
            BY <1>5 DEF LoadScan
        <3> HIDE DEF f, n
        <3> QED BY <3>1, <3>2, <3>3 DEF AggregatorType, AggregatorSteps
    <2> QED BY <2>1, <2>2
<1>6. CASE LoadPose \/ LoadVelocity
    <2>1. StoreType' /\ ReaderType' /\ SlamType'
        BY <1>6 DEF LoadPose, LoadVelocity, AggregatorLoads, StoreType, ReaderType, SlamType
    <2>2. latest_pose.lag \in Lags /\ latest_velocity.lag \in Lags
        BY DEF StoreType, Slot
    <2>3. AggregatorType'
        BY <1>6, <2>2 DEF LoadPose, LoadVelocity, AggregatorType, AggregatorSteps
    <2> QED BY <2>1, <2>3
<1> QED BY <1>1, <1>2, <1>3, <1>4, <1>5, <1>6 DEF Aggregator

(* A tick. *)
LEMMA TickKeepsTypes ==
    ASSUME TypeInv, Tick
    PROVE  TypeInv'
<1> USE DEF TypeInv
<1>1. latest_pose' \in Slot /\ latest_velocity' \in Slot
    BY LaterSlotFields DEF Tick, StoreType
<1>2. pose_history' \in Seq(Lag)
    <2>1. \A e \in Lag : Later(e) \in Lag
        BY LaterLag DEF Lag, Lags
    <2> QED BY <2>1, LaterSequence DEF Tick, StoreType
<1>3. latest_scan' \in Lags
    BY LaterLag DEF Tick, StoreType
<1>4. lidar_buffer' \in Seq(Nat)
    <2>1. \A e \in Nat : Later(e) \in Nat
        BY LaterLag DEF Lags
    <2> QED BY <2>1, LaterSequence DEF Tick, StoreType
<1>5. ch3' \in Seq(Lag)
    <2>1. \A e \in Lag : Later(e) \in Lag
        BY LaterLag DEF Lag, Lags
    <2>2. LaterAll(ch3) \in Seq(Lag)
        BY <2>1, LaterSequence DEF StoreType
    <2>3. 0 \in Lag
        BY Constants DEF Lag
    <2>4. Append(LaterAll(ch3), 0) \in Seq(Lag)
        BY <2>2, <2>3, AppendProperties
    <2> QED BY <2>2, <2>4 DEF Tick
<1>6. StoreType'
    BY <1>1, <1>2, <1>3, <1>4, <1>5 DEF Tick, StoreType
<1>7. ReaderType'
    BY DEF Tick, ReaderType, AfterPush, AfterPose, Nothing
<1>8. AggregatorType'
    <2>1. /\ aggregator' = [aggregator EXCEPT !.wait = aggregator.wait - 1]
          /\ aggregator.wait > 0
        BY DEF Tick
    <2>2. aggregator.wait - 1 \in 0 .. CyclePeriod
        BY <2>1, Constants DEF AggregatorType
    <2> QED BY <2>1, <2>2 DEF AggregatorType
<1> QED BY <1>6, <1>7, <1>8 DEF Tick, SlamType

(* Every step keeps the types.                                             *)
LEMMA TypeStep == TypeInv /\ [Next]_vars => TypeInv'
<1>1. ASSUME TypeInv, UNCHANGED vars
      PROVE  TypeInv'
    BY <1>1 DEF vars, TypeInv, StoreType, ReaderType, SlamType, AggregatorType
<1> QED
    BY <1>1, ReaderKeepsTypes, SlamKeepsTypes, AggregatorKeepsTypes, TickKeepsTypes DEF Next

(* The store, the queues and the threads' records are well typed; while a  *)
(* scan is on its way into the queue, the slot holds the same one.         *)
THEOREM SensingTypes == Spec => []TypeInv
<1> QED BY TypeInit, TypeStep, PTL DEF Spec

-----------------------------------------------------------------------------
(* The record of poses.                                                    *)

Ordered(h) == \A i \in 1 .. Len(h) - 1 : h[i] > h[i + 1] \/ h[i + 1] = AgeMax

(* push_stamped_pose keeps the history in order, full or not.              *)
LEMMA RecordedOrdered ==
    ASSUME NEW h \in Seq(Lag), NEW lag \in Lag, Ordered(h)
    PROVE  Ordered(Recorded(h, lag))
<1> DEFINE g == IF Len(h) = HistoryLen THEN Tail(h) ELSE h
           r == Append(g, lag)
<1>1. Len(h) \in Nat /\ \A i \in 1 .. Len(h) : h[i] \in Lag
    BY LenProperties, ElementOfSeq
<1>2. CASE h # <<>> /\ Last(h) <= lag
    BY <1>2 DEF Recorded
<1>3. CASE ~(h # <<>> /\ Last(h) <= lag)
    <2>1. Recorded(h, lag) = r
        BY <1>3 DEF Recorded
    <2>2. h = <<>> \/ h[Len(h)] > lag
        <3>1. CASE h # <<>>
            <4>1. Len(h) \in Nat \ {0}
                BY <3>1, EmptySeq
            <4>2. h[Len(h)] \in Lag
                BY <1>1, <4>1
            <4> QED BY <3>1, <4>2, <1>3, Constants DEF Last, Lag
        <3> QED BY <3>1
    <2>3. CASE Len(h) = HistoryLen
        <3>1. h # <<>> /\ Len(h) >= 1
            BY <2>3, Constants, EmptySeq
        <3>2. /\ Tail(h) \in Seq(Lag) /\ Len(Tail(h)) = Len(h) - 1
              /\ \A i \in 1 .. Len(h) - 1 : Tail(h)[i] = h[i + 1]
            BY <3>1, HeadTailProperties
        <3>3. /\ Len(r) = Len(h) /\ r[Len(h)] = lag
              /\ \A i \in 1 .. Len(h) - 1 : r[i] = h[i + 1]
            BY <2>3, <3>1, <3>2, <1>1, AppendProperties
        <3> HIDE DEF r, g
        <3>4. ASSUME NEW i \in 1 .. Len(r) - 1
              PROVE  r[i] > r[i + 1] \/ r[i + 1] = AgeMax
            <4>1. CASE i = Len(h) - 1
                BY <4>1, <3>1, <3>3, <2>2, <1>1
            <4>2. CASE i # Len(h) - 1
                <5>1. i \in 1 .. Len(h) - 2 /\ i + 1 \in 1 .. Len(h) - 1
                    BY <4>2, <3>3, <1>1
                <5>2. r[i] = h[i + 1] /\ r[i + 1] = h[i + 2]
                    BY <5>1, <3>3, <1>1
                <5>3. h[i + 1] > h[i + 2] \/ h[i + 2] = AgeMax
                    <6>1. (i + 1) + 1 = i + 2
                        BY <5>1
                    <6> QED BY <5>1, <6>1 DEF Ordered
                <5> QED BY <5>2, <5>3
            <4> QED BY <4>1, <4>2
        <3> QED BY <2>1, <3>4 DEF Ordered
    <2>4. CASE Len(h) # HistoryLen
        <3>1. /\ Len(r) = Len(h) + 1 /\ r[Len(h) + 1] = lag
              /\ \A i \in 1 .. Len(h) : r[i] = h[i]
            BY <2>4, AppendProperties
        <3> HIDE DEF r, g
        <3>2. ASSUME NEW i \in 1 .. Len(r) - 1
              PROVE  r[i] > r[i + 1] \/ r[i + 1] = AgeMax
            <4>1. i \in 1 .. Len(h) /\ h # <<>>
                BY <3>1, <1>1, EmptySeq
            <4>2. CASE i = Len(h)
                BY <4>1, <4>2, <3>1, <2>2
            <4>3. CASE i # Len(h)
                <5>1. i \in 1 .. Len(h) - 1 /\ i + 1 \in 1 .. Len(h)
                    BY <4>1, <4>3, <1>1
                <5> QED BY <5>1, <4>1, <3>1 DEF Ordered
            <4> QED BY <4>2, <4>3
        <3> QED BY <2>1, <3>2 DEF Ordered
    <2> QED BY <2>3, <2>4
<1> QED BY <1>2, <1>3

(* A tick keeps the history in order.                                      *)
LEMMA LaterOrdered ==
    ASSUME NEW h \in Seq(Lag), Ordered(h)
    PROVE  Ordered(LaterAll(h))
<1>1. Len(h) \in Nat /\ \A i \in 1 .. Len(h) : h[i] \in Lag
    BY LenProperties, ElementOfSeq
<1>2. /\ Len(LaterAll(h)) = Len(h)
      /\ \A i \in 1 .. Len(h) : LaterAll(h)[i] = Later(h[i])
    <2>1. \A e \in Lag : Later(e) \in Lag
        BY LaterLag DEF Lag, Lags
    <2> QED BY <2>1, LaterSequence
<1>3. ASSUME NEW i \in 1 .. Len(h) - 1
      PROVE  Later(h[i]) > Later(h[i + 1]) \/ Later(h[i + 1]) = AgeMax
    <2>1. i \in 1 .. Len(h) /\ i + 1 \in 1 .. Len(h)
        BY <1>1
    <2>2. h[i] > h[i + 1] \/ h[i + 1] = AgeMax
        BY DEF Ordered
    <2>3. h[i] \in Lag /\ h[i + 1] \in Lag
        BY <1>1, <2>1
    <2> QED BY <2>2, <2>3, LaterOrder
<1>4. ASSUME NEW i \in 1 .. Len(h) - 1
      PROVE  LaterAll(h)[i] = Later(h[i]) /\ LaterAll(h)[i + 1] = Later(h[i + 1])
    BY <1>1, <1>2
<1> QED BY <1>2, <1>3, <1>4 DEF Ordered

(* The stamps on record stay in order and distinct, whichever thread       *)
(* records a pose and however late its message.                            *)
THEOREM HistoryStaysOrdered == Spec => []HistoryIsOrdered
<1>1. Init => Ordered(pose_history)
    BY EmptySeq DEF Init, Ordered
<1>2. ASSUME TypeInv, Ordered(pose_history), [Next]_vars
      PROVE  Ordered(pose_history')
    <2>1. pose_history \in Seq(Lag)
        BY <1>2 DEF TypeInv, StoreType
    <2>2. CASE ReadPose
        <3>1. reader.pose \in Lag
            BY <1>2, <2>2, Constants DEF TypeInv, ReadPose, ReaderType, Lag, Nothing
        <3> QED BY <1>2, <2>1, <2>2, <3>1, RecordedOrdered DEF ReadPose, PushStampedPose
    <2>3. CASE FallbackPose
        <3>1. aggregator.message \in Lag
            BY <1>2, <2>3 DEF TypeInv, FallbackPose, AggregatorType
        <3> QED BY <1>2, <2>1, <2>3, <3>1, RecordedOrdered DEF FallbackPose, PushStampedPose
    <2>4. CASE Tick
        BY <1>2, <2>1, <2>4, LaterOrdered DEF Tick
    <2>5. CASE UNCHANGED pose_history
        BY <1>2, <2>5
    <2> QED
        BY <1>2, <2>2, <2>3, <2>4, <2>5
        DEF Next, Reader, Slam, Aggregator, ReadScan, PushOverwrite, ReadVelocity, PopLatest,
            MatchScan, SlamStorePose, StoreUnchanged, ReceiveVehicleState, FallbackVelocity,
            LoadScan, LoadPose, LoadVelocity, AggregatorLoads, Publish, vars
<1>3. Ordered(pose_history) <=> HistoryIsOrdered
    BY DEF Ordered, HistoryIsOrdered
<1>4. TypeInv /\ Ordered(pose_history) /\ [Next]_vars => Ordered(pose_history)'
    BY <1>2
<1> QED BY <1>1, <1>3, <1>4, SensingTypes, PTL DEF Spec

-----------------------------------------------------------------------------
(* Scans on their way to planning.                                         *)

(* Ticks until the aggregator publishes again. *)
Due == IF aggregator.pc = "idle" THEN aggregator.wait ELSE 0

(* A scan not yet published is known to be new, or was when it was loaded, *)
(* and will not be older than CyclePeriod + 1 when the aggregator          *)
(* publishes; one that comes while a cycle loads is of that tick.          *)
ScanPending ==
    /\ ~world => /\ aggregator.fresh \/ (Loading /\ aggregator.is_new)
                 /\ latest_scan + Due <= CyclePeriod + 1
    /\ Loading /\ aggregator.fresh => latest_scan <= 1

(* A scan that is not yet published will be by the cycle that is due.      *)
LEMMA PendingStep == TypeInv /\ ScanPending /\ [Next]_vars => ScanPending'
<1> SUFFICES ASSUME TypeInv, ScanPending, [Next]_vars
             PROVE  ScanPending'
    OBVIOUS
<1>1. /\ latest_scan \in Lags /\ aggregator.wait \in 0 .. CyclePeriod
      /\ aggregator.fresh \in BOOLEAN /\ world \in BOOLEAN
      /\ aggregator \in [pc : AggregatorSteps, message : Lag \cup {Nothing},
                         wait : 0 .. CyclePeriod, fresh : BOOLEAN, is_new : BOOLEAN,
                         scan : Lags, pose : Lags, velocity : Lags]
    BY DEF TypeInv, StoreType, AggregatorType
<1>2. CASE ReadScan
    <2>1. reader.scan \in {0, 1}
        BY <1>2 DEF TypeInv, ReadScan, ReaderType
    <2>2. aggregator' = [aggregator EXCEPT !.fresh = TRUE] /\ latest_scan' = reader.scan
        BY <1>2 DEF ReadScan
    <2>3. /\ aggregator'.fresh /\ aggregator'.wait = aggregator.wait
          /\ aggregator'.pc = aggregator.pc
        BY <1>1, <2>2
    <2> QED BY <1>1, <2>1, <2>2, <2>3, Constants DEF ScanPending, Due
<1>3. CASE Publish
    <2>1. world' = (world \/ (aggregator.is_new /\ ~aggregator.fresh)) /\ Loading
        BY <1>3, Zenon DEF Publish, Loading
    <2>2. /\ aggregator'.fresh = aggregator.fresh /\ aggregator'.pc = "idle"
          /\ aggregator'.wait = CyclePeriod /\ latest_scan' = latest_scan
        BY <1>1, <1>3 DEF Publish
    <2>3. ~Loading' /\ Due' = CyclePeriod
        BY <2>2 DEF Loading, Due
    <2>4. ASSUME ~world' PROVE aggregator.fresh /\ latest_scan <= 1
        <3>1. ~world /\ ~(aggregator.is_new /\ ~aggregator.fresh)
            BY <2>1, <2>4
        <3>2. aggregator.fresh \/ aggregator.is_new
            BY <3>1 DEF ScanPending
        <3>3. aggregator.fresh
            BY <3>1, <3>2
        <3> QED BY <2>1, <3>3 DEF ScanPending
    <2> QED BY <1>1, <2>2, <2>3, <2>4, Constants DEF ScanPending, Lags, Nothing
<1>4. CASE ReceiveVehicleState
    <2>1. /\ aggregator'.fresh = aggregator.fresh /\ aggregator'.pc # "idle"
          /\ aggregator.pc = "idle" /\ aggregator.wait = 0
          /\ world' = world /\ latest_scan' = latest_scan
        BY <1>1, <1>4 DEF ReceiveVehicleState
    <2>2. ~Loading /\ ~Loading'
        BY <1>1, <1>4, <2>1 DEF ReceiveVehicleState, Loading
    <2> QED BY <1>1, <2>1, <2>2 DEF ScanPending, Due
<1>5. CASE FallbackPose \/ FallbackVelocity
    <2>1. /\ aggregator'.fresh = aggregator.fresh /\ aggregator'.pc # "idle"
          /\ aggregator.pc # "idle" /\ world' = world /\ latest_scan' = latest_scan
          /\ ~Loading /\ ~Loading'
        BY <1>1, <1>5 DEF FallbackPose, FallbackVelocity, Loading
    <2> QED BY <2>1 DEF ScanPending, Due
<1>8. CASE LoadScan
    <2> DEFINE n == IsNewScan
               f == FALSE
    <2>1. /\ aggregator.pc = "compose" /\ world' = world /\ latest_scan' = latest_scan
          /\ aggregator' = [aggregator EXCEPT !.pc = "load_pose", !.fresh = f,
                                              !.is_new = n, !.scan = latest_scan]
        BY <1>8 DEF LoadScan, AggregatorLoads
    <2>2. n = aggregator.fresh /\ ~f
        BY DEF IsNewScan
    <2> HIDE DEF n, f
    <2>3. aggregator'.pc = "load_pose" /\ aggregator'.is_new = n /\ aggregator'.fresh = f
        BY <1>1, <2>1
    <2>4. ~Loading /\ Loading' /\ Due = 0 /\ Due' = 0
        BY <2>1, <2>3 DEF Loading, Due
    <2> QED BY <2>1, <2>2, <2>3, <2>4 DEF ScanPending
<1>9. CASE LoadPose \/ LoadVelocity
    <2>1. /\ aggregator'.fresh = aggregator.fresh /\ aggregator'.is_new = aggregator.is_new
          /\ aggregator'.pc # "idle" /\ aggregator.pc # "idle" /\ Loading /\ Loading'
          /\ world' = world /\ latest_scan' = latest_scan
        BY <1>1, <1>9 DEF LoadPose, LoadVelocity, AggregatorLoads, Loading
    <2> QED BY <2>1 DEF ScanPending, Due
<1>6. CASE Tick
    <2>1. aggregator' = [aggregator EXCEPT !.wait = aggregator.wait - 1]
          /\ aggregator.pc = "idle" /\ aggregator.wait > 0
          /\ latest_scan' = Later(latest_scan) /\ world' = world
        BY <1>6 DEF Tick
    <2>2. /\ aggregator'.fresh = aggregator.fresh /\ aggregator'.pc = "idle"
          /\ aggregator'.wait = aggregator.wait - 1
        BY <1>1, <2>1
    <2>3. Later(latest_scan) <= latest_scan + 1 /\ Later(latest_scan) \in Lags
        BY <1>1, LaterLag
    <2>4. ~Loading /\ ~Loading'
        BY <2>1, <2>2 DEF Loading
    <2> QED BY <1>1, <2>1, <2>2, <2>3, <2>4, Constants DEF ScanPending, Due, Lags, Nothing
<1>7. CASE UNCHANGED <<aggregator, world, latest_scan>>
    BY <1>7 DEF ScanPending, Due, Loading
<1> QED
    BY <1>2, <1>3, <1>4, <1>5, <1>6, <1>7, <1>8, <1>9
    DEF Next, Reader, Slam, Aggregator, PushOverwrite, ReadPose, ReadVelocity, PopLatest,
        MatchScan, SlamStorePose, StoreUnchanged, vars

(* A scan reaches planning one cycle after it was taken at the latest.     *)
THEOREM EveryNewScanReachesPlanning == Spec => []NewScanReachesPlanning
<1>1. Init => ScanPending
    BY DEF Init, ScanPending, Loading
<1>2. TypeInv /\ ScanPending => NewScanReachesPlanning
    <2> SUFFICES ASSUME TypeInv, ScanPending, ~world
                 PROVE  ~(latest_scan > CyclePeriod + 1)
        BY DEF NewScanReachesPlanning
    <2>1. Due \in Nat
        BY DEF TypeInv, AggregatorType, Due
    <2> QED BY <2>1, Constants DEF TypeInv, StoreType, ScanPending, Lags, Nothing
<1> QED BY <1>1, <1>2, PendingStep, SensingTypes, PTL DEF Spec

-----------------------------------------------------------------------------
(* Scans on their way to SLAM.                                             *)

(* Until SLAM knows it took the newest scan, that scan is the last in the  *)
(* queue or, once the queue is drained, the one in SLAM's hands.           *)
NewestQueued ==
    reader.pc \notin {"push", "drop_oldest", "retry"} /\ latest_scan # Nothing =>
        \/ lidar_buffer # <<>> /\ Last(lidar_buffer) = latest_scan
        \/ lidar_buffer = <<>> /\ slam.pc = "drain" /\ slam.scan = latest_scan
        \/ lidar_buffer = <<>> /\ slam.pc # "drain" /\ slam.newest

(* The newest scan stays at the end of the queue, or SLAM holds it.        *)
LEMMA QueueStep == TypeInv /\ NewestQueued /\ [Next]_vars => NewestQueued'
<1> SUFFICES ASSUME TypeInv, NewestQueued, [Next]_vars
             PROVE  NewestQueued'
    OBVIOUS
<1>1. /\ lidar_buffer \in Seq(Nat) /\ latest_scan \in Lags
      /\ slam \in [pc : {"idle", "drain", "match", "store"}, scan : Lags, newest : BOOLEAN,
                   lines : BOOLEAN]
      /\ reader \in [pc : {"idle", "scan", "push", "drop_oldest", "retry", "pose", "velocity"},
                     scan : {Nothing, 0, 1}, pose : {Nothing, 0}, velocity : {Nothing, 0}]
      /\ reader.pc \in {"push", "drop_oldest", "retry"}
           => reader.scan = latest_scan /\ reader.scan # Nothing
    BY DEF TypeInv, StoreType, SlamType, ReaderType
<1>2. CASE ReadScan
    <2>1. reader'.pc = "push"
        BY <1>1, <1>2 DEF ReadScan
    <2> QED BY <2>1 DEF NewestQueued
<1>3. CASE PushOverwrite
    <2>1. CASE PushScan /\ reader.pc \in {"push", "retry"}
        <3>1. reader.scan = latest_scan /\ latest_scan \in Nat
            BY <1>1, <2>1 DEF Lags
        <3>2. lidar_buffer' # <<>> /\ Last(lidar_buffer') = latest_scan
            <4>1. lidar_buffer' = Append(lidar_buffer, latest_scan)
                BY <2>1, <3>1 DEF PushScan
            <4> DEFINE b == Append(lidar_buffer, latest_scan)
            <4>2. b # <<>> /\ Len(b) = Len(lidar_buffer) + 1 /\ b[Len(lidar_buffer) + 1] = latest_scan
                BY <1>1, <3>1, AppendProperties
            <4> HIDE DEF b
            <4> QED BY <4>1, <4>2 DEF Last, b
        <3> QED BY <1>3, <3>2 DEF PushOverwrite, NewestQueued
    <2>2. CASE reader'.pc \in {"drop_oldest", "retry"}
        BY <2>2 DEF NewestQueued
    <2> QED BY <1>1, <1>3, <2>1, <2>2 DEF PushOverwrite
<1>4. CASE ReadPose \/ ReadVelocity
    <2>1. /\ reader.pc \in {"pose", "velocity"}
          /\ UNCHANGED <<lidar_buffer, slam, latest_scan>>
        BY <1>4 DEF ReadPose, ReadVelocity
    <2> QED BY <2>1 DEF NewestQueued
<1>5. CASE PopLatest
    <2>1. UNCHANGED <<reader, latest_scan>>
        BY <1>5 DEF PopLatest, StoreUnchanged
    <2> SUFFICES ASSUME reader.pc \notin {"push", "drop_oldest", "retry"}, latest_scan # Nothing
                 PROVE  \/ lidar_buffer' # <<>> /\ Last(lidar_buffer') = latest_scan
                        \/ lidar_buffer' = <<>> /\ slam'.pc = "drain" /\ slam'.scan = latest_scan
                        \/ lidar_buffer' = <<>> /\ slam'.pc # "drain" /\ slam'.newest
        BY <2>1 DEF NewestQueued
    <2>2. CASE lidar_buffer # <<>>
        <3>1. Last(lidar_buffer) = latest_scan
            BY <2>2 DEF NewestQueued
        <3>2. /\ lidar_buffer' = Tail(lidar_buffer)
              /\ slam' = [slam EXCEPT !.pc = "drain", !.scan = Head(lidar_buffer)]
            BY <1>5, <2>2 DEF PopLatest
        <3>3. slam'.pc = "drain" /\ slam'.scan = Head(lidar_buffer)
            BY <1>1, <3>2
        <3>4. /\ Len(lidar_buffer) \in Nat \ {0} /\ Tail(lidar_buffer) \in Seq(Nat)
              /\ Len(Tail(lidar_buffer)) = Len(lidar_buffer) - 1
              /\ \A i \in 1 .. Len(lidar_buffer) - 1 : Tail(lidar_buffer)[i] = lidar_buffer[i + 1]
              /\ Head(lidar_buffer) = lidar_buffer[1]
            BY <1>1, <2>2, HeadTailProperties, EmptySeq
        <3>5. CASE Len(lidar_buffer) = 1
            <4>1. Tail(lidar_buffer) = <<>>
                BY <1>1, <2>2, <3>4, <3>5, TailIsEmpty
            <4>2. Head(lidar_buffer) = latest_scan
                BY <3>1, <3>4, <3>5 DEF Last
            <4> QED BY <3>2, <3>3, <4>1, <4>2
        <3>6. CASE Len(lidar_buffer) # 1
            <4>1. Tail(lidar_buffer) # <<>>
                BY <1>1, <2>2, <3>4, <3>6, TailIsEmpty
            <4>2. Last(Tail(lidar_buffer)) = latest_scan
                BY <3>1, <3>4, <3>6 DEF Last
            <4> QED BY <3>2, <4>1, <4>2
        <3> QED BY <3>5, <3>6
    <2>3. CASE lidar_buffer = <<>>
        <3> DEFINE c == slam.scan = latest_scan
        <3>1. slam.pc = "drain" /\ slam' = [slam EXCEPT !.pc = "match", !.newest = c]
              /\ lidar_buffer' = lidar_buffer
            BY <1>5, <2>3 DEF PopLatest
        <3>2. c
            BY <2>3, <3>1 DEF NewestQueued
        <3> HIDE DEF c
        <3>3. slam'.pc = "match" /\ slam'.newest = c
            BY <1>1, <3>1
        <3> QED BY <2>3, <3>1, <3>2, <3>3
    <2> QED BY <2>2, <2>3
<1>6. CASE MatchScan
    <2>1. slam.pc = "match" /\ UNCHANGED <<reader, latest_scan, lidar_buffer>>
        BY <1>6 DEF MatchScan, StoreUnchanged
    <2>2. slam'.pc # "drain" /\ slam'.newest = slam.newest
        BY <1>1, <1>6 DEF MatchScan
    <2> QED BY <2>1, <2>2 DEF NewestQueued
<1>7. CASE SlamStorePose
    <2>1. slam.pc = "store" /\ UNCHANGED <<reader, latest_scan, lidar_buffer>>
        BY <1>7 DEF SlamStorePose, StoreUnchanged
    <2>2. slam'.pc # "drain" /\ slam'.newest = slam.newest
        BY <1>1, <1>7 DEF SlamStorePose
    <2> QED BY <2>1, <2>2 DEF NewestQueued
<1>8. CASE Tick
    <2>1. /\ slam.pc = "idle" /\ slam' = slam /\ reader.pc = "idle"
          /\ latest_scan' = Later(latest_scan) /\ lidar_buffer' = LaterAll(lidar_buffer)
        BY <1>8 DEF Tick
    <2>2. latest_scan' = Nothing <=> latest_scan = Nothing
        BY <1>1, <2>1, LaterLag
    <2>3. \A e \in Nat : Later(e) \in Nat
        BY LaterLag DEF Lags
    <2>4. /\ Len(LaterAll(lidar_buffer)) = Len(lidar_buffer)
          /\ \A i \in 1 .. Len(lidar_buffer) : LaterAll(lidar_buffer)[i] = Later(lidar_buffer[i])
          /\ LaterAll(lidar_buffer) = <<>> <=> lidar_buffer = <<>>
        BY SMTT(20), <1>1, <2>3, LaterSequence
    <2>5. lidar_buffer # <<>> => Len(lidar_buffer) \in 1 .. Len(lidar_buffer)
        BY <1>1, EmptySeq
    <2>6. lidar_buffer # <<>> /\ Last(lidar_buffer) = latest_scan
            => lidar_buffer' # <<>> /\ Last(lidar_buffer') = latest_scan'
        BY <2>1, <2>4, <2>5 DEF Last
    <2> QED BY <2>1, <2>2, <2>4, <2>6 DEF NewestQueued
<1>9. CASE UNCHANGED <<reader, slam, lidar_buffer, latest_scan>>
    BY <1>9 DEF NewestQueued
<1> QED
    BY <1>2, <1>3, <1>4, <1>5, <1>6, <1>7, <1>8, <1>9
    DEF Next, Reader, Slam, Aggregator, ReceiveVehicleState, FallbackPose, FallbackVelocity,
        LoadScan, LoadPose, LoadVelocity, AggregatorLoads, Publish, vars

(* The newest scan is never lost, whatever the reader pushes while SLAM    *)
(* drains the queue.                                                       *)
THEOREM EveryNewestScanReachesSlam == Spec => []NewestScanReachesSlam
<1>1. Init => NewestQueued
    BY DEF Init, NewestQueued
<1>2. NewestQueued => NewestScanReachesSlam
    BY DEF NewestQueued, NewestScanReachesSlam
<1> QED BY <1>1, <1>2, QueueStep, SensingTypes, PTL DEF Spec

-----------------------------------------------------------------------------
(* Odometry on its way to planning.                                        *)

(* A scan does not wait longer for SLAM than a message in a full socket    *)
(* waits for the aggregator.                                               *)
StallsEndInTime == SlamStall \in 1 .. CyclePeriod * Ch3Capacity - 1

(* The lag of the last message of a full socket when it is read. *)
MessageBound == CyclePeriod * Ch3Capacity - 1

(* Ticks until the aggregator reads the next message. *)
NextCycle == IF aggregator.pc = "idle" THEN aggregator.wait ELSE CyclePeriod

(* One message is read per cycle, so each is as old when read as its place *)
(* in the socket allows.                                                   *)
SocketBounded ==
    \A i \in 1 .. Len(ch3) : ch3[i] + NextCycle + (i - 1) * CyclePeriod <= MessageBound

CarriedBounded ==
    /\ aggregator.message <= MessageBound
    /\ \A i \in 1 .. Len(lidar_buffer) : lidar_buffer[i] <= MessageBound
    /\ slam.scan <= MessageBound

(* What was stored ages with its slot, up to where odometry replaces it.   *)
SlotBounded(slot) == slot.age <= FallbackAge => slot.lag <= MessageBound + slot.age

Publishable(slot) == slot.age <= FallbackAge \/ slot.lag = Nothing

(* The aggregator publishes a slot only after it had a message to replace  *)
(* an old one with, or before anything was stored.                         *)
SlotsBounded ==
    /\ SlotBounded(latest_pose) /\ SlotBounded(latest_velocity)
    /\ aggregator.pc \in {"velocity", "compose", "load_pose"} => Publishable(latest_pose)
    /\ aggregator.pc \in {"compose", "load_pose", "load_velocity"}
          => Publishable(latest_velocity)

(* What the cycle has loaded is already within the bound.                  *)
LoadedBounded == aggregator.pose <= LagBound /\ aggregator.velocity <= LagBound

NothingYet ==
    /\ latest_pose.lag = Nothing /\ latest_velocity.lag = Nothing
    /\ reader.pc = "idle" /\ slam.pc = "idle" /\ lidar_buffer = <<>>

SocketServesCycle ==
    ch3 = <<>> /\ aggregator.pc = "idle" /\ aggregator.wait = 0 => NothingYet

LagInv ==
    /\ SocketBounded /\ CarriedBounded /\ SlotsBounded /\ SocketServesCycle
    /\ LoadedBounded /\ LagIsBounded

(* What the bounds come to, without products of the constants.             *)
LEMMA Bounds ==
    ASSUME StallsEndInTime
    PROVE  /\ MessageBound \in Nat /\ MessageBound >= 1 /\ SlamStall <= MessageBound
           /\ LagBound = MessageBound + FallbackAge
           /\ CyclePeriod - 1 + (Ch3Capacity - 1) * CyclePeriod = MessageBound
<1> DEFINE p == CyclePeriod * Ch3Capacity
<1>1. p \in Nat /\ p = (Ch3Capacity - 1) * CyclePeriod + CyclePeriod
    BY Constants
<1>2. SlamStall \in 1 .. p - 1
    BY DEF StallsEndInTime
<1> HIDE DEF p
<1>3. MessageBound = p - 1 /\ LagBound = p + FallbackAge - 1
    BY DEF MessageBound, LagBound, p
<1> DEFINE q == (Ch3Capacity - 1) * CyclePeriod
<1>4. q \in Int
    BY Constants
<1>5. p = q + CyclePeriod
    BY <1>1
<1> HIDE DEF q
<1>6. CyclePeriod - 1 + q = MessageBound
    BY <1>1, <1>3, <1>4, <1>5, Constants
<1> QED BY <1>1, <1>2, <1>3, <1>6, Constants DEF q

(* Multiples of the period. *)
LEMMA Multiples ==
    ASSUME NEW i \in Nat
    PROVE  /\ i * CyclePeriod \in Nat /\ (i + 1) * CyclePeriod = i * CyclePeriod + CyclePeriod
           /\ i <= Ch3Capacity - 1 => i * CyclePeriod <= (Ch3Capacity - 1) * CyclePeriod
<1>1. i * CyclePeriod \in Nat /\ (i + 1) * CyclePeriod = i * CyclePeriod + CyclePeriod
    BY Constants
<1>2. ASSUME i <= Ch3Capacity - 1
      PROVE  i * CyclePeriod <= (Ch3Capacity - 1) * CyclePeriod
    <2> DEFINE k == Ch3Capacity - 1 - i
    <2>1. k \in Nat /\ k * CyclePeriod \in Nat
        BY <1>2, Constants
    <2>2. (Ch3Capacity - 1) * CyclePeriod = i * CyclePeriod + k * CyclePeriod
        BY <1>2, Constants
    <2> QED BY <1>1, <2>1, <2>2
<1> QED BY <1>1, <1>2

(* The same, counted down.                                                 *)
LEMMA MultiplesBefore ==
    ASSUME NEW i \in Nat \ {0}
    PROVE  (i - 1) * CyclePeriod \in Nat /\ i * CyclePeriod = (i - 1) * CyclePeriod + CyclePeriod
<1> DEFINE j == i - 1
<1>1. j \in Nat /\ i = j + 1
    OBVIOUS
<1> HIDE DEF j
<1>2. j * CyclePeriod \in Nat /\ i * CyclePeriod = j * CyclePeriod + CyclePeriod
    BY <1>1, Multiples
<1> QED BY <1>2 DEF j

(* Messages leave the socket before they are older than its capacity       *)
(* allows: every cycle takes one, every tick ages all.                     *)
LEMMA SocketStep ==
    ASSUME StallsEndInTime, TypeInv, LagInv, [Next]_vars
    PROVE  SocketBounded'
<1>1. /\ ch3 \in Seq(Lag)
      /\ aggregator \in [pc : AggregatorSteps, message : Lag \cup {Nothing},
                         wait : 0 .. CyclePeriod, fresh : BOOLEAN, is_new : BOOLEAN,
                         scan : Lags, pose : Lags, velocity : Lags]
    BY DEF TypeInv, StoreType, AggregatorType
<1>2. Len(ch3) \in Nat /\ \A i \in 1 .. Len(ch3) : ch3[i] \in Nat
    <2>1. Len(ch3) \in Nat
        BY <1>1, LenProperties
    <2>2. \A i \in 1 .. Len(ch3) : ch3[i] \in Lag
        BY <1>1, ElementOfSeq
    <2> QED BY <2>1, <2>2, Constants DEF Lag
<1>3. SocketBounded
    BY DEF LagInv
<1>4. CASE ReceiveVehicleState
    <2>1. aggregator.pc = "idle" /\ aggregator.wait = 0 /\ aggregator'.pc # "idle"
        BY <1>1, <1>4 DEF ReceiveVehicleState
    <2>2. NextCycle = 0 /\ NextCycle' = CyclePeriod
        BY <2>1 DEF NextCycle
    <2>3. CASE ch3 = <<>>
        <3>1. Len(ch3') = 0
            BY <1>4, <2>3 DEF ReceiveVehicleState
        <3> QED BY <3>1 DEF SocketBounded
    <2>4. CASE ch3 # <<>>
        <3>1. ch3' = Tail(ch3)
            BY <1>4, <2>4 DEF ReceiveVehicleState
        <3>2. /\ Len(ch3') = Len(ch3) - 1
              /\ \A i \in 1 .. Len(ch3) - 1 : ch3'[i] = ch3[i + 1]
            BY <1>1, <2>4, <3>1, HeadTailProperties
        <3>3. ASSUME NEW i \in 1 .. Len(ch3')
              PROVE  ch3'[i] + NextCycle' + (i - 1) * CyclePeriod <= MessageBound
            <4>1. i + 1 \in 1 .. Len(ch3) /\ i - 1 \in Nat /\ i \in 1 .. Len(ch3) - 1
                BY <1>2, <3>2
            <4> DEFINE m == (i - 1) * CyclePeriod
            <4>2. m \in Nat /\ i * CyclePeriod = m + CyclePeriod
                <5>1. i \in Nat \ {0}
                    BY <4>1
                <5> QED BY <5>1, MultiplesBefore
            <4>3. ch3[i + 1] + NextCycle + ((i + 1) - 1) * CyclePeriod <= MessageBound
                BY <1>3, <4>1 DEF SocketBounded
            <4>4. ch3[i + 1] + NextCycle + i * CyclePeriod <= MessageBound
                BY <4>1, <4>3
            <4>5. ch3'[i] = ch3[i + 1] /\ ch3[i + 1] \in Nat
                BY <1>2, <3>2, <4>1
            <4> HIDE DEF m
            <4>6. ch3'[i] + NextCycle' + m <= MessageBound
                BY <2>2, <4>2, <4>4, <4>5, Constants, Bounds
            <4> QED BY <4>6 DEF m
        <3> QED BY <3>3, Constants DEF SocketBounded, MessageBound
    <2> QED BY <2>3, <2>4
<1>5. CASE \/ FallbackPose \/ FallbackVelocity
           \/ LoadScan \/ LoadPose \/ LoadVelocity \/ Publish
    <2>1. aggregator.pc # "idle" /\ ch3' = ch3
        BY <1>5 DEF FallbackPose, FallbackVelocity, LoadScan, LoadPose, LoadVelocity,
                    AggregatorLoads, Publish
    <2>2. aggregator'.pc # "idle" \/ aggregator'.wait = CyclePeriod
        BY <1>1, <1>5 DEF FallbackPose, FallbackVelocity, LoadScan, LoadPose, LoadVelocity, Publish
    <2>3. NextCycle' = NextCycle
        BY <2>1, <2>2 DEF NextCycle
    <2> QED BY <1>3, <2>1, <2>3 DEF SocketBounded, MessageBound
<1>6. CASE Tick
    <2>1. /\ aggregator' = [aggregator EXCEPT !.wait = aggregator.wait - 1]
          /\ aggregator.pc = "idle" /\ aggregator.wait > 0
          /\ ch3' = IF Len(ch3) < Ch3Capacity
                    THEN Append(LaterAll(ch3), 0) ELSE LaterAll(ch3)
        BY <1>6 DEF Tick
    <2>2. aggregator'.pc = "idle" /\ aggregator'.wait = aggregator.wait - 1
        BY <1>1, <2>1
    <2>3. /\ NextCycle \in 1 .. CyclePeriod /\ NextCycle' = NextCycle - 1
        BY <1>1, <2>1, <2>2, Constants DEF NextCycle
    <2> DEFINE a == LaterAll(ch3)
    <2>4. \A e \in Lag : Later(e) \in Lag /\ Later(e) <= e + 1
        BY LaterLag DEF Lag, Lags
    <2>5. /\ a \in Seq(Lag) /\ Len(a) = Len(ch3)
          /\ \A i \in 1 .. Len(ch3) : a[i] = Later(ch3[i])
        BY <1>1, <2>4, LaterSequence
    <2> HIDE DEF a
    <2>6. ASSUME NEW i \in 1 .. Len(ch3)
          PROVE  a[i] + NextCycle' + (i - 1) * CyclePeriod <= MessageBound
        <3> DEFINE m == (i - 1) * CyclePeriod
        <3>1. m \in Nat
            <4>1. i \in Nat \ {0}
                BY <1>2
            <4> QED BY <4>1, MultiplesBefore
        <3>2. ch3[i] + NextCycle + m <= MessageBound
            BY <1>3 DEF SocketBounded
        <3>3. ch3[i] \in Lag /\ ch3[i] \in Nat
            BY <1>1, <1>2, ElementOfSeq
        <3>4. a[i] <= ch3[i] + 1 /\ a[i] \in Lag
            BY <2>4, <2>5, <3>3
        <3> HIDE DEF m
        <3>5. a[i] + NextCycle' + m <= MessageBound
            BY <2>3, <3>1, <3>2, <3>3, <3>4, Bounds DEF Lag
        <3> QED BY <3>5 DEF m
    <2>7. CASE Len(ch3) < Ch3Capacity
        <3>1. 0 \in Lag
            BY Constants DEF Lag
        <3>2. ch3' = Append(a, 0)
            BY <2>1, <2>7 DEF a
        <3>3. /\ Len(ch3') = Len(ch3) + 1 /\ ch3'[Len(ch3) + 1] = 0
              /\ \A i \in 1 .. Len(ch3) : ch3'[i] = a[i]
            BY <2>5, <3>1, <3>2, AppendProperties
        <3>4. 0 + NextCycle' + ((Len(ch3) + 1) - 1) * CyclePeriod <= MessageBound
            <4> DEFINE m == Len(ch3) * CyclePeriod
                       q == (Ch3Capacity - 1) * CyclePeriod
            <4>1. m \in Nat /\ m <= q /\ q \in Nat
                <5>1. Ch3Capacity - 1 \in Nat
                    BY Constants
                <5> QED BY <1>2, <2>7, <5>1, Constants, Multiples
            <4>2. CyclePeriod - 1 + q = MessageBound
                BY Bounds
            <4> HIDE DEF m, q
            <4>3. 0 + NextCycle' + m <= MessageBound
                BY <2>3, <4>1, <4>2, Constants
            <4>4. (Len(ch3) + 1) - 1 = Len(ch3)
                BY <1>2
            <4> QED BY <4>3, <4>4 DEF m
        <3>5. ASSUME NEW i \in 1 .. Len(ch3')
              PROVE  ch3'[i] + NextCycle' + (i - 1) * CyclePeriod <= MessageBound
            <4>1. CASE i = Len(ch3) + 1
                BY <3>3, <3>4, <4>1
            <4>2. CASE i \in 1 .. Len(ch3)
                BY <2>6, <3>3, <4>2
            <4> QED BY <1>2, <3>3, <4>1, <4>2
        <3> QED BY <3>5, Constants DEF SocketBounded, MessageBound
    <2>8. CASE ~(Len(ch3) < Ch3Capacity)
        <3>1. ch3' = a
            BY <2>1, <2>8 DEF a
        <3> QED BY <2>5, <2>6, <3>1 DEF SocketBounded, MessageBound
    <2> QED BY <2>7, <2>8
<1>7. CASE UNCHANGED <<ch3, aggregator.pc, aggregator.wait>>
    <2>1. NextCycle' = NextCycle
        BY <1>7 DEF NextCycle
    <2> QED BY <1>3, <1>7, <2>1 DEF SocketBounded, MessageBound
<1>8. ReadScan => UNCHANGED <<ch3, aggregator.pc, aggregator.wait>>
    BY <1>1 DEF ReadScan
<1> QED
    BY <1>4, <1>5, <1>6, <1>7, <1>8
    DEF Next, Reader, Slam, Aggregator, PushOverwrite, ReadPose, ReadVelocity, PopLatest,
        MatchScan, SlamStorePose, StoreUnchanged, vars

(* What the threads carry is no older than that: the aggregator has it     *)
(* from the head of the socket, SLAM from a queue it does not leave too long. *)
LEMMA CarriedStep ==
    ASSUME StallsEndInTime, TypeInv, LagInv, [Next]_vars
    PROVE  CarriedBounded'
<1>1. /\ lidar_buffer \in Seq(Nat)
      /\ \A i \in 1 .. Len(lidar_buffer) : lidar_buffer[i] <= MessageBound
      /\ Len(lidar_buffer) \in Nat
      /\ slam.scan <= MessageBound /\ aggregator.message <= MessageBound
      /\ SocketBounded
    BY LenProperties DEF TypeInv, StoreType, LagInv, CarriedBounded
<1>2. /\ slam \in [pc : {"idle", "drain", "match", "store"}, scan : Lags, newest : BOOLEAN,
                   lines : BOOLEAN]
      /\ aggregator \in [pc : AggregatorSteps, message : Lag \cup {Nothing},
                         wait : 0 .. CyclePeriod, fresh : BOOLEAN, is_new : BOOLEAN,
                         scan : Lags, pose : Lags, velocity : Lags]
    BY DEF TypeInv, SlamType, AggregatorType
<1>3. MessageBound \in Nat /\ MessageBound >= 1 /\ MessageBound' = MessageBound
    BY Bounds DEF MessageBound
<1>4. ASSUME NEW b \in Seq(Nat), b # <<>>, \A i \in 1 .. Len(b) : b[i] <= MessageBound
      PROVE  Head(b) <= MessageBound /\ \A i \in 1 .. Len(Tail(b)) : Tail(b)[i] <= MessageBound
    <2>1. /\ Len(b) \in Nat \ {0} /\ Head(b) = b[1] /\ Len(Tail(b)) = Len(b) - 1
          /\ \A i \in 1 .. Len(b) - 1 : Tail(b)[i] = b[i + 1]
        BY <1>4, HeadTailProperties, EmptySeq
    <2>2. \A i \in 1 .. Len(b) - 1 : i + 1 \in 1 .. Len(b)
        BY <2>1
    <2> QED BY <1>4, <2>1, <2>2
<1>5. CASE ReadScan
    <2>1. slam'.scan = slam.scan /\ aggregator'.message = aggregator.message
          /\ lidar_buffer' = lidar_buffer
        BY <1>2, <1>5 DEF ReadScan
    <2> QED BY <2>1, <1>1, <1>3 DEF CarriedBounded
<1>6. CASE PushOverwrite
    <2>1. slam' = slam /\ aggregator' = aggregator
        BY <1>6 DEF PushOverwrite
    <2>2. ASSUME PushScan, reader.pc \in {"push", "retry"}
          PROVE  \A i \in 1 .. Len(lidar_buffer') : lidar_buffer'[i] <= MessageBound
        <3>1. reader.scan \in Nat /\ reader.scan <= MessageBound
            BY <2>2, <1>3 DEF TypeInv, ReaderType, Nothing
        <3>2. /\ Len(lidar_buffer') = Len(lidar_buffer) + 1
              /\ \A i \in 1 .. Len(lidar_buffer) : lidar_buffer'[i] = lidar_buffer[i]
              /\ lidar_buffer'[Len(lidar_buffer) + 1] = reader.scan
            BY <2>2, <3>1, <1>1, AppendProperties DEF PushScan
        <3> QED BY <3>1, <3>2, <1>1
    <2>3. \A i \in 1 .. Len(lidar_buffer') : lidar_buffer'[i] <= MessageBound
        <3>1. CASE lidar_buffer' = lidar_buffer
            BY <3>1, <1>1
        <3>2. CASE lidar_buffer # <<>> /\ lidar_buffer' = Tail(lidar_buffer)
            BY <3>2, <1>1, <1>4
        <3>3. lidar_buffer = <<>> /\ lidar_buffer' = <<>> => lidar_buffer' = lidar_buffer
            OBVIOUS
        <3> QED BY <1>6, <2>2, <3>1, <3>2, <3>3 DEF PushOverwrite
    <2> QED BY <2>1, <2>3, <1>1, <1>3 DEF CarriedBounded
<1>7. CASE PopLatest
    <2>1. aggregator' = aggregator
        BY <1>7 DEF PopLatest, StoreUnchanged
    <2>2. CASE lidar_buffer # <<>>
        <3>1. slam' = [slam EXCEPT !.pc = "drain", !.scan = Head(lidar_buffer)]
              /\ lidar_buffer' = Tail(lidar_buffer)
            BY <1>7, <2>2 DEF PopLatest
        <3>2. slam'.scan = Head(lidar_buffer)
            BY <1>2, <3>1
        <3> QED BY <2>1, <2>2, <3>1, <3>2, <1>1, <1>3, <1>4 DEF CarriedBounded
    <2>3. CASE lidar_buffer = <<>>
        <3> DEFINE c == slam.scan = latest_scan
        <3>1. slam' = [slam EXCEPT !.pc = "match", !.newest = c] /\ lidar_buffer' = lidar_buffer
            BY <1>7, <2>3 DEF PopLatest
        <3> HIDE DEF c
        <3>2. slam'.scan = slam.scan
            BY <1>2, <3>1
        <3> QED BY <2>1, <3>1, <3>2, <1>1, <1>3 DEF CarriedBounded
    <2> QED BY <2>2, <2>3
<1>8. CASE MatchScan \/ SlamStorePose
    <2>1. lidar_buffer' = lidar_buffer /\ aggregator' = aggregator
        BY <1>8 DEF MatchScan, SlamStorePose, StoreUnchanged
    <2>2. slam'.scan \in {slam.scan, Nothing}
        BY <1>2, <1>8 DEF MatchScan, SlamStorePose
    <2> QED BY <2>1, <2>2, <1>1, <1>3 DEF CarriedBounded, Nothing
<1>9. CASE ReceiveVehicleState
    <2>1. lidar_buffer' = lidar_buffer /\ slam' = slam
        BY <1>9 DEF ReceiveVehicleState
    <2>2. aggregator'.message <= MessageBound
        <3>1. CASE ch3 = <<>>
            <4>1. aggregator'.message = aggregator.message
                BY <1>2, <1>9, <3>1 DEF ReceiveVehicleState
            <4> QED BY <4>1, <1>1
        <3>2. CASE ch3 # <<>>
            <4>1. aggregator'.message = Head(ch3) /\ aggregator.pc = "idle" /\ aggregator.wait = 0
                BY <1>2, <1>9, <3>2 DEF ReceiveVehicleState
            <4>2. ch3 \in Seq(Lag) /\ Len(ch3) \in Nat \ {0} /\ Head(ch3) = ch3[1] /\ Head(ch3) \in Lag
                BY <3>2, HeadTailProperties, EmptySeq DEF TypeInv, StoreType
            <4>3. ch3[1] + NextCycle + (1 - 1) * CyclePeriod <= MessageBound
                BY <1>1, <4>2 DEF SocketBounded
            <4>4. NextCycle = 0 /\ (1 - 1) * CyclePeriod = 0
                BY <4>1, Constants DEF NextCycle
            <4>5. ch3[1] \in Int
                BY <4>2, Constants DEF Lag
            <4> QED BY <4>1, <4>2, <4>3, <4>4, <4>5
        <3> QED BY <3>1, <3>2
    <2> QED BY <2>1, <2>2, <1>1, <1>3 DEF CarriedBounded
<1>10. CASE \/ FallbackPose \/ FallbackVelocity
            \/ LoadScan \/ LoadPose \/ LoadVelocity \/ Publish
    <2>1. lidar_buffer' = lidar_buffer /\ slam' = slam
        BY <1>10 DEF FallbackPose, FallbackVelocity, LoadScan, LoadPose, LoadVelocity,
                     AggregatorLoads, Publish
    <2>2. aggregator'.message \in {aggregator.message, Nothing}
        BY <1>2, <1>10 DEF FallbackPose, FallbackVelocity, LoadScan, LoadPose, LoadVelocity, Publish
    <2> QED BY <2>1, <2>2, <1>1, <1>3 DEF CarriedBounded, Nothing
<1>11. CASE Tick
    <2>1. slam' = slam /\ aggregator'.message = aggregator.message
          /\ lidar_buffer' = LaterAll(lidar_buffer)
        BY <1>2, <1>11 DEF Tick
    <2>2. \A e \in Nat : Later(e) \in Nat /\ Later(e) <= e + 1
        BY LaterLag DEF Lags
    <2>3. /\ Len(lidar_buffer') = Len(lidar_buffer)
          /\ \A i \in 1 .. Len(lidar_buffer) : lidar_buffer'[i] = Later(lidar_buffer[i])
        BY <1>1, <2>1, <2>2, LaterSequence
    <2>4. ASSUME NEW i \in 1 .. Len(lidar_buffer)
          PROVE  Later(lidar_buffer[i]) <= MessageBound
        <3>1. lidar_buffer[i] \in Nat
            BY <1>1, ElementOfSeq
        <3>2. DOMAIN lidar_buffer = 1 .. Len(lidar_buffer)
            BY <1>1, LenProperties
        <3>3. lidar_buffer[i] < SlamStall
            BY <1>11, <3>2 DEF Tick
        <3>4. Later(lidar_buffer[i]) \in Nat /\ Later(lidar_buffer[i]) <= lidar_buffer[i] + 1
            BY <2>2, <3>1
        <3>5. SlamStall <= MessageBound
            BY Bounds
        <3> QED BY <1>3, <3>1, <3>3, <3>4, <3>5, Constants
    <2> QED BY <2>1, <2>3, <2>4, <1>1, <1>3 DEF CarriedBounded
<1>12. CASE UNCHANGED <<lidar_buffer, slam, aggregator>>
    BY <1>1, <1>3, <1>12 DEF CarriedBounded
<1> QED
    BY <1>5, <1>6, <1>7, <1>8, <1>9, <1>10, <1>11, <1>12
    DEF Next, Reader, Slam, Aggregator, ReadPose, ReadVelocity, vars

(* What is stored is no older than the messages. *)
LEMMA StoredBounded ==
    ASSUME StallsEndInTime, NEW lag \in Lags, lag <= MessageBound
    PROVE  SlotBounded(Stored(lag)) /\ Publishable(Stored(lag))
<1>1. Stored(lag).age = 0 /\ Stored(lag).lag = lag /\ MessageBound \in Nat /\ lag \in Int
    BY StoredSlot, Bounds DEF Lags, Nothing
<1> QED BY <1>1, Constants DEF SlotBounded, Publishable

(* A slot that a tick leaves within the limit was within it before. *)
LEMMA LaterBounded ==
    ASSUME StallsEndInTime, NEW slot \in Slot, SlotBounded(slot)
    PROVE  SlotBounded(LaterSlot(slot))
<1>1. slot.age \in Nat /\ slot.lag \in Lags
    BY DEF Slot
<1>2. Later(slot.lag) <= slot.lag + 1 /\ Later(slot.lag) \in Lags
    BY <1>1, LaterLag
<1>3. /\ LaterSlot(slot).lag = Later(slot.lag)
      /\ LaterSlot(slot).age <= FallbackAge
            => slot.age <= FallbackAge /\ LaterSlot(slot).age = slot.age + 1
    BY LaterSlotFields
<1>4. MessageBound \in Nat
    BY Bounds
<1> QED BY <1>1, <1>2, <1>3, <1>4, Constants DEF SlotBounded, Lags, Nothing

(* The slots, and which of them a cycle may publish. *)
LEMMA SlotsStep ==
    ASSUME StallsEndInTime, TypeInv, LagInv, [Next]_vars
    PROVE  SlotsBounded'
<1>1. /\ latest_pose \in Slot /\ latest_velocity \in Slot
      /\ SlotsBounded /\ SocketServesCycle
      /\ slam.scan <= MessageBound /\ aggregator.message <= MessageBound
    BY DEF TypeInv, StoreType, LagInv, CarriedBounded
<1>2. /\ reader.pose \in {Nothing, 0} /\ reader.velocity \in {Nothing, 0} /\ slam.scan \in Lags
      /\ aggregator \in [pc : AggregatorSteps, message : Lag \cup {Nothing},
                         wait : 0 .. CyclePeriod, fresh : BOOLEAN, is_new : BOOLEAN,
                         scan : Lags, pose : Lags, velocity : Lags]
    BY DEF TypeInv, ReaderType, SlamType, AggregatorType
<1>3. MessageBound \in Nat /\ MessageBound' = MessageBound
    BY Bounds DEF MessageBound
<1>4. ASSUME NEW lag \in Lags, lag <= MessageBound
      PROVE  SlotBounded(Stored(lag)) /\ Publishable(Stored(lag))
    BY <1>4, StoredBounded
<1>5. aggregator.message \in Lags
    BY <1>2 DEF Lag, Lags
<1>6. \A slot \in Slot : slot.age \in Nat
    BY DEF Slot
(* Each step has one of these effects on the slots. *)
<1> DEFINE Goal(p, v, pc) ==
        /\ SlotBounded(p) /\ SlotBounded(v)
        /\ pc \in {"velocity", "compose", "load_pose"} => Publishable(p)
        /\ pc \in {"compose", "load_pose", "load_velocity"} => Publishable(v)
<1>7. Goal(latest_pose, latest_velocity, aggregator.pc)
    BY <1>1 DEF SlotsBounded
<1>8. Goal(latest_pose', latest_velocity', aggregator'.pc) => SlotsBounded'
    BY <1>3 DEF SlotsBounded, SlotBounded, Publishable
<1>9. CASE UNCHANGED <<latest_pose, latest_velocity, aggregator.pc>>
    BY <1>7, <1>8, <1>9
<1>10. CASE ReadPose
    <2>1. latest_pose' = Stored(reader.pose) /\ UNCHANGED <<latest_velocity, aggregator>>
        BY <1>10 DEF ReadPose, PushStampedPose
    <2>2. reader.pose \in Lags /\ reader.pose <= MessageBound
        BY <1>2, <1>3 DEF Lags, Nothing
    <2>3. SlotBounded(latest_pose') /\ Publishable(latest_pose')
        BY <1>4, <2>1, <2>2
    <2> QED BY <1>7, <1>8, <2>1, <2>3
<1>11. CASE ReadVelocity
    <2>1. latest_velocity' = Stored(reader.velocity) /\ UNCHANGED <<latest_pose, aggregator>>
        BY <1>11 DEF ReadVelocity
    <2>2. reader.velocity \in Lags /\ reader.velocity <= MessageBound
        BY <1>2, <1>3 DEF Lags, Nothing
    <2>3. SlotBounded(latest_velocity') /\ Publishable(latest_velocity')
        BY <1>4, <2>1, <2>2
    <2> QED BY <1>7, <1>8, <2>1, <2>3
<1>12. CASE SlamStorePose
    <2>1. latest_pose' = Stored(slam.scan) /\ UNCHANGED <<latest_velocity, aggregator>>
        BY <1>12 DEF SlamStorePose, StoreUnchanged
    <2>2. SlotBounded(latest_pose') /\ Publishable(latest_pose')
        BY <1>1, <1>2, <1>4, <2>1
    <2> QED BY <1>7, <1>8, <2>1, <2>2
<1>13. CASE ReceiveVehicleState
    <2>1. UNCHANGED <<latest_pose, latest_velocity>>
        BY <1>13 DEF ReceiveVehicleState
    <2>2. CASE ch3 = <<>>
        <3>1. NothingYet
            BY <1>1, <1>13, <2>2 DEF ReceiveVehicleState, SocketServesCycle
        <3>2. Publishable(latest_pose) /\ Publishable(latest_velocity)
            BY <3>1 DEF NothingYet, Publishable
        <3> QED BY <1>7, <1>8, <2>1, <3>2
    <2>3. CASE ch3 # <<>>
        <3> DEFINE p == IF FallbackDue(latest_pose) THEN "pose" ELSE "velocity"
        <3>1. aggregator' = [aggregator EXCEPT !.pc = p, !.message = Head(ch3)]
            BY <1>13, <2>3 DEF ReceiveVehicleState
        <3>2. p = "pose" \/ (p = "velocity" /\ Publishable(latest_pose))
            BY <1>1, <1>6, Constants DEF FallbackDue, Publishable
        <3> HIDE DEF p
        <3>3. aggregator'.pc = p
            BY <1>2, <3>1
        <3> QED BY <1>7, <1>8, <2>1, <3>2, <3>3
    <2> QED BY <2>2, <2>3
<1>14. CASE FallbackPose
    <2>1. latest_pose' = Stored(aggregator.message) /\ UNCHANGED latest_velocity
          /\ aggregator'.pc = "velocity"
        BY <1>2, <1>14 DEF FallbackPose, PushStampedPose
    <2>2. SlotBounded(latest_pose') /\ Publishable(latest_pose')
        BY <1>1, <1>4, <1>5, <2>1
    <2> QED BY <1>7, <1>8, <2>1, <2>2
<1>15. CASE FallbackVelocity
    <2>1. /\ aggregator.pc = "velocity" /\ UNCHANGED latest_pose
          /\ latest_velocity' = IF FallbackDue(latest_velocity)
                                THEN Stored(aggregator.message) ELSE latest_velocity
        BY <1>15 DEF FallbackVelocity
    <2>2. SlotBounded(latest_velocity') /\ Publishable(latest_velocity')
        <3>1. CASE FallbackDue(latest_velocity)
            BY <1>1, <1>4, <1>5, <2>1, <3>1
        <3>2. CASE ~FallbackDue(latest_velocity)
            <4>1. latest_velocity.age <= FallbackAge
                BY <1>1, <1>6, <3>2, Constants DEF FallbackDue
            <4> QED BY <1>7, <2>1, <3>2, <4>1 DEF Publishable
        <3> QED BY <3>1, <3>2
    <2> QED BY <1>7, <1>8, <2>1, <2>2
<1>16. CASE Publish
    <2>1. UNCHANGED <<latest_pose, latest_velocity>> /\ aggregator'.pc = "idle"
        BY <1>2, <1>16 DEF Publish
    <2> QED BY <1>7, <1>8, <2>1
<1>17. CASE Tick
    <2>1. /\ latest_pose' = LaterSlot(latest_pose)
          /\ latest_velocity' = LaterSlot(latest_velocity)
          /\ aggregator'.pc = "idle"
        BY <1>2, <1>17 DEF Tick
    <2>2. SlotBounded(latest_pose') /\ SlotBounded(latest_velocity')
        BY <1>1, <1>7, <2>1, LaterBounded
    <2> QED BY <1>8, <2>1, <2>2
<1>18. ReadScan => UNCHANGED <<latest_pose, latest_velocity, aggregator.pc>>
    BY <1>2 DEF ReadScan
<1>19. CASE LoadScan \/ LoadPose \/ LoadVelocity
    <2>1. /\ UNCHANGED <<latest_pose, latest_velocity>>
          /\ \/ aggregator.pc = "compose" /\ aggregator'.pc = "load_pose"
             \/ aggregator.pc = "load_pose" /\ aggregator'.pc = "load_velocity"
             \/ aggregator.pc = "load_velocity" /\ aggregator'.pc = "publish"
        BY <1>2, <1>19 DEF LoadScan, LoadPose, LoadVelocity, AggregatorLoads
    <2> QED BY <1>7, <1>8, <2>1
<1> QED
    BY <1>9, <1>10, <1>11, <1>12, <1>13, <1>14, <1>15, <1>16, <1>17, <1>18, <1>19
    DEF Next, Reader, Slam, Aggregator, PushOverwrite, PopLatest, MatchScan, StoreUnchanged, vars

(* The socket is empty when a cycle begins only before the first tick. *)
LEMMA ServeStep ==
    ASSUME TypeInv, SocketServesCycle, [Next]_vars
    PROVE  SocketServesCycle'
<1>1. /\ ch3 \in Seq(Lag)
      /\ aggregator \in [pc : AggregatorSteps, message : Lag \cup {Nothing},
                         wait : 0 .. CyclePeriod, fresh : BOOLEAN, is_new : BOOLEAN,
                         scan : Lags, pose : Lags, velocity : Lags]
    BY DEF TypeInv, StoreType, AggregatorType
<1>2. CASE Reader
    <2>1. UNCHANGED <<ch3, aggregator.pc, aggregator.wait>> /\ reader.pc # "idle"
        BY <1>1, <1>2
        DEF Reader, ReadScan, PushOverwrite, ReadPose, ReadVelocity
    <2>2. ~NothingYet
        BY <2>1 DEF NothingYet
    <2> QED BY <2>1, <2>2 DEF SocketServesCycle
<1>3. CASE Slam
    <2>1. UNCHANGED <<ch3, aggregator>> /\ (slam.pc # "idle" \/ lidar_buffer # <<>>)
        BY <1>3 DEF Slam, PopLatest, MatchScan, SlamStorePose, StoreUnchanged
    <2>2. ~NothingYet
        BY <2>1 DEF NothingYet
    <2> QED BY <2>1, <2>2 DEF SocketServesCycle
<1>4. CASE \/ ReceiveVehicleState \/ FallbackPose \/ FallbackVelocity
           \/ LoadScan \/ LoadPose \/ LoadVelocity
    <2>1. aggregator'.pc # "idle"
        BY <1>1, <1>4 DEF ReceiveVehicleState, FallbackPose, FallbackVelocity,
                          LoadScan, LoadPose, LoadVelocity
    <2> QED BY <2>1 DEF SocketServesCycle
<1>5. CASE Publish
    <2>1. aggregator'.wait # 0
        BY <1>1, <1>5, Constants DEF Publish
    <2> QED BY <2>1 DEF SocketServesCycle
<1>6. CASE Tick
    <2>1. ch3' = IF Len(ch3) < Ch3Capacity
                 THEN Append(LaterAll(ch3), 0) ELSE LaterAll(ch3)
        BY <1>6 DEF Tick
    <2> DEFINE a == LaterAll(ch3)
    <2>2. \A e \in Lag : Later(e) \in Lag
        BY LaterLag DEF Lag, Lags
    <2>3. a \in Seq(Lag) /\ Len(a) = Len(ch3) /\ Len(ch3) \in Nat
        BY <1>1, <2>2, LaterSequence, LenProperties
    <2> HIDE DEF a
    <2>4. 0 \in Lag
        BY Constants DEF Lag
    <2>5. Append(a, 0) \in Seq(Lag) /\ Len(Append(a, 0)) = Len(a) + 1
        BY <2>3, <2>4, AppendProperties
    <2>6. ch3' \in Seq(Lag) /\ Len(ch3') # 0
        BY <2>1, <2>3, <2>5, Constants DEF a
    <2>7. ch3' # <<>>
        BY <2>6, EmptyIsShort
    <2> QED BY <2>7 DEF SocketServesCycle
<1>7. CASE UNCHANGED vars
    BY <1>7 DEF SocketServesCycle, NothingYet, vars
<1> QED BY <1>2, <1>3, <1>4, <1>5, <1>6, <1>7 DEF Next, Aggregator

(* A slot that may be published is within the bound of what is published.  *)
LEMMA PublishableLag ==
    ASSUME StallsEndInTime, NEW slot \in Slot, SlotBounded(slot), Publishable(slot)
    PROVE  slot.lag <= LagBound
<1>1. MessageBound \in Nat /\ LagBound = MessageBound + FallbackAge
    BY Bounds
<1>2. slot.age \in Nat /\ slot.lag \in Lags
    BY DEF Slot
<1> QED BY <1>1, <1>2, Constants DEF SlotBounded, Publishable, Lags, Nothing

(* What a cycle has loaded. *)
LEMMA LoadedStep ==
    ASSUME StallsEndInTime, TypeInv, LagInv, [Next]_vars
    PROVE  LoadedBounded'
<1>1. LagBound \in Nat /\ LagBound' = LagBound /\ LoadedBounded
    BY Bounds, Constants DEF LagBound, LagInv
<1>2. aggregator \in [pc : AggregatorSteps, message : Lag \cup {Nothing},
                      wait : 0 .. CyclePeriod, fresh : BOOLEAN, is_new : BOOLEAN,
                      scan : Lags, pose : Lags, velocity : Lags]
    BY DEF TypeInv, AggregatorType
<1>3. /\ latest_pose \in Slot /\ SlotBounded(latest_pose)
      /\ latest_velocity \in Slot /\ SlotBounded(latest_velocity) /\ SlotsBounded
    BY DEF LagInv, SlotsBounded, TypeInv, StoreType
<1>4. CASE LoadPose
    <2>1. aggregator.pc = "load_pose" /\ aggregator'.pose = latest_pose.lag
          /\ aggregator'.velocity = aggregator.velocity
        BY <1>2, <1>4 DEF LoadPose
    <2>2. latest_pose.lag <= LagBound
        BY <1>3, <2>1, PublishableLag DEF SlotsBounded
    <2> QED BY <1>1, <2>1, <2>2 DEF LoadedBounded
<1>5. CASE LoadVelocity
    <2>1. aggregator.pc = "load_velocity" /\ aggregator'.velocity = latest_velocity.lag
          /\ aggregator'.pose = aggregator.pose
        BY <1>2, <1>5 DEF LoadVelocity
    <2>2. latest_velocity.lag <= LagBound
        BY <1>3, <2>1, PublishableLag DEF SlotsBounded
    <2> QED BY <1>1, <2>1, <2>2 DEF LoadedBounded
<1>6. CASE Publish
    <2>1. aggregator'.pose = Nothing /\ aggregator'.velocity = Nothing
        BY <1>2, <1>6 DEF Publish
    <2> QED BY <1>1, <2>1 DEF LoadedBounded, Nothing
<1>7. CASE UNCHANGED <<aggregator.pose, aggregator.velocity>>
    BY <1>1, <1>7 DEF LoadedBounded
<1>8. ReadScan \/ ReceiveVehicleState \/ FallbackPose \/ FallbackVelocity \/ LoadScan \/ Tick
         => UNCHANGED <<aggregator.pose, aggregator.velocity>>
    BY <1>2 DEF ReadScan, ReceiveVehicleState, FallbackPose, FallbackVelocity, LoadScan, Tick
<1>9. PushOverwrite \/ ReadPose \/ ReadVelocity \/ Slam
         => UNCHANGED <<aggregator.pose, aggregator.velocity>>
    BY DEF PushOverwrite, ReadPose, ReadVelocity, Slam, PopLatest, MatchScan, SlamStorePose,
           StoreUnchanged
<1>10. UNCHANGED vars => UNCHANGED <<aggregator.pose, aggregator.velocity>>
    BY DEF vars
<1> QED BY <1>4, <1>5, <1>6, <1>7, <1>8, <1>9, <1>10 DEF Next, Reader, Aggregator

(* What a cycle publishes. *)
LEMMA PublishedStep ==
    ASSUME StallsEndInTime, TypeInv, LagInv, [Next]_vars
    PROVE  LagIsBounded'
<1>1. LagBound \in Nat /\ LagBound' = LagBound
    BY Bounds, Constants DEF LagBound
<1>2. CASE Publish
    <2>1. published'.pose = aggregator.pose /\ published'.velocity = aggregator.velocity
        BY <1>2 DEF Publish
    <2> QED BY <1>1, <2>1 DEF LagInv, LoadedBounded, LagIsBounded
<1>3. CASE Tick
    <2>1. published'.pose = Nothing /\ published'.velocity = Nothing
        BY <1>3 DEF Tick, NothingPublished
    <2> QED BY <1>1, <2>1, Constants DEF LagIsBounded, Nothing
<1>4. CASE UNCHANGED published
    BY <1>1, <1>4 DEF LagInv, LagIsBounded
<1> QED
    BY <1>2, <1>3, <1>4
    DEF Next, Reader, Slam, Aggregator, ReadScan, PushOverwrite, ReadPose, ReadVelocity, PopLatest,
        MatchScan, SlamStorePose, StoreUnchanged, ReceiveVehicleState, FallbackPose,
        FallbackVelocity, LoadScan, LoadPose, LoadVelocity, AggregatorLoads, vars

(* Odometry in a WorldState is as old as a full socket of messages plus    *)
(* the age that a slot may reach, however the threads interleave, provided *)
(* that SLAM does not keep a scan longer than that itself: a pose that it  *)
(* stores is as old as its scan.                                           *)
THEOREM OdometryLagIsBounded ==
    ASSUME StallsEndInTime
    PROVE  Spec => []LagIsBounded
<1>1. Init => LagInv
    <2> SUFFICES ASSUME Init PROVE LagInv
        OBVIOUS
    <2>1. MessageBound \in Nat /\ LagBound = MessageBound + FallbackAge
        BY Bounds
    <2>2. /\ ch3 = <<>> /\ Len(ch3) = 0 /\ lidar_buffer = <<>> /\ Len(lidar_buffer) = 0
          /\ aggregator.pc = "idle" /\ aggregator.message = Nothing
          /\ slam.pc = "idle" /\ slam.scan = Nothing /\ reader.pc = "idle"
          /\ latest_pose = EmptySlot /\ latest_velocity = EmptySlot
          /\ published = NothingPublished
        BY DEF Init
    <2>3. SocketBounded /\ CarriedBounded
        BY <2>1, <2>2 DEF SocketBounded, CarriedBounded, Nothing
    <2>4. EmptySlot.age = FallbackAge + 1 /\ EmptySlot.lag = Nothing
        BY DEF EmptySlot
    <2>5. SlotsBounded /\ SocketServesCycle
        BY <2>2, <2>4, Constants
        DEF SlotsBounded, SlotBounded, SocketServesCycle, NothingYet
    <2>6. LagIsBounded
        BY <2>1, <2>2, Constants DEF LagIsBounded, NothingPublished, Nothing
    <2>7. LoadedBounded
        <3>1. aggregator.pose = Nothing /\ aggregator.velocity = Nothing
            BY DEF Init
        <3> QED BY <2>1, <3>1, Constants DEF LoadedBounded, Nothing
    <2> QED BY <2>3, <2>5, <2>6, <2>7 DEF LagInv
<1>2. TypeInv /\ LagInv /\ [Next]_vars => LagInv'
    BY SocketStep, CarriedStep, SlotsStep, ServeStep, LoadedStep, PublishedStep DEF LagInv
<1>3. LagInv => LagIsBounded
    BY DEF LagInv
<1> QED BY <1>1, <1>2, <1>3, SensingTypes, PTL DEF Spec
=============================================================================
