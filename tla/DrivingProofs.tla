---------------------------- MODULE DrivingProofs ----------------------------
(***************************************************************************)
(* Proofs about what decides the command that leaves planning: the         *)
(* arbitrator, for every envelope that its validation accepts and every    *)
(* command of the pipelines; the executors, for every setting that passes  *)
(* validation, path, obstacles and recovery phase; and the planning loop   *)
(* that drives with both, for every lane, world and bound.                 *)
(*                                                                         *)
(* Arbitrator: the inductive invariant adds to the properties what carries *)
(* them from cycle to cycle.  The speed published is the speed the rate    *)
(* limiter starts from, each cycle under the cap takes one MaxDecel off the*)
(* speed until the cap is reached, and the streak never counts more good   *)
(* cycles than there were.                                                 *)
(*                                                                         *)
(* Loop: what a search may leave ends at the goal by what A* answers and   *)
(* what hysteresis keeps.  For the tries, the invariant ties the history to*)
(* the counter of the code: the counter is at least the number of tries on *)
(* the present path, because it also counts tries without a path and is not*)
(* reset when the path is replaced, so it reaches its limit first.         *)
(*                                                                         *)
(* Stops: every obstacle that closes the lane stays on the side the robot  *)
(* stops before it, from the vehicle's speed and from the planner's last   *)
(* command.  A command towards it is a cycle of a ramp or was verified, by *)
(* one of five checks, from the pose held; the invariant bounds how old    *)
(* that pose is, and the settings say that the checks reach far enough for *)
(* every age.                                                              *)
(***************************************************************************)
EXTENDS Driving, WellFoundedInduction, TLAPS

(***************************************************************************)
(* The arbitrator.                                                         *)
(***************************************************************************)

(* The speed is at most `floor` or has braked for n cycles from MaxSpeed. *)
Braked(v, n, floor) ==
  Magnitude(v) <= floor \/ Magnitude(v) <= MaxSpeed - n * MaxDecel

IInv ==
  /\ TypeOK
  /\ EnvelopeHolds
  /\ output.linear = prev_linear
  /\ mode = "E2E" => ~degraded
  /\ degraded => recovery_streak <= goodRun
  /\ degraded => Braked(prev_linear, cappedFor, DegradedCap)
  /\ degraded => Braked(prev_linear, zeroFor, 0)
  /\ ~degraded => cappedFor = 0 /\ zeroFor = 0

(* Enough cycles of braking cover any distance. *)
LEMMA CeilingCovers ==
  ASSUME NEW m \in Nat, NEW d \in Nat \ {0}
  PROVE  (m + d - 1) \div d \in Nat /\ ((m + d - 1) \div d) * d >= m
<1> DEFINE a == m + d - 1
<1>1. a \in Nat /\ d > 0
  OBVIOUS
<1> HIDE DEF a
<1>2. a \div d \in Nat
  BY <1>1
<1>3. d * (a \div d) > a - d
  BY <1>1
<1>4. (a \div d) * d = d * (a \div d)
  BY <1>2
<1>5. d * (a \div d) >= m
  BY <1>1, <1>2, <1>3 DEF a
<1> QED BY <1>2, <1>4, <1>5 DEF a

(* CapCycles of braking reach the cap from MaxSpeed, StopCycles reach *)
(* zero.                                                              *)
LEMMA CyclesSuffice ==
  ASSUME ArbitratorAssumption
  PROVE  /\ CapCycles \in Nat /\ MaxSpeed - CapCycles * MaxDecel <= DegradedCap
         /\ StopCycles \in Nat /\ MaxSpeed - StopCycles * MaxDecel <= 0
<1>1. MaxSpeed - DegradedCap \in Nat /\ MaxSpeed \in Nat /\ MaxDecel \in Nat \ {0}
  BY DEF ArbitratorAssumption
<1>2. CapCycles \in Nat /\ CapCycles * MaxDecel >= MaxSpeed - DegradedCap
  BY <1>1, CeilingCovers DEF CapCycles
<1>3. StopCycles \in Nat /\ StopCycles * MaxDecel >= MaxSpeed
  BY <1>1, CeilingCovers DEF StopCycles
<1> DEFINE capFall == CapCycles * MaxDecel
           stopFall == StopCycles * MaxDecel
<1>4. capFall \in Int /\ stopFall \in Int
  BY <1>1, <1>2, <1>3
<1>5. capFall >= MaxSpeed - DegradedCap /\ stopFall >= MaxSpeed
  BY <1>2, <1>3
<1> HIDE DEF capFall, stopFall
<1>6. MaxSpeed - capFall <= DegradedCap /\ MaxSpeed - stopFall <= 0
  BY <1>4, <1>5, ArbitratorAssumption DEF ArbitratorAssumption
<1> QED BY <1>2, <1>3, <1>6 DEF capFall, stopFall

(* What the linear envelope does to any request: the result is within      *)
(* MaxSpeed, and within any bound the request is within it brakes by a     *)
(* full MaxDecel or reaches the bound.                                     *)
LEMMA EnvelopeSpeedBrakes ==
  ASSUME ArbitratorAssumption, prev_linear \in Int, Magnitude(prev_linear) <= MaxSpeed,
         NEW linear \in Int
  PROVE  /\ EnvelopeSpeed(linear) \in Int
         /\ Magnitude(EnvelopeSpeed(linear)) <= MaxSpeed
         /\ \A floor \in 0 .. MaxSpeed : Magnitude(linear) <= floor =>
              \/ Magnitude(EnvelopeSpeed(linear)) <= floor
              \/ Magnitude(EnvelopeSpeed(linear)) <= Magnitude(prev_linear) - MaxDecel
<1> DEFINE target == Clamp(linear, -MaxSpeed, MaxSpeed)
           up     == IF prev_linear < 0 THEN MaxDecel ELSE MaxAccel
           down   == IF prev_linear > 0 THEN MaxDecel ELSE MaxAccel
           v      == prev_linear + Clamp(target - prev_linear, -down, up)
<1>1. EnvelopeSpeed(linear) = v
  BY DEF EnvelopeSpeed
<1>2. target \in -MaxSpeed .. MaxSpeed
  BY DEF Clamp, ArbitratorAssumption
<1>3. \A floor \in 0 .. MaxSpeed : Magnitude(linear) <= floor => target = linear
  BY DEF Clamp, Magnitude, ArbitratorAssumption
<1> HIDE DEF target
<1>4. v \in Int /\ Magnitude(v) <= MaxSpeed
  BY <1>2 DEF Clamp, Magnitude, ArbitratorAssumption
<1>5. ASSUME NEW floor \in 0 .. MaxSpeed, Magnitude(linear) <= floor
      PROVE  Magnitude(v) <= floor \/ Magnitude(v) <= Magnitude(prev_linear) - MaxDecel
  <2>1. target = linear /\ target \in -floor .. floor
    BY <1>3, <1>5 DEF Magnitude
  <2> QED
    BY <1>5, <2>1 DEF Clamp, Magnitude, ArbitratorAssumption
<1> QED BY <1>1, <1>4, <1>5

(* The angular envelope, for any request and any speed. *)
LEMMA EnvelopeTurnHolds ==
  ASSUME ArbitratorAssumption, NEW angular \in Int, NEW v \in Int
  PROVE  LET w == EnvelopeTurn(angular, v) IN
           /\ w \in Int
           /\ Magnitude(w) <= MaxAngular
           /\ Magnitude(v) > CrawlSpeed => Magnitude(w) <= MaxCurvature * Magnitude(v)
<1> DEFINE limit == MaxCurvature * Magnitude(v)
<1>1. limit \in Nat
  BY DEF Magnitude, ArbitratorAssumption
<1> HIDE DEF limit
<1> DEFINE w0 == Clamp(angular, -MaxAngular, MaxAngular)
           w  == IF Magnitude(v) > CrawlSpeed THEN Clamp(w0, -limit, limit) ELSE w0
<1>2. w \in Int /\ Magnitude(w) <= MaxAngular
  BY <1>1 DEF Clamp, Magnitude, ArbitratorAssumption
<1>3. Magnitude(v) > CrawlSpeed => Magnitude(w) <= limit
  BY <1>1 DEF Clamp, Magnitude, ArbitratorAssumption
<1>4. EnvelopeTurn(angular, v) = w
  BY DEF EnvelopeTurn, limit
<1> HIDE DEF w
<1> QED BY <1>2, <1>3, <1>4 DEF limit

(* A command that went through the envelope. *)
LEMMA SafeIsSafe ==
  ASSUME ArbitratorAssumption, IInv, NEW cmd \in Command, Safe(cmd)
  PROVE  /\ prev_linear' \in Int /\ output' \in Output /\ output'.linear = prev_linear'
         /\ EnvelopeHolds'
         /\ \A floor \in 0 .. MaxSpeed : Magnitude(cmd.linear) <= floor =>
              \/ Magnitude(prev_linear') <= floor
              \/ Magnitude(prev_linear') <= Magnitude(prev_linear) - MaxDecel
<1> DEFINE v == EnvelopeSpeed(cmd.linear)
           w == EnvelopeTurn(cmd.angular, v)
<1>1. /\ prev_linear \in Int /\ Magnitude(prev_linear) <= MaxSpeed
      /\ cmd.linear \in Int /\ cmd.angular \in Int
  BY DEF IInv, TypeOK, EnvelopeHolds, Command
<1>2. /\ v \in Int /\ Magnitude(v) <= MaxSpeed
      /\ \A floor \in 0 .. MaxSpeed : Magnitude(cmd.linear) <= floor =>
           Magnitude(v) <= floor \/ Magnitude(v) <= Magnitude(prev_linear) - MaxDecel
  BY <1>1, EnvelopeSpeedBrakes
<1>3. prev_linear' = v /\ output' = [linear |-> v, angular |-> w, emergency_stop |-> FALSE]
  BY DEF Safe
<1> HIDE DEF v
<1>4. /\ w \in Int /\ Magnitude(w) <= MaxAngular
      /\ Magnitude(v) > CrawlSpeed => Magnitude(w) <= MaxCurvature * Magnitude(v)
  BY <1>1, <1>2, EnvelopeTurnHolds
<1> HIDE DEF w
<1> QED BY <1>2, <1>3, <1>4 DEF EnvelopeHolds, Output

(* A stop. *)
LEMMA StopIsSafe ==
  ASSUME ArbitratorAssumption, Stop
  PROVE  /\ prev_linear' = 0 /\ output' \in Output /\ output'.linear = 0
         /\ EnvelopeHolds'
  BY DEF Stop, Output, EnvelopeHolds, Magnitude, ArbitratorAssumption

(* The latch, the streak and the history of confidences in one cycle. *)
LEMMA LatchKeepsCount ==
  ASSUME ArbitratorAssumption, IInv, NEW c \in {"low", "good"}, UpdateDegraded(c),
         goodRun' = IF c = "low" THEN 0 ELSE CountTo(RecoveryCycles, goodRun)
  PROVE  /\ degraded' \in BOOLEAN /\ recovery_streak' \in 0 .. RecoveryCycles - 1
         /\ goodRun' \in 0 .. RecoveryCycles
         /\ degraded' => recovery_streak' <= goodRun'
         /\ degraded /\ ~degraded' => goodRun' = RecoveryCycles
<1>1. /\ degraded \in BOOLEAN /\ recovery_streak \in 0 .. RecoveryCycles - 1
      /\ goodRun \in 0 .. RecoveryCycles /\ RecoveryCycles \in Nat \ {0}
      /\ degraded => recovery_streak <= goodRun
  BY DEF IInv, TypeOK, ArbitratorAssumption
<1>2. CASE c = "low"
  <2>1. degraded' /\ degraded' \in BOOLEAN
    BY <1>2, Zenon DEF UpdateDegraded
  <2>2. /\ recovery_streak' \in 0 .. RecoveryCycles - 1 /\ goodRun' \in 0 .. RecoveryCycles
        /\ recovery_streak' <= goodRun'
    BY <1>1, <1>2 DEF UpdateDegraded
  <2> QED BY <2>1, <2>2, Zenon
<1>3. CASE c = "good" /\ degraded /\ Recovered
  <2>1. ~degraded' /\ degraded' \in BOOLEAN
    BY <1>3, Zenon DEF UpdateDegraded
  <2>2. goodRun' = CountTo(RecoveryCycles, goodRun) /\ recovery_streak' = 0
    BY <1>3 DEF UpdateDegraded
  <2>3. recovery_streak + 1 >= RecoveryCycles /\ recovery_streak <= goodRun
    BY <1>1, <1>3 DEF Recovered
  <2>4. goodRun' = RecoveryCycles
    BY <1>1, <2>2, <2>3 DEF CountTo
  <2>5. recovery_streak' \in 0 .. RecoveryCycles - 1 /\ goodRun' \in 0 .. RecoveryCycles
    BY <1>1, <2>2, <2>4
  <2> QED BY <2>1, <2>4, <2>5, Zenon
<1>4. CASE c = "good" /\ degraded /\ ~Recovered
  <2>1. degraded' /\ recovery_streak' = recovery_streak + 1
    BY <1>4 DEF UpdateDegraded
  <2>2. goodRun' = CountTo(RecoveryCycles, goodRun) /\ ~(recovery_streak + 1 >= RecoveryCycles)
    BY <1>4 DEF Recovered
  <2>3. recovery_streak' \in 0 .. RecoveryCycles - 1 /\ recovery_streak <= goodRun
    BY <1>1, <1>4, <2>1, <2>2
  <2>4. goodRun' \in 0 .. RecoveryCycles /\ recovery_streak' <= goodRun'
    BY <1>1, <2>1, <2>2, <2>3 DEF CountTo
  <2>5. degraded' \in BOOLEAN
    BY <1>1, <1>4 DEF UpdateDegraded
  <2> QED BY <2>1, <2>3, <2>4, <2>5, Zenon
<1>5. CASE c = "good" /\ ~degraded
  <2>1. ~degraded' /\ recovery_streak' = recovery_streak
    BY <1>1, <1>5 DEF UpdateDegraded
  <2>2. goodRun' \in 0 .. RecoveryCycles
    BY <1>1, <1>5 DEF CountTo
  <2>3. degraded' \in BOOLEAN
    BY <1>1, <1>5 DEF UpdateDegraded
  <2>4. recovery_streak' \in 0 .. RecoveryCycles - 1
    BY <1>1, <2>1
  <2> QED BY <1>5, <2>1, <2>2, <2>3, <2>4, Zenon
<1> QED BY <1>1, <1>2, <1>3, <1>4, <1>5, Zenon

(* Another cycle of braking. *)
LEMMA BrakedOnceMore ==
  ASSUME ArbitratorAssumption, NEW v \in Int, NEW u \in Int, NEW n \in Nat,
         NEW bound \in Nat, NEW floor \in 0 .. MaxSpeed, n <= bound,
         MaxSpeed - bound * MaxDecel <= floor,
         Braked(v, n, floor),
         Magnitude(u) <= floor \/ Magnitude(u) <= Magnitude(v) - MaxDecel
  PROVE  Braked(u, CountTo(bound, n), floor)
<1>1. Magnitude(u) \in Nat /\ Magnitude(v) \in Nat /\ MaxDecel \in Nat \ {0} /\ MaxSpeed \in Nat
  BY DEF Magnitude, ArbitratorAssumption
<1>2. (n + 1) * MaxDecel = n * MaxDecel + MaxDecel /\ n * MaxDecel \in Nat
  BY <1>1
<1>3. CASE Magnitude(u) <= floor
  BY <1>3 DEF Braked
<1>4. CASE ~(Magnitude(u) <= floor)
  <2>1. Magnitude(u) <= Magnitude(v) - MaxDecel
    BY <1>4
  <2>2. ~(Magnitude(v) <= floor)
    BY <1>1, <1>4, <2>1
  <2>3. Magnitude(v) <= MaxSpeed - n * MaxDecel
    BY <2>2 DEF Braked
  <2>4. n # bound
    BY <1>1, <2>2, <2>3
  <2>5. CountTo(bound, n) = n + 1
    BY <2>4 DEF CountTo
  <2>6. Magnitude(u) <= MaxSpeed - (n * MaxDecel + MaxDecel)
    BY <1>1, <1>2, <2>1, <2>3
  <2> QED BY <1>2, <2>5, <2>6 DEF Braked
<1> QED BY <1>3, <1>4

(* A command under the cap. *)
LEMMA CappedIsCapped ==
  ASSUME ArbitratorAssumption, NEW cmd \in Command
  PROVE  /\ ApplyDegradedCap(cmd) \in Command
         /\ Magnitude(ApplyDegradedCap(cmd).linear) <= DegradedCap
         /\ Magnitude(cmd.linear) < NearZeroSpeed => ApplyDegradedCap(cmd).linear = 0
<1> DEFINE capped == Clamp(cmd.linear, -DegradedCap, DegradedCap)
<1>1. capped \in Int /\ Magnitude(capped) <= DegradedCap /\ Magnitude(0) <= DegradedCap
  BY DEF Command, Clamp, Magnitude, ArbitratorAssumption
<1> HIDE DEF capped
<1>2. CASE Magnitude(cmd.linear) < NearZeroSpeed
  <2>1. ApplyDegradedCap(cmd) = [cmd EXCEPT !.linear = 0, !.angular = 0]
    BY <1>2 DEF ApplyDegradedCap
  <2>2. ApplyDegradedCap(cmd) = [linear |-> 0, angular |-> 0, confidence |-> cmd.confidence]
    BY <2>1 DEF Command
  <2> QED BY <1>1, <2>2 DEF Command
<1>3. CASE ~(Magnitude(cmd.linear) < NearZeroSpeed)
  <2>1. ApplyDegradedCap(cmd) = [cmd EXCEPT !.linear = capped]
    BY <1>3 DEF ApplyDegradedCap, capped
  <2>2. ApplyDegradedCap(cmd) =
          [linear |-> capped, angular |-> cmd.angular, confidence |-> cmd.confidence]
    BY <2>1 DEF Command
  <2> QED BY <1>1, <1>3, <2>2 DEF Command
<1> QED BY <1>2, <1>3

(* What the planners may hand over are commands. *)
LEMMA InputsAreCommands ==
  ASSUME ArbitratorAssumption PROVE Inputs \subseteq Command
  BY DEF Inputs, Command, ArbitratorAssumption

(***************************************************************************)
(* The invariant.                                                          *)
(***************************************************************************)

(* A new arbitrator satisfies the inductive invariant. *)
LEMMA InitEstablishesIInv ==
  ASSUME ArbitratorAssumption, Init
  PROVE  IInv
<1>1. CapCycles \in Nat /\ StopCycles \in Nat
  BY CyclesSuffice
<1>2. TypeOK
  <2>1. /\ mode \in Modes /\ prev_linear \in Int /\ output \in Output
        /\ recovery_streak \in 0 .. RecoveryCycles - 1 /\ goodRun \in 0 .. RecoveryCycles
        /\ cappedFor \in 0 .. CapCycles /\ zeroFor \in 0 .. StopCycles
    BY <1>1 DEF Init, Output, ArbitratorAssumption
  <2>2. degraded \in BOOLEAN
    BY Zenon DEF Init
  <2> QED BY <2>1, <2>2, Zenon DEF TypeOK
<1>3. EnvelopeHolds /\ output.linear = prev_linear
  BY DEF Init, EnvelopeHolds, Magnitude, ArbitratorAssumption
<1>4. ~degraded /\ cappedFor = 0 /\ zeroFor = 0
  BY DEF Init
<1> QED BY <1>2, <1>3, <1>4 DEF IInv

(* A speed within MaxSpeed has braked for no cycles. *)
LEMMA NotYetBraked ==
  ASSUME ArbitratorAssumption, NEW v \in Int, Magnitude(v) <= MaxSpeed, NEW floor
  PROVE  Braked(v, 0, floor)
<1>1. 0 * MaxDecel = 0 /\ MaxSpeed \in Nat
  BY DEF ArbitratorAssumption
<1>2. MaxSpeed - 0 * MaxDecel = MaxSpeed
  BY <1>1
<1> QED BY <1>2 DEF Braked

(* The history of the cap in one cycle of the graduated response, for      *)
(* either of its two counters: a cycle under the cap whose command is      *)
(* within the floor brakes once more.                                      *)
LEMMA BrakingIsCounted ==
  ASSUME ArbitratorAssumption, NEW v \in Int, NEW u \in Int,
         NEW bound \in Nat, NEW n \in 0 .. bound, NEW floor \in 0 .. MaxSpeed,
         MaxSpeed - bound * MaxDecel <= floor,
         Magnitude(v) <= MaxSpeed,
         n = 0 \/ Braked(v, n, floor),
         Magnitude(u) <= floor \/ Magnitude(u) <= Magnitude(v) - MaxDecel
  PROVE  CountTo(bound, n) \in 0 .. bound /\ Braked(u, CountTo(bound, n), floor)
<1>1. Braked(v, n, floor)
  <2>1. CASE n = 0
    <3>1. Braked(v, 0, floor)
      BY NotYetBraked
    <3> QED BY <2>1, <3>1, Zenon
  <2>2. CASE Braked(v, n, floor)
    BY <2>2
  <2> QED BY <2>1, <2>2
<1>2. CountTo(bound, n) \in 0 .. bound
  BY DEF CountTo
<1>3. n \in Nat /\ n <= bound
  OBVIOUS
<1>4. Braked(u, CountTo(bound, n), floor)
  BY <1>1, <1>3, BrakedOnceMore
<1> QED BY <1>2, <1>4

(* The graduated response keeps the invariant, and lifts the cap after a *)
(* full good run.                                                        *)
LEMMA GraduatedKeepsIInv ==
  ASSUME ArbitratorAssumption, IInv, NEW traditional \in Command, Graduated(traditional)
  PROVE  IInv' /\ (degraded /\ ~degraded' => goodRun' = RecoveryCycles)
<1> DEFINE cmd == IF degraded' THEN ApplyDegradedCap(traditional) ELSE traditional
<1>1. traditional \in Command /\ traditional.confidence \in {"low", "good"}
  BY DEF Command
<1>2. cmd \in Command
  BY <1>1, CappedIsCapped
<1>3. Safe(cmd)
  BY DEF Graduated
<1>4. /\ degraded' => Magnitude(cmd.linear) <= DegradedCap
      /\ degraded' /\ Magnitude(traditional.linear) < NearZeroSpeed => cmd.linear = 0
  BY <1>1, CappedIsCapped
<1> HIDE DEF cmd
<1>5. /\ prev_linear' \in Int /\ output' \in Output /\ output'.linear = prev_linear'
      /\ EnvelopeHolds'
      /\ \A floor \in 0 .. MaxSpeed : Magnitude(cmd.linear) <= floor =>
           \/ Magnitude(prev_linear') <= floor
           \/ Magnitude(prev_linear') <= Magnitude(prev_linear) - MaxDecel
  BY <1>2, <1>3, SafeIsSafe
<1>6. /\ degraded' \in BOOLEAN /\ recovery_streak' \in 0 .. RecoveryCycles - 1
      /\ goodRun' \in 0 .. RecoveryCycles
      /\ degraded' => recovery_streak' <= goodRun'
      /\ degraded /\ ~degraded' => goodRun' = RecoveryCycles
  BY <1>1, LatchKeepsCount DEF Graduated
<1>7. /\ prev_linear \in Int /\ Magnitude(prev_linear) <= MaxSpeed
      /\ cappedFor \in 0 .. CapCycles /\ zeroFor \in 0 .. StopCycles
      /\ CapCycles \in Nat /\ StopCycles \in Nat
      /\ DegradedCap \in 0 .. MaxSpeed /\ 0 \in 0 .. MaxSpeed
      /\ MaxSpeed - CapCycles * MaxDecel <= DegradedCap
      /\ MaxSpeed - StopCycles * MaxDecel <= 0
  BY CyclesSuffice DEF IInv, TypeOK, EnvelopeHolds, ArbitratorAssumption
<1>8. /\ cappedFor = 0 \/ Braked(prev_linear, cappedFor, DegradedCap)
      /\ zeroFor = 0 \/ Braked(prev_linear, zeroFor, 0)
  BY Zenon DEF IInv, TypeOK
<1>9. /\ cappedFor' \in 0 .. CapCycles
      /\ degraded' => Braked(prev_linear', cappedFor', DegradedCap)
      /\ ~degraded' => cappedFor' = 0
  <2>1. CASE degraded'
    <3>1. cappedFor' = CountTo(CapCycles, cappedFor)
      BY <2>1 DEF Graduated
    <3>2. \/ Magnitude(prev_linear') <= DegradedCap
          \/ Magnitude(prev_linear') <= Magnitude(prev_linear) - MaxDecel
      BY <1>4, <1>5, <1>7, <2>1
    <3>3. /\ CountTo(CapCycles, cappedFor) \in 0 .. CapCycles
          /\ Braked(prev_linear', CountTo(CapCycles, cappedFor), DegradedCap)
      BY <1>5, <1>7, <1>8, <3>2, BrakingIsCounted
    <3> QED BY <2>1, <3>1, <3>3, Zenon
  <2>2. CASE ~degraded'
    <3>1. cappedFor' = 0
      BY <2>2 DEF Graduated
    <3>2. cappedFor' \in 0 .. CapCycles
      BY <1>7, <3>1
    <3> QED BY <2>2, <3>1, <3>2, Zenon
  <2> QED BY <2>1, <2>2
<1>10. /\ zeroFor' \in 0 .. StopCycles
       /\ degraded' => Braked(prev_linear', zeroFor', 0)
       /\ ~degraded' => zeroFor' = 0
  <2>1. CASE degraded' /\ Magnitude(traditional.linear) < NearZeroSpeed
    <3>1. zeroFor' = CountTo(StopCycles, zeroFor)
      BY <2>1 DEF Graduated
    <3>2. Magnitude(cmd.linear) <= 0
      BY <1>4, <2>1 DEF Magnitude
    <3>3. \/ Magnitude(prev_linear') <= 0
          \/ Magnitude(prev_linear') <= Magnitude(prev_linear) - MaxDecel
      BY <1>5, <1>7, <3>2
    <3>4. /\ CountTo(StopCycles, zeroFor) \in 0 .. StopCycles
          /\ Braked(prev_linear', CountTo(StopCycles, zeroFor), 0)
      BY <1>5, <1>7, <1>8, <3>3, BrakingIsCounted
    <3> QED BY <2>1, <3>1, <3>4, Zenon
  <2>2. CASE ~(degraded' /\ Magnitude(traditional.linear) < NearZeroSpeed)
    <3>1. zeroFor' = 0
      BY <2>2 DEF Graduated
    <3>2. Magnitude(prev_linear') <= MaxSpeed
      BY <1>5 DEF EnvelopeHolds
    <3>3. Braked(prev_linear', 0, 0) /\ 0 \in 0 .. StopCycles
      BY <1>5, <1>7, <3>2, NotYetBraked
    <3> QED BY <3>1, <3>3, Zenon
  <2> QED BY <2>1, <2>2
<1>11. mode' = mode /\ mode \in Modes /\ mode # "E2E"
  BY DEF Graduated, IInv, TypeOK
<1>12. TypeOK'
  BY <1>5, <1>6, <1>9, <1>10, <1>11, Zenon DEF TypeOK
<1> QED BY <1>5, <1>6, <1>9, <1>10, <1>11, <1>12, Zenon DEF IInv

(* An emergency stop keeps the invariant. *)
LEMMA StopKeepsIInv ==
  ASSUME ArbitratorAssumption, IInv, Stop,
         UNCHANGED <<mode, degraded, recovery_streak, goodRun, cappedFor, zeroFor>>
  PROVE  IInv'
<1>1. prev_linear' = 0 /\ output' \in Output /\ output'.linear = prev_linear' /\ EnvelopeHolds'
  BY StopIsSafe
<1>2. Braked(prev_linear', cappedFor, DegradedCap) /\ Braked(prev_linear', zeroFor, 0)
  BY <1>1 DEF Braked, Magnitude, ArbitratorAssumption
<1>3. TypeOK'
  <2>1. prev_linear' \in Int
    BY <1>1
  <2> QED BY <1>1, <2>1, Zenon DEF IInv, TypeOK
<1> QED BY <1>1, <1>2, <1>3, Zenon DEF IInv

(* The ladder of fallbacks keeps the invariant. *)
LEMMA LadderKeepsIInv ==
  ASSUME ArbitratorAssumption, IInv, NEW traditional \in Inputs,
         NEW e2e \in SUBSET Inputs, Ladder(traditional, e2e)
  PROVE  IInv'
<1>1. ~degraded /\ UNCHANGED <<mode, degraded, recovery_streak, goodRun, cappedFor, zeroFor>>
  BY Zenon DEF Ladder, IInv, history
<1>2. ASSUME NEW cmd \in Inputs, Safe(cmd)
      PROVE  IInv'
  <2>1. prev_linear' \in Int /\ output' \in Output /\ output'.linear = prev_linear' /\ EnvelopeHolds'
    BY <1>2, InputsAreCommands, SafeIsSafe
  <2>2. TypeOK'
    BY <1>1, <2>1, Zenon DEF IInv, TypeOK
  <2> QED BY <1>1, <2>1, <2>2, Zenon DEF IInv
<1>3. CASE Stop
  BY <1>1, <1>3, StopKeepsIInv
<1> QED BY <1>2, <1>3 DEF Ladder

(* Every step of the arbitrator keeps the invariant, and lifts the cap *)
(* after a full good run.                                              *)
LEMMA NextKeepsIInv ==
  ASSUME ArbitratorAssumption, IInv, [Next]_arbVars
  PROVE  IInv' /\ (degraded /\ ~degraded' => goodRun' = RecoveryCycles)
<1>1. CASE Arbitrate
  <2>1. PICK traditional \in Inputs :
          \/ Graduated(traditional)
          \/ Ladder(traditional, {})
          \/ \E c \in Inputs : Ladder(traditional, {c})
    BY <1>1 DEF Arbitrate
  <2>2. CASE Graduated(traditional)
    <3>1. traditional \in Command
      BY InputsAreCommands
    <3> QED BY <2>2, <3>1, GraduatedKeepsIInv
  <2>3. ASSUME NEW e2e \in SUBSET Inputs, Ladder(traditional, e2e)
        PROVE  IInv' /\ degraded' = degraded
    BY <2>3, LadderKeepsIInv DEF Ladder
  <2> QED BY <2>1, <2>2, <2>3
<1>2. CASE EmergencyStop
  <2>1. IInv' /\ degraded' = degraded
    BY <1>2, StopKeepsIInv DEF EmergencyStop
  <2> QED BY <2>1
<1>3. CASE UNCHANGED arbVars
  <2>1. /\ mode' = mode /\ prev_linear' = prev_linear /\ degraded' = degraded
        /\ recovery_streak' = recovery_streak /\ output' = output
        /\ goodRun' = goodRun /\ cappedFor' = cappedFor /\ zeroFor' = zeroFor
    BY <1>3 DEF arbVars, state, history
  <2>2. TypeOK' /\ EnvelopeHolds'
    BY <2>1, Zenon DEF IInv, TypeOK, EnvelopeHolds
  <2> QED BY <2>1, <2>2, Zenon DEF IInv
<1> QED BY <1>1, <1>2, <1>3 DEF Next

(* The cycles counted under the cap or the stop bound the speed. *)
LEMMA IInvSlowsDown ==
  ASSUME ArbitratorAssumption, IInv
  PROVE  DegradedSlowsDown
<1>1. /\ CapCycles \in Nat /\ MaxSpeed - CapCycles * MaxDecel <= DegradedCap
      /\ StopCycles \in Nat /\ MaxSpeed - StopCycles * MaxDecel <= 0
  BY CyclesSuffice, ArbitratorAssumption
<1>2. prev_linear \in Int /\ output.linear = prev_linear
  BY DEF IInv, TypeOK
<1>3. ASSUME cappedFor = CapCycles, degraded
      PROVE  Magnitude(output.linear) <= DegradedCap
  <2>1. Braked(prev_linear, CapCycles, DegradedCap)
    BY <1>3 DEF IInv
  <2> DEFINE fall == CapCycles * MaxDecel
  <2>2. fall \in Int /\ MaxSpeed \in Nat /\ DegradedCap \in Nat
    BY <1>1, ArbitratorAssumption DEF ArbitratorAssumption
  <2>3. Magnitude(prev_linear) <= DegradedCap \/ Magnitude(prev_linear) <= MaxSpeed - fall
    BY <2>1 DEF Braked
  <2>4. MaxSpeed - fall <= DegradedCap
    BY <1>1
  <2> HIDE DEF fall
  <2> QED BY <1>2, <2>2, <2>3, <2>4 DEF Magnitude
<1>4. ASSUME zeroFor = StopCycles, degraded
      PROVE  output.linear = 0
  <2>1. Braked(prev_linear, StopCycles, 0)
    BY <1>4 DEF IInv
  <2> DEFINE fall == StopCycles * MaxDecel
  <2>2. fall \in Int /\ MaxSpeed \in Nat
    BY <1>1, ArbitratorAssumption DEF ArbitratorAssumption
  <2>3. Magnitude(prev_linear) <= 0 \/ Magnitude(prev_linear) <= MaxSpeed - fall
    BY <2>1 DEF Braked
  <2>4. MaxSpeed - fall <= 0
    BY <1>1
  <2> HIDE DEF fall
  <2> QED BY <1>2, <2>2, <2>3, <2>4 DEF Magnitude
<1> QED BY <1>3, <1>4 DEF DegradedSlowsDown

(***************************************************************************)
(* The theorems.                                                           *)
(***************************************************************************)

(* The inductive invariant holds in every reachable state.                 *)
THEOREM ArbitratorInvariant == Spec => []IInv
<1>1. Init => IInv
  BY InitEstablishesIInv, ArbitratorAssumption
<1>2. IInv /\ [Next]_arbVars => IInv'
  BY NextKeepsIInv, ArbitratorAssumption
<1> QED BY <1>1, <1>2, PTL DEF Spec

(* Type correctness; the counters of the latch stay within their bounds.   *)
THEOREM ArbitratorTyped == Spec => []TypeOK
<1>1. IInv => TypeOK
  BY DEF IInv
<1> QED BY <1>1, ArbitratorInvariant, PTL

(* No published command ever leaves the safety envelope, for every         *)
(* envelope that passes validation and every request of the pipelines.     *)
THEOREM EnvelopeAlwaysHolds == Spec => []EnvelopeHolds
<1>1. IInv => EnvelopeHolds
  BY DEF IInv
<1> QED BY <1>1, ArbitratorInvariant, PTL

(* The graduated response reaches the cap, and a stop, in the number of    *)
(* cycles that braking from top speed takes.                               *)
THEOREM DegradedAlwaysSlowsDown == Spec => []DegradedSlowsDown
<1>1. IInv => DegradedSlowsDown
  BY IInvSlowsDown, ArbitratorAssumption
<1> QED BY <1>1, ArbitratorInvariant, PTL

(* The cap is lifted only by RecoveryCycles good cycles in a row.          *)
THEOREM CapIsLiftedByGoodRun == Spec => CapLiftsAfterGoodRun
<1>1. IInv /\ [Next]_arbVars =>
        [degraded /\ ~degraded' => goodRun' = RecoveryCycles]_arbVars
  BY NextKeepsIInv, ArbitratorAssumption
<1> QED BY <1>1, ArbitratorInvariant, PTL DEF Spec, CapLiftsAfterGoodRun

(***************************************************************************)
(* The executors.                                                          *)
(***************************************************************************)

InRange(p) == p.linear \in Commanded /\ p.confidence \in {"good", "low"}

(* The speed limit of the distance that is left is well defined: the first *)
(* speed that is too fast has one below it.                                *)
LEMMA RootIsSpeed ==
  ASSUME NEW n \in Nat
  PROVE  Root(n) \in 0 .. DwaSpeed
<1>1. DwaSpeed \in Nat
  BY ClearanceAssumption
<1> DEFINE fast == { u \in Nat : u = DwaSpeed + 1 \/ u * u > n }
<1>2. DwaSpeed + 1 \in fast
  BY <1>1
<1>3. PICK first \in fast : \A u \in fast : ~ (<<u, first>> \in OpToRel(<, Nat))
  <2>1. fast \subseteq Nat /\ fast # {}
    BY <1>2
  <2> QED BY <2>1, NatLessThanWellFounded, WFMin, Zenon
<1>4. \A u \in fast : first <= u
  <2> TAKE u \in fast
  <2>1. u \in Nat /\ first \in Nat
    OBVIOUS
  <2>2. u < first => <<u, first>> \in OpToRel(<, Nat)
    BY <2>1, Zenon DEF OpToRel
  <2>3. ~ (u < first)
    BY <1>3, <2>2, Zenon
  <2> HIDE DEF fast
  <2> QED BY <2>1, <2>3, SMT
<1>5. first \in Nat /\ first <= DwaSpeed + 1 /\ (first = DwaSpeed + 1 \/ first * first > n)
  BY <1>2, <1>4
<1>6. first # 0
  BY <1>1, <1>5
<1>7. ~ (first - 1 \in fast)
  <2>1. first - 1 < first
    BY <1>5
  <2>2. first - 1 \in fast => first <= first - 1
    BY <1>4, Zenon
  <2> HIDE DEF fast
  <2> QED BY <1>5, <2>1, <2>2
<1> DEFINE v == first - 1
<1>8. v \in 0 .. DwaSpeed /\ v + 1 = first
  BY <1>1, <1>5, <1>6
<1>9. v * v <= n
  <2>1. v \in Nat /\ v # DwaSpeed + 1
    BY <1>1, <1>8
  <2>2. ~ (v * v > n)
    BY <1>7, <2>1, Zenon
  <2> HIDE DEF v, fast
  <2>3. \A a, b \in Int : ~(a > b) => a <= b
    OBVIOUS
  <2>4. v * v \in Int /\ n \in Int
    BY <2>1
  <2> QED BY <2>2, <2>3, <2>4, Zenon
<1>10. v = DwaSpeed \/ (v + 1) * (v + 1) > n
  <2>1. first = DwaSpeed + 1 => v = DwaSpeed
    BY <1>1, <1>8
  <2> HIDE DEF v
  <2> QED BY <1>5, <1>8, <2>1, Zenon
<1> HIDE DEF v, fast
<1>11. \E u \in 0 .. DwaSpeed : u * u <= n /\ (u = DwaSpeed \/ (u + 1) * (u + 1) > n)
  BY <1>8, <1>9, <1>10, Zenon
<1> QED BY <1>11, Zenon DEF Root

(* What an executor says is in range when its speed is.                    *)
LEMMA RepliesInRange ==
  ASSUME NEW v \in Commanded, NEW why
  PROVE  InRange(Commands(v)) /\ InRange(Ramps(v)) /\ InRange(Reply(v, "low", why, FALSE))
BY DEF Reply, Commands, Ramps, InRange

(* Standing still may be commanded. *)
LEMMA ZeroIsCommanded == 0 \in Commanded
BY ClearanceAssumption, ExecutorsAssumption DEF Commanded, Larger

(* A stop ramp from a commanded speed is a commanded speed. *)
LEMMA RampDecelerates ==
  ASSUME NEW prev \in Commanded
  PROVE  InRange(StopRamp(prev))
<1>1. Sign(prev) * Larger(Size(prev) - DwaDecel, 0) \in Commanded
  BY ClearanceAssumption, ExecutorsAssumption DEF Commanded, Sign, Size, Larger
<1> QED BY <1>1, RepliesInRange, Zenon DEF StopRamp

(* The speeds pursuit tries lie in the window around the last command and, *)
(* unless braking allows no less, below the governed speed or the crawl.   *)
LEMMA StepsAreBounded ==
  ASSUME NEW governed \in Nat, NEW travel \in Nat, NEW u \in SpeedSteps(governed, travel)
  PROVE  /\ u \in 0 .. DwaSpeed
         /\ u <= governed \/ u <= Crawl \/ u <= travel
<1> DEFINE hi == Smaller(travel + DwaAccel, DwaSpeed)
           lo == Between(travel - DwaDecel, 0, hi)
<1>1. hi \in 0 .. DwaSpeed /\ lo \in 0 .. hi /\ lo <= travel
  BY ClearanceAssumption DEF Between, Larger, Smaller
<1>2. PICK raw \in {(governed * f) \div 10 : f \in {10, 8, 6, 4}} \cup {Crawl} :
        u = Between(raw, lo, hi)
  BY DEF SpeedSteps
<1>3. raw \in Nat /\ (raw <= governed \/ raw = Crawl)
  BY <1>2, ClearanceAssumption
<1> HIDE DEF hi, lo
<1> QED BY <1>1, <1>2, <1>3, ClearanceAssumption DEF Between, Larger, Smaller

(* Pure pursuit answers with speeds it may command along the run. *)
LEMMA PursueInRange ==
  ASSUME NEW s \in State, NEW run \in Run, NEW more \in BOOLEAN, NEW desired \in Nat,
         NEW prev \in Commanded, NEW obstacles,
         NEW p \in Pursue(s, run, more, desired, prev, obstacles)
  PROVE  InRange(p)
<1> DEFINE sign     == Along(run)
           cap      == RunCap(run, desired)
           governed == IF more THEN Smaller(cap, CuspSpeed(s, run)) ELSE cap
           travel   == Larger(sign * prev, 0)
<1>1. s.x \in Int /\ s.v \in Int /\ run.to \in Int /\ prev \in Int
  BY DEF State, Run, Commanded
<1>2. CuspSpeed(s, run) \in 0 .. DwaSpeed
  <2>1. 2 * DwaDecel * Larger(0, RemainingRunDistance(s, run) - CuspShort) \in Nat
    BY <1>1, ClearanceAssumption, ExecutorsAssumption DEF Larger, RemainingRunDistance, Size
  <2> QED BY <2>1, RootIsSpeed DEF CuspSpeed
<1>3. cap \in Nat /\ (run.dir = "rev" => cap <= ReverseCap)
  BY ClearanceAssumption, ExecutorsAssumption DEF RunCap, Smaller
<1>4. governed \in Nat /\ governed <= cap
  BY <1>2, <1>3, ClearanceAssumption DEF Smaller
<1>5. sign \in {-1, 1} /\ (sign = -1 => run.dir = "rev") /\ travel \in Nat
  BY <1>1 DEF Along, Larger
<1>6. \/ p = StopRamp(prev)
      \/ \E why : p = Defers(why)
      \/ \E u \in SpeedSteps(governed, travel) : p = Commands(sign * u)
  <2> DEFINE ahead == sign * (run.to - s.x)
             clear == { u \in SpeedSteps(governed, travel) :
                          PursuitClear(s.x, sign * u, obstacles) }
  <2>1. p \in IF sign * prev < 0 \/ sign * s.v < 0 THEN {StopRamp(prev)}
              ELSE IF NoTarget(ahead, more) THEN {Defers("PathExhausted")}
              ELSE IF ahead < 0 THEN {Defers("TargetBehind")}
              ELSE IF more /\ governed = 0 THEN {StopRamp(prev)}
              ELSE {Defers("Blocked")} \cup { Commands(sign * v) : v \in clear }
    BY Zenon DEF Pursue
  <2>2. clear \subseteq SpeedSteps(governed, travel)
    OBVIOUS
  <2> HIDE DEF sign, ahead, cap, governed, travel, clear
  <2> QED BY <2>1, <2>2, Zenon
<1>7. CASE p = StopRamp(prev)
  BY <1>7, RampDecelerates
<1>8. CASE \E why : p = Defers(why)
  BY <1>8, RepliesInRange, ZeroIsCommanded, Zenon DEF Defers
<1>9. CASE \E u \in SpeedSteps(governed, travel) : p = Commands(sign * u)
  <2>1. PICK u \in SpeedSteps(governed, travel) : p = Commands(sign * u)
    BY <1>9
  <2>2. u \in 0 .. DwaSpeed /\ (u <= governed \/ u <= Crawl \/ u <= travel)
    BY <1>4, <1>5, StepsAreBounded
  <2>3. sign * u \in Commanded
    <3>1. sign = -1 => travel <= Larger(Crawl, Larger(ReverseCap, ReverseSpeed))
      BY <1>1, ClearanceAssumption, ExecutorsAssumption DEF Larger, Commanded
    <3> HIDE DEF sign, cap, governed, travel
    <3> QED BY <1>3, <1>4, <1>5, <2>2, <3>1, ClearanceAssumption, ExecutorsAssumption
            DEF Larger, Commanded
  <2> QED BY <2>1, <2>3, RepliesInRange, Zenon
<1> QED BY <1>6, <1>7, <1>8, <1>9

(* Pure pursuit, at a cusp or on a run.                                    *)
LEMMA PursuitInRange ==
  ASSUME NEW s \in State, NEW path \in Seq(Run), NEW desired \in Nat,
         NEW prev \in Commanded, NEW obstacles,
         NEW p \in Pursuit(s, path, desired, prev, obstacles)
  PROVE  InRange(p)
<1>1. InRange(Defers("NoPath")) /\ InRange(Defers("StopRequested"))
  BY RepliesInRange, ZeroIsCommanded, Zenon DEF Defers
<1>2. CASE path = <<>> \/ desired <= 0
  BY <1>1, <1>2, Zenon DEF Pursuit
<1>3. CASE path # <<>> /\ ~(desired <= 0) /\ AtCusp(s, path)
  <2>1. path[2] \in Run
    BY <1>3 DEF AtCusp
  <2>2. p = StopRamp(prev) \/ p \in Pursue(s, path[2], Len(path) > 2, desired, prev, obstacles)
    BY <1>3, Zenon DEF Pursuit
  <2>3. (Len(path) > 2) \in BOOLEAN
    OBVIOUS
  <2> QED BY <2>1, <2>2, <2>3, PursueInRange, RampDecelerates, Zenon
<1>4. CASE path # <<>> /\ ~(desired <= 0) /\ ~AtCusp(s, path)
  <2>1. path[1] \in Run
    BY <1>4
  <2>2. p \in Pursue(s, path[1], Len(path) > 1, desired, prev, obstacles)
    BY <1>4, Zenon DEF Pursuit
  <2>3. (Len(path) > 1) \in BOOLEAN
    OBVIOUS
  <2> QED BY <2>1, <2>2, <2>3, PursueInRange, Zenon
<1> QED BY <1>2, <1>3, <1>4, Zenon

(* The tracking MPC: one profile's first step is at most the ramp, or what *)
(* full braking leaves of the speed before.                                *)
LEMMA MpcFirstInRange ==
  ASSUME NEW d \in Int, NEW v0 \in 0 .. DwaSpeed, NEW a \in Int, NEW end \in Int,
         NEW leg \in 0 .. DwaSpeed, NEW obstacles,
         NEW v \in MpcFirst(d, v0, a, end, leg, obstacles)
  PROVE  v \in 0 .. DwaSpeed
<1> DEFINE vr == RampSpeed(d, end, leg)
<1>1. v = Between(v0 + a, 0, Larger(vr, v0 - DwaDecel))
  <2>1. v = MpcStep([x |-> d, v |-> v0, ok |-> TRUE], 1, a, end, leg, obstacles).v
    BY Zenon DEF MpcFirst
  <2>2. 1 <= MpcPhase
    BY ClearanceAssumption
  <2> HIDE DEF vr
  <2>3. MpcStep([x |-> d, v |-> v0, ok |-> TRUE], 1, a, end, leg, obstacles).v
          = Between(v0 + a, 0, Larger(RampSpeed(d, end, leg), v0 - DwaDecel))
    BY <2>2 DEF MpcStep
  <2> QED BY <2>1, <2>3, Zenon DEF vr
<1>2. vr \in 0 .. DwaSpeed
  <2>1. 2 * Comfort * Larger(0, end - d) \in Nat
    <3>1. Comfort \in Nat /\ Larger(0, end - d) \in Nat
      BY ClearanceAssumption DEF Larger
    <3> QED BY <3>1
  <2>2. Root(2 * Comfort * Larger(0, end - d)) \in 0 .. DwaSpeed
    BY <2>1, RootIsSpeed
  <2> QED BY <2>2, ClearanceAssumption DEF RampSpeed, Smaller
<1> HIDE DEF vr
<1> QED BY <1>1, <1>2, ClearanceAssumption DEF Between, Larger, Smaller

(* The speed a state or a command may have where the MPC and the sampler   *)
(* look at it.                                                             *)
LEMMA ForwardSpeeds == /\ 0 .. DwaSpeed \subseteq Commanded
                       /\ \A v \in Commanded : v >= 0 => v \in 0 .. DwaSpeed
BY ClearanceAssumption, ExecutorsAssumption DEF Commanded, Larger

(* The tracking MPC answers with speeds it may command along the run. *)
LEMMA TrackingMpcInRange ==
  ASSUME NEW s \in State, s.v \in Commanded, NEW run \in Run, NEW desired \in Nat,
         NEW prev \in Commanded, NEW obstacles,
         NEW p \in TrackingMpc(s, run, desired, prev, obstacles)
  PROVE  InRange(p)
<1> DEFINE leg == Smaller(desired, DwaSpeed)
           v0  == Larger(Larger(prev, 0), s.v)
<1>1. /\ ~(prev < 0 \/ s.v < 0 \/ run.to - s.x < Finish \/ leg <= 0)
      /\ \E a \in {DwaAccel, 0, -DwaDecel} :
         \E v \in MpcFirst(s.x, v0, a, run.to, leg, obstacles) : p = Commands(v)
  BY Zenon DEF TrackingMpc, LeftOf
<1>2. PICK a \in {DwaAccel, 0, -DwaDecel} :
        \E v \in MpcFirst(s.x, v0, a, run.to, leg, obstacles) : p = Commands(v)
  BY <1>1, Zenon
<1>3. PICK v \in MpcFirst(s.x, v0, a, run.to, leg, obstacles) : p = Commands(v)
  BY <1>2, Zenon
<1>4. leg \in 0 .. DwaSpeed /\ s.x \in Int /\ run.to \in Int /\ a \in Int
  BY ClearanceAssumption DEF Smaller, State, Run
<1>5. v0 \in 0 .. DwaSpeed
  <2>1. prev \in Int /\ s.v \in Int /\ ~(s.v < 0)
    BY <1>1 DEF Commanded
  <2>2. Larger(prev, 0) \in 0 .. DwaSpeed
    BY <2>1, ForwardSpeeds, ClearanceAssumption DEF Larger
  <2>3. s.v \in 0 .. DwaSpeed
    BY <2>1, ForwardSpeeds
  <2> QED BY <2>2, <2>3 DEF Larger
<1> HIDE DEF leg, v0
<1>6. v \in Commanded
  BY <1>3, <1>4, <1>5, MpcFirstInRange, ForwardSpeeds, Zenon
<1> QED BY <1>3, <1>6, RepliesInRange, Zenon

(* The dynamic window answers with speeds it may command. *)
LEMMA DwaInRange ==
  ASSUME NEW s \in State, s.v \in Commanded, NEW desired \in Nat, NEW base, NEW obstacles,
         NEW p \in Dwa(s, desired, base, obstacles)
  PROVE  InRange(p)
<1> DEFINE target == Between(desired, 0, DwaSpeed)
           low    == Larger(s.v - DwaAccel, 0)
           high   == Smaller(Between(s.v + DwaAccel, 0, DwaSpeed), Larger(target, low))
<1>1. \/ p = Defers("Infeasible")
      \/ \E v \in Smaller(low, high) .. high : p = Commands(v)
      \/ p = Commands(Smaller(DwaAccel, target))
  BY Zenon DEF Dwa, StandstillEscape
<1>2. s.v \in Int
  BY DEF Commanded
<1>3. target \in 0 .. DwaSpeed /\ low \in Nat /\ high \in 0 .. DwaSpeed /\ Smaller(low, high) \in Nat
  BY <1>2, ClearanceAssumption DEF Between, Larger, Smaller
<1>4. Smaller(DwaAccel, target) \in 0 .. DwaSpeed
  BY <1>3, ClearanceAssumption DEF Smaller
<1>5. \A v \in Smaller(low, high) .. high : v \in 0 .. DwaSpeed
  BY <1>3, ClearanceAssumption
<1> HIDE DEF target, low, high
<1>6. InRange(Defers("Infeasible"))
  BY RepliesInRange, ZeroIsCommanded, Zenon DEF Defers
<1> QED BY <1>1, <1>4, <1>5, <1>6, ForwardSpeeds, RepliesInRange, Zenon

(* A plan is in range with the command it sends and the speed it records.  *)
PlanInRange(plan) == InRange(plan.cmd) /\ plan.prev \in Commanded

(* Recording how an attempt ended does not change the speed of its *)
(* answer.                                                         *)
LEMMA RecordsInRange ==
  ASSUME NEW attempt, NEW prev \in Commanded
  PROVE  /\ PlanInRange(Unrecorded(attempt, prev))
         /\ \A cmd : InRange(cmd) => PlanInRange(Recorded(cmd, attempt))
BY ZeroIsCommanded DEF PlanInRange, Unrecorded, Recorded, Reply, InRange

(* The sampler answers in range, as the dynamic window or by deferring. *)
LEMMA SamplerInRange ==
  ASSUME NEW s \in State, s.v \in Commanded, NEW path, NEW desired \in Nat, NEW base,
         NEW obstacles, NEW p \in Sampler(s, path, desired, base, obstacles)
  PROVE  InRange(p)
<1>1. InRange(Defers("Infeasible"))
  BY RepliesInRange, ZeroIsCommanded, Zenon DEF Defers
<1>2. p = Defers("Infeasible") \/ p \in Dwa(s, desired, base, obstacles)
  BY Zenon DEF Sampler
<1> QED BY <1>1, <1>2, DwaInRange, Zenon

(* The executor that is configured answers in range, with its fallbacks. *)
LEMMA ComputeInRange ==
  ASSUME NEW s \in State, s.v \in Commanded, NEW path \in Seq(Run), NEW desired \in Nat,
         NEW prev \in Commanded, NEW obstacles,
         NEW plan \in Compute(s, path, desired, prev, obstacles)
  PROVE  PlanInRange(plan)
<1>1. CASE path = <<>>
  <2>1. plan = Unrecorded("NotTried", prev)
    BY <1>1, Zenon DEF Compute
  <2> QED BY <2>1, RecordsInRange, Zenon
<1>2. CASE path # <<>>
  <2>1. \/ \E cmd \in TrackingMpc(s, path[1], desired, prev, obstacles) :
             plan = Recorded(cmd, "Succeeded")
        \/ \E p \in Pursuit(s, path, desired, prev, obstacles) :
             plan = Recorded(p, "Succeeded")
        \/ \E p \in Pursuit(s, path, desired, prev, obstacles) :
           \E cmd \in Sampler(s, path, desired, RobotRadius, obstacles) :
             plan = Recorded(cmd, p.attempt)
    BY <1>2, Zenon DEF Compute, PursuitOr, After
  <2>2. path[1] \in Run
    BY <1>2
  <2> QED BY <2>1, <2>2, TrackingMpcInRange, PursuitInRange, SamplerInRange, RecordsInRange, Zenon
<1> QED BY <1>1, <1>2

(* A forward retry of recovery answers in range. *)
LEMMA RetryInRange ==
  ASSUME NEW s \in State, s.v \in Commanded, NEW path \in Seq(Run), NEW desired \in Nat,
         NEW prev \in Commanded, NEW obstacles,
         NEW plan \in Retry(s, path, desired, prev, obstacles)
  PROVE  PlanInRange(plan)
<1>1. \/ \E p \in Pursuit(s, path, desired, prev, obstacles) :
           plan = Recorded(p, "Succeeded") \/ plan = Unrecorded(p.attempt, prev)
      \/ \E p \in Pursuit(s, path, desired, prev, obstacles) :
         \E cmd \in Sampler(s, path, desired, RelaxedRadius, obstacles) :
           plan = Recorded(cmd, p.attempt)
  BY Zenon DEF Retry, PursuitOr, After
<1> QED BY <1>1, PursuitInRange, SamplerInRange, RecordsInRange, Zenon

(* Backing up in recovery answers in range. *)
LEMMA BackUpInRange ==
  ASSUME NEW s \in State, NEW path \in Seq(Run), NEW desired \in Nat,
         NEW prev \in Commanded, NEW obstacles,
         NEW plan \in BackUp(s, path, desired, prev, obstacles)
  PROVE  PlanInRange(plan)
<1>1. -ReverseSpeed \in Commanded
  BY ClearanceAssumption, ExecutorsAssumption DEF Commanded, Larger
<1>2. \E p \in Pursuit(s, path, desired, prev, obstacles) :
        plan = Recorded(p, "Succeeded") \/ plan = Recorded(Commands(-ReverseSpeed), p.attempt)
  BY Zenon DEF BackUp, PursuitOr, After
<1> QED BY <1>1, <1>2, PursuitInRange, RepliesInRange, RecordsInRange, Zenon

(* Whatever phase the behavior planner is in and whatever path, obstacles  *)
(* and state select_local_plan is given, the command it chooses is within  *)
(* the planner's limits for its direction.                                 *)
THEOREM AnswersStayInRange ==
  ASSUME NEW phase \in {"None", "ForwardRetry", "Reverse", "Hold"},
         NEW s \in State, s.v \in Commanded, NEW path \in Seq(Run), NEW desired \in Nat,
         NEW prev \in Commanded, NEW obstacles,
         NEW plan \in SelectLocalPlan(phase, s, path, desired, prev, obstacles)
  PROVE  PlanInRange(plan)
<1>1. CASE phase = "None"
  BY <1>1, ComputeInRange DEF SelectLocalPlan
<1>2. CASE phase = "ForwardRetry"
  BY <1>2, RetryInRange DEF SelectLocalPlan
<1>3. CASE phase = "Reverse"
  BY <1>3, BackUpInRange DEF SelectLocalPlan
<1>4. CASE phase = "Hold"
  <2>1. plan = Recorded(Commands(0), "NotTried")
    BY <1>4 DEF SelectLocalPlan
  <2> QED BY <2>1, ZeroIsCommanded, RepliesInRange, RecordsInRange, Zenon
<1> QED BY <1>1, <1>2, <1>3, <1>4

(***************************************************************************)
(* The loop.                                                               *)
(***************************************************************************)

TriesInv ==
  /\ target_behind_streak \in 0 .. BehindDrop
  /\ behindTries \in 0 .. BehindDrop - 1
  /\ behindTries <= target_behind_streak

(* The path a plan leaves after a search that found one.                   *)
LeadsTo(path, g) == path # <<>> => path[Len(path)].to = g

(* Every answer of the search ends at the goal it was asked for.           *)
LEMMA CandidateEnds ==
  ASSUME NEW from, NEW to, NEW obstacles,
         NEW path \in Candidates(from, to, obstacles)
  PROVE  path # <<>> /\ path[Len(path)].to = to
<1>1. path \in {<<RunTo(from, to)>>}
                 \cup { <<RunTo(from, c), RunTo(c, to)>> : c \in Cusps \ {from, to} }
  BY DEF Candidates
<1>2. CASE path = <<RunTo(from, to)>>
  BY <1>2 DEF RunTo
<1>3. CASE \E c \in Cusps : path = <<RunTo(from, c), RunTo(c, to)>>
  BY <1>3 DEF RunTo
<1>. QED  BY <1>1, <1>2, <1>3

(* A plan that searched and found a path leaves one that ends at the goal. *)
LEMMA PlanEnds ==
  ASSUME NEW path, NEW from, NEW obstacles,
         NEW plan \in Plans(path, from, obstacles), plan.searched = TRUE
  PROVE  LeadsTo(plan.path, goal')
<1> DEFINE found == IF Stale THEN {} ELSE Candidates(from, goal', obstacles)
<1>1. plan \in {[path |-> path, goal |-> current_path_goal, searched |-> FALSE]}
      \cup {[path |-> p, goal |-> {goal'}, searched |-> TRUE] : p \in found}
      \cup { [path |-> path, goal |-> current_path_goal, searched |-> TRUE] :
               p \in {q \in found : FALSE \in PathReplaceDecision(Retainable(path, from, obstacles))} }
  BY DEF Plans
<1>5. FALSE \in PathReplaceDecision(Retainable(path, from, obstacles))
        => Retainable(path, from, obstacles)
  BY DEF PathReplaceDecision
<1> HIDE DEF found
<1>2. CASE \E p \in found : plan = [path |-> p, goal |-> {goal'}, searched |-> TRUE]
  <2>1. PICK p \in found : plan.path = p
    BY <1>2
  <2>2. p \in Candidates(from, goal', obstacles)
    BY <2>1 DEF found
  <2> QED  BY <2>1, <2>2, CandidateEnds DEF LeadsTo
<1>3. CASE /\ plan = [path |-> path, goal |-> current_path_goal, searched |-> TRUE]
           /\ Retainable(path, from, obstacles)
  BY <1>3 DEF LeadsTo, Retainable
<1>4. plan # [path |-> path, goal |-> current_path_goal, searched |-> FALSE]
  OBVIOUS
<1> QED  BY <1>1, <1>2, <1>3, <1>4, <1>5

(* One cycle's streaks: the counter covers the tries on the path it keeps. *)
LEMMA CommitKeepsTries ==
  ASSUME TriesInv, NEW plan, NEW attempt, NEW from, Commit(plan, attempt, from)
  PROVE  /\ target_behind_streak' \in 0 .. BehindDrop
         /\ behindTries' \in 0 .. BehindDrop - 1
         /\ behindTries' <= target_behind_streak'
         /\ global_path' = plan.path \/ global_path' = <<>>
         /\ searched' = plan.searched
         /\ current_path_goal' = plan.goal
<1> DEFINE streaks == Streaks(attempt, plan.path, from)
           same    == plan.path # <<>> /\ plan.path = CurrentPath(last_world')
           tries   == IF same THEN behindTries ELSE 0
<1>1. BehindDrop \in Nat \ {0}
  BY DrivingAssumption
<1>2. /\ global_path' = IF streaks.drop THEN <<>> ELSE plan.path
      /\ current_path_goal' = plan.goal
      /\ searched' = plan.searched
      /\ target_behind_streak' = IF streaks.drop THEN 0 ELSE streaks.behind
      /\ behindTries' =
           IF streaks.drop \/ plan.path = <<>> THEN 0
           ELSE IF attempt = "TargetBehind" THEN CountTo(BehindDrop, tries)
                ELSE IF attempt = "NotTried" THEN tries ELSE 0
  BY DEF Commit
<1>3. /\ streaks.behind = IF attempt = "TargetBehind"
                          THEN CountTo(BehindDrop, target_behind_streak)
                          ELSE IF attempt = "NotTried" THEN target_behind_streak ELSE 0
      /\ attempt = "TargetBehind" /\ streaks.behind = BehindDrop /\ plan.path # <<>>
           => streaks.drop
  BY DEF Streaks
<1>4. /\ tries \in 0 .. BehindDrop - 1
      /\ tries <= target_behind_streak
      /\ target_behind_streak \in 0 .. BehindDrop
  BY <1>1 DEF TriesInv
<1> HIDE DEF streaks, tries, same
<1>5. CASE streaks.drop \/ plan.path = <<>>
  BY <1>1, <1>2, <1>3, <1>4, <1>5 DEF CountTo
<1>6. CASE ~streaks.drop /\ plan.path # <<>> /\ attempt = "TargetBehind"
  <2>1. target_behind_streak' = CountTo(BehindDrop, target_behind_streak)
        /\ target_behind_streak' # BehindDrop
        /\ behindTries' = CountTo(BehindDrop, tries)
    BY <1>2, <1>3, <1>6
  <2> QED  BY <2>1, <1>1, <1>2, <1>4, <1>6 DEF CountTo
<1>7. CASE ~streaks.drop /\ plan.path # <<>> /\ attempt # "TargetBehind"
  BY <1>1, <1>2, <1>3, <1>4, <1>7
<1> QED  BY <1>5, <1>6, <1>7

(* The inductive invariant: the tries, and that a path a search has left   *)
(* leads to the goal.                                                      *)
PathInv ==
  /\ TriesInv
  /\ searched => LeadsTo(global_path, goal)

(* The invariant of the path implies that it is current. *)
LEMMA PathInvSuffices == PathInv => PathIsCurrent
BY DrivingAssumption DEF PathInv, TriesInv, LeadsTo, PathIsCurrent

(* The loop starts in the invariant of the path. *)
LEMMA PathInvStarts == DrivingInit => PathInv
BY DrivingAssumption DEF DrivingInit, PathInv, TriesInv, LeadsTo

(* A planning cycle: what it leaves was planned for the goal, or kept from *)
(* a cycle that did not search, or is empty.                               *)
LEMMA DriveKeepsPathInv ==
  ASSUME PathInv, Drive
  PROVE  PathInv'
<1>1. PICK obstacles \in {Obstacles}, s \in {last_world'} :
        \E choice \in Choices(s, obstacles),
           plan \in Plans(CurrentPath(s), s.x, obstacles) :
        \E answer \in SelectLocalPlan(choice.phase, Projected(s),
                                      ExecPath(plan.path, choice.phase, s),
                                      choice.desired, prev_cmd_v, obstacles) :
          Commit(plan, answer.cmd.attempt, s.x)
  BY Zenon DEF Drive
<1>6. PICK plan \in Plans(CurrentPath(s), s.x, obstacles) :
        \E attempt : Commit(plan, attempt, s.x)
  BY <1>1, Zenon
<1>2. PICK attempt : Commit(plan, attempt, s.x)
  BY <1>6
<1>3. goal' \in Goals
  BY DEF Drive
<1>4. /\ target_behind_streak' \in 0 .. BehindDrop
      /\ behindTries' \in 0 .. BehindDrop - 1
      /\ behindTries' <= target_behind_streak'
      /\ global_path' = plan.path \/ global_path' = <<>>
      /\ searched' = plan.searched
  BY <1>2, CommitKeepsTries DEF PathInv
<1>5. ASSUME searched'
      PROVE  LeadsTo(global_path', goal')
  <2>1. plan.searched = TRUE
    BY <1>2, <1>4, <1>5 DEF Plans
  <2>2. LeadsTo(plan.path, goal')
    BY <1>2, <2>1, PlanEnds
  <2> QED  BY <1>4, <2>2 DEF LeadsTo
<1> QED  BY <1>4, <1>5 DEF PathInv, TriesInv, LeadsTo

(* No path is followed against the evidence, in any behavior.              *)
THEOREM PathStaysCurrent == DrivingSpec => []PathIsCurrent
<1>1. PathInv /\ [DrivingNext]_<<arbVars, driveVars>> => PathInv'
  <2> SUFFICES ASSUME PathInv, [DrivingNext]_<<arbVars, driveVars>> PROVE PathInv'
    OBVIOUS
  <2>1. CASE Drive
    BY <2>1, DriveKeepsPathInv
  <2>2. CASE UNCHANGED driveVars
    BY <2>2 DEF driveVars, pathVars, execVars, PathInv, TriesInv, LeadsTo
  <2> QED  BY <2>1, <2>2 DEF DrivingNext, Halt, Unfollowed
<1> QED  BY <1>1, PathInvStarts, PathInvSuffices, PTL DEF DrivingSpec

(***************************************************************************)
(* The arbitrator's guarantees and the types hold in the composition: what *)
(* the executors send are commands of the arbitrator, and the speeds they  *)
(* start from stay within their own limits.                                *)
(***************************************************************************)

(* Capping and rate limiting go towards zero or the command.               *)
LEMMA EnvelopeKeepsRange ==
  ASSUME IInv, prev_linear \in Commanded, NEW cmd \in Command, cmd.linear \in Commanded,
         Graduated(cmd)
  PROVE  prev_linear' \in Commanded
<1> DEFINE lo == -Larger(Crawl, Larger(ReverseCap, ReverseSpeed))
<1>1. /\ Commanded = lo .. DwaSpeed /\ lo \in Int /\ lo < 0 /\ DwaSpeed \in Nat
      /\ MaxSpeed \in Nat \ {0} /\ MaxAccel \in Nat \ {0} /\ MaxDecel \in Nat \ {0}
      /\ DegradedCap \in Nat
  BY ClearanceAssumption, ExecutorsAssumption, ArbitratorAssumption
     DEF Commanded, Larger, ArbitratorAssumption
<1> HIDE DEF lo
<1>2. PICK c \in {ApplyDegradedCap(cmd), cmd} : Safe(c)
  BY Zenon DEF Graduated
<1>3. c.linear \in Commanded
  <2>1. c.linear \in {0, Clamp(cmd.linear, -DegradedCap, DegradedCap), cmd.linear}
    BY <1>2 DEF ApplyDegradedCap, Command
  <2> QED BY <1>1, <2>1 DEF Clamp
<1>4. prev_linear' = EnvelopeSpeed(c.linear)
  BY <1>2 DEF Safe
<1> QED BY <1>1, <1>3, <1>4 DEF EnvelopeSpeed, Clamp

(* A path that is kept, shortened or found has the type of a path.         *)
Path(p) == p \in Seq(Run) /\ Len(p) <= 2

(* What A* may find are paths. *)
LEMMA CandidatesArePaths ==
  ASSUME NEW from \in Int, NEW to \in Int, NEW obstacles,
         NEW path \in Candidates(from, to, obstacles)
  PROVE  Path(path)
<1>1. \A a, b \in Int : RunTo(a, b) \in Run
  BY DEF RunTo, Run
<1>2. \/ path = <<RunTo(from, to)>>
      \/ \E c \in Cusps : path = <<RunTo(from, c), RunTo(c, to)>>
  BY Zenon DEF Candidates
<1>3. CASE path = <<RunTo(from, to)>>
  BY <1>1, <1>3 DEF Path
<1>4. CASE \E c \in Cusps : path = <<RunTo(from, c), RunTo(c, to)>>
  <2>1. PICK c \in Cusps : path = <<RunTo(from, c), RunTo(c, to)>>
    BY <1>4
  <2>2. c \in Int
    BY DrivingAssumption
  <2>3. RunTo(from, c) \in Run /\ RunTo(c, to) \in Run
    BY <1>1, <2>2
  <2> QED BY <2>1, <2>3 DEF Path
<1> QED BY <1>2, <1>3, <1>4

(* What planning a path leaves is a path, and its goal one of the goals. *)
LEMMA PlansArePaths ==
  ASSUME NEW path, Path(path), NEW from \in Int, NEW obstacles, goal' \in Goals,
         current_path_goal \subseteq Goals, NEW plan \in Plans(path, from, obstacles)
  PROVE  Path(plan.path) /\ plan.goal \subseteq Goals /\ plan.searched \in BOOLEAN
<1> DEFINE found == IF Stale THEN {} ELSE Candidates(from, goal', obstacles)
<1>1. \/ plan = [path |-> path, goal |-> current_path_goal, searched |-> FALSE]
      \/ \E p \in found : plan = [path |-> p, goal |-> {goal'}, searched |-> TRUE]
      \/ plan = [path |-> path, goal |-> current_path_goal, searched |-> TRUE]
  BY Zenon DEF Plans
<1>2. \A p \in found : Path(p)
  <2>1. goal' \in Int
    BY DrivingAssumption
  <2> QED BY <2>1, CandidatesArePaths, Zenon
<1> HIDE DEF found
<1>3. CASE plan = [path |-> path, goal |-> current_path_goal, searched |-> FALSE]
  <2>1. plan.path = path /\ plan.goal = current_path_goal /\ plan.searched = FALSE
    BY <1>3
  <2> QED BY <2>1
<1>4. CASE \E p \in found : plan = [path |-> p, goal |-> {goal'}, searched |-> TRUE]
  <2>1. PICK p \in found : plan = [path |-> p, goal |-> {goal'}, searched |-> TRUE]
    BY <1>4
  <2>2. plan.path = p /\ plan.goal = {goal'} /\ plan.searched = TRUE
    BY <2>1
  <2> QED BY <1>2, <2>2
<1>5. CASE plan = [path |-> path, goal |-> current_path_goal, searched |-> TRUE]
  <2>1. plan.path = path /\ plan.goal = current_path_goal /\ plan.searched = TRUE
    BY <1>5
  <2> QED BY <2>1
<1> QED BY <1>1, <1>3, <1>4, <1>5, Zenon

(* A path cut at a cusp is a path. *)
LEMMA TruncatedIsPath ==
  ASSUME NEW path, Path(path), NEW s
  PROVE  Path(Truncated(path, s))
<1>1. CASE AtCusp(s, path)
  <2>1. Tail(path) \in Seq(Run) /\ Len(Tail(path)) = Len(path) - 1 /\ Len(path) \in Nat
    BY <1>1 DEF AtCusp, Path
  <2>2. Path(Tail(path))
    BY <2>1 DEF Path
  <2> QED BY <1>1, <2>2 DEF Truncated
<1>2. CASE ~AtCusp(s, path)
  BY <1>2 DEF Truncated
<1> QED BY <1>1, <1>2

(* What the executors are given is a sequence of runs. *)
LEMMA ExecPathIsPath ==
  ASSUME NEW path, Path(path), NEW phase, NEW s \in State, goal' \in Int
  PROVE  ExecPath(path, phase, s) \in Seq(Run)
<1> DEFINE d  == Size(goal' - s.x)
           to == goal' - Sign(goal' - s.x) * Smaller(Pull, d)
           point == [to |-> to, dir |-> "point"]
<1>1. s.x \in Int /\ Pull \in Nat
  BY DrivingAssumption DEF State
<1>2. d \in Int
  BY <1>1 DEF Size, Larger
<1>3. to \in Int
  <2> HIDE DEF d
  <2>1. Smaller(Pull, d) \in Int
    BY <1>1, <1>2 DEF Smaller
  <2>2. Sign(goal' - s.x) \in {-1, 1}
    BY DEF Sign
  <2> HIDE DEF to
  <2>3. to = goal' - Smaller(Pull, d) \/ to = goal' + Smaller(Pull, d)
    BY <2>1, <2>2 DEF to
  <2> QED BY <2>1, <2>3
<1>4. point \in Run
  <2> HIDE DEF to
  <2> QED BY <1>3 DEF Run
<1> HIDE DEF to
<1>5. ExecPath(path, phase, s) = path \/ ExecPath(path, phase, s) = <<point>>
  BY Zenon DEF ExecPath, to
<1> HIDE DEF point
<1> QED BY <1>4, <1>5 DEF Path

(* The inductive invariant of the loop: the arbitrator's, the types, the   *)
(* path's, and that the vehicle's speed is one the planner may command.    *)
DriveInv ==
  /\ IInv
  /\ DrivingTypeOK
  /\ PathInv
  /\ mode = "Traditional" => prev_linear \in Commanded

(* Misses are counted past the staleness limit.                            *)
LEMMA MissesAreCounted ==
  MissLimit \in Nat /\ StaleCycles \in Nat /\ StaleCycles < MissLimit
BY DrivingAssumption DEF MissLimit, Larger

(* The loop starts in its inductive invariant. *)
LEMMA DriveInvStarts == DrivingInit => DriveInv
<1> SUFFICES ASSUME DrivingInit PROVE DriveInv
  OBVIOUS
<1>1. IInv /\ PathInv
  BY InitEstablishesIInv, PathInvStarts, ArbitratorAssumption DEF DrivingInit
<1>2. prev_linear \in Commanded
  BY ZeroIsCommanded DEF DrivingInit, Init
<1>3. last_world \in State /\ last_world.v \in Commanded
  <2>1. Start \in Int /\ last_world = [x |-> Start, v |-> 0]
    BY DrivingAssumption DEF DrivingInit
  <2> QED BY <2>1, ZeroIsCommanded DEF State
<1>4. /\ x \in Int /\ statics \subseteq Obstacle /\ missed \in 0 .. MissLimit
      /\ goal \in Goals /\ current_path_goal \subseteq Goals
      /\ target_behind_streak \in 0 .. BehindDrop /\ blocked_streak \in 0 .. BlockedDrop
      /\ behindTries \in 0 .. BehindDrop
  BY DrivingAssumption, MissesAreCounted DEF DrivingInit
<1>5. /\ global_path \in Seq(Run) /\ Len(global_path) <= 2
      /\ prev_cmd_v \in Commanded
  BY ZeroIsCommanded DEF DrivingInit
<1>6. searched \in BOOLEAN /\ unrecorded \in BOOLEAN /\ drifted \in BOOLEAN
  BY Zenon DEF DrivingInit
<1> QED BY <1>1, <1>2, <1>3, <1>4, <1>5, <1>6, Zenon DEF DriveInv, DrivingTypeOK

(* The inputs of a cycle.                                                  *)
LEMMA InputsKeepTypes ==
  ASSUME DriveInv, mode = "Traditional", Receive \/ Miss
  PROVE  /\ last_world' \in State /\ last_world'.v \in Commanded
         /\ statics' \subseteq Obstacle /\ missed' \in 0 .. MissLimit
<1>1. /\ x \in Int /\ prev_linear \in Commanded /\ prev_linear \in Int
      /\ last_world \in State /\ last_world.v \in Commanded
      /\ statics \subseteq Obstacle /\ missed \in 0 .. MissLimit
  BY DEF DriveInv, DrivingTypeOK, IInv, TypeOK
<1>2. CASE Receive
  <2>1. last_world' = [x |-> x, v |-> prev_linear] /\ missed' = 0
    BY <1>2 DEF Receive
  <2>2. last_world' \in State /\ last_world'.v \in Commanded
    BY <1>1, <2>1 DEF State
  <2>3. statics' \subseteq Obstacle
    BY <1>1, <1>2, DrivingAssumption DEF Receive
  <2> QED BY <2>1, <2>2, <2>3, MissesAreCounted
<1>3. CASE Miss
  BY <1>1, <1>3, MissesAreCounted DEF Miss, CountTo
<1> QED BY <1>2, <1>3

(* A state projected over the latency is a state, at the same speed. *)
LEMMA ProjectedIsState ==
  ASSUME NEW s \in State
  PROVE  Projected(s) \in State /\ Projected(s).v = s.v
<1>1. PICK a \in Int, b \in Int : s = [x |-> a, v |-> b]
  BY DEF State
<1>2. Delay * b \in Int
  BY <1>1, ExecutorsAssumption
<1>3. Projected(s) = [x |-> a + Delay * b, v |-> b]
  BY <1>1 DEF Projected
<1> QED BY <1>1, <1>2, <1>3 DEF State

(* The behavior planner asks for a phase of recovery and a desired speed. *)
LEMMA ChoicesAreTyped ==
  ASSUME NEW s, NEW obstacles, NEW choice \in Choices(s, obstacles)
  PROVE  /\ choice.phase \in {"None", "ForwardRetry", "Reverse", "Hold"}
         /\ choice.desired \in Nat
<1>1. \/ choice = [phase |-> "None", desired |-> 0]
      \/ choice \in [ phase   : {"None", "ForwardRetry", "Reverse", "Hold"},
                      desired : DesiredSpeeds \cup {0, Crawl} ]
  BY Zenon DEF Choices
<1>2. DesiredSpeeds \cup {0, Crawl} \subseteq Nat
  BY DrivingAssumption, ClearanceAssumption
<1> QED BY <1>1, <1>2

(* The arbitrator takes an answer that is in range.                        *)
LEMMA SendKeepsRange ==
  ASSUME DriveInv, mode = "Traditional", NEW cmd, InRange(cmd), Send(cmd)
  PROVE  /\ IInv' /\ prev_linear' \in Commanded /\ mode' = mode
         /\ degraded /\ ~degraded' => goodRun' = RecoveryCycles
<1>1. CASE Stale
  <2>1. EmergencyStop
    BY <1>1 DEF Send
  <2>2. prev_linear' = 0 /\ UNCHANGED <<mode, degraded, recovery_streak, goodRun, cappedFor, zeroFor>>
        /\ Stop
    BY <2>1 DEF EmergencyStop, Stop
  <2>3. IInv'
    BY <2>2, StopKeepsIInv, ArbitratorAssumption DEF DriveInv
  <2>4. prev_linear' \in Commanded
    BY <2>2, ZeroIsCommanded
  <2> QED BY <2>2, <2>3, <2>4
<1>2. CASE ~Stale
  <2> DEFINE c == [linear |-> cmd.linear, angular |-> 0, confidence |-> cmd.confidence]
  <2>1. Graduated(c)
    BY <1>2, Zenon DEF Send
  <2>2. cmd.linear \in Int /\ cmd.linear \in Commanded /\ cmd.confidence \in {"low", "good"}
    BY DEF InRange, Commanded
  <2>3. c \in Command /\ c.linear \in Commanded
    BY <2>2 DEF Command
  <2> HIDE DEF c
  <2>4. IInv' /\ (degraded /\ ~degraded' => goodRun' = RecoveryCycles)
    BY <2>1, <2>3, GraduatedKeepsIInv, ArbitratorAssumption DEF DriveInv
  <2>5. prev_linear' \in Commanded
    BY <2>1, <2>3, EnvelopeKeepsRange DEF DriveInv
  <2>6. mode' = mode
    BY <2>1 DEF Graduated
  <2> QED BY <2>4, <2>5, <2>6
<1> QED BY <1>1, <1>2

(* The streaks stay within their bounds.                                   *)
LEMMA BlockedStaysBounded ==
  ASSUME blocked_streak \in 0 .. BlockedDrop, NEW plan, NEW attempt, NEW from,
         Commit(plan, attempt, from)
  PROVE  blocked_streak' \in 0 .. BlockedDrop
<1> DEFINE streaks == Streaks(attempt, plan.path, from)
<1>1. streaks.blocked = IF attempt = "Blocked" THEN CountTo(BlockedDrop, blocked_streak)
                        ELSE IF attempt = "NotTried" THEN blocked_streak ELSE 0
  BY DEF Streaks
<1>2. blocked_streak' = IF streaks.drop THEN 0 ELSE streaks.blocked
  BY DEF Commit
<1> HIDE DEF streaks
<1> QED BY <1>1, <1>2, DrivingAssumption DEF CountTo

(* A planning cycle keeps all of it, and lifts the cap only after a good   *)
(* run.                                                                    *)
LEMMA DriveKeepsDriveInv ==
  ASSUME DriveInv, Drive
  PROVE  DriveInv' /\ (degraded /\ ~degraded' => goodRun' = RecoveryCycles)
<1>1. mode = "Traditional" /\ (Receive \/ Miss) /\ goal' \in Goals /\ goal' \in Int
  BY DrivingAssumption DEF Drive
<1>2. PICK obstacles \in {Obstacles}, s \in {last_world'} :
        \E choice \in Choices(s, obstacles),
           plan \in Plans(CurrentPath(s), s.x, obstacles) :
        \E answer \in SelectLocalPlan(choice.phase, Projected(s),
                                      ExecPath(plan.path, choice.phase, s),
                                      choice.desired, prev_cmd_v, obstacles) :
          /\ Commit(plan, answer.cmd.attempt, s.x)
          /\ Send(answer.cmd)
          /\ Record(answer)
  BY Zenon DEF Drive
<1>3. PICK choice \in Choices(s, obstacles),
           plan \in Plans(CurrentPath(s), s.x, obstacles) :
        \E answer \in SelectLocalPlan(choice.phase, Projected(s),
                                      ExecPath(plan.path, choice.phase, s),
                                      choice.desired, prev_cmd_v, obstacles) :
          /\ Commit(plan, answer.cmd.attempt, s.x)
          /\ Send(answer.cmd)
          /\ Record(answer)
  BY <1>2, Zenon
<1>4. PICK answer \in SelectLocalPlan(choice.phase, Projected(s),
                                      ExecPath(plan.path, choice.phase, s),
                                      choice.desired, prev_cmd_v, obstacles) :
          /\ Commit(plan, answer.cmd.attempt, s.x)
          /\ Send(answer.cmd)
          /\ Record(answer)
  BY <1>3, Zenon
<1>5. /\ last_world' \in State /\ last_world'.v \in Commanded
      /\ statics' \subseteq Obstacle /\ missed' \in 0 .. MissLimit
  BY <1>1, InputsKeepTypes, Zenon
<1>6. s = last_world' /\ s \in State /\ s.v \in Commanded /\ s.x \in Int
  BY <1>5 DEF State
<1>7. /\ Path(global_path) /\ current_path_goal \subseteq Goals
      /\ prev_cmd_v \in Commanded /\ blocked_streak \in 0 .. BlockedDrop /\ x \in Int
  BY Zenon DEF DriveInv, DrivingTypeOK, Path
<1>8. Path(plan.path) /\ plan.goal \subseteq Goals /\ plan.searched \in BOOLEAN
  <2>1. Path(CurrentPath(s))
    BY <1>7, TruncatedIsPath DEF CurrentPath
  <2> QED BY <1>1, <1>6, <1>7, <2>1, PlansArePaths, Zenon
<1>9. PlanInRange(answer)
  <2>1. Projected(s) \in State /\ Projected(s).v \in Commanded
    BY <1>6, ProjectedIsState
  <2>2. ExecPath(plan.path, choice.phase, s) \in Seq(Run)
    BY <1>1, <1>6, <1>8, ExecPathIsPath, Zenon
  <2>3. choice.phase \in {"None", "ForwardRetry", "Reverse", "Hold"} /\ choice.desired \in Nat
    BY ChoicesAreTyped, Zenon
  <2> QED BY <1>4, <1>7, <2>1, <2>2, <2>3, AnswersStayInRange, Zenon
<1>10. InRange(answer.cmd) /\ answer.prev \in Commanded
  BY <1>9, Zenon DEF PlanInRange
<1>11. /\ IInv' /\ prev_linear' \in Commanded /\ mode' = mode
       /\ degraded /\ ~degraded' => goodRun' = RecoveryCycles
  BY <1>1, <1>4, <1>10, SendKeepsRange, Zenon
<1>12. prev_cmd_v' \in Commanded /\ unrecorded' \in BOOLEAN /\ drifted' \in BOOLEAN
  <2>1. drifted \in BOOLEAN
    BY Zenon DEF DriveInv, DrivingTypeOK
  <2>2. prev_cmd_v' \in Commanded
    BY <1>4, <1>10, Zenon DEF Record
  <2>3. unrecorded' \in BOOLEAN /\ drifted' \in BOOLEAN
    BY <1>4, <2>1, Zenon DEF Record
  <2> QED BY <2>2, <2>3, Zenon
<1>13. PathInv'
  BY DriveKeepsPathInv, Zenon DEF DriveInv
<1>14. /\ target_behind_streak' \in 0 .. BehindDrop /\ behindTries' \in 0 .. BehindDrop
  <2>1. target_behind_streak' \in 0 .. BehindDrop /\ behindTries' \in 0 .. BehindDrop - 1
    BY <1>13 DEF PathInv, TriesInv
  <2> QED BY <2>1, DrivingAssumption
<1>15. blocked_streak' \in 0 .. BlockedDrop
  BY <1>4, <1>7, BlockedStaysBounded, Zenon
<1>16. /\ Path(global_path') /\ current_path_goal' \subseteq Goals /\ searched' \in BOOLEAN
  <2>1. Path(<<>>)
    BY DEF Path
  <2>2. /\ global_path' = plan.path \/ global_path' = <<>>
        /\ current_path_goal' = plan.goal /\ searched' = plan.searched
    BY <1>4, CommitKeepsTries, Zenon DEF DriveInv, PathInv
  <2> QED BY <1>8, <2>1, <2>2, Zenon
<1>17. x' \in Int
  <2>1. x' = x + prev_linear' /\ prev_linear' \in Int
    BY <1>11, Zenon DEF Drive, IInv, TypeOK
  <2> QED BY <1>7, <2>1
<1>18. DrivingTypeOK'
  BY <1>1, <1>5, <1>12, <1>14, <1>15, <1>16, <1>17, Zenon DEF DrivingTypeOK, Path
<1> QED BY <1>11, <1>13, <1>18, Zenon DEF DriveInv

(* Every step of the composed loop keeps its invariant, and lifts the cap *)
(* after a full good run.                                                 *)
LEMMA DrivingKeepsDriveInv ==
  ASSUME DriveInv, [DrivingNext]_<<arbVars, driveVars>>
  PROVE  DriveInv' /\ (degraded /\ ~degraded' => goodRun' = RecoveryCycles)
<1>1. CASE Drive
  BY <1>1, DriveKeepsDriveInv, Zenon
<1>2. CASE [Next]_arbVars /\ UNCHANGED driveVars /\ (mode = "Traditional" => UNCHANGED arbVars)
  <2>1. IInv' /\ (degraded /\ ~degraded' => goodRun' = RecoveryCycles)
    BY <1>2, NextKeepsIInv, ArbitratorAssumption DEF DriveInv
  <2>2. mode' = mode
    BY <1>2 DEF Next, Arbitrate, Graduated, Ladder, EmergencyStop, arbVars, state
  <2>3. mode' = "Traditional" => prev_linear' \in Commanded
    BY <1>2, <2>2 DEF DriveInv, arbVars, state
  <2>4. DrivingTypeOK' /\ PathInv'
    BY <1>2, Zenon DEF DriveInv, DrivingTypeOK, PathInv, TriesInv, LeadsTo,
                       driveVars, worldVars, pathVars, execVars
  <2> QED BY <2>1, <2>3, <2>4, Zenon DEF DriveInv
<1>3. \/ Drive
      \/ [Next]_arbVars /\ UNCHANGED driveVars /\ (mode = "Traditional" => UNCHANGED arbVars)
  BY Zenon DEF DrivingNext, Halt, Unfollowed
<1> QED BY <1>1, <1>2, <1>3, Zenon

(***************************************************************************)
(* The theorems of the loop.                                               *)
(***************************************************************************)

(* The inductive invariant holds in every reachable state.                 *)
THEOREM DrivingInvariant == DrivingSpec => []DriveInv
<1>1. DriveInv /\ [DrivingNext]_<<arbVars, driveVars>> => DriveInv'
  BY DrivingKeepsDriveInv
<1> QED BY <1>1, DriveInvStarts, PTL DEF DrivingSpec

(* The planner's last command and the speed it is told of stay within its  *)
(* limits for each direction, whatever the executors choose and the        *)
(* arbitrator makes of it.                                                 *)
THEOREM DrivingTyped == DrivingSpec => []DrivingTypeOK
<1>1. DriveInv => DrivingTypeOK
  BY DEF DriveInv
<1> QED BY <1>1, DrivingInvariant, PTL

(* The arbitrator's guarantees hold of the commands the executors send.    *)
THEOREM DrivingStaysInEnvelope ==
  DrivingSpec => [](TypeOK /\ EnvelopeHolds /\ DegradedSlowsDown)
<1>1. DriveInv => TypeOK /\ EnvelopeHolds /\ DegradedSlowsDown
  BY IInvSlowsDown, ArbitratorAssumption DEF DriveInv, IInv
<1> QED BY <1>1, DrivingInvariant, PTL

(* The stop of stale inputs does not help a streak to lift the cap.        *)
THEOREM DrivingCapIsLiftedByGoodRun == DrivingSpec => CapLiftsAfterGoodRun
<1>1. DriveInv /\ [DrivingNext]_<<arbVars, driveVars>> =>
        [degraded /\ ~degraded' => goodRun' = RecoveryCycles]_arbVars
  BY DrivingKeepsDriveInv
<1> QED BY <1>1, DrivingInvariant, PTL DEF DrivingSpec, CapLiftsAfterGoodRun

(***************************************************************************)
(* The distances of a stop.                                                *)
(***************************************************************************)

(* A product of two successors is even.                                    *)
LEMMA Halves ==
  ASSUME NEW n \in Nat
  PROVE  (n * (n + 1)) \div 2 \in Nat /\ 2 * ((n * (n + 1)) \div 2) = n * (n + 1)
<1>1. PICK k \in Nat : n = 2 * k \/ n = 2 * k + 1
  <2>1. n \div 2 \in Nat /\ (n = 2 * (n \div 2) \/ n = 2 * (n \div 2) + 1)
    OBVIOUS
  <2> QED BY <2>1
<1>2. PICK h \in Nat : n * (n + 1) = 2 * h
  <2>1. CASE n = 2 * k
    <3>1. k * (2 * k + 1) \in Nat /\ n * (n + 1) = 2 * (k * (2 * k + 1))
      BY <2>1
    <3> QED BY <3>1
  <2>2. CASE n = 2 * k + 1
    <3>1. (2 * k + 1) * (k + 1) \in Nat /\ n * (n + 1) = 2 * ((2 * k + 1) * (k + 1))
      BY <2>2
    <3> QED BY <3>1
  <2> QED BY <1>1, <2>1, <2>2
<1>3. (2 * h) \div 2 = h
  OBVIOUS
<1> QED BY <1>2, <1>3

(* Twice the distance, without the division by two.                        *)
LEMMA StopReachTwice ==
  ASSUME NEW v \in Nat
  PROVE  /\ v \div MaxDecel \in Nat /\ StopReach(v) \in Int
         /\ 2 * StopReach(v) = 2 * ((v \div MaxDecel) * v)
              - MaxDecel * ((v \div MaxDecel) * (v \div MaxDecel + 1))
<1> DEFINE n == v \div MaxDecel
           h == (n * (n + 1)) \div 2
<1>1. MaxDecel \in Nat /\ MaxDecel > 0
  BY ArbitratorAssumption DEF ArbitratorAssumption
<1>2. n \in Nat
  BY <1>1
<1>3. StopReach(v) = n * v - MaxDecel * h
  BY DEF StopReach, Size, Larger
<1> HIDE DEF n
<1>4. h \in Nat /\ 2 * h = n * (n + 1)
  BY <1>2, Halves
<1> HIDE DEF h
<1>5. n * v \in Nat /\ MaxDecel * h \in Nat /\ MaxDecel * (2 * h) = 2 * (MaxDecel * h)
  BY <1>1, <1>2, <1>4
<1>6. 2 * (n * v - MaxDecel * h) = 2 * (n * v) - MaxDecel * (n * (n + 1))
  BY <1>4, <1>5
<1>7. StopReach(v) \in Int /\ 2 * StopReach(v) = 2 * (n * v) - MaxDecel * (n * (n + 1))
  BY <1>3, <1>5, <1>6
<1> QED BY <1>2, <1>7 DEF n

(* One cycle of the stop: below MaxDecel it is over at once.               *)
LEMMA StopReachStep ==
  ASSUME NEW v \in Nat
  PROVE  /\ v <= MaxDecel => StopReach(v) = 0
         /\ v >= MaxDecel => StopReach(v) = v - MaxDecel + StopReach(v - MaxDecel)
<1> DEFINE d == MaxDecel
           n == v \div d
<1>1. d \in Nat /\ d > 0
  BY ArbitratorAssumption DEF ArbitratorAssumption
<1>2. n \in Nat /\ StopReach(v) \in Int
      /\ 2 * StopReach(v) = 2 * (n * v) - d * (n * (n + 1))
  BY StopReachTwice
<1>3. CASE v < d
  <2>1. n = 0
    BY <1>1, <1>3
  <2>2. n * v = 0 /\ d * (n * (n + 1)) = 0
    <3> HIDE DEF n
    <3> QED BY <1>1, <2>1
  <2> HIDE DEF n
  <2>3. StopReach(v) = 0
    BY <1>2, <2>2
  <2> QED BY <1>1, <1>3, <2>3 DEF d
<1>4. CASE v >= d
  <2> DEFINE w == v - d
             m == w \div d
  <2>1. w \in Nat
    BY <1>1, <1>4
  <2>2. m \in Nat /\ StopReach(w) \in Int
        /\ 2 * StopReach(w) = 2 * (m * w) - d * (m * (m + 1))
    BY <2>1, StopReachTwice
  <2>3. n = m + 1
    BY <1>1, <1>4
  <2> HIDE DEF n, m
  <2> DEFINE q == d * m
             r == d * (m * m)
             p == m * v
  <2>4. q \in Int /\ r \in Int /\ p \in Int
    BY <1>1, <2>2
  <2>5. m * w = p - q
    BY <1>1, <2>2
  <2>6. d * (m * (m + 1)) = r + q
    BY <1>1, <2>2
  <2>7. n * v = p + v
    BY <2>2, <2>3
  <2>8. d * (n * (n + 1)) = r + 3 * q + 2 * d
    <3>1. n * (n + 1) = m * m + 3 * m + 2
      BY <2>2, <2>3
    <3>2. m * m \in Int /\ d * (m * m + 3 * m + 2) = r + 3 * q + 2 * d
      BY <1>1, <2>2
    <3> QED BY <3>1, <3>2
  <2> HIDE DEF q, r, p
  <2>9. 2 * StopReach(v) = 2 * StopReach(w) + 2 * w
    <3>1. 2 * StopReach(v) = 2 * (p + v) - (r + 3 * q + 2 * d)
      BY <1>2, <2>7, <2>8
    <3>2. 2 * StopReach(w) = 2 * (p - q) - (r + q)
      BY <2>2, <2>5, <2>6
    <3> QED BY <1>1, <2>1, <2>4, <3>1, <3>2
  <2>10. StopReach(v) = v - d + StopReach(v - d)
    BY <1>2, <2>1, <2>2, <2>9
  <2>11. v = d => w = 0 /\ StopReach(w) = 0
    <3>1. v = d => w = 0
      BY <1>1
    <3>2. 0 \div d = 0
      BY <1>1
    <3>3. w = 0 => m = 0
      BY <3>2 DEF m
    <3>4. w = 0 => q = 0 /\ r = 0 /\ p = 0
      BY <1>1, <3>3 DEF q, r, p
    <3>5. ASSUME w = 0 PROVE StopReach(w) = 0
      <4>1. m * w = 0 /\ d * (m * (m + 1)) = 0
        BY <2>4, <2>5, <2>6, <3>4, <3>5
      <4>2. 2 * StopReach(w) = 2 * 0 - 0
        BY <2>2, <4>1
      <4> QED BY <2>2, <4>2
    <3> QED BY <3>1, <3>5
  <2> QED BY <1>1, <1>4, <2>10, <2>11 DEF d
<1> QED BY <1>1, <1>3, <1>4

(* A nonempty set of numbers has a least.                                  *)
LEMMA LeastSpeed ==
  ASSUME NEW S \in SUBSET Nat, S # {}
  PROVE  \E n \in S : \A m \in S : n <= m
<1>1. PICK n \in S : \A m \in S : ~ (<<m, n>> \in OpToRel(<, Nat))
  BY NatLessThanWellFounded, WFMin, Zenon
<1>2. ASSUME NEW m \in S PROVE n <= m
  <2>1. m \in Nat /\ n \in Nat
    OBVIOUS
  <2>2. m < n => <<m, n>> \in OpToRel(<, Nat)
    BY <2>1, Zenon DEF OpToRel
  <2>3. ~ (m < n)
    BY <1>1, <2>2, Zenon
  <2> QED BY <2>1, <2>3, SMT
<1> QED BY <1>2

(* The distance grows with the speed.                                      *)
LEMMA StopReachGrows ==
  ASSUME NEW v \in Nat
  PROVE  StopReach(v) \in Nat /\ \A u \in 0 .. v : StopReach(u) <= StopReach(v)
<1> DEFINE d == MaxDecel
           Good(w) == StopReach(w) \in Nat /\ \A u \in 0 .. w : StopReach(u) <= StopReach(w)
           bad == {w \in Nat : ~Good(w)}
<1>1. d \in Nat /\ d > 0
  BY ArbitratorAssumption DEF ArbitratorAssumption
<1>2. CASE bad = {}
  BY <1>2
<1>3. CASE bad # {}
  <2>1. PICK w \in bad : \A u \in bad : w <= u
    <3>1. bad \in SUBSET Nat
      OBVIOUS
    <3> HIDE DEF bad
    <3> QED BY <1>3, <3>1, LeastSpeed
  <2>2. w \in Nat /\ ~Good(w)
    OBVIOUS
  <2>3. \A u \in Nat : u < w => Good(u)
    BY <2>1
  <2> HIDE DEF bad
  <2>4. CASE w <= d
    <3>1. \A u \in 0 .. w : StopReach(u) = 0
      BY <1>1, <2>2, <2>4, StopReachStep
    <3> QED BY <2>2, <3>1
  <2>5. CASE w > d
    <3>1. Good(w - d) /\ w - d \in Nat
      BY <1>1, <2>2, <2>3, <2>5
    <3>2. StopReach(w) = w - d + StopReach(w - d)
      BY <1>1, <2>2, <2>5, StopReachStep
    <3>3. StopReach(w) \in Nat
      BY <1>1, <3>1, <3>2
    <3>4. ASSUME NEW u \in 0 .. w PROVE StopReach(u) <= StopReach(w)
      <4>1. CASE u <= d
        <5>1. StopReach(u) = 0
          BY <4>1, StopReachStep
        <5> QED BY <3>3, <5>1
      <4>2. CASE u > d
        <5>1. StopReach(u) = u - d + StopReach(u - d)
          BY <1>1, <4>2, StopReachStep
        <5>2. u - d \in 0 .. w - d
          BY <1>1, <2>2, <4>2
        <5>3. StopReach(u - d) <= StopReach(w - d)
          BY <3>1, <5>2
        <5>4. StopReach(u - d) \in Int
          BY <5>2, StopReachTwice, <3>1
        <5> QED BY <1>1, <2>2, <3>1, <3>2, <5>1, <5>3, <5>4
      <4> QED BY <1>1, <2>2, <4>1, <4>2
    <3> QED BY <2>2, <3>3, <3>4
  <2> QED BY <1>1, <2>2, <2>4, <2>5
<1> QED BY <1>2, <1>3

(* The rollouts allow for a stop.                                          *)
LEMMA BrakeDistanceCovers ==
  ASSUME NEW v \in Nat, DwaDecel = MaxDecel
  PROVE  BrakeDistance(v) \in Nat /\ StopReach(v) <= BrakeDistance(v)
<1> DEFINE d == MaxDecel
           n == v \div d
           s == StopReach(v)
           q == d * n
           b == v * v + 2 * d - 1
<1>1. d \in Nat /\ d > 0
  BY ArbitratorAssumption DEF ArbitratorAssumption
<1>2. n \in Nat /\ s \in Nat /\ 2 * s = 2 * (n * v) - d * (n * (n + 1))
  BY StopReachTwice, StopReachGrows
<1> HIDE DEF n, s
<1>3. q \in Nat /\ d * q \in Nat
  BY <1>1, <1>2
<1>4. 2 * d * s = 2 * (q * v) - q * q - d * q
  <2>1. d * (2 * s) = d * (2 * (n * v)) - d * (d * (n * (n + 1)))
    <3>1. n * v \in Int /\ d * (n * (n + 1)) \in Int
      BY <1>1, <1>2
    <3> QED BY <1>1, <1>2, <3>1
  <2>2. d * (2 * (n * v)) = 2 * (q * v)
    BY <1>1, <1>2
  <2>3. d * (d * (n * (n + 1))) = q * q + d * q
    BY <1>1, <1>2
  <2>4. d * (2 * s) = 2 * d * s
    BY <1>1, <1>2
  <2> HIDE DEF q
  <2> QED BY <1>1, <1>3, <2>1, <2>2, <2>3, <2>4
<1>5. (v - q) * (v - q) >= 0 /\ (v - q) * (v - q) = v * v - 2 * (q * v) + q * q
  <2> HIDE DEF q
  <2>1. \A a \in Int : a * a >= 0
    OBVIOUS
  <2> QED BY <1>3, <2>1
<1>6. 2 * d * s <= v * v
  <2> DEFINE vv == v * v
             qv == q * v
             qq == q * q
             dq == d * q
             ds == 2 * d * s
  <2>1. vv \in Int /\ qv \in Int /\ qq \in Int /\ dq \in Nat /\ ds \in Int
    BY <1>1, <1>2, <1>3
  <2>2. ds = 2 * qv - qq - dq /\ vv - 2 * qv + qq >= 0
    BY <1>4, <1>5
  <2> HIDE DEF vv, qv, qq, dq, ds
  <2>3. ds <= vv
    BY <2>1, <2>2
  <2> QED BY <2>3 DEF vv, ds
<1>7. BrakeDistance(v) = b \div (2 * d)
  BY DEF BrakeDistance
<1>8. b \in Nat /\ b >= (2 * d) * s
  BY <1>1, <1>2, <1>6
<1> HIDE DEF b
<1>9. b \div (2 * d) \in Nat /\ b \div (2 * d) >= s
  <2> DEFINE e == 2 * d
  <2>1. e \in Nat /\ e > 0 /\ b >= e * s
    BY <1>1, <1>8
  <2> HIDE DEF e
  <2>2. b \div e \in Nat /\ b < e * (b \div e) + e
    BY <1>8, <2>1
  <2>3. e * s < e * (b \div e + 1)
    BY <1>2, <1>8, <2>1, <2>2
  <2>4. s < b \div e + 1
    <3> DEFINE k == b \div e + 1
    <3>1. k \in Nat /\ e * s < e * k
      BY <2>2, <2>3
    <3> HIDE DEF k
    <3>2. ~(s >= k)
      BY <1>2, <2>1, <3>1
    <3> QED BY <1>2, <3>1, <3>2 DEF k
  <2> QED BY <1>2, <2>2, <2>4 DEF e
<1> QED BY <1>7, <1>9 DEF s

(***************************************************************************)
(* The room on the lane before an obstacle that closes it.                 *)
(***************************************************************************)

Closing == {o \in Obstacle : o.off = 0}

(* How far the robot at y may go in direction sign before its footprint    *)
(* touches o, and how fast it goes there.                                  *)
Room(sign, y, o) == sign * (o.at - y) - (Footprint + o.radius)
Toward(sign, v)  == Larger(0, sign * v)

(* At y and speed v it stops before o. *)
KeepsRoom(sign, y, v, o) == StopReach(Toward(sign, v)) <= Room(sign, y, o)

(* The parts of an obstacle that closes the lane.                          *)
LEMMA ClosingParts ==
  ASSUME NEW o \in Closing
  PROVE  o.at \in Int /\ o.radius \in Nat /\ o.off = 0
BY DEF Closing, Obstacle

(* The distance of a sweep is an integer.                                  *)
LEMMA SweptIsInteger ==
  ASSUME NEW o \in Closing, NEW y \in Int, NEW d \in Int
  PROVE  SweptDistance(y, d, o) \in Int
<1>1. o.at \in Int /\ o.radius \in Nat /\ o.off = 0
  BY ClosingParts
<1> QED BY <1>1 DEF SweptDistance, NetDistance, Between, Larger, Smaller, Size

(* A sweep that starts before an obstacle that closes the lane ends before *)
(* it, at the distance required.                                           *)
LEMMA SweepEndsBefore ==
  ASSUME NEW o \in Closing, NEW sign \in {-1, 1}, NEW y \in Int, NEW d \in Int,
         sign * d >= 0, sign * (o.at - y) > 0, NEW need \in Int, need + o.radius > 0,
         SweptDistance(y, d, o) >= need
  PROVE  sign * d + need <= sign * (o.at - y) - o.radius
<1>1. o.at \in Int /\ o.radius \in Nat /\ o.off = 0
  BY ClosingParts
<1>2. CASE sign = 1
  BY <1>1, <1>2 DEF SweptDistance, NetDistance, Between, Larger, Smaller, Size
<1>3. CASE sign = -1
  BY <1>1, <1>3 DEF SweptDistance, NetDistance, Between, Larger, Smaller, Size
<1> QED BY <1>2, <1>3

(* The distance of what is driven is an integer.                           *)
LEMMA DrivenIsInteger ==
  ASSUME NEW o \in Closing, NEW y \in Int, NEW d \in Int
  PROVE  DrivenDistance(y, d, o) \in Int
<1>1. o.at \in Int /\ o.radius \in Nat /\ o.off = 0
  BY ClosingParts
<1>2. NetDistance(y, o) \in Int
  BY <1>1 DEF NetDistance, Larger, Size
<1>3. y + Sign(d) \in Int /\ d - Sign(d) \in Int
  BY DEF Sign
<1>4. SweptDistance(y + Sign(d), d - Sign(d), o) \in Int
  BY <1>3, SweptIsInteger
<1> QED BY <1>2, <1>4 DEF DrivenDistance

(* What is driven ahead, from a pose before an obstacle that closes the    *)
(* lane, ends before it: no step passes through it unseen.                 *)
LEMMA DrivenEndsBefore ==
  ASSUME NEW o \in Closing, NEW y \in Int, NEW d \in Nat, o.at - y > 0,
         NEW need \in Int, need + o.radius > 0, DrivenDistance(y, d, o) >= need
  PROVE  d + need <= (o.at - y) - o.radius
<1>1. o.at \in Int /\ o.radius \in Nat /\ o.off = 0
  BY ClosingParts
<1>2. CASE d = 0
  <2>1. NetDistance(y, o) >= need
    BY <1>2 DEF DrivenDistance
  <2> QED BY <1>1, <1>2, <2>1 DEF NetDistance, Larger, Size
<1>3. CASE d > 0
  <2>1. SweptDistance(y + 1, d - 1, o) >= need
    <3>1. Sign(d) = 1 /\ d # 0
      BY <1>3 DEF Sign
    <3> QED BY <3>1 DEF DrivenDistance
  <2> QED BY <1>1, <1>3, <2>1 DEF SweptDistance, NetDistance, Between, Larger, Smaller, Size
<1> QED BY <1>2, <1>3

(* Where there is room for a sweep it stays clear, and the other way round *)
(* for the side the obstacle is on.                                        *)
LEMMA RoomIsClear ==
  ASSUME Footprint > 0, NEW o \in Closing, NEW y \in Int, NEW v \in Int
  PROVE  SweptDistance(y, Sign(v) * StopReach(v), o) >= Footprint <=>
           KeepsRoom(IF y < o.at THEN 1 ELSE -1, y, v, o)
<1>1. o.at \in Int /\ o.radius \in Nat /\ o.off = 0 /\ Footprint \in Nat
  BY ClosingParts, ClearanceAssumption
<1>2. PICK r \in Nat : StopReach(v) = r /\ StopReach(Size(v)) = r
  <2>1. Size(v) \in Nat /\ Size(Size(v)) = Size(v)
    BY DEF Size, Larger
  <2>2. StopReach(v) = StopReach(Size(v))
    BY <2>1 DEF StopReach
  <2> QED BY <2>1, <2>2, StopReachGrows
<1>3. StopReach(0) = 0
  BY StopReachStep, ArbitratorAssumption DEF ArbitratorAssumption
<1>4. CASE y < o.at /\ v >= 0
  <2>1. Toward(1, v) = Size(v) /\ Sign(v) * r = r
    BY <1>2, <1>4 DEF Toward, Size, Larger, Sign
  <2>2. KeepsRoom(1, y, v, o) <=> r <= Room(1, y, o)
    BY <1>2, <2>1 DEF KeepsRoom
  <2>3. SweptDistance(y, r, o) >= Footprint <=> r <= Room(1, y, o)
    BY <1>1, <1>2, <1>4 DEF Room, SweptDistance, NetDistance, Between, Larger, Smaller, Size
  <2> QED BY <1>2, <1>4, <2>1, <2>2, <2>3
<1>5. CASE y < o.at /\ v < 0
  <2>1. Toward(1, v) = 0 /\ Sign(v) * r = -r
    BY <1>2, <1>5 DEF Toward, Size, Larger, Sign
  <2>2. KeepsRoom(1, y, v, o) <=> 0 <= Room(1, y, o)
    BY <1>3, <2>1 DEF KeepsRoom
  <2>3. SweptDistance(y, -r, o) >= Footprint <=> 0 <= Room(1, y, o)
    BY <1>1, <1>2, <1>5 DEF Room, SweptDistance, NetDistance, Between, Larger, Smaller, Size
  <2> QED BY <1>2, <1>5, <2>1, <2>2, <2>3
<1>6. CASE ~(y < o.at) /\ v >= 0
  <2>1. Toward(-1, v) = 0 /\ Sign(v) * r = r
    BY <1>2, <1>6 DEF Toward, Size, Larger, Sign
  <2>2. KeepsRoom(-1, y, v, o) <=> 0 <= Room(-1, y, o)
    BY <1>3, <2>1 DEF KeepsRoom
  <2>3. SweptDistance(y, r, o) >= Footprint <=> 0 <= Room(-1, y, o)
    BY <1>1, <1>2, <1>6 DEF Room, SweptDistance, NetDistance, Between, Larger, Smaller, Size
  <2> QED BY <1>2, <1>6, <2>1, <2>2, <2>3
<1>7. CASE ~(y < o.at) /\ v < 0
  <2>1. Toward(-1, v) = Size(v) /\ Sign(v) * r = -r
    BY <1>2, <1>7 DEF Toward, Size, Larger, Sign
  <2>2. KeepsRoom(-1, y, v, o) <=> r <= Room(-1, y, o)
    BY <1>2, <2>1 DEF KeepsRoom
  <2>3. SweptDistance(y, -r, o) >= Footprint <=> r <= Room(-1, y, o)
    BY <1>1, <1>2, <1>7 DEF Room, SweptDistance, NetDistance, Between, Larger, Smaller, Size
  <2> QED BY <1>2, <1>7, <2>1, <2>2, <2>3
<1> QED BY <1>4, <1>5, <1>6, <1>7

(* Room on one side leaves the obstacle on that side.                      *)
LEMMA RoomHasASide ==
  ASSUME Footprint > 0, NEW o \in Closing, NEW sign \in {-1, 1}, NEW y \in Int, NEW v \in Int,
         KeepsRoom(sign, y, v, o)
  PROVE  /\ sign = (IF y < o.at THEN 1 ELSE -1)
         /\ 0 <= Room(sign, y, o) /\ Room(sign, y, o) \in Int
<1>1. o.at \in Int /\ o.radius \in Nat /\ Footprint \in Nat
  BY ClosingParts, ClearanceAssumption
<1>2. StopReach(Toward(sign, v)) \in Nat
  <2>1. Toward(sign, v) \in Nat
    BY DEF Toward, Larger
  <2> QED BY <2>1, StopReachGrows
<1>3. 0 <= Room(sign, y, o) /\ Room(sign, y, o) \in Int
  BY <1>1, <1>2 DEF KeepsRoom, Room
<1> QED BY <1>1, <1>3 DEF Room

(* A margin is an integer.                                                 *)
LEMMA MarginIsInteger ==
  ASSUME NEW v \in Nat, NEW base \in Int
  PROVE  SpeedScaledRadius(v, base) \in Int
<1> DEFINE margin == Larger(0, base - Footprint)
           span   == FullMarginSpeed - Crawl
           k      == (10 - LowScale) * Between(Size(v) - Crawl, 0, span)
           scale  == LowScale + k \div span
           extra  == HighGain * Larger(0, Size(v) - HighSpeed)
<1>1. /\ Footprint \in Nat /\ Crawl \in Nat /\ LowScale \in Nat /\ HighGain \in Nat
      /\ HighSpeed \in Nat /\ span \in Nat /\ span > 0
  BY ClearanceAssumption
<1>2. margin \in Int /\ Between(Size(v) - Crawl, 0, span) \in Int /\ Larger(0, Size(v) - HighSpeed) \in Int
  BY <1>1 DEF Between, Larger, Smaller, Size
<1>3. k \in Int /\ extra \in Int
  BY <1>1, <1>2
<1> HIDE DEF k
<1>4. scale \in Int
  BY <1>1, <1>3
<1>5. SpeedScaledRadius(v, base) = Footprint + (margin * scale + 9) \div 10 + extra
  BY DEF SpeedScaledRadius, k
<1> HIDE DEF margin, span, scale, extra
<1> QED BY <1>1, <1>2, <1>3, <1>4, <1>5

(* The margins are never below the footprint, and at no speed smaller than *)
(* standing still.                                                         *)
LEMMA MarginsGrow ==
  ASSUME LowScale <= 10, NEW v \in Nat, NEW base \in Int
  PROVE  /\ SpeedScaledRadius(v, base) \in Int
         /\ SpeedScaledRadius(0, base) \in Int /\ SpeedScaledRadius(0, base) >= Footprint
         /\ SpeedScaledRadius(v, base) >= SpeedScaledRadius(0, base)
<1> DEFINE margin == Larger(0, base - Footprint)
           span   == FullMarginSpeed - Crawl
           Scale(u) == LowScale + ((10 - LowScale) * Between(Size(u) - Crawl, 0, span)) \div span
           Extra(u) == HighGain * Larger(0, Size(u) - HighSpeed)
           Scaled(u) == (margin * Scale(u) + 9) \div 10
<1>1. /\ Footprint \in Nat /\ Crawl \in Nat /\ Crawl > 0 /\ FullMarginSpeed \in Nat
      /\ LowScale \in Nat /\ HighGain \in Nat /\ HighSpeed \in Nat
      /\ span \in Nat /\ span > 0
  BY ClearanceAssumption
<1>2. margin \in Nat
  BY <1>1 DEF Larger
<1>3. \A u : SpeedScaledRadius(u, base) = Footprint + Scaled(u) + Extra(u)
  BY DEF SpeedScaledRadius
<1>4. Scale(v) \in Nat /\ LowScale <= Scale(v)
  <2> DEFINE b == Between(Size(v) - Crawl, 0, span)
             k == (10 - LowScale) * b
  <2>1. b \in Nat /\ 10 - LowScale \in Nat
    BY <1>1 DEF Between, Larger, Smaller, Size
  <2>2. k \in Nat
    <3> HIDE DEF b
    <3> QED BY <2>1
  <2> HIDE DEF k, span
  <2>3. k \div span \in Nat
    BY <1>1, <2>2
  <2>4. Scale(v) = LowScale + k \div span
    BY DEF k
  <2> QED BY <1>1, <2>3, <2>4
<1>5. Scale(0) = LowScale
  <2>1. Between(Size(0) - Crawl, 0, span) = 0
    BY <1>1 DEF Between, Larger, Smaller, Size
  <2>2. (10 - LowScale) * 0 = 0 /\ 0 \div span = 0
    BY <1>1
  <2> HIDE DEF span
  <2> QED BY <1>1, <2>1, <2>2
<1>6. Extra(v) \in Nat /\ Extra(0) = 0
  <2>1. Larger(0, Size(v) - HighSpeed) \in Nat /\ Larger(0, Size(0) - HighSpeed) = 0
    BY <1>1 DEF Larger, Size
  <2>2. \A n \in Nat : HighGain * n \in Nat /\ HighGain * 0 = 0
    BY <1>1
  <2> QED BY <2>1, <2>2
<1> HIDE DEF margin, span, Scale, Extra
<1>7. Scaled(0) \in Nat /\ Scaled(v) \in Nat /\ Scaled(0) <= Scaled(v)
  <2> DEFINE p == margin * Scale(0)
             q == margin * Scale(v)
  <2>1. p \in Nat /\ q \in Nat /\ p <= q
    <3>1. \A a, b, c \in Nat : b <= c => a * b \in Nat /\ a * c \in Nat /\ a * b <= a * c
      OBVIOUS
    <3> QED BY <1>1, <1>2, <1>4, <1>5, <3>1
  <2> HIDE DEF p, q
  <2>2. (p + 9) \div 10 \in Nat /\ (q + 9) \div 10 \in Nat /\ (p + 9) \div 10 <= (q + 9) \div 10
    BY <2>1
  <2> QED BY <2>2 DEF p, q
<1> HIDE DEF Scaled
<1> QED BY <1>1, <1>3, <1>6, <1>7

(* Repeating a step on a set X: f[n] is reached from the base in n steps.  *)
IsStep(step, N, X) == \A n \in 1 .. N : \A a \in X : step[n][a] \in X
Iterates(f, step, base, N, X) ==
  f \in [0 .. N -> X] /\ f[0] = base /\ \A n \in 1 .. N : f[n] = step[n][f[n - 1]]

(* Repeating a step from a start gives a function of the number of steps.  *)
LEMMA Iteration ==
  ASSUME NEW N \in Nat, NEW X, NEW base \in X, NEW step, IsStep(step, N, X)
  PROVE  \E f : Iterates(f, step, base, N, X)
<1> USE DEF IsStep, Iterates
<1> DEFINE Good(k, f) == f \in [0 .. k -> X] /\ f[0] = base
                           /\ \A n \in 1 .. k : f[n] = step[n][f[n - 1]]
           bad == {k \in 0 .. N : ~ \E f : Good(k, f)}
<1>1. CASE bad # {}
  <2>1. bad \in SUBSET Nat
    OBVIOUS
  <2>2. PICK k \in bad : \A m \in bad : k <= m
    <3> HIDE DEF bad
    <3> QED BY <1>1, <2>1, LeastSpeed, Zenon
  <2>3. k \in 0 .. N /\ ~ \E f : Good(k, f)
    OBVIOUS
  <2>4. CASE k = 0
    <3> DEFINE f == [i \in 0 .. 0 |-> base]
    <3>1. f \in [0 .. 0 -> X] /\ f[0] = base /\ 1 .. 0 = {}
      OBVIOUS
    <3>2. Good(0, f)
      BY <3>1
    <3> QED BY <2>3, <2>4, <3>2, Zenon
  <2>5. CASE k # 0
    <3>1. k - 1 \in 0 .. N /\ ~ (k <= k - 1) /\ k \in 1 .. N
      BY <2>3, <2>5
    <3>2. ~ (k - 1 \in bad)
      BY <2>2, <3>1, Zenon
    <3>3. PICK f : Good(k - 1, f)
      BY <3>1, <3>2, Zenon
    <3> DEFINE y == step[k][f[k - 1]]
               g == [i \in 0 .. k |-> IF i = k THEN y ELSE f[i]]
    <3>4. f[k - 1] \in X
      BY <3>1, <3>3
    <3>5. y \in X
      BY <3>1, <3>4, Zenon
    <3>6. g \in [0 .. k -> X]
      <4> HIDE DEF y
      <4> QED BY <3>1, <3>3, <3>5
    <3>7. g[0] = base
      BY <2>5, <3>1, <3>3
    <3>8. ASSUME NEW n \in 1 .. k PROVE g[n] = step[n][g[n - 1]]
      <4>1. n - 1 \in 0 .. k /\ n \in 0 .. k /\ n - 1 # k
        BY <3>1
      <4>2. g[n - 1] = f[n - 1]
        BY <4>1
      <4>3. CASE n = k
        BY <4>1, <4>2, <4>3
      <4>4. CASE n # k
        <5>1. n \in 1 .. k - 1
          BY <3>1, <4>4
        <5>2. g[n] = f[n]
          BY <4>1, <4>4
        <5> QED BY <3>3, <4>2, <5>1, <5>2
      <4> QED BY <4>3, <4>4
    <3>9. Good(k, g)
      <4> HIDE DEF g
      <4> QED BY <3>6, <3>7, <3>8
    <3> QED BY <2>3, <3>9, Zenon
  <2> QED BY <2>4, <2>5
<1>2. CASE bad = {}
  <2>1. N \in 0 .. N
    OBVIOUS
  <2>2. ~ (N \in bad)
    BY <1>2, Zenon
  <2>3. PICK f : Good(N, f)
    BY <2>1, <2>2, Zenon
  <2> QED BY <2>3
<1> QED BY <1>1, <1>2

(* What holds of zero and of every successor holds up to N.                *)
LEMMA CountingUp ==
  ASSUME NEW N \in Nat, NEW S, 0 \in S, \A k \in 1 .. N : k - 1 \in S => k \in S
  PROVE  0 .. N \subseteq S
<1> DEFINE bad == {k \in 0 .. N : k \notin S}
<1>1. CASE bad = {}
  BY <1>1
<1>2. CASE bad # {}
  <2>1. bad \in SUBSET Nat
    OBVIOUS
  <2>2. PICK k \in bad : \A m \in bad : k <= m
    <3> HIDE DEF bad
    <3> QED BY <1>2, <2>1, LeastSpeed
  <2>3. k \in 0 .. N /\ k \notin S /\ k # 0
    OBVIOUS
  <2>4. k \in 1 .. N /\ k - 1 \in 0 .. N /\ ~(k <= k - 1)
    BY <2>3
  <2>5. k - 1 \in S
    BY <2>2, <2>4
  <2> QED BY <2>3, <2>4, <2>5
<1> QED BY <1>1, <1>2

(***************************************************************************)
(* What a command was verified for.                                        *)
(***************************************************************************)

(* A command at speed u in direction sign, from a projected pose reached at*)
(* speed v, was found clear as far as one of the executors looks.          *)
Verified(sign, v, u, room) ==
  \/ /\ sign = 1 /\ u \in 1 .. DwaSpeed
     /\ \/ v >= 0 /\ Smaller(ArcReach(u), MpcReach(u)) <= room
        \/ u <= v + DwaAccel /\ ArcReach(u) <= room
        \/ v = 0 /\ u <= DwaAccel /\ Horizon * u <= room
  \/ /\ sign = -1
     /\ \/ v <= 0 /\ ArcReach(u) <= room
        \/ u = ReverseSpeed /\ ReverseDistance <= room - Delay * v

(* The obstacle lies ahead of the projected pose, and the pose held keeps  *)
(* clear of it.                                                            *)
Before(sign, s, o) ==
  sign * (o.at - s.x) > 0 /\ 0 <= Room(sign, s.x - Delay * s.v, o)

(* Towards an obstacle that closes the lane a command is verified or a     *)
(* cycle of the ramp from the last one.                                    *)
Grounded(cmd, prev, s, obstacles) ==
  \A o \in obstacles \cap Closing : \A sign \in {-1, 1} :
    sign * cmd.linear > 0 /\ Before(sign, s, o) =>
      \/ cmd.ramp /\ sign * cmd.linear <= sign * prev - DwaDecel
      \/ Verified(sign, s.v, sign * cmd.linear, Room(sign, s.x, o))

(* The horizon's sweep has a length, the same in both directions.          *)
LEMMA ArcHasLength ==
  ASSUME DwaDecel = MaxDecel, NEW u \in Nat \ {0}
  PROVE  /\ ArcReach(u) \in Nat /\ ArcReach(u) > 0
         /\ \A sign \in {-1, 1} : ArcReach(sign * u) = ArcReach(u)
<1>1. BrakeDistance(u) \in Nat
  BY BrakeDistanceCovers
<1>2. Horizon \in Nat /\ Horizon > 0 /\ Pad \in Nat
  BY ClearanceAssumption
<1>3. Horizon * u \in Nat /\ Horizon * u > 0
  <2>1. Horizon * u \in Nat /\ u \in Nat /\ Horizon # 0 /\ u # 0
    BY <1>2
  <2>2. \A a, b \in Nat : a * b = 0 => a = 0 \/ b = 0
    OBVIOUS
  <2> QED BY <1>2, <2>1, <2>2
<1>4. ArcReach(u) = Horizon * u + Pad + BrakeDistance(u)
  BY DEF ArcReach, Size, Larger
<1>5. ASSUME NEW sign \in {-1, 1} PROVE ArcReach(sign * u) = ArcReach(u)
  <2>1. Size(sign * u) = u /\ (sign * u) * (sign * u) = u * u
    BY DEF Size, Larger
  <2>2. BrakeDistance(sign * u) = BrakeDistance(u)
    BY <2>1 DEF BrakeDistance
  <2> QED BY <1>4, <2>1, <2>2 DEF ArcReach
<1> QED BY <1>1, <1>2, <1>3, <1>4, <1>5

(* Pursuit's check reaches as far as its sweep: a pose that is already too *)
(* close cannot come closer.                                               *)
LEMMA PursuitReaches ==
  ASSUME Footprint > 0, DwaDecel = MaxDecel, NEW obstacles, NEW o \in obstacles \cap Closing,
         NEW sign \in {-1, 1}, NEW y \in Int, NEW u \in Nat \ {0},
         PursuitClear(y, sign * u, obstacles), sign * (o.at - y) > 0
  PROVE  ArcReach(u) <= Room(sign, y, o)
<1> DEFINE R     == ArcReach(u)
           d0    == NetDistance(y, o)
           allow == WedgedAllowance(y, o, SpeedScaledRadius(sign * u, RobotRadius))
<1>1. o.at \in Int /\ o.radius \in Nat /\ o.off = 0 /\ o \in Closing
  BY ClosingParts
<1>2. R \in Nat /\ R > 0 /\ ArcReach(sign * u) = R
  BY ArcHasLength
<1>3. Sign(sign * u) = sign
  BY DEF Sign
<1>4. SweptDistance(y + sign, sign * (R - 1), o) >= allow
  <2> HIDE DEF R, allow
  <2> QED BY <1>2, <1>3 DEF PursuitClear, allow
<1>5. d0 = sign * (o.at - y) - o.radius /\ d0 \in Int
  BY <1>1 DEF NetDistance, Larger, Size
<1>6. SpeedScaledRadius(sign * u, RobotRadius) \in Int
  <2>1. Size(sign * u) = u /\ Size(u) = u
    BY DEF Size, Larger
  <2>2. SpeedScaledRadius(sign * u, RobotRadius) = SpeedScaledRadius(u, RobotRadius)
    BY <2>1 DEF SpeedScaledRadius
  <2>3. FullMarginSpeed - Crawl \in Nat /\ FullMarginSpeed - Crawl > 0
    BY ClearanceAssumption
  <2>4. SpeedScaledRadius(u, RobotRadius) \in Int
    BY MarginIsInteger, ClearanceAssumption
  <2> QED BY <2>2, <2>4
<1>7. allow \in Int /\ allow >= Smaller(Floor, d0)
  <2> DEFINE required == SpeedScaledRadius(sign * u, RobotRadius)
  <2>1. Slack \in Nat /\ Floor \in Nat
    BY ClearanceAssumption
  <2>2. allow = Larger(Smaller(required, d0) - Slack, Smaller(Floor, d0))
    BY DEF WedgedAllowance
  <2> HIDE DEF required, d0, allow
  <2> QED BY <1>5, <1>6, <2>1, <2>2 DEF Larger, Smaller, required
<1> HIDE DEF R, allow
<1>8. Floor \in Nat /\ Footprint <= Floor /\ Footprint \in Nat
  BY ClearanceAssumption
<1>9. allow + o.radius > 0
  BY <1>1, <1>5, <1>7, <1>8 DEF Smaller
<1>10. sign * (o.at - (y + sign)) > 0
  <2>1. o.at # y + sign
    <3>1. ASSUME o.at = y + sign PROVE FALSE
      <4>1. SweptDistance(y + sign, sign * (R - 1), o) = -o.radius
        BY <1>1, <1>2, <3>1 DEF SweptDistance, NetDistance, Between, Larger, Smaller, Size
      <4> QED BY <1>1, <1>4, <1>7, <1>9, <4>1
    <3> QED BY <3>1
  <2> QED BY <1>1, <2>1
<1>11. sign * (sign * (R - 1)) = R - 1 /\ sign * (R - 1) \in Int
  BY <1>2
<1>12. R - 1 + allow <= sign * (o.at - (y + sign)) - o.radius
  BY <1>1, <1>2, <1>4, <1>7, <1>9, <1>10, <1>11, SweepEndsBefore
<1>13. R + allow <= d0
  BY <1>1, <1>2, <1>5, <1>7, <1>12
<1>14. R + Floor <= d0
  BY <1>2, <1>5, <1>7, <1>8, <1>13 DEF Smaller
<1> QED BY <1>1, <1>2, <1>5, <1>8, <1>14 DEF Room, R

(* A command that asks for no speed needs no room.                         *)
LEMMA StandingIsGrounded ==
  ASSUME NEW cmd, cmd.linear = 0, NEW prev, NEW s, NEW obstacles
  PROVE  Grounded(cmd, prev, s, obstacles)
BY DEF Grounded

(* The fields of an answer.                                                *)
LEMMA AnswerFields ==
  ASSUME NEW v, NEW why
  PROVE  /\ Commands(v).linear = v /\ Commands(v).ramp = FALSE
         /\ Ramps(v).linear = v /\ Ramps(v).ramp = TRUE
         /\ Defers(why).linear = 0 /\ Defers(why).ramp = FALSE
BY DEF Commands, Ramps, Defers, Reply

(* The ramp brakes.                                                        *)
LEMMA RampIsGrounded ==
  ASSUME NEW prev \in Int, NEW s, NEW obstacles
  PROVE  Grounded(StopRamp(prev), prev, s, obstacles)
<1> DEFINE c == Sign(prev) * Larger(Size(prev) - DwaDecel, 0)
<1>1. StopRamp(prev).linear = c /\ StopRamp(prev).ramp
  BY AnswerFields DEF StopRamp
<1>2. \A sign \in {-1, 1} : sign * c > 0 => sign * c <= sign * prev - DwaDecel
  BY ClearanceAssumption DEF Sign, Larger, Size
<1> HIDE DEF c
<1> QED BY <1>1, <1>2 DEF Grounded

(* Pure pursuit along a run.                                               *)
LEMMA PursueIsGrounded ==
  ASSUME Footprint > 0, DwaDecel = MaxDecel, NEW s \in State, NEW run \in Run, NEW more \in BOOLEAN,
         NEW desired \in Nat, NEW prev \in Commanded, NEW obstacles,
         NEW p \in Pursue(s, run, more, desired, prev, obstacles)
  PROVE  Grounded(p, prev, s, obstacles)
<1> DEFINE dir      == Along(run)
           cap      == RunCap(run, desired)
           governed == IF more THEN Smaller(cap, CuspSpeed(s, run)) ELSE cap
           travel   == Larger(dir * prev, 0)
           ahead    == dir * (run.to - s.x)
           clear    == { u \in SpeedSteps(governed, travel) : PursuitClear(s.x, dir * u, obstacles) }
<1>1. s.x \in Int /\ s.v \in Int /\ run.to \in Int /\ prev \in Int
  BY DEF State, Run, Commanded
<1>2. dir \in {-1, 1} /\ travel \in Nat
  BY <1>1 DEF Along, Larger
<1>3. governed \in Nat
  <2>1. 2 * DwaDecel * Larger(0, RemainingRunDistance(s, run) - CuspShort) \in Nat
    BY <1>1, ClearanceAssumption, ExecutorsAssumption DEF Larger, RemainingRunDistance, Size
  <2>2. CuspSpeed(s, run) \in 0 .. DwaSpeed
    BY <2>1, RootIsSpeed DEF CuspSpeed
  <2>3. cap \in Nat
    BY ClearanceAssumption, ExecutorsAssumption DEF RunCap, Smaller
  <2> QED BY <2>2, <2>3, ClearanceAssumption DEF Smaller
<1>4. \/ p = StopRamp(prev)
      \/ \E why : p = Defers(why)
      \/ ~(dir * s.v < 0) /\ \E u \in clear : p = Commands(dir * u)
  <2>1. p \in IF dir * prev < 0 \/ dir * s.v < 0 THEN {StopRamp(prev)}
              ELSE IF NoTarget(ahead, more) THEN {Defers("PathExhausted")}
              ELSE IF ahead < 0 THEN {Defers("TargetBehind")}
              ELSE IF more /\ governed = 0 THEN {StopRamp(prev)}
              ELSE {Defers("Blocked")} \cup { Commands(dir * v) : v \in clear }
    BY Zenon DEF Pursue
  <2> HIDE DEF dir, ahead, cap, governed, travel, clear
  <2> QED BY <2>1, Zenon
<1>5. CASE p = StopRamp(prev)
  BY <1>1, <1>5, RampIsGrounded
<1>6. CASE \E why : p = Defers(why)
  BY <1>6, AnswerFields, StandingIsGrounded
<1>7. CASE ~(dir * s.v < 0) /\ \E u \in clear : p = Commands(dir * u)
  <2>1. PICK u \in SpeedSteps(governed, travel) :
          p = Commands(dir * u) /\ PursuitClear(s.x, dir * u, obstacles)
    BY <1>7
  <2>2. u \in 0 .. DwaSpeed /\ u # 0
    <3>1. u # 0
      BY DEF SpeedSteps
    <3> HIDE DEF governed, travel
    <3> QED BY <1>2, <1>3, <3>1, StepsAreBounded
  <2>3. p.linear = dir * u
    BY <2>1, AnswerFields
  <2> HIDE DEF dir, governed, travel, clear, ahead
  <2>4. DwaSpeed \in Nat /\ u \in Nat \ {0} /\ u \in 1 .. DwaSpeed
    BY <2>2, ClearanceAssumption
  <2> SUFFICES ASSUME NEW o \in obstacles \cap Closing, NEW sign \in {-1, 1},
                      sign * p.linear > 0, Before(sign, s, o)
               PROVE  Verified(sign, s.v, sign * p.linear, Room(sign, s.x, o))
    BY DEF Grounded
  <2>5. sign = dir /\ sign * p.linear = u
    BY <1>2, <2>3, <2>4
  <2>6. ArcReach(u) <= Room(sign, s.x, o)
    <3>1. sign * (o.at - s.x) > 0
      BY DEF Before
    <3>2. PursuitClear(s.x, sign * u, obstacles)
      BY <2>1, <2>5
    <3> QED BY <1>1, <2>4, <3>1, <3>2, PursuitReaches
  <2>7. ArcReach(u) \in Nat /\ MpcReach(u) \in Int /\ Room(sign, s.x, o) \in Int
    <3>1. o.at \in Int /\ o.radius \in Nat /\ Footprint \in Nat /\ RobotRadius \in Int
      BY ClosingParts, ClearanceAssumption
    <3>2. SpeedScaledRadius(0, RobotRadius) \in Int /\ StopReach(u) \in Nat
      BY <2>4, <3>1, MarginIsInteger, StopReachGrows
    <3> QED BY <1>1, <2>4, <3>1, <3>2, ArcHasLength DEF MpcReach, Room
  <2>8. sign * s.v >= 0
    BY <1>1, <1>7, <2>5
  <2>9. CASE sign = 1
    <3>1. Smaller(ArcReach(u), MpcReach(u)) <= Room(sign, s.x, o)
      BY <2>6, <2>7 DEF Smaller
    <3>2. s.v >= 0
      BY <1>1, <2>8, <2>9
    <3> QED BY <2>4, <2>5, <2>9, <3>1, <3>2 DEF Verified
  <2>10. CASE sign = -1
    <3>1. s.v <= 0
      BY <1>1, <2>8, <2>10
    <3> QED BY <2>5, <2>6, <2>10, <3>1 DEF Verified
  <2> QED BY <2>9, <2>10
<1> QED BY <1>4, <1>5, <1>6, <1>7, Zenon

(* Pure pursuit.                                                           *)
LEMMA PursuitIsGrounded ==
  ASSUME Footprint > 0, DwaDecel = MaxDecel, NEW s \in State, NEW path \in Seq(Run),
         NEW desired \in Nat, NEW prev \in Commanded, NEW obstacles,
         NEW p \in Pursuit(s, path, desired, prev, obstacles)
  PROVE  Grounded(p, prev, s, obstacles)
<1>1. Grounded(Defers("NoPath"), prev, s, obstacles)
      /\ Grounded(Defers("StopRequested"), prev, s, obstacles)
  BY AnswerFields, StandingIsGrounded
<1>2. prev \in Int
  BY DEF Commanded
<1>3. Grounded(StopRamp(prev), prev, s, obstacles)
  BY <1>2, RampIsGrounded
<1>4. CASE path = <<>> \/ desired <= 0
  BY <1>1, <1>4, Zenon DEF Pursuit
<1>5. CASE path # <<>> /\ ~(desired <= 0) /\ AtCusp(s, path)
  <2>1. path[2] \in Run
    BY <1>5 DEF AtCusp
  <2>2. p = StopRamp(prev) \/ p \in Pursue(s, path[2], Len(path) > 2, desired, prev, obstacles)
    BY <1>5, Zenon DEF Pursuit
  <2>3. (Len(path) > 2) \in BOOLEAN
    OBVIOUS
  <2> QED BY <1>3, <2>1, <2>2, <2>3, PursueIsGrounded, Zenon
<1>6. CASE path # <<>> /\ ~(desired <= 0) /\ ~AtCusp(s, path)
  <2>1. path[1] \in Run
    BY <1>6
  <2>2. p \in Pursue(s, path[1], Len(path) > 1, desired, prev, obstacles)
    BY <1>6, Zenon DEF Pursuit
  <2>3. (Len(path) > 1) \in BOOLEAN
    OBVIOUS
  <2> QED BY <2>1, <2>2, <2>3, PursueIsGrounded, Zenon
<1> QED BY <1>4, <1>5, <1>6, Zenon

(* A sample that is clear reaches as far as its sweep.                     *)
LEMMA SampleReaches ==
  ASSUME Footprint > 0, LowScale <= 10, DwaDecel = MaxDecel, NEW obstacles,
         NEW o \in obstacles \cap Closing, NEW y \in Int, o.at - y > 0,
         NEW u \in Nat \ {0}, NEW base \in Int, SampleClear(y, u, base, obstacles)
  PROVE  ArcReach(u) <= Room(1, y, o)
<1> DEFINE need == SpeedScaledRadius(u, base)
<1>1. o.at \in Int /\ o.radius \in Nat /\ o \in Closing /\ Footprint \in Nat
  BY ClosingParts, ClearanceAssumption
<1>2. need \in Int /\ need >= Footprint
  <2>1. u \in Nat /\ base \in Int
    OBVIOUS
  <2>2. /\ SpeedScaledRadius(u, base) \in Int /\ SpeedScaledRadius(0, base) \in Int
        /\ SpeedScaledRadius(0, base) >= Footprint
        /\ SpeedScaledRadius(u, base) >= SpeedScaledRadius(0, base)
    BY <2>1, MarginsGrow
  <2> QED BY <1>1, <2>2
<1>3. ArcReach(u) \in Nat
  BY ArcHasLength
<1>4. DrivenDistance(y, ArcReach(u), o) >= need
  BY Zenon DEF SampleClear
<1> HIDE DEF need
<1>5. CASE need + o.radius > 0
  <2> DEFINE R == ArcReach(u)
  <2>1. R + need <= (o.at - y) - o.radius
    <3>1. R \in Nat /\ DrivenDistance(y, R, o) >= need
      BY <1>3, <1>4
    <3> HIDE DEF R
    <3> QED BY <1>1, <1>2, <1>5, <3>1, DrivenEndsBefore
  <2> QED BY <1>1, <1>2, <1>3, <2>1 DEF Room
<1>6. CASE ~(need + o.radius > 0)
  BY <1>1, <1>2, <1>6
<1> QED BY <1>5, <1>6

(* A step of a rollout, from n ahead of y, ends before an obstacle that    *)
(* closes the lane when the steps before it did.                           *)
LEMMA StepEndsBefore ==
  ASSUME Footprint > 0, NEW o \in Closing, NEW y \in Int, o.at - y > 0, NEW n \in Nat,
         n = 0 \/ n <= Room(1, y, o), NEW g \in Nat, NEW need \in Int, need >= Footprint,
         DrivenDistance(y + n, g, o) >= need
  PROVE  n + g + need - Footprint <= Room(1, y, o)
<1>1. o.at \in Int /\ o.radius \in Nat /\ o.off = 0 /\ Footprint \in Nat
  BY ClosingParts, ClearanceAssumption
<1>2. Room(1, y, o) = o.at - y - (Footprint + o.radius)
  BY <1>1 DEF Room
<1> DEFINE z == y + n
<1>3. z \in Int /\ o.at - z > 0
  BY <1>1, <1>2
<1>4. need + o.radius > 0
  BY <1>1
<1>5. DrivenDistance(z, g, o) >= need
  OBVIOUS
<1>6. z = y + n
  OBVIOUS
<1> HIDE DEF z
<1>7. g + need <= (o.at - z) - o.radius
  BY <1>3, <1>4, <1>5, DrivenEndsBefore
<1> QED BY <1>1, <1>2, <1>3, <1>6, <1>7

(* The steps of an escape: each is at least as long as the first.          *)
LEMMA EscapeGoes ==
  ASSUME NEW y \in Int, NEW target \in Nat, NEW base, NEW obstacles,
         EscapeClear(y, target, base, obstacles)
  PROVE  \E gone \in [0 .. Horizon -> Nat] :
           /\ gone[0] = 0
           /\ \A k \in 1 .. Horizon :
                /\ gone[k] = gone[k - 1] + Smaller(k * DwaAccel, target)
                /\ \A o \in obstacles :
                     DrivenDistance(y + gone[k - 1], Smaller(k * DwaAccel, target), o)
                       >= SpeedScaledRadius(Smaller(k * DwaAccel, target), base)
<1> DEFINE speed(k) == Smaller(k * DwaAccel, target)
           Is(g) == g = [k \in 0 .. Horizon |-> IF k = 0 THEN 0 ELSE g[k - 1] + speed(k)]
           step == [k \in 1 .. Horizon |-> [n \in Nat |-> n + speed(k)]]
           gone == CHOOSE g : Is(g)
<1>1. Horizon \in Nat /\ DwaAccel \in Nat
  BY ClearanceAssumption
<1>2. \A k \in 1 .. Horizon : speed(k) \in Nat
  <2> SUFFICES ASSUME NEW k \in 1 .. Horizon PROVE speed(k) \in Nat
    OBVIOUS
  <2>1. k * DwaAccel \in Nat
    BY <1>1
  <2> QED BY <2>1 DEF Smaller
<1>3. \A k \in 1 .. Horizon : \A o \in obstacles :
        DrivenDistance(y + gone[k - 1], speed(k), o) >= SpeedScaledRadius(speed(k), base)
  BY Zenon DEF EscapeClear
<1> HIDE DEF speed
<1>4. PICK f : f \in [0 .. Horizon -> Nat] /\ f[0] = 0
               /\ \A k \in 1 .. Horizon : f[k] = step[k][f[k - 1]]
  <2>1. \A k \in 1 .. Horizon : \A n \in Nat : step[k][n] \in Nat
    BY <1>2
  <2> HIDE DEF step
  <2> DEFINE X == Nat
             zero == 0
  <2>2. IsStep(step, Horizon, X) /\ zero \in X
    BY <2>1 DEF IsStep
  <2> HIDE DEF X, zero
  <2>3. \E f : Iterates(f, step, zero, Horizon, X)
    BY <1>1, <2>2, Iteration
  <2> QED BY <2>3 DEF Iterates, X, zero
<1>5. Is(f)
  <2>1. \A k \in 0 .. Horizon : f[k] = IF k = 0 THEN 0 ELSE f[k - 1] + speed(k)
    <3> SUFFICES ASSUME NEW k \in 0 .. Horizon, k # 0 PROVE f[k] = f[k - 1] + speed(k)
      BY <1>4
    <3>1. k \in 1 .. Horizon /\ k - 1 \in 0 .. Horizon
      BY <1>1
    <3> QED BY <1>4, <3>1
  <2>2. f = [k \in 0 .. Horizon |-> f[k]]
    BY <1>4
  <2> QED BY <2>1, <2>2
<1>6. Is(gone)
  <2> HIDE DEF Is
  <2> QED BY <1>5
<1> HIDE DEF gone
<1>7. \A k \in 0 .. Horizon : gone[k] = IF k = 0 THEN 0 ELSE gone[k - 1] + speed(k)
  <2> DEFINE body(k) == IF k = 0 THEN 0 ELSE gone[k - 1] + speed(k)
  <2>1. gone = [k \in 0 .. Horizon |-> body(k)]
    BY <1>6
  <2> HIDE DEF body
  <2>2. \A k \in 0 .. Horizon : gone[k] = body(k)
    BY <2>1
  <2> QED BY <2>2 DEF body
<1>8. gone[0] = 0 /\ \A k \in 1 .. Horizon : gone[k] = gone[k - 1] + speed(k)
  BY <1>1, <1>7
<1>9. gone \in [0 .. Horizon -> Nat]
  <2> DEFINE S == {k \in 0 .. Horizon : gone[k] \in Nat}
  <2>1. 0 \in S /\ \A k \in 1 .. Horizon : k - 1 \in S => k \in S
    BY <1>1, <1>2, <1>8
  <2>2. 0 .. Horizon \subseteq S
    <3> HIDE DEF S
    <3> QED BY <1>1, <2>1, CountingUp
  <2>3. \A k \in 0 .. Horizon : gone[k] \in Nat
    BY <2>2
  <2>4. gone = [k \in 0 .. Horizon |-> gone[k]]
    BY <1>6
  <2> QED BY <2>3, <2>4
<1> QED BY <1>3, <1>8, <1>9, Zenon DEF speed

(* An escape that is clear goes its first step Horizon times at least.     *)
LEMMA EscapeReaches ==
  ASSUME Footprint > 0, LowScale <= 10, NEW obstacles, NEW o \in obstacles \cap Closing,
         NEW y \in Int, o.at - y > 0, NEW target \in Nat, NEW base \in Int,
         EscapeClear(y, target, base, obstacles)
  PROVE  Horizon * Smaller(DwaAccel, target) <= Room(1, y, o)
<1> DEFINE u == Smaller(DwaAccel, target)
           speed(k) == Smaller(k * DwaAccel, target)
<1>1. PICK gone \in [0 .. Horizon -> Nat] :
           /\ gone[0] = 0
           /\ \A k \in 1 .. Horizon :
                /\ gone[k] = gone[k - 1] + speed(k)
                /\ \A b \in obstacles :
                     DrivenDistance(y + gone[k - 1], speed(k), b) >= SpeedScaledRadius(speed(k), base)
  BY EscapeGoes, Zenon
<1>2. /\ o.at \in Int /\ o.radius \in Nat /\ o \in Closing /\ Footprint \in Nat
      /\ Horizon \in Nat /\ Horizon > 0 /\ DwaAccel \in Nat /\ DwaAccel > 0
  BY ClosingParts, ClearanceAssumption
<1>3. u \in Nat
  BY <1>2 DEF Smaller
<1>4. \A k \in 1 .. Horizon : speed(k) \in Nat /\ u <= speed(k)
  <2> SUFFICES ASSUME NEW k \in 1 .. Horizon PROVE speed(k) \in Nat /\ u <= speed(k)
    OBVIOUS
  <2>1. k * DwaAccel \in Nat /\ k * DwaAccel >= DwaAccel
    <3>1. PICK j \in Nat : k = 1 + j
      BY <1>2
    <3>2. k * DwaAccel = DwaAccel + j * DwaAccel /\ j * DwaAccel \in Nat
      BY <1>2, <3>1
    <3> QED BY <1>2, <3>2
  <2> QED BY <1>2, <2>1 DEF Smaller
<1>5. \A k \in 1 .. Horizon :
        DrivenDistance(y + gone[k - 1], speed(k), o) >= Footprint
  <2> SUFFICES ASSUME NEW k \in 1 .. Horizon
               PROVE  DrivenDistance(y + gone[k - 1], speed(k), o) >= Footprint
    OBVIOUS
  <2>1. DrivenDistance(y + gone[k - 1], speed(k), o) >= SpeedScaledRadius(speed(k), base)
    BY <1>1
  <2>2. /\ SpeedScaledRadius(speed(k), base) \in Int /\ SpeedScaledRadius(0, base) \in Int
        /\ SpeedScaledRadius(0, base) >= Footprint
        /\ SpeedScaledRadius(speed(k), base) >= SpeedScaledRadius(0, base)
    BY <1>4, MarginsGrow
  <2>3. DrivenDistance(y + gone[k - 1], speed(k), o) \in Int
    <3>1. k - 1 \in 0 .. Horizon
      BY <1>2
    <3>2. gone[k - 1] \in Nat /\ speed(k) \in Nat
      BY <1>1, <1>4, <3>1
    <3> HIDE DEF speed
    <3>3. y + gone[k - 1] \in Int /\ speed(k) \in Int
      BY <3>2
    <3> QED BY <1>2, <3>3, DrivenIsInteger
  <2> HIDE DEF speed
  <2> QED BY <1>2, <2>1, <2>2, <2>3
<1> HIDE DEF speed, u
<1> DEFINE S == {k \in 0 .. Horizon :
                   gone[k] >= k * u /\ (k = 0 \/ gone[k] <= Room(1, y, o))}
<1>6. 0 \in S
  BY <1>1, <1>2, <1>3
<1>7. ASSUME NEW k \in 1 .. Horizon, k - 1 \in S PROVE k \in S
  <2>1. k - 1 \in 0 .. Horizon /\ k \in 0 .. Horizon
    BY <1>2
  <2>2. /\ gone[k - 1] \in Nat /\ speed(k) \in Nat /\ u <= speed(k)
        /\ gone[k] = gone[k - 1] + speed(k) /\ gone[k - 1] >= (k - 1) * u
        /\ (k - 1 = 0 \/ gone[k - 1] <= Room(1, y, o))
    BY <1>1, <1>4, <1>7, <2>1
  <2>3. k * u = (k - 1) * u + u /\ (k - 1) * u \in Int
    BY <1>3
  <2>4. gone[k] >= k * u
    BY <1>3, <2>2, <2>3
  <2>5. gone[k - 1] = 0 \/ gone[k - 1] <= Room(1, y, o)
    BY <1>1, <2>2
  <2>6. DrivenDistance(y + gone[k - 1], speed(k), o) >= Footprint
    BY <1>5
  <2>7. ASSUME NEW n \in Nat, NEW g \in Nat, n = 0 \/ n <= Room(1, y, o),
               DrivenDistance(y + n, g, o) >= Footprint
        PROVE  n + g <= Room(1, y, o)
    <3>1. Footprint \in Int /\ Footprint >= Footprint /\ Room(1, y, o) \in Int
      BY SMTT(20), <1>2 DEF Room
    <3>2. n + g + Footprint - Footprint <= Room(1, y, o)
      BY <1>2, <2>7, <3>1, StepEndsBefore
    <3> QED BY <3>1, <3>2
  <2>11. gone[k] <= Room(1, y, o)
    BY <2>2, <2>5, <2>6, <2>7
  <2> QED BY <2>1, <2>4, <2>11
<1>8. 0 .. Horizon \subseteq S
  <2> HIDE DEF S
  <2> QED BY <1>2, <1>6, <1>7, CountingUp
<1>9. gone[Horizon] >= Horizon * u /\ gone[Horizon] <= Room(1, y, o)
      /\ gone[Horizon] \in Nat
  <2>1. Horizon \in S /\ Horizon \in 0 .. Horizon
    BY <1>2, <1>8
  <2> QED BY <1>1, <1>2, <2>1
<1>10. Horizon * u \in Nat /\ Room(1, y, o) \in Int
  BY SMTT(20), <1>2, <1>3 DEF Room
<1> QED BY <1>9, <1>10 DEF u

(* The states of the MPC's rollout, and its profiles.                      *)
RollState == [x : Int, v : Nat, ok : BOOLEAN]
Profiles  == {DwaAccel, 0, -DwaDecel}

(* A step of the rollout brakes no harder than the planner may, and stays  *)
(* feasible only if it is clear.                                           *)
LEMMA MpcStepGoes ==
  ASSUME NEW s \in RollState, NEW i \in Nat, NEW accel \in Profiles, NEW end \in Int,
         NEW leg \in Nat, NEW obstacles
  PROVE  LET t == MpcStep(s, i, accel, end, leg, obstacles)
         IN  /\ t \in RollState /\ t.x = s.x + t.v /\ t.v >= s.v - DwaDecel
             /\ t.ok => s.ok /\ ClearAlong(s.x, t.v, obstacles)
<1> DEFINE vr == RampSpeed(s.x, end, leg)
           a  == IF i <= MpcPhase THEN accel ELSE Between(vr - s.v, -DwaDecel, DwaAccel)
           v  == Between(s.v + a, 0, Larger(vr, s.v - DwaDecel))
           ok == /\ s.ok
                 /\ v > vr => v <= s.v - DwaDecel
                 /\ ClearAlong(s.x, v, obstacles)
           t  == MpcStep(s, i, accel, end, leg, obstacles)
<1>1. t = [x |-> s.x + v, v |-> v, ok |-> ok]
  BY Zenon DEF MpcStep
<1>2. s.x \in Int /\ s.v \in Nat /\ DwaDecel \in Nat /\ DwaAccel \in Nat
  BY ClearanceAssumption DEF RollState
<1>3. vr \in Nat
  <2>1. 2 * Comfort * Larger(0, end - s.x) \in Nat
    <3>1. Comfort \in Nat /\ Larger(0, end - s.x) \in Nat
      BY <1>2, ClearanceAssumption DEF Larger
    <3> QED BY <3>1
  <2>2. Root(2 * Comfort * Larger(0, end - s.x)) \in 0 .. DwaSpeed
    BY <2>1, RootIsSpeed
  <2> QED BY <2>2, ClearanceAssumption DEF RampSpeed, Smaller
<1> HIDE DEF vr
<1>4. a \in Int /\ a >= -DwaDecel
  BY <1>2, <1>3 DEF Between, Larger, Smaller, Profiles
<1> HIDE DEF a
<1>5. v \in Nat /\ v >= s.v - DwaDecel
  BY <1>2, <1>3, <1>4 DEF Between, Larger, Smaller
<1> HIDE DEF v
<1>6. ok \in BOOLEAN /\ (ok => s.ok /\ ClearAlong(s.x, v, obstacles))
  BY Zenon
<1> HIDE DEF ok, t
<1>7. t.x = s.x + v /\ t.v = v /\ t.ok = ok /\ s.x + v \in Int
  BY <1>1, <1>2, <1>5
<1>8. t \in RollState
  BY <1>1, <1>5, <1>6, <1>7 DEF RollState
<1> QED BY <1>5, <1>6, <1>7, <1>8 DEF t

(* Whether the end of a rollout is clear.                                  *)
EndsClear(last, obstacles) ==
  /\ last.ok
  /\ last.v > 0 => \A o \in obstacles :
       DrivenDistance(last.x, Pad + BrakeDistance(last.v), o)
         >= SpeedScaledRadius(last.v, RobotRadius)

(* The rollout behind a command of the MPC.                                *)
LEMMA MpcGoes ==
  ASSUME NEW y \in Int, NEW v0 \in Nat, NEW accel \in Profiles, NEW end \in Int,
         NEW leg \in Nat, NEW obstacles, NEW v \in MpcFirst(y, v0, accel, end, leg, obstacles)
  PROVE  \E roll \in [0 .. MpcSteps -> RollState] :
           /\ roll[0] = [x |-> y, v |-> v0, ok |-> TRUE]
           /\ \A i \in 1 .. MpcSteps :
                roll[i] = MpcStep(roll[i - 1], i, accel, end, leg, obstacles)
           /\ v = roll[1].v
           /\ EndsClear(roll[MpcSteps], obstacles)
<1> DEFINE start == [x |-> y, v |-> v0, ok |-> TRUE]
           next(s, i) == MpcStep(s, i, accel, end, leg, obstacles)
           Is(r) == r = [i \in 0 .. MpcSteps |-> IF i = 0 THEN start ELSE next(r[i - 1], i)]
           step == [i \in 1 .. MpcSteps |-> [s \in RollState |-> next(s, i)]]
           roll == CHOOSE r : Is(r)
<1>1. MpcSteps \in Nat /\ 1 <= MpcSteps
  BY ClearanceAssumption
<1>2. v = next(start, 1).v /\ EndsClear(roll[MpcSteps], obstacles)
  BY Zenon DEF MpcFirst, EndsClear
<1>3. \A i \in 1 .. MpcSteps : \A s \in RollState : next(s, i) \in RollState
  <2> SUFFICES ASSUME NEW i \in 1 .. MpcSteps, NEW s \in RollState PROVE next(s, i) \in RollState
    OBVIOUS
  <2>1. i \in Nat
    OBVIOUS
  <2> QED BY <2>1, MpcStepGoes
<1>4. start \in RollState
  BY DEF RollState
<1> HIDE DEF next, start
<1>5. PICK f : f \in [0 .. MpcSteps -> RollState] /\ f[0] = start
               /\ \A i \in 1 .. MpcSteps : f[i] = step[i][f[i - 1]]
  <2>1. \A i \in 1 .. MpcSteps : \A s \in RollState : step[i][s] \in RollState
    BY <1>3
  <2> HIDE DEF step
  <2>2. IsStep(step, MpcSteps, RollState)
    BY <2>1 DEF IsStep
  <2>3. \E f : Iterates(f, step, start, MpcSteps, RollState)
    BY <1>1, <1>4, <2>2, Iteration
  <2> QED BY <2>3 DEF Iterates
<1>6. Is(f)
  <2>1. \A i \in 0 .. MpcSteps : f[i] = IF i = 0 THEN start ELSE next(f[i - 1], i)
    <3> SUFFICES ASSUME NEW i \in 0 .. MpcSteps, i # 0 PROVE f[i] = next(f[i - 1], i)
      BY <1>5
    <3>1. i \in 1 .. MpcSteps /\ i - 1 \in 0 .. MpcSteps
      BY <1>1
    <3> QED BY <1>5, <3>1
  <2>2. f = [i \in 0 .. MpcSteps |-> f[i]]
    BY <1>5
  <2> QED BY <2>1, <2>2
<1>7. Is(roll)
  <2> HIDE DEF Is
  <2> QED BY <1>6
<1> HIDE DEF roll
<1>8. \A i \in 0 .. MpcSteps : roll[i] = IF i = 0 THEN start ELSE next(roll[i - 1], i)
  <2> DEFINE body(i) == IF i = 0 THEN start ELSE next(roll[i - 1], i)
  <2>1. roll = [i \in 0 .. MpcSteps |-> body(i)]
    BY <1>7
  <2> HIDE DEF body
  <2>2. \A i \in 0 .. MpcSteps : roll[i] = body(i)
    BY <2>1
  <2> QED BY <2>2 DEF body
<1>9. roll[0] = start /\ \A i \in 1 .. MpcSteps : roll[i] = next(roll[i - 1], i)
  BY <1>1, <1>8
<1>10. roll \in [0 .. MpcSteps -> RollState]
  <2> DEFINE S == {i \in 0 .. MpcSteps : roll[i] \in RollState}
  <2>1. 0 \in S /\ \A i \in 1 .. MpcSteps : i - 1 \in S => i \in S
    BY <1>1, <1>3, <1>4, <1>9
  <2>2. 0 .. MpcSteps \subseteq S
    <3> HIDE DEF S
    <3> QED BY <1>1, <2>1, CountingUp
  <2>3. \A i \in 0 .. MpcSteps : roll[i] \in RollState
    BY <2>2
  <2>4. roll = [i \in 0 .. MpcSteps |-> roll[i]]
    BY <1>7
  <2> QED BY <2>3, <2>4
<1>11. v = roll[1].v
  <2>1. 1 \in 1 .. MpcSteps /\ 1 - 1 = 0
    BY <1>1
  <2>2. roll[1] = next(roll[0], 1)
    BY <1>9, <2>1
  <2> QED BY <1>2, <1>9, <2>2, Zenon
<1> QED BY <1>2, <1>9, <1>10, <1>11, Zenon DEF next, start

(* Braking no harder than it must, a robot does not stop sooner.           *)
LEMMA StopsNoSooner ==
  ASSUME NEW v \in Nat, NEW w \in Nat, w >= v - MaxDecel
  PROVE  StopReach(v) <= w + StopReach(w)
<1>1. MaxDecel \in Nat /\ MaxDecel > 0
  BY ArbitratorAssumption DEF ArbitratorAssumption
<1>2. StopReach(w) \in Nat
  BY StopReachGrows
<1>3. CASE v <= MaxDecel
  <2>1. StopReach(v) = 0
    BY <1>3, StopReachStep
  <2> QED BY <1>2, <2>1
<1>4. CASE v > MaxDecel
  <2> DEFINE u == v - MaxDecel
  <2>1. StopReach(v) = u + StopReach(u)
    BY <1>1, <1>4, StopReachStep
  <2>2. u \in 0 .. w
    BY <1>1, <1>4
  <2>3. StopReach(u) <= StopReach(w) /\ StopReach(u) \in Nat
    BY <2>2, StopReachGrows
  <2> QED BY <1>2, <2>1, <2>2, <2>3
<1> QED BY <1>1, <1>3, <1>4

(* One step of the induction below, in numbers: n, d and v are how far the *)
(* rollout has come, and its step.                                         *)
LEMMA RolloutStep ==
  ASSUME Footprint > 0, LowScale <= 10, NEW o \in Closing, NEW y \in Int, o.at - y > 0,
         NEW n \in Nat, n = 0 \/ n <= Room(1, y, o), NEW v \in Nat,
         DrivenDistance(y + n, v, o) >= SpeedScaledRadius(v, RobotRadius)
  PROVE  n + v + SpeedScaledRadius(0, RobotRadius) - Footprint <= Room(1, y, o)
<1> DEFINE need == SpeedScaledRadius(v, RobotRadius)
           least == SpeedScaledRadius(0, RobotRadius)
<1>1. RobotRadius \in Int /\ Footprint \in Nat
  BY ClearanceAssumption
<1>2. need \in Int /\ least \in Int /\ least >= Footprint /\ need >= least
  BY <1>1, MarginsGrow
<1>3. DrivenDistance(y + n, v, o) >= need
  OBVIOUS
<1> HIDE DEF need, least
<1>4. need >= Footprint
  BY <1>1, <1>2
<1>5. n + v + need - Footprint <= Room(1, y, o)
  BY <1>2, <1>3, <1>4, StepEndsBefore
<1>6. Room(1, y, o) \in Int
  BY <1>1, ClosingParts DEF Room
<1>7. n + v + least - Footprint <= Room(1, y, o)
  BY <1>1, <1>2, <1>5, <1>6
<1> QED BY <1>7 DEF least

(* A feasible rollout covers what it takes to stop from its first command. *)
LEMMA MpcReaches ==
  ASSUME Footprint > 0, LowScale <= 10, DwaDecel = MaxDecel, NEW obstacles,
         NEW o \in obstacles \cap Closing, NEW y \in Int, o.at - y > 0,
         NEW v0 \in Nat, NEW accel \in Profiles, NEW end \in Int, NEW leg \in Nat,
         NEW u \in MpcFirst(y, v0, accel, end, leg, obstacles)
  PROVE  MpcReach(u) <= Room(1, y, o)
<1> DEFINE next(s, i) == MpcStep(s, i, accel, end, leg, obstacles)
           least == SpeedScaledRadius(0, RobotRadius)
<1>1. PICK roll \in [0 .. MpcSteps -> RollState] :
           /\ roll[0] = [x |-> y, v |-> v0, ok |-> TRUE]
           /\ \A i \in 1 .. MpcSteps : roll[i] = next(roll[i - 1], i)
           /\ u = roll[1].v
           /\ EndsClear(roll[MpcSteps], obstacles)
  <2>1. \E roll \in [0 .. MpcSteps -> RollState] :
           /\ roll[0] = [x |-> y, v |-> v0, ok |-> TRUE]
           /\ \A i \in 1 .. MpcSteps :
                roll[i] = MpcStep(roll[i - 1], i, accel, end, leg, obstacles)
           /\ u = roll[1].v
           /\ EndsClear(roll[MpcSteps], obstacles)
    BY MpcGoes
  <2> QED BY <2>1
<1>2. /\ o.at \in Int /\ o.radius \in Nat /\ o \in Closing /\ Footprint \in Nat
      /\ MpcSteps \in Nat /\ 1 <= MpcSteps /\ RobotRadius \in Int
  BY ClosingParts, ClearanceAssumption
<1>3. \A i \in 0 .. MpcSteps : roll[i] \in RollState /\ roll[i].x \in Int /\ roll[i].v \in Nat
  BY <1>1 DEF RollState
<1>4. \A i \in 1 .. MpcSteps :
        /\ roll[i].x = roll[i - 1].x + roll[i].v
        /\ roll[i].v >= roll[i - 1].v - MaxDecel
        /\ roll[i].ok => roll[i - 1].ok /\ ClearAlong(roll[i - 1].x, roll[i].v, obstacles)
  <2> SUFFICES ASSUME NEW i \in 1 .. MpcSteps
               PROVE  /\ roll[i].x = roll[i - 1].x + roll[i].v
                      /\ roll[i].v >= roll[i - 1].v - MaxDecel
                      /\ roll[i].ok => roll[i - 1].ok
                                         /\ ClearAlong(roll[i - 1].x, roll[i].v, obstacles)
    OBVIOUS
  <2> DEFINE p == roll[i - 1]
  <2>1. p \in RollState /\ i \in Nat /\ roll[i] = next(p, i)
    BY <1>1, <1>2, <1>3
  <2> HIDE DEF p
  <2>2. LET t == next(p, i)
        IN  /\ t \in RollState /\ t.x = p.x + t.v /\ t.v >= p.v - DwaDecel
            /\ t.ok => p.ok /\ ClearAlong(p.x, t.v, obstacles)
    BY <2>1, MpcStepGoes, Zenon
  <2> HIDE DEF next
  <2>3. roll[i].x = p.x + roll[i].v /\ roll[i].v >= p.v - MaxDecel
        /\ (roll[i].ok => p.ok /\ ClearAlong(p.x, roll[i].v, obstacles))
    BY <2>1, <2>2, Zenon
  <2> QED BY <2>3 DEF p
<1> HIDE DEF next
<1>5. least \in Int /\ least >= Footprint
  BY <1>2, MarginsGrow
<1>6. roll[1].x = y + u /\ roll[1].v = u /\ u \in Nat
  <2>1. 1 \in 1 .. MpcSteps /\ 1 - 1 = 0 /\ 0 \in 0 .. MpcSteps /\ 1 \in 0 .. MpcSteps
    BY <1>2
  <2>2. roll[1].x = roll[0].x + roll[1].v /\ roll[0].x = y
    BY <1>1, <1>4, <2>1
  <2> QED BY <1>1, <1>3, <2>1, <2>2
<1> DEFINE Far(i)   == y + u + StopReach(u) <= roll[i].x + StopReach(roll[i].v)
           Clear(i) == roll[i].x - y + least - Footprint <= Room(1, y, o)
           S == {i \in 0 .. MpcSteps :
                   /\ i > 0 => Far(i) /\ roll[i].x >= y
                   /\ i > 0 /\ roll[i].ok => Clear(i)}
<1>7. ASSUME NEW i \in 1 .. MpcSteps, i - 1 \in S PROVE i \in S
  <2> DEFINE a == roll[i - 1].x
             w == roll[i - 1].v
             b == roll[i].x
             v == roll[i].v
  <2>1. /\ a \in Int /\ b \in Int /\ w \in Nat /\ v \in Nat
        /\ b = a + v /\ v >= w - MaxDecel /\ i \in 0 .. MpcSteps
        /\ i - 1 \in 0 .. MpcSteps
    BY <1>2, <1>3, <1>4
  <2>2. i - 1 = 0 => a = y
    BY <1>1
  <2>3. a >= y
    BY <1>2, <1>7, <2>1, <2>2
  <2>4. Far(i)
    <3>1. CASE i = 1
      <4>1. b = y + u /\ v = u
        BY <1>6, <3>1
      <4>2. StopReach(u) \in Nat
        BY <1>6, StopReachGrows
      <4> HIDE DEF b, v
      <4>3. y + u + StopReach(u) <= b + StopReach(v)
        BY <1>6, <4>1, <4>2
      <4> QED BY <4>3 DEF b, v
    <3>2. CASE i # 1
      <4>1. Far(i - 1)
        BY <1>7, <2>1, <3>2
      <4> HIDE DEF a, b, v, w
      <4>2. y + u + StopReach(u) <= a + StopReach(w)
        BY <4>1 DEF a, w
      <4>3. StopReach(w) <= v + StopReach(v) /\ StopReach(w) \in Nat /\ StopReach(v) \in Nat
            /\ StopReach(u) \in Nat
        BY <1>6, <2>1, StopsNoSooner, StopReachGrows
      <4>4. y + u + StopReach(u) <= b + StopReach(v)
        BY SMTT(20), <1>6, <2>1, <4>2, <4>3
      <4> QED BY <4>4 DEF b, v
    <3> QED BY <3>1, <3>2
  <2>5. ASSUME roll[i].ok PROVE Clear(i)
    <3>1. roll[i - 1].ok /\ ClearAlong(a, v, obstacles)
      BY <1>4, <2>5
    <3>2. DrivenDistance(a, v, o) >= SpeedScaledRadius(v, RobotRadius)
      BY <3>1 DEF ClearAlong
    <3> DEFINE n == a - y
    <3>3. n = 0 \/ n <= Room(1, y, o)
      <4>1. CASE i = 1
        BY <2>2, <2>1, <4>1
      <4>2. CASE i # 1
        <5>1. Clear(i - 1)
          BY <1>7, <2>1, <3>1, <4>2
        <5>2. n + least - Footprint <= Room(1, y, o)
          BY <5>1
        <5>3. Room(1, y, o) \in Int
          BY SMTT(20), <1>2 DEF Room
        <5>4. n \in Int
          BY <2>1
        <5> HIDE DEF n, least
        <5> QED BY <1>2, <1>5, <5>2, <5>3, <5>4
      <4> QED BY <4>1, <4>2
    <3>4. n \in Nat /\ y + n = a
      BY <2>1, <2>3
    <3>5. DrivenDistance(y + n, v, o) >= SpeedScaledRadius(v, RobotRadius)
      <4> HIDE DEF n
      <4> QED BY <3>2, <3>4
    <3>6. n + v + least - Footprint <= Room(1, y, o)
      <4> HIDE DEF n, v
      <4> QED BY <1>2, <2>1, <3>3, <3>4, <3>5, RolloutStep
    <3>7. roll[i].x - y = n + v
      BY <2>1
    <3> QED BY <3>6, <3>7
  <2>6. b >= y
    BY <2>1, <2>3
  <2> QED BY <2>1, <2>4, <2>5, <2>6
<1>8. 0 .. MpcSteps \subseteq S
  <2>1. 0 \in S
    BY <1>2
  <2> HIDE DEF S
  <2> QED BY <1>2, <1>7, <2>1, CountingUp
<1> DEFINE last == roll[MpcSteps]
           n == last.x - y
<1>9. last.ok /\ last.x \in Int /\ last.v \in Nat /\ last.x >= y
      /\ Far(MpcSteps) /\ Clear(MpcSteps)
  <2>1. MpcSteps \in S /\ MpcSteps \in 0 .. MpcSteps /\ MpcSteps > 0
    BY <1>2, <1>8
  <2>2. last.ok
    BY <1>1 DEF EndsClear
  <2> QED BY <1>3, <2>1, <2>2
<1>10. u + StopReach(u) <= n + StopReach(last.v) /\ n \in Nat
       /\ n + least - Footprint <= Room(1, y, o)
  <2>1. y + u + StopReach(u) <= last.x + StopReach(last.v) /\ last.x - y + least - Footprint <= Room(1, y, o)
    BY <1>9
  <2>2. StopReach(u) \in Nat /\ StopReach(last.v) \in Nat
    BY <1>6, <1>9, StopReachGrows
  <2> HIDE DEF last
  <2> QED BY SMTT(20), <1>6, <1>9, <2>1, <2>2
<1>11. EndsClear(last, obstacles)
  BY <1>1
<1> HIDE DEF last, n, S, Far, Clear
<1>12. Room(1, y, o) \in Int /\ StopReach(u) \in Nat
  <2>1. Room(1, y, o) \in Int
    BY <1>2 DEF Room
  <2>2. StopReach(u) \in Nat
    BY <1>6, StopReachGrows
  <2> QED BY <2>1, <2>2
<1>13. MpcReach(u) = u + StopReach(u) + least - Footprint
  BY DEF MpcReach
<1>14. CASE last.v = 0
  <2>1. StopReach(last.v) = 0
    BY <1>14, StopReachStep, ArbitratorAssumption DEF ArbitratorAssumption
  <2> HIDE DEF least
  <2> QED BY <1>2, <1>5, <1>6, <1>10, <1>12, <1>13, <2>1
<1>15. CASE last.v > 0
  <2> DEFINE d    == Pad + BrakeDistance(last.v)
             need == SpeedScaledRadius(last.v, RobotRadius)
  <2>1. d \in Nat /\ StopReach(last.v) \in Nat /\ StopReach(last.v) <= d
    <3>1. Pad \in Nat /\ BrakeDistance(last.v) \in Nat /\ StopReach(last.v) <= BrakeDistance(last.v)
      BY <1>9, BrakeDistanceCovers, ClearanceAssumption
    <3>2. StopReach(last.v) \in Nat
      BY <1>9, StopReachGrows
    <3> QED BY <3>1, <3>2
  <2>2. need \in Int /\ need >= least
    BY <1>2, <1>9, MarginsGrow
  <2>3. DrivenDistance(last.x, d, o) >= need
    BY <1>11, <1>15 DEF EndsClear
  <2>4. y + n = last.x
    BY <1>9 DEF n
  <2> HIDE DEF d, need, least
  <2>5. n = 0 \/ n <= Room(1, y, o)
    BY <1>2, <1>5, <1>10, <1>12
  <2>6. DrivenDistance(y + n, d, o) >= need
    BY <2>3, <2>4
  <2>7. need >= Footprint
    BY <1>2, <1>5, <2>2
  <2>8. n + d + need - Footprint <= Room(1, y, o)
    BY <1>2, <1>10, <2>1, <2>2, <2>5, <2>6, <2>7, StepEndsBefore
  <2> QED BY SMTT(20), <1>2, <1>5, <1>6, <1>10, <1>12, <1>13, <2>1, <2>2, <2>8
<1> QED BY <1>9, <1>14, <1>15

(* A command ahead is verified when one of the checks ahead reaches.       *)
LEMMA AheadIsGrounded ==
  ASSUME NEW s \in State, NEW u \in 1 .. DwaSpeed, NEW prev, NEW obstacles, NEW cmd,
         cmd.linear = u,
         \A o \in obstacles \cap Closing : o.at - s.x > 0 =>
           \/ s.v >= 0 /\ Smaller(ArcReach(u), MpcReach(u)) <= Room(1, s.x, o)
           \/ u <= s.v + DwaAccel /\ ArcReach(u) <= Room(1, s.x, o)
           \/ s.v = 0 /\ u <= DwaAccel /\ Horizon * u <= Room(1, s.x, o)
  PROVE  Grounded(cmd, prev, s, obstacles)
<1> SUFFICES ASSUME NEW o \in obstacles \cap Closing, NEW sign \in {-1, 1},
                    sign * cmd.linear > 0, Before(sign, s, o)
             PROVE  Verified(sign, s.v, sign * cmd.linear, Room(sign, s.x, o))
  BY DEF Grounded
<1>1. u \in Nat /\ u > 0
  BY ClearanceAssumption
<1>2. sign = 1 /\ sign * cmd.linear = u
  BY <1>1
<1>3. o.at - s.x > 0
  <2>1. o.at - s.x \in Int
    BY ClosingParts DEF State
  <2> QED BY <1>2, <2>1 DEF Before
<1> QED BY <1>2, <1>3 DEF Verified

(* The tracking MPC.                                                       *)
LEMMA TrackingMpcIsGrounded ==
  ASSUME Footprint > 0, LowScale <= 10, DwaDecel = MaxDecel,
         NEW s \in State, s.v \in Commanded, NEW run \in Run, NEW desired \in Nat,
         NEW prev \in Commanded, NEW obstacles,
         NEW p \in TrackingMpc(s, run, desired, prev, obstacles)
  PROVE  Grounded(p, prev, s, obstacles)
<1> DEFINE leg == Smaller(desired, DwaSpeed)
           v0  == Larger(Larger(prev, 0), s.v)
<1>1. /\ ~(prev < 0 \/ s.v < 0 \/ run.to - s.x < Finish \/ leg <= 0)
      /\ \E a \in Profiles :
         \E v \in MpcFirst(s.x, v0, a, run.to, leg, obstacles) : p = Commands(v)
  BY Zenon DEF TrackingMpc, LeftOf, Profiles
<1>2. PICK a \in Profiles :
        \E v \in MpcFirst(s.x, v0, a, run.to, leg, obstacles) : p = Commands(v)
  BY <1>1, Zenon
<1>3. PICK u \in MpcFirst(s.x, v0, a, run.to, leg, obstacles) : p = Commands(u)
  BY <1>2, Zenon
<1>4. leg \in 0 .. DwaSpeed /\ leg \in Nat /\ s.x \in Int /\ run.to \in Int /\ a \in Int
  BY ClearanceAssumption DEF Smaller, State, Run, Profiles
<1>5. v0 \in 0 .. DwaSpeed /\ v0 \in Nat
  <2>1. prev \in Int /\ s.v \in Int /\ ~(s.v < 0)
    BY <1>1 DEF Commanded
  <2>2. Larger(prev, 0) \in 0 .. DwaSpeed
    BY <2>1, ForwardSpeeds, ClearanceAssumption DEF Larger
  <2>3. s.v \in 0 .. DwaSpeed
    BY <2>1, ForwardSpeeds
  <2>4. v0 \in 0 .. DwaSpeed
    BY <2>2, <2>3 DEF Larger
  <2> QED BY <2>4
<1> HIDE DEF leg, v0
<1>6. u \in 0 .. DwaSpeed
  BY <1>3, <1>4, <1>5, MpcFirstInRange, Zenon
<1>7. p.linear = u
  BY <1>3, AnswerFields
<1>8. CASE u = 0
  BY <1>7, <1>8, StandingIsGrounded
<1>9. CASE u # 0
  <2>1. u \in 1 .. DwaSpeed /\ u \in Nat \ {0}
    BY <1>6, <1>9, ClearanceAssumption
  <2>2. s.v >= 0
    BY <1>1 DEF State
  <2>3. ASSUME NEW o \in obstacles \cap Closing, o.at - s.x > 0
        PROVE  Smaller(ArcReach(u), MpcReach(u)) <= Room(1, s.x, o)
    <3>1. MpcReach(u) <= Room(1, s.x, o)
      BY <1>3, <1>4, <1>5, <2>3, MpcReaches
    <3>2. ArcReach(u) \in Nat /\ MpcReach(u) \in Int /\ Room(1, s.x, o) \in Int
      <4>1. o.at \in Int /\ o.radius \in Nat /\ Footprint \in Nat /\ RobotRadius \in Int
        BY ClosingParts, ClearanceAssumption
      <4>2. SpeedScaledRadius(0, RobotRadius) \in Int /\ StopReach(u) \in Nat
        BY <2>1, <4>1, MarginIsInteger, StopReachGrows
      <4> QED BY <1>4, <2>1, <4>1, <4>2, ArcHasLength DEF MpcReach, Room
    <3> QED BY <3>1, <3>2 DEF Smaller
  <2> QED BY <1>7, <2>1, <2>2, <2>3, AheadIsGrounded
<1> QED BY <1>8, <1>9

(* The dynamic window: a sample within reach of the measured speed, or the *)
(* escape from standstill.                                                 *)
LEMMA DwaIsGrounded ==
  ASSUME Footprint > 0, LowScale <= 10, DwaDecel = MaxDecel,
         NEW s \in State, NEW desired \in Nat, NEW prev, NEW base \in Int,
         NEW obstacles, NEW p \in Dwa(s, desired, base, obstacles)
  PROVE  Grounded(p, prev, s, obstacles)
<1> DEFINE target == Between(desired, 0, DwaSpeed)
           low    == Larger(s.v - DwaAccel, 0)
           high   == Smaller(Between(s.v + DwaAccel, 0, DwaSpeed), Larger(target, low))
<1>1. \/ p = Defers("Infeasible")
      \/ \E v \in Smaller(low, high) .. high : p = Commands(v) /\ SampleClear(s.x, v, base, obstacles)
      \/ p = Commands(Smaller(DwaAccel, target)) /\ s.v = 0 /\ target > 0
           /\ EscapeClear(s.x, target, base, obstacles)
  BY Zenon DEF Dwa, StandstillEscape
<1>2. s.v \in Int /\ s.x \in Int /\ DwaAccel \in Nat /\ DwaAccel > 0 /\ DwaSpeed \in Nat
  BY ClearanceAssumption DEF State
<1>3. target \in 0 .. DwaSpeed /\ target \in Nat /\ low \in Nat /\ high \in 0 .. DwaSpeed
      /\ Smaller(low, high) \in Nat
  BY <1>2 DEF Between, Larger, Smaller
<1>4. high > 0 => high <= s.v + DwaAccel
  BY <1>2, <1>3 DEF Between, Larger, Smaller
<1> HIDE DEF target, low, high
<1>5. CASE p = Defers("Infeasible")
  BY <1>5, AnswerFields, StandingIsGrounded
<1>6. ASSUME NEW v \in Smaller(low, high) .. high, p = Commands(v),
             SampleClear(s.x, v, base, obstacles)
      PROVE  Grounded(p, prev, s, obstacles)
  <2>1. p.linear = v
    BY <1>6, AnswerFields
  <2>2. v \in 0 .. DwaSpeed /\ (v > 0 => v <= s.v + DwaAccel)
    BY <1>2, <1>3, <1>4
  <2>3. CASE v = 0
    BY <2>1, <2>3, StandingIsGrounded
  <2>4. CASE v # 0
    <3>1. v \in 1 .. DwaSpeed /\ v \in Nat \ {0} /\ v <= s.v + DwaAccel
      BY <1>2, <2>2, <2>4
    <3>2. ASSUME NEW o \in obstacles \cap Closing, o.at - s.x > 0
          PROVE  ArcReach(v) <= Room(1, s.x, o)
      BY <1>2, <1>6, <3>1, <3>2, SampleReaches
    <3> QED BY <2>1, <3>1, <3>2, AheadIsGrounded
  <2> QED BY <2>3, <2>4
<1>7. ASSUME p = Commands(Smaller(DwaAccel, target)), s.v = 0, target > 0,
             EscapeClear(s.x, target, base, obstacles)
      PROVE  Grounded(p, prev, s, obstacles)
  <2> DEFINE u == Smaller(DwaAccel, target)
  <2>1. u \in 1 .. DwaSpeed /\ u <= DwaAccel
    BY <1>2, <1>3, <1>7 DEF Smaller
  <2>2. p.linear = u
    BY <1>7, AnswerFields
  <2>3. ASSUME NEW o \in obstacles \cap Closing, o.at - s.x > 0
        PROVE  Horizon * u <= Room(1, s.x, o)
    BY <1>2, <1>3, <1>7, <2>3, EscapeReaches
  <2> HIDE DEF u
  <2> QED BY <1>7, <2>1, <2>2, <2>3, AheadIsGrounded
<1> QED BY <1>1, <1>5, <1>6, <1>7

(* The sampler defers or is the dynamic window.                            *)
LEMMA SamplerIsGrounded ==
  ASSUME Footprint > 0, LowScale <= 10, DwaDecel = MaxDecel,
         NEW s \in State, NEW path, NEW desired \in Nat, NEW prev, NEW base \in Int,
         NEW obstacles, NEW p \in Sampler(s, path, desired, base, obstacles)
  PROVE  Grounded(p, prev, s, obstacles)
<1>1. Grounded(Defers("Infeasible"), prev, s, obstacles)
  BY AnswerFields, StandingIsGrounded
<1>2. p = Defers("Infeasible") \/ p \in Dwa(s, desired, base, obstacles)
  BY Zenon DEF Sampler
<1> QED BY <1>1, <1>2, DwaIsGrounded, Zenon

(* The scripted reverse: its arc is checked from the pose held.            *)
LEMMA ReverseIsGrounded ==
  ASSUME Footprint > 0, Footprint <= RearRadius, NEW held \in State, NEW prev,
         NEW obstacles, RearClear(held, obstacles)
  PROVE  Grounded(Commands(-ReverseSpeed), prev, Projected(held), obstacles)
<1> DEFINE s == Projected(held)
           cmd == Commands(-ReverseSpeed)
<1>1. /\ ReverseSpeed \in Nat /\ ReverseSpeed > 0 /\ ReverseDistance \in Nat
      /\ ReverseDistance > 0 /\ RearRadius \in Nat /\ Delay \in Nat /\ Footprint \in Nat
  BY ClearanceAssumption, ExecutorsAssumption
<1>2. cmd.linear = -ReverseSpeed
  BY AnswerFields
<1>3. /\ held.x \in Int /\ held.v \in Int /\ Delay * held.v \in Int
      /\ s.x = held.x + Delay * held.v /\ s.v = held.v
  <2>1. held.x \in Int /\ held.v \in Int /\ Delay * held.v \in Int
    BY <1>1 DEF State
  <2>2. s.x = held.x + Delay * held.v /\ s.v = held.v
    BY DEF Projected, State
  <2> QED BY <2>1, <2>2
<1> HIDE DEF s, cmd
<1> SUFFICES ASSUME NEW o \in obstacles \cap Closing, NEW sign \in {-1, 1},
                    sign * cmd.linear > 0, Before(sign, s, o)
             PROVE  Verified(sign, s.v, sign * cmd.linear, Room(sign, s.x, o))
  BY DEF Grounded, s, cmd
<1>4. sign = -1 /\ sign * cmd.linear = ReverseSpeed
  BY <1>1, <1>2
<1>5. o.at \in Int /\ o.radius \in Nat /\ o.off = 0 /\ o \in Closing
  BY ClosingParts
<1>6. s.x - Delay * s.v = held.x
  BY <1>3
<1>7. held.x - o.at >= Footprint + o.radius
  <2>1. 0 <= Room(-1, held.x, o)
    BY <1>4, <1>6 DEF Before
  <2> QED BY <1>1, <1>3, <1>5, <2>1 DEF Room
<1> DEFINE d0   == NetDistance(held.x, o)
           need == Smaller(RearRadius, d0)
           y    == held.x - 1
           d    == -(ReverseDistance - 1)
<1>8. d0 = held.x - o.at - o.radius
  BY <1>1, <1>3, <1>5, <1>7 DEF NetDistance, Larger, Size
<1>9. need \in Int /\ need >= Footprint
  BY <1>1, <1>3, <1>5, <1>7, <1>8 DEF Smaller
<1>10. SweptDistance(y, d, o) >= need
  BY DEF RearClear, ReverseArcClear
<1>11. y \in Int /\ d \in Int /\ d <= 0 /\ y >= o.at
  BY <1>1, <1>3, <1>5, <1>7
<1>12. d = 1 - ReverseDistance /\ y = held.x - 1
  BY <1>1
<1> HIDE DEF d0, need, y, d
<1>13. y # o.at
  <2> SUFFICES ASSUME y = o.at PROVE FALSE
    OBVIOUS
  <2>1. SweptDistance(y, d, o) = -o.radius
    BY <1>5, <1>11 DEF SweptDistance, NetDistance, Between, Larger, Smaller, Size
  <2> QED BY <1>1, <1>5, <1>9, <1>10, <2>1
<1>14. -1 * d + need <= -1 * (o.at - y) - o.radius
  <2>1. -1 * d >= 0 /\ -1 * (o.at - y) > 0 /\ need + o.radius > 0
    BY <1>1, <1>5, <1>9, <1>11, <1>13
  <2> QED BY <1>5, <1>9, <1>10, <1>11, <2>1, SweepEndsBefore
<1>15. ReverseDistance <= Room(-1, held.x, o)
  BY <1>1, <1>3, <1>5, <1>9, <1>11, <1>12, <1>14 DEF Room
<1>16. Room(-1, held.x, o) = Room(-1, s.x, o) - Delay * s.v
  BY <1>1, <1>3, <1>5 DEF Room
<1> QED BY <1>4, <1>15, <1>16 DEF Verified

(* Recording an answer keeps what it commands; the stop of an empty path is*)
(* none.                                                                   *)
LEMMA RecordingKeeps ==
  ASSUME NEW attempt, NEW prev, NEW s, NEW obstacles
  PROVE  /\ \A cmd : Grounded(cmd, prev, s, obstacles) =>
              /\ Grounded(Recorded(cmd, attempt).cmd, prev, s, obstacles)
              /\ Recorded(cmd, attempt).prev = Recorded(cmd, attempt).cmd.linear
         /\ Grounded(Unrecorded(attempt, prev).cmd, prev, s, obstacles)
         /\ Unrecorded(attempt, prev).cmd.linear = 0
<1>1. ASSUME NEW cmd
      PROVE  /\ Recorded(cmd, attempt).cmd.linear = cmd.linear
             /\ Recorded(cmd, attempt).cmd.ramp = cmd.ramp
             /\ Recorded(cmd, attempt).prev = cmd.linear
  BY DEF Recorded, Reply
<1>2. ASSUME NEW cmd, Grounded(cmd, prev, s, obstacles)
      PROVE  Grounded(Recorded(cmd, attempt).cmd, prev, s, obstacles)
  BY <1>1, <1>2, Zenon DEF Grounded
<1>3. Unrecorded(attempt, prev).cmd.linear = 0
  BY DEF Unrecorded, Reply
<1>4. Grounded(Unrecorded(attempt, prev).cmd, prev, s, obstacles)
  BY <1>3, StandingIsGrounded
<1> QED BY <1>1, <1>2, <1>3, <1>4

(* Every command of the planner is grounded: whatever the phase, what      *)
(* executor answered and what the path is.                                 *)
LEMMA AnswersAreGrounded ==
  ASSUME Footprint > 0, Footprint <= RearRadius, LowScale <= 10, DwaDecel = MaxDecel,
         NEW phase \in {"None", "ForwardRetry", "Reverse", "Hold"},
         NEW held \in State, held.v \in Commanded, NEW path \in Seq(Run), NEW desired \in Nat,
         NEW prev \in Commanded, NEW obstacles, phase = "Reverse" => RearClear(held, obstacles),
         NEW plan \in SelectLocalPlan(phase, Projected(held), path, desired, prev, obstacles)
  PROVE  Grounded(plan.cmd, prev, Projected(held), obstacles)
<1> DEFINE s == Projected(held)
           Good(cmd) == Grounded(cmd, prev, s, obstacles)
<1>1. s \in State /\ s.v \in Commanded
  BY ProjectedIsState
<1>2. RobotRadius \in Int /\ RelaxedRadius \in Int
  <2>1. /\ RobotRadius \in Nat /\ Footprint \in Nat /\ RecoveryScale \in Nat
    BY ClearanceAssumption, ExecutorsAssumption
  <2>2. Larger(0, RobotRadius - Footprint) * RecoveryScale \in Nat
    <3>1. Larger(0, RobotRadius - Footprint) \in Nat
      BY <2>1 DEF Larger
    <3> QED BY <2>1, <3>1
  <2>3. \A n \in Nat : n \div 10 \in Nat
    OBVIOUS
  <2>4. (Larger(0, RobotRadius - Footprint) * RecoveryScale) \div 10 \in Nat
    BY <2>2, <2>3, Zenon
  <2> QED BY <2>1, <2>4 DEF RelaxedRadius
<1>3. \A p \in Pursuit(s, path, desired, prev, obstacles) : Good(p)
  BY <1>1, PursuitIsGrounded
<1>4. \A base \in Int : \A p \in Sampler(s, path, desired, base, obstacles) : Good(p)
  BY <1>1, SamplerIsGrounded
<1> HIDE DEF s
<1>5. CASE phase = "None"
  <2>1. plan \in Compute(s, path, desired, prev, obstacles)
    BY <1>5 DEF SelectLocalPlan, s
  <2>2. CASE path = <<>>
    <3>1. plan = Unrecorded("NotTried", prev)
      BY <2>1, <2>2, Zenon DEF Compute
    <3> QED BY <3>1, RecordingKeeps DEF s
  <2>3. CASE path # <<>>
    <3>1. \/ \E cmd \in TrackingMpc(s, path[1], desired, prev, obstacles) :
               plan = Recorded(cmd, "Succeeded")
          \/ \E p \in Pursuit(s, path, desired, prev, obstacles) :
               plan = Recorded(p, "Succeeded")
          \/ \E p \in Pursuit(s, path, desired, prev, obstacles) :
             \E cmd \in Sampler(s, path, desired, RobotRadius, obstacles) :
               plan = Recorded(cmd, p.attempt)
      BY <2>1, <2>3, Zenon DEF Compute, PursuitOr, After
    <3>2. path[1] \in Run
      BY <2>3
    <3>3. \A cmd \in TrackingMpc(s, path[1], desired, prev, obstacles) : Good(cmd)
      BY <1>1, <3>2, TrackingMpcIsGrounded
    <3>4. \E cmd, attempt : Good(cmd) /\ plan = Recorded(cmd, attempt)
      <4> HIDE DEF Good
      <4> QED BY <1>2, <1>3, <1>4, <3>1, <3>3, Zenon
    <3> QED BY <3>4, RecordingKeeps DEF s
  <2> QED BY <2>2, <2>3
<1>6. CASE phase = "ForwardRetry"
  <2>1. plan \in Retry(s, path, desired, prev, obstacles)
    BY <1>6 DEF SelectLocalPlan, s
  <2>2. \/ \E p \in Pursuit(s, path, desired, prev, obstacles) :
             plan = Recorded(p, "Succeeded") \/ plan = Unrecorded(p.attempt, prev)
        \/ \E p \in Pursuit(s, path, desired, prev, obstacles) :
           \E cmd \in Sampler(s, path, desired, RelaxedRadius, obstacles) :
             plan = Recorded(cmd, p.attempt)
    BY <2>1, Zenon DEF Retry, PursuitOr, After
  <2>3. \/ \E cmd, attempt : Good(cmd) /\ plan = Recorded(cmd, attempt)
        \/ \E attempt : plan = Unrecorded(attempt, prev)
    <3> HIDE DEF Good
    <3> QED BY <1>2, <1>3, <1>4, <2>2, Zenon
  <2> QED BY <2>3, RecordingKeeps DEF s
<1>7. CASE phase = "Reverse"
  <2>1. plan \in BackUp(s, path, desired, prev, obstacles)
    BY <1>7 DEF SelectLocalPlan, s
  <2>2. \E p \in Pursuit(s, path, desired, prev, obstacles) :
          plan = Recorded(p, "Succeeded") \/ plan = Recorded(Commands(-ReverseSpeed), p.attempt)
    BY <2>1, Zenon DEF BackUp, PursuitOr, After
  <2>3. Good(Commands(-ReverseSpeed))
    BY <1>7, ReverseIsGrounded DEF s
  <2>4. \E cmd, attempt : Good(cmd) /\ plan = Recorded(cmd, attempt)
    <3> HIDE DEF Good
    <3> QED BY <1>3, <2>2, <2>3, Zenon
  <2> QED BY <2>4, RecordingKeeps DEF s
<1>8. CASE phase = "Hold"
  <2>1. plan = Recorded(Commands(0), "NotTried")
    BY <1>8 DEF SelectLocalPlan
  <2>2. Good(Commands(0))
    BY AnswerFields, StandingIsGrounded
  <2> QED BY <2>1, <2>2, RecordingKeeps DEF s
<1> QED BY <1>5, <1>6, <1>7, <1>8

(* How old a pose is, as the settings enumerate it.                        *)
Lag(then, now, ahead) == [then |-> then, now |-> now, ahead |-> ahead]

(* The ages after a cycle that missed its WorldState.                      *)
LEMMA LagsGrow ==
  /\ \A v \in Commanded : Lag(v, v, -Delay * v) \in Lags[0]
  /\ \A n \in 0 .. StaleCycles : n + 1 \in 0 .. StaleCycles =>
       \A then, now, ahead : Lag(then, now, ahead) \in Lags[n] =>
         \A w \in NextSpeeds(now) : Lag(then, w, ahead + w) \in Lags[n + 1]
<1> DEFINE Ages  == [then : Int, now : Int, ahead : Int]
           first == { [then |-> v, now |-> v, ahead |-> -Delay * v] : v \in Commanded }
           after(S) == UNION { { [then |-> l.then, now |-> w, ahead |-> l.ahead + w] :
                                   w \in NextSpeeds(l.now) } : l \in S }
           Is(g) == g = [n \in 0 .. StaleCycles |-> IF n = 0 THEN first ELSE after(g[n - 1])]
           X    == SUBSET Ages
           step == [n \in 1 .. StaleCycles |-> [S \in X |-> after(S)]]
<1>1. StaleCycles \in Nat /\ Delay \in Nat /\ Commanded \subseteq Int
  BY DrivingAssumption, ExecutorsAssumption DEF Commanded
<1>2. Lags = CHOOSE g : Is(g)
  BY Zenon DEF Lags
<1>3. first \in X
  <2> SUFFICES ASSUME NEW v \in Commanded
               PROVE  [then |-> v, now |-> v, ahead |-> -Delay * v] \in Ages
    OBVIOUS
  <2>1. v \in Int /\ -Delay * v \in Int
    BY <1>1
  <2> QED BY <2>1
<1>4. \A S \in X : after(S) \in X
  <2> SUFFICES ASSUME NEW S \in X, NEW l \in S, NEW w \in NextSpeeds(l.now)
               PROVE  [then |-> l.then, now |-> w, ahead |-> l.ahead + w] \in Ages
    OBVIOUS
  <2>1. l \in Ages /\ w \in Int
    BY <1>1 DEF NextSpeeds
  <2> QED BY <2>1
<1> HIDE DEF first, after
<1>5. PICK f : f \in [0 .. StaleCycles -> X] /\ f[0] = first
               /\ \A n \in 1 .. StaleCycles : f[n] = step[n][f[n - 1]]
  <2>1. \A n \in 1 .. StaleCycles : \A S \in X : step[n][S] \in X
    <3> HIDE DEF X
    <3> QED BY <1>4
  <2> HIDE DEF step, X
  <2>2. IsStep(step, StaleCycles, X)
    BY <2>1 DEF IsStep
  <2>3. \E f : Iterates(f, step, first, StaleCycles, X)
    BY <1>1, <1>3, <2>2, Iteration
  <2> QED BY <2>3 DEF Iterates
<1> HIDE DEF X
<1>6. Is(f)
  <2>1. \A n \in 0 .. StaleCycles : f[n] = IF n = 0 THEN first ELSE after(f[n - 1])
    <3> SUFFICES ASSUME NEW n \in 0 .. StaleCycles, n # 0 PROVE f[n] = after(f[n - 1])
      BY <1>5
    <3>1. n \in 1 .. StaleCycles /\ n - 1 \in 0 .. StaleCycles
      BY <1>1
    <3> QED BY <1>5, <3>1
  <2>2. f = [n \in 0 .. StaleCycles |-> f[n]]
    BY <1>5
  <2> QED BY <2>1, <2>2
<1>7. Is(Lags)
  <2> HIDE DEF Is
  <2> QED BY <1>2, <1>6
<1>8. \A n \in 0 .. StaleCycles : Lags[n] = IF n = 0 THEN first ELSE after(Lags[n - 1])
  <2> DEFINE g == Lags
             body(n) == IF n = 0 THEN first ELSE after(g[n - 1])
  <2>1. g = [n \in 0 .. StaleCycles |-> body(n)]
    BY <1>7
  <2> HIDE DEF body
  <2>2. \A n \in 0 .. StaleCycles : g[n] = body(n)
    BY <2>1
  <2> HIDE DEF g
  <2> QED BY <2>2 DEF body, g
<1>9. Lags[0] = first
  BY <1>1, <1>8
<1>10. ASSUME NEW v \in Commanded PROVE Lag(v, v, -Delay * v) \in Lags[0]
  BY <1>9 DEF first, Lag
<1>11. ASSUME NEW n \in 0 .. StaleCycles, n + 1 \in 0 .. StaleCycles, NEW then, NEW now, NEW ahead,
              Lag(then, now, ahead) \in Lags[n], NEW w \in NextSpeeds(now)
       PROVE  Lag(then, w, ahead + w) \in Lags[n + 1]
  <2>1. Lags[n + 1] = after(Lags[n])
    <3>1. n + 1 # 0 /\ n + 1 - 1 = n
      OBVIOUS
    <3> QED BY <1>8, <1>11, <3>1
  <2> DEFINE l == Lag(then, now, ahead)
  <2>2. l.then = then /\ l.now = now /\ l.ahead = ahead /\ l \in Lags[n]
    BY <1>11 DEF Lag
  <2> HIDE DEF l
  <2>3. Lag(then, w, ahead + w) = [then |-> l.then, now |-> w, ahead |-> l.ahead + w]
        /\ w \in NextSpeeds(l.now)
    BY <2>2 DEF Lag
  <2>4. [then |-> l.then, now |-> w, ahead |-> l.ahead + w] \in after(Lags[n])
    BY <2>2, <2>3 DEF after
  <2> QED BY <2>1, <2>3, <2>4
<1> QED BY <1>10, <1>11

(* What a check that covers an age says of one speed.                      *)
LEMMA CoversEach ==
  ASSUME NEW l, NEW sign, NEW u, NEW reach, Covers(l, sign, u, reach),
         NEW w \in NextSpeeds(l.now), sign * w <= u
  PROVE  sign * (l.ahead + w) + StopReach(u) <= reach
BY Zenon DEF Covers

(* A command verified at the settings' reach leaves room to stop from it,  *)
(* wherever the robot now is and whatever the arbitrator makes of it.      *)
LEMMA CommandIsCovered ==
  ASSUME NEW v \in Int, NEW now \in Int, NEW ahead \in Int, ChecksReach(Lag(v, now, ahead)),
         NEW w \in NextSpeeds(now), NEW sign \in {-1, 1}, NEW c \in Commanded,
         sign * c > 0, sign * w <= sign * c, NEW room \in Int,
         Verified(sign, v, sign * c, room)
  PROVE  sign * (ahead + w) + StopReach(sign * c) <= room
<1> DEFINE u == sign * c
           l == Lag(v, now, ahead)
<1>1. c \in Int /\ w \in Int /\ u \in Nat \ {0} /\ Delay \in Nat /\ Delay * v \in Int
  <2>1. c \in Int /\ w \in Int /\ Delay \in Nat
    BY ExecutorsAssumption DEF Commanded, NextSpeeds
  <2> QED BY <2>1
<1>2. l.then = v /\ l.now = now /\ l.ahead = ahead
  BY DEF Lag
<1>3. StopReach(u) \in Nat
  BY <1>1, StopReachGrows
<1>4. ASSUME NEW reach, Covers(l, sign, u, reach)
      PROVE  sign * (ahead + w) + StopReach(u) <= reach
  <2> HIDE DEF u, l
  <2>1. sign * w <= u
    BY DEF u
  <2> QED BY <1>2, <1>4, <2>1 DEF Covers
<1>5. CASE sign = 1
  <2>1. u \in 1 .. DwaSpeed
    BY <1>5 DEF Verified
  <2>2. /\ v >= 0 => Covers(l, 1, u, Smaller(ArcReach(u), MpcReach(u)))
        /\ u <= v + DwaAccel => Covers(l, 1, u, ArcReach(u))
        /\ v = 0 /\ u <= DwaAccel => Covers(l, 1, u, Horizon * u)
    <3>1. ChecksReach(l)
      OBVIOUS
    <3> HIDE DEF u, l
    <3> QED BY <1>2, <2>1, <3>1 DEF ChecksReach
  <2>3. ArcReach(u) \in Int /\ MpcReach(u) \in Int /\ Horizon * u \in Int
    <3>1. /\ BrakeDistance(u) \in Int /\ Horizon \in Nat /\ Pad \in Nat /\ Footprint \in Nat
          /\ RobotRadius \in Int
      <4>1. DwaDecel \in Nat /\ DwaDecel > 0
        BY ClearanceAssumption
      <4>2. u * u + 2 * DwaDecel - 1 \in Int /\ 2 * DwaDecel \in Nat /\ 2 * DwaDecel > 0
        <5> HIDE DEF u
        <5> QED BY <1>1, <4>1
      <4>3. \A a \in Int : \A b \in Nat : b > 0 => a \div b \in Int
        OBVIOUS
      <4>4. BrakeDistance(u) \in Int
        <5> HIDE DEF u
        <5> QED BY <4>2, <4>3, Zenon DEF BrakeDistance
      <4> QED BY <4>4, ClearanceAssumption
    <3>2. Size(u) = u
      BY <1>1 DEF Size, Larger
    <3>3. SpeedScaledRadius(0, RobotRadius) \in Int
      BY <3>1, MarginIsInteger
    <3>4. Horizon * u \in Int
      <4> HIDE DEF u
      <4> QED BY <1>1, <3>1
    <3> HIDE DEF u
    <3> QED BY <1>1, <1>3, <3>1, <3>2, <3>3, <3>4 DEF ArcReach, MpcReach
  <2>4. \/ Covers(l, 1, u, Smaller(ArcReach(u), MpcReach(u)))
             /\ Smaller(ArcReach(u), MpcReach(u)) <= room
        \/ Covers(l, 1, u, ArcReach(u)) /\ ArcReach(u) <= room
        \/ Covers(l, 1, u, Horizon * u) /\ Horizon * u <= room
    <3>1. sign # -1
      BY <1>5
    <3>2. \/ v >= 0 /\ Smaller(ArcReach(u), MpcReach(u)) <= room
          \/ u <= v + DwaAccel /\ ArcReach(u) <= room
          \/ v = 0 /\ u <= DwaAccel /\ Horizon * u <= room
      BY <3>1, Zenon DEF Verified
    <3> HIDE DEF l, u
    <3> QED BY <2>2, <3>2, Zenon
  <2>5. PICK reach \in Int : Covers(l, sign, u, reach) /\ reach <= room
    <3>1. Smaller(ArcReach(u), MpcReach(u)) \in Int
      BY <2>3 DEF Smaller
    <3> HIDE DEF l, u
    <3> QED BY <1>5, <2>3, <2>4, <3>1
  <2>6. sign * (ahead + w) + StopReach(u) <= reach
    BY <1>4, <2>5
  <2> HIDE DEF l
  <2> QED BY <1>1, <1>3, <2>5, <2>6
<1>6. CASE sign = -1
  <2>1. u \in {-a : a \in {b \in Commanded : b < 0}}
    <3>1. c < 0 /\ u = -c
      BY <1>1, <1>6
    <3> QED BY <3>1
  <2>2. CASE v <= 0 /\ ArcReach(u) <= room
    <3>1. Covers(l, -1, u, ArcReach(u))
      <4>1. ChecksReach(l)
        OBVIOUS
      <4> HIDE DEF u, l
      <4> QED BY <1>2, <2>1, <2>2, <4>1 DEF ChecksReach
    <3>2. sign * (ahead + w) + StopReach(u) <= ArcReach(u)
      BY <1>4, <1>6, <3>1
    <3>3. ArcReach(u) \in Int
      <4>1. DwaDecel \in Nat /\ DwaDecel > 0 /\ Horizon \in Nat /\ Pad \in Nat
        BY ClearanceAssumption
      <4>2. Size(u) = u
        BY <1>1 DEF Size, Larger
      <4> HIDE DEF u
      <4>3. u * u + 2 * DwaDecel - 1 \in Int /\ 2 * DwaDecel \in Nat /\ 2 * DwaDecel > 0
            /\ Horizon * u \in Int
        BY <1>1, <4>1
      <4>4. \A a \in Int : \A b \in Nat : b > 0 => a \div b \in Int
        OBVIOUS
      <4>5. BrakeDistance(u) \in Int
        BY <4>3, <4>4, Zenon DEF BrakeDistance
      <4> QED BY <4>1, <4>2, <4>3, <4>5 DEF ArcReach
    <3> HIDE DEF u, l
    <3>4. sign * (ahead + w) + StopReach(u) <= room
      BY <1>1, <1>3, <2>2, <3>2, <3>3
    <3> QED BY <3>4 DEF u
  <2>3. CASE u = ReverseSpeed /\ ReverseDistance <= room - Delay * v
    <3> DEFINE k == [l EXCEPT !.ahead = @ + Delay * l.then]
    <3>1. Covers(k, -1, ReverseSpeed, ReverseDistance)
      <4>1. ChecksReach(l)
        OBVIOUS
      <4> HIDE DEF l
      <4> QED BY <4>1 DEF ChecksReach
    <3>2. k.now = now /\ k.ahead = ahead + Delay * v
      BY DEF Lag
    <3> HIDE DEF k, l
    <3>3. sign * w <= ReverseSpeed
      BY <2>3
    <3> HIDE DEF u
    <3>4. -1 * (ahead + Delay * v + w) + StopReach(u) <= ReverseDistance
      <4>1. sign * w <= ReverseSpeed /\ w \in NextSpeeds(k.now)
        BY <3>2, <3>3
      <4>2. Covers(k, sign, ReverseSpeed, ReverseDistance)
        BY <1>6, <3>1
      <4>3. sign * (k.ahead + w) + StopReach(ReverseSpeed) <= ReverseDistance
        BY <4>1, <4>2, CoversEach
      <4> QED BY <1>1, <1>3, <1>6, <2>3, <3>2, <4>3
    <3>5. ReverseDistance \in Nat
      BY ExecutorsAssumption
    <3>6. sign * (ahead + w) + StopReach(u) <= room
      BY <1>1, <1>3, <1>6, <2>3, <3>4, <3>5
    <3> QED BY <3>6 DEF u
  <2>4. \/ v <= 0 /\ ArcReach(u) <= room
        \/ u = ReverseSpeed /\ ReverseDistance <= room - Delay * v
    <3>1. sign # 1
      BY <1>6
    <3> QED BY <3>1, Zenon DEF Verified
  <2> QED BY <2>2, <2>3, <2>4
<1> QED BY <1>5, <1>6

(* What the arbitrator makes of a command: within its rates, and in either *)
(* direction no faster than the command, or braking.                       *)
LEMMA GraduatedMoves ==
  ASSUME prev_linear \in Commanded, prev_linear' \in Commanded,
         NEW cmd \in Command, Graduated(cmd)
  PROVE  /\ prev_linear' \in NextSpeeds(prev_linear)
         /\ \A sign \in {-1, 1} :
              \/ sign * prev_linear' <= 0
              \/ sign * prev_linear' <= sign * cmd.linear
              \/ sign * prev_linear' <= sign * prev_linear - MaxDecel
<1>1. /\ MaxSpeed \in Nat /\ MaxAccel \in Nat /\ MaxDecel \in Nat /\ DegradedCap \in Nat
      /\ MaxAccel > 0 /\ MaxDecel > 0 /\ MaxSpeed > 0 /\ NearZeroSpeed \in Nat
  BY ArbitratorAssumption DEF ArbitratorAssumption
<1>2. PICK c \in {ApplyDegradedCap(cmd), cmd} : Safe(c)
  BY Zenon DEF Graduated
<1>3. cmd.linear \in Int /\ prev_linear \in Int /\ prev_linear' \in Int
  BY DEF Command, Commanded
<1>4. c.linear \in {0, Clamp(cmd.linear, -DegradedCap, DegradedCap), cmd.linear}
  BY <1>2 DEF ApplyDegradedCap, Command
<1>5. prev_linear' = EnvelopeSpeed(c.linear)
  BY <1>2 DEF Safe
<1> DEFINE a == c.linear
           p == prev_linear
           w == prev_linear'
<1>6. /\ a \in Int
      /\ a <= 0 \/ a <= cmd.linear
      /\ -a <= 0 \/ -a <= -cmd.linear
  BY <1>1, <1>3, <1>4 DEF Clamp
<1>7. w = EnvelopeSpeed(a) /\ p \in Int /\ w \in Int /\ p = prev_linear
  BY <1>3, <1>5
<1> HIDE DEF a, w
<1>8. /\ w - p <= IF p < 0 THEN MaxDecel ELSE MaxAccel
      /\ p - w <= IF p > 0 THEN MaxDecel ELSE MaxAccel
      /\ w <= 0 \/ w <= a \/ w <= p - MaxDecel
      /\ -w <= 0 \/ -w <= -a \/ -w <= -p - MaxDecel
  BY <1>1, <1>6, <1>7 DEF EnvelopeSpeed, Clamp
<1>9. prev_linear' \in NextSpeeds(prev_linear)
  BY <1>8 DEF NextSpeeds, w
<1>10. w <= 0 \/ w <= cmd.linear \/ w <= p - MaxDecel
  BY <1>1, <1>3, <1>6, <1>7, <1>8
<1>11. -w <= 0 \/ -w <= -cmd.linear \/ -w <= -p - MaxDecel
  BY <1>1, <1>3, <1>6, <1>7, <1>8
<1>12. ASSUME NEW sign \in {-1, 1}
       PROVE  \/ sign * w <= 0 \/ sign * w <= sign * cmd.linear
              \/ sign * w <= sign * p - MaxDecel
  <2>1. CASE sign = 1
    BY <1>1, <1>3, <1>7, <1>10, <2>1
  <2>2. CASE sign = -1
    BY <1>1, <1>3, <1>7, <1>11, <2>2
  <2> QED BY <2>1, <2>2
<1> QED BY <1>9, <1>12 DEF w

(* Braking from a speed the robot can stop from, it still can.             *)
LEMMA BrakingKeepsRoom ==
  ASSUME NEW b \in Int, NEW room \in Int, StopReach(Larger(0, b)) <= room,
         NEW m \in Int, NEW k \in Int, m <= 0 \/ m <= b - MaxDecel, k <= 0 \/ k <= b - MaxDecel
  PROVE  k + StopReach(Larger(0, m)) <= room
<1>1. MaxDecel \in Nat /\ MaxDecel > 0
  BY ArbitratorAssumption DEF ArbitratorAssumption
<1>2. CASE b > MaxDecel
  <2> DEFINE a == b - MaxDecel
             n == Larger(0, m)
  <2>1. a \in Nat /\ b \in Nat /\ Larger(0, b) = b /\ n \in 0 .. a /\ k <= a
    BY <1>1, <1>2 DEF Larger
  <2>2. StopReach(b) = a + StopReach(a)
    BY <1>1, <1>2, <2>1, StopReachStep
  <2> HIDE DEF a, n
  <2>3. StopReach(a) \in Nat /\ StopReach(n) <= StopReach(a) /\ StopReach(n) \in Nat
    <3>1. n \in Nat
      BY <2>1
    <3> QED BY <2>1, <3>1, StopReachGrows
  <2>4. k + StopReach(n) <= room
    BY <2>1, <2>2, <2>3
  <2> QED BY <2>4 DEF n
<1>3. CASE ~(b > MaxDecel)
  <2>1. Larger(0, m) = 0 /\ k <= 0
    BY <1>1, <1>3 DEF Larger
  <2>2. StopReach(0) = 0
    BY <1>1, StopReachStep
  <2>3. Larger(0, b) \in Nat
    BY DEF Larger
  <2>4. StopReach(Larger(0, b)) \in Nat
    BY <2>3, StopReachGrows
  <2> QED BY <2>1, <2>2, <2>4
<1> QED BY <1>2, <1>3

(* The move of a cycle, towards an obstacle at distance room: w from the   *)
(* speed p, commanded c; q is the speed a ramp starts from.                *)
LEMMA StopAfterMove ==
  ASSUME NEW room \in Int, NEW p \in Int, NEW q \in Int, NEW c \in Int, NEW w \in Int,
         StopReach(Larger(0, p)) <= room,
         w <= 0 \/ w <= c \/ w <= p - MaxDecel,
         \/ c <= 0
         \/ c <= q - MaxDecel /\ StopReach(Larger(0, q)) <= room
         \/ c > 0 /\ (w <= c => w + StopReach(c) <= room)
  PROVE  w + StopReach(Larger(0, w)) <= room /\ w + StopReach(Larger(0, c)) <= room
<1>1. MaxDecel \in Nat /\ MaxDecel > 0
  BY ArbitratorAssumption DEF ArbitratorAssumption
<1>2. CASE c <= 0
  <2>1. w <= 0 \/ w <= p - MaxDecel
    BY <1>1, <1>2
  <2> QED BY <1>2, <2>1, BrakingKeepsRoom
<1>3. CASE c <= q - MaxDecel /\ StopReach(Larger(0, q)) <= room
  <2> DEFINE b == Larger(p, q)
  <2>1. b \in Int /\ c <= b - MaxDecel /\ (w <= 0 \/ w <= b - MaxDecel)
    BY <1>1, <1>3 DEF Larger
  <2>2. StopReach(Larger(0, b)) <= room
    BY <1>3 DEF Larger
  <2> HIDE DEF b
  <2> QED BY <2>1, <2>2, BrakingKeepsRoom
<1>4. CASE c > 0 /\ w <= c /\ w + StopReach(c) <= room
  <2>1. Larger(0, c) = c /\ c \in Nat /\ Larger(0, w) \in 0 .. c
    BY <1>4 DEF Larger
  <2>2. StopReach(Larger(0, w)) <= StopReach(c) /\ StopReach(c) \in Nat
    BY <2>1, StopReachGrows
  <2>3. StopReach(Larger(0, w)) \in Nat
    <3>1. Larger(0, w) \in Nat
      BY <2>1
    <3> QED BY <3>1, StopReachGrows
  <2> QED BY <1>4, <2>1, <2>2, <2>3
<1>5. CASE c > 0 /\ ~(w <= c)
  <2>1. w <= p - MaxDecel /\ c <= p - MaxDecel
    BY <1>1, <1>5
  <2> QED BY <2>1, BrakingKeepsRoom
<1> QED BY <1>2, <1>3, <1>4, <1>5

(***************************************************************************)
(* The inductive invariant.                                                *)
(***************************************************************************)

(* On side `sign` of it, the robot stops before o from the vehicle's speed *)
(* and from the planner's last command, and did from the pose last seen.   *)
StopsBefore(sign, o, world) ==
  /\ KeepsRoom(sign, x, prev_linear, o)
  /\ ~unrecorded => KeepsRoom(sign, x, prev_cmd_v, o)
  /\ KeepsRoom(sign, world.x, world.v, o)

Aside(o) == o.off >= Footprint + o.radius

AgeOf(world) == Lag(world.v, prev_linear, x - Projected(world).x)

StopInv ==
  mode = "Traditional" /\ ~drifted =>
    /\ \A o \in statics : o.off = 0 \/ Aside(o)
    /\ \A o \in statics \cap Closing : \E sign \in {-1, 1} : StopsBefore(sign, o, last_world)
    /\ missed < StaleCycles => AgeOf(last_world) \in Lags[missed + 1]

(* What the settings ask, one by one.                                      *)
LEMMA SettingsParts ==
  ASSUME NEW limit, StoppingSettings(limit)
  PROVE  /\ DwaDecel = MaxDecel /\ limit < Depth
         /\ Footprint > 0 /\ Footprint <= RearRadius /\ LowScale <= 10
         /\ \A v \in Commanded : Delay * Size(v) < Footprint + StopReach(v)
         /\ \A n \in 0 .. limit : \A l \in Lags[n] : ChecksReach(l)
BY Zenon DEF StoppingSettings

(* And of the worlds.                                                      *)
LEMMA WorldParts ==
  ASSUME WorldsLeaveRoom
  PROVE  /\ \A world \in Worlds : \A o \in world : NetDistance(Start, o) >= Footprint
         /\ \A o \in LateObstacles \cup UNION Worlds : o.off = 0 \/ Aside(o)
BY Zenon DEF WorldsLeaveRoom, Aside

(* Standing still needs no room to stop.                                   *)
LEMMA StandingStops == \A sign \in {-1, 1} : StopReach(Toward(sign, 0)) = 0
<1>1. \A sign \in {-1, 1} : Toward(sign, 0) = 0
  BY DEF Toward, Larger
<1>2. StopReach(0) = 0
  BY StopReachStep, ArbitratorAssumption DEF ArbitratorAssumption
<1> QED BY <1>1, <1>2

(* The robot starts clear of what there is to see.                         *)
LEMMA StopInvStarts ==
  ASSUME WorldsLeaveRoom, DrivingInit
  PROVE  StopInv
<1>1. /\ statics \in Worlds /\ statics \subseteq Obstacle /\ x = Start /\ Start \in Int
      /\ last_world = [x |-> Start, v |-> 0] /\ last_world.x = Start /\ last_world.v = 0
      /\ prev_linear = 0 /\ prev_cmd_v = 0 /\ missed = MissLimit /\ Footprint \in Nat
      /\ Depth \in Nat /\ StaleCycles \in Nat
  BY DrivingAssumption, ClearanceAssumption DEF DrivingInit, Init
<1>2. ~(missed < StaleCycles)
  BY <1>1, MissesAreCounted
<1>3. \A o \in statics : (o.off = 0 \/ Aside(o)) /\ NetDistance(Start, o) >= Footprint
  BY <1>1, WorldParts
<1>4. ASSUME NEW o \in statics \cap Closing
      PROVE  \E sign \in {-1, 1} : StopsBefore(sign, o, last_world)
  <2>1. o.at \in Int /\ o.radius \in Nat /\ o.off = 0
    BY ClosingParts
  <2>2. NetDistance(Start, o) >= Footprint
    BY <1>3
  <2>3. PICK sign \in {-1, 1} : 0 <= Room(sign, Start, o)
    <3>1. 0 <= Room(1, Start, o) \/ 0 <= Room(-1, Start, o)
      BY <1>1, <2>1, <2>2 DEF Room, NetDistance, Larger, Size
    <3> QED BY <3>1
  <2>4. KeepsRoom(sign, Start, 0, o)
    BY <2>3, StandingStops DEF KeepsRoom
  <2> QED BY <1>1, <2>4 DEF StopsBefore
<1> QED BY <1>2, <1>3, <1>4 DEF StopInv

(* The inputs of a cycle: a fresh frame is of now, and what it shows for   *)
(* the first time can be stopped for; a missed one is a cycle older.       *)
LEMMA InputsKeepStops ==
  ASSUME NEW limit, StoppingSettings(limit), WorldsLeaveRoom, DriveInv, StopInv,
         mode = "Traditional", ~drifted, Receive \/ Miss
  PROVE  /\ \A o \in statics' : o.off = 0 \/ Aside(o)
         /\ \A o \in statics' \cap Closing : \E sign \in {-1, 1} : StopsBefore(sign, o, last_world')
         /\ missed' <= StaleCycles => AgeOf(last_world') \in Lags[missed']
<1>1. /\ \A o \in statics : o.off = 0 \/ Aside(o)
      /\ \A o \in statics \cap Closing : \E sign \in {-1, 1} : StopsBefore(sign, o, last_world)
      /\ missed < StaleCycles => AgeOf(last_world) \in Lags[missed + 1]
  BY Zenon DEF StopInv
<1>2. /\ x \in Int /\ prev_linear \in Commanded /\ prev_linear \in Int /\ prev_cmd_v \in Commanded
      /\ missed \in 0 .. MissLimit /\ statics \subseteq Obstacle /\ unrecorded \in BOOLEAN
  BY DEF DriveInv, DrivingTypeOK, IInv, TypeOK
<1>3. /\ MissLimit \in Nat /\ StaleCycles \in Nat /\ StaleCycles < MissLimit /\ Delay \in Nat
      /\ Footprint > 0 /\ Commanded \subseteq Int /\ LateObstacles \subseteq Obstacle
  <2>1. LateObstacles \subseteq Obstacle
    BY DrivingAssumption
  <2> QED BY <2>1, MissesAreCounted, SettingsParts, ExecutorsAssumption DEF Commanded
<1>4. CASE Miss
  <2>1. /\ last_world' = last_world /\ statics' = statics
        /\ missed' = IF missed < MissLimit THEN missed + 1 ELSE missed
    BY <1>4 DEF Miss, CountTo
  <2>2. missed' <= StaleCycles => missed < StaleCycles /\ missed' = missed + 1
    BY <1>2, <1>3, <2>1
  <2> QED BY <1>1, <2>1, <2>2
<1>5. CASE Receive
  <2>1. /\ last_world' = [x |-> x, v |-> prev_linear] /\ last_world'.x = x
        /\ last_world'.v = prev_linear /\ missed' = 0
        /\ \/ statics' = statics
           \/ \E o \in LateObstacles \ statics : Appears(o) /\ statics' = statics \cup {o}
    BY <1>5 DEF Receive
  <2>2. AgeOf(last_world') \in Lags[0]
    <3>1. Projected(last_world').x = x + Delay * prev_linear
      BY <2>1 DEF Projected
    <3>2. x - (x + Delay * prev_linear) = -Delay * prev_linear
      BY <1>2, <1>3
    <3>3. AgeOf(last_world') = Lag(prev_linear, prev_linear, -Delay * prev_linear)
      BY <2>1, <3>1, <3>2, Zenon DEF AgeOf
    <3> QED BY <1>2, <3>3, LagsGrow, Zenon
  <2>3. ASSUME NEW o \in statics \cap Closing
        PROVE  \E sign \in {-1, 1} : StopsBefore(sign, o, last_world')
    <3>1. PICK sign \in {-1, 1} : StopsBefore(sign, o, last_world)
      BY <1>1
    <3>2. StopsBefore(sign, o, last_world')
      BY <2>1, <3>1, Zenon DEF StopsBefore
    <3> QED BY <3>2
  <2>4. ASSUME NEW o \in LateObstacles, Appears(o)
        PROVE  /\ o.off = 0 \/ Aside(o)
               /\ o \in Closing => \E sign \in {-1, 1} : StopsBefore(sign, o, last_world')
    <3>1. o.off = 0 \/ Aside(o)
      BY WorldParts
    <3>2. ASSUME o \in Closing
          PROVE  \E sign \in {-1, 1} : StopsBefore(sign, o, last_world')
      <4> DEFINE sign == IF x < o.at THEN 1 ELSE -1
      <4>1. SweptDistance(x, Sign(prev_linear) * StopReach(prev_linear), o) >= Footprint
            /\ (~unrecorded =>
                  SweptDistance(x, Sign(prev_cmd_v) * StopReach(prev_cmd_v), o) >= Footprint)
        BY <2>4 DEF Appears, StopDistance
      <4>2. /\ KeepsRoom(sign, x, prev_linear, o)
            /\ ~unrecorded => KeepsRoom(sign, x, prev_cmd_v, o)
        BY <1>2, <1>3, <3>2, <4>1, RoomIsClear
      <4>3. sign \in {-1, 1}
        OBVIOUS
      <4> HIDE DEF sign
      <4>4. StopsBefore(sign, o, last_world')
        BY <2>1, <4>2, Zenon DEF StopsBefore
      <4> QED BY <4>3, <4>4
    <3> QED BY <3>1, <3>2
  <2>5. \A o \in statics' : o \in statics \/ (o \in LateObstacles /\ Appears(o))
    BY <2>1
  <2> QED BY <1>1, <2>1, <2>2, <2>3, <2>4, <2>5
<1> QED BY <1>4, <1>5

(* An obstacle the robot could stop for at the pose last seen is not       *)
(* behind the pose the command is verified from.                           *)
LEMMA ProjectionStaysBefore ==
  ASSUME NEW limit, StoppingSettings(limit), NEW held \in State, held.v \in Commanded, NEW o \in Closing,
         NEW sign \in {-1, 1}, KeepsRoom(sign, held.x, held.v, o)
  PROVE  Before(sign, Projected(held), o)
<1>1. /\ o.at \in Int /\ o.radius \in Nat /\ held.x \in Int /\ held.v \in Int
      /\ Footprint \in Nat /\ Footprint > 0 /\ Delay \in Nat /\ Delay * held.v \in Int
  <2>1. o.at \in Int /\ o.radius \in Nat /\ held.x \in Int /\ held.v \in Int
    BY ClosingParts DEF State
  <2> QED BY <2>1, SettingsParts, ClearanceAssumption, ExecutorsAssumption
<1>2. Projected(held).x = held.x + Delay * held.v /\ Projected(held).v = held.v
  BY DEF Projected, State
<1>3. Delay * Size(held.v) < Footprint + StopReach(held.v)
  BY SettingsParts
<1>4. StopReach(Toward(sign, held.v)) <= Room(sign, held.x, o)
  BY DEF KeepsRoom
<1>5. 0 <= Room(sign, held.x, o)
  BY <1>1, SettingsParts, RoomHasASide
<1>6. held.x = Projected(held).x - Delay * Projected(held).v
  BY <1>1, <1>2
<1>7. sign * (o.at - Projected(held).x) > 0
  <2> DEFINE g == Delay * held.v
  <2>1. sign * (o.at - (held.x + g)) = sign * (o.at - held.x) - sign * g /\ g \in Int
    BY <1>1
  <2>2. Room(sign, held.x, o) = sign * (o.at - held.x) - (Footprint + o.radius)
    BY DEF Room
  <2>3. CASE sign * held.v <= 0
    <3>1. sign * g <= 0
      <4>1. CASE sign = 1
        <5>1. held.v <= 0
          BY <1>1, <2>3, <4>1
        <5>2. \A a \in Nat : \A b \in Int : b <= 0 => a * b <= 0
          OBVIOUS
        <5>3. g <= 0
          BY <1>1, <5>1, <5>2
        <5> HIDE DEF g
        <5> QED BY <2>1, <4>1, <5>3
      <4>2. CASE sign = -1
        <5>1. held.v >= 0
          BY <1>1, <2>3, <4>2
        <5>2. \A a \in Nat : \A b \in Int : b >= 0 => a * b >= 0
          OBVIOUS
        <5>3. g >= 0
          BY <1>1, <5>1, <5>2
        <5> HIDE DEF g
        <5> QED BY <2>1, <4>2, <5>3
      <4> QED BY <4>1, <4>2
    <3> HIDE DEF g
    <3> QED BY <1>1, <1>2, <1>5, <2>1, <2>2, <3>1 DEF g
  <2>4. CASE sign * held.v > 0
    <3>1. Toward(sign, held.v) = Size(held.v) /\ Size(held.v) \in Nat
      BY <1>1, <2>4 DEF Toward, Larger, Size
    <3>2. StopReach(Size(held.v)) = StopReach(held.v) /\ StopReach(Size(held.v)) \in Nat
      <4>1. Size(Size(held.v)) = Size(held.v)
        BY <3>1 DEF Size, Larger
      <4>2. StopReach(Size(held.v)) = StopReach(held.v)
        BY <4>1 DEF StopReach
      <4> QED BY <3>1, <4>2, StopReachGrows
    <3>3. Delay * Size(held.v) = sign * g
      BY <1>1, <2>4 DEF Size, Larger
    <3> HIDE DEF g
    <3>4. sign * g < Footprint + Room(sign, held.x, o)
      <4>1. Room(sign, held.x, o) \in Int
        BY <1>1, <2>2
      <4> QED BY <1>1, <1>3, <1>4, <2>1, <3>1, <3>2, <3>3, <4>1
    <3>5. sign * (o.at - (held.x + g)) > 0
      BY <1>1, <2>1, <2>2, <3>4
    <3> QED BY <1>2, <3>5 DEF g
  <2> QED BY <1>1, <2>3, <2>4
<1>8. Projected(held).x \in Int /\ Projected(held).v \in Int
  BY <1>1, <1>2
<1> QED BY <1>5, <1>6, <1>7 DEF Before

(* One cycle towards one obstacle.                                         *)
LEMMA MoveStopsBefore ==
  ASSUME NEW limit, StoppingSettings(limit), NEW held \in State, held.v \in Commanded, NEW y \in Int,
         NEW p \in Commanded, NEW q \in Commanded, NEW c \in Commanded, NEW w \in NextSpeeds(p),
         NEW o \in Closing, NEW sign \in {-1, 1},
         KeepsRoom(sign, y, p, o), KeepsRoom(sign, held.x, held.v, o),
         ChecksReach(Lag(held.v, p, y - Projected(held).x)),
         \/ sign * w <= 0 \/ sign * w <= sign * c \/ sign * w <= sign * p - MaxDecel,
         sign * c > 0 /\ Before(sign, Projected(held), o) =>
           \/ KeepsRoom(sign, y, q, o) /\ sign * c <= sign * q - DwaDecel
           \/ Verified(sign, held.v, sign * c, Room(sign, Projected(held).x, o))
  PROVE  KeepsRoom(sign, y + w, w, o) /\ KeepsRoom(sign, y + w, c, o)
<1> DEFINE room  == Room(sign, y, o)
           s     == Projected(held)
           ahead == y - s.x
<1>1. /\ p \in Int /\ q \in Int /\ c \in Int /\ w \in Int /\ held.v \in Int
      /\ sign * p \in Int /\ sign * q \in Int /\ sign * c \in Int /\ sign * w \in Int
  <2>1. p \in Int /\ q \in Int /\ c \in Int /\ w \in Int /\ held.v \in Int
    BY DEF Commanded, NextSpeeds
  <2> QED BY <2>1
<1>2. /\ o.at \in Int /\ o.radius \in Nat /\ Footprint \in Nat /\ s.x \in Int
      /\ ahead \in Int /\ room \in Int
  <2>1. o.at \in Int /\ o.radius \in Nat /\ Footprint \in Nat
    BY ClosingParts, ClearanceAssumption
  <2>2. s.x \in Int
    BY ProjectedIsState DEF State
  <2> HIDE DEF s
  <2> QED BY <2>1, <2>2 DEF Room
<1>3. DwaDecel = MaxDecel
  BY SettingsParts
<1>4. Before(sign, s, o)
  BY ProjectionStaysBefore
<1>5. Room(sign, s.x, o) = room + sign * ahead
  <2> HIDE DEF s
  <2> QED BY <1>2 DEF Room
<1>6. ASSUME sign * c > 0, Verified(sign, held.v, sign * c, Room(sign, s.x, o)),
             sign * w <= sign * c
      PROVE  sign * w + StopReach(sign * c) <= room
  <2>1. Room(sign, s.x, o) \in Int
    BY <1>2, <1>5
  <2>2. ChecksReach(Lag(held.v, p, ahead))
    OBVIOUS
  <2> HIDE DEF s, ahead, room
  <2> DEFINE far == Room(sign, s.x, o)
  <2>5. /\ held.v \in Int /\ p \in Int /\ ahead \in Int /\ ChecksReach(Lag(held.v, p, ahead))
        /\ w \in NextSpeeds(p) /\ sign \in {-1, 1} /\ c \in Commanded
        /\ sign * c > 0 /\ sign * w <= sign * c /\ far \in Int
        /\ Verified(sign, held.v, sign * c, far)
    BY <1>1, <1>2, <1>6, <2>1, <2>2
  <2> HIDE DEF far
  <2>3. sign * (ahead + w) + StopReach(sign * c) <= far
    BY <2>5, CommandIsCovered, Zenon
  <2>4. StopReach(sign * c) \in Nat
    <3>1. sign * c \in Nat
      BY <1>1, <1>6
    <3> QED BY <3>1, StopReachGrows
  <2> QED BY <1>1, <1>2, <1>5, <2>3, <2>4 DEF far
<1>7. \/ sign * c <= 0
      \/ sign * c <= sign * q - MaxDecel /\ StopReach(Larger(0, sign * q)) <= room
      \/ sign * c > 0 /\ (sign * w <= sign * c => sign * w + StopReach(sign * c) <= room)
  <2>1. CASE sign * c <= 0
    BY <2>1
  <2>2. CASE sign * c > 0 /\ KeepsRoom(sign, y, q, o) /\ sign * c <= sign * q - DwaDecel
    BY <1>3, <2>2 DEF KeepsRoom, Toward
  <2>3. CASE sign * c > 0 /\ Verified(sign, held.v, sign * c, Room(sign, s.x, o))
    BY <1>6, <2>3
  <2>4. sign * c <= 0 \/ sign * c > 0
    BY <1>1
  <2> HIDE DEF s
  <2> QED BY <1>4, <2>1, <2>2, <2>3, <2>4 DEF s
<1>8. StopReach(Larger(0, sign * p)) <= room
  BY DEF KeepsRoom, Toward
<1>9. /\ sign * w + StopReach(Larger(0, sign * w)) <= room
      /\ sign * w + StopReach(Larger(0, sign * c)) <= room
  <2> HIDE DEF room
  <2> QED BY <1>1, <1>2, <1>7, <1>8, StopAfterMove
<1>10. Room(sign, y + w, o) = room - sign * w
  BY <1>1, <1>2 DEF Room
<1>11. StopReach(Larger(0, sign * w)) \in Nat /\ StopReach(Larger(0, sign * c)) \in Nat
  <2>1. Larger(0, sign * w) \in Nat /\ Larger(0, sign * c) \in Nat
    BY <1>1 DEF Larger
  <2> QED BY <2>1, StopReachGrows
<1> HIDE DEF room
<1> QED BY <1>1, <1>2, <1>9, <1>10, <1>11 DEF KeepsRoom, Toward

(* The state after a cycle that sends a command, and after one that stops. *)
LEMMA CycleKeepsStops ==
  ASSUME NEW limit \in 0 .. StaleCycles, StoppingSettings(limit), WorldsLeaveRoom,
         SeenWithin(limit)', DriveInv, DriveInv', StopInv, Drive, mode = "Traditional", ~drifted'
  PROVE  /\ \A o \in statics' : o.off = 0 \/ Aside(o)
         /\ \A o \in statics' \cap Closing : \E sign \in {-1, 1} : StopsBefore(sign, o, last_world)'
         /\ missed' < StaleCycles => AgeOf(last_world)' \in Lags[missed' + 1]
<1>1. (Receive \/ Miss) /\ goal' \in Goals /\ goal' \in Int /\ x' = x + prev_linear'
  BY DrivingAssumption DEF Drive
<1>2. PICK obstacles \in {Obstacles}, s \in {last_world'} :
        \E choice \in Choices(s, obstacles),
           plan \in Plans(CurrentPath(s), s.x, obstacles) :
        \E answer \in SelectLocalPlan(choice.phase, Projected(s),
                                      ExecPath(plan.path, choice.phase, s),
                                      choice.desired, prev_cmd_v, obstacles) :
          /\ Commit(plan, answer.cmd.attempt, s.x)
          /\ Send(answer.cmd)
          /\ Record(answer)
  BY Zenon DEF Drive
<1>3. PICK choice \in Choices(s, obstacles),
           plan \in Plans(CurrentPath(s), s.x, obstacles) :
        \E answer \in SelectLocalPlan(choice.phase, Projected(s),
                                      ExecPath(plan.path, choice.phase, s),
                                      choice.desired, prev_cmd_v, obstacles) :
          /\ Commit(plan, answer.cmd.attempt, s.x)
          /\ Send(answer.cmd)
          /\ Record(answer)
  BY <1>2, Zenon
<1>4. PICK answer \in SelectLocalPlan(choice.phase, Projected(s),
                                      ExecPath(plan.path, choice.phase, s),
                                      choice.desired, prev_cmd_v, obstacles) :
          /\ Commit(plan, answer.cmd.attempt, s.x)
          /\ Send(answer.cmd)
          /\ Record(answer)
  BY <1>3, Zenon
<1>5. /\ last_world' \in State /\ last_world'.v \in Commanded
      /\ statics' \subseteq Obstacle /\ missed' \in 0 .. MissLimit
  BY <1>1, InputsKeepTypes, Zenon
<1>6. s = last_world' /\ s \in State /\ s.v \in Commanded /\ s.x \in Int /\ obstacles = Obstacles
  BY <1>5 DEF State
<1>7. /\ Path(global_path) /\ current_path_goal \subseteq Goals
      /\ prev_cmd_v \in Commanded /\ x \in Int /\ prev_linear \in Commanded
      /\ prev_linear' \in Int
  BY Zenon DEF DriveInv, DrivingTypeOK, Path, IInv, TypeOK
<1>8. ExecPath(plan.path, choice.phase, s) \in Seq(Run)
  <2>1. Path(CurrentPath(s))
    BY <1>7, TruncatedIsPath DEF CurrentPath
  <2>2. Path(plan.path)
    BY <1>1, <1>6, <1>7, <2>1, PlansArePaths, Zenon
  <2> QED BY <1>1, <1>6, <2>2, ExecPathIsPath, Zenon
<1>9. choice.phase \in {"None", "ForwardRetry", "Reverse", "Hold"} /\ choice.desired \in Nat
  BY ChoicesAreTyped, Zenon
<1>10. InRange(answer.cmd) /\ answer.prev \in Commanded
  <2>1. Projected(s) \in State /\ Projected(s).v \in Commanded
    BY <1>6, ProjectedIsState
  <2>2. PlanInRange(answer)
    BY <1>4, <1>7, <1>8, <1>9, <2>1, AnswersStayInRange, Zenon
  <2> QED BY <2>2, Zenon DEF PlanInRange
<1>11. ~drifted /\ ~(unrecorded /\ answer.cmd.ramp)
       /\ prev_cmd_v' = answer.prev
       /\ unrecorded' = (answer.prev # IF Stale THEN 0 ELSE answer.cmd.linear)
  BY <1>4, Zenon DEF Record
<1>12. /\ \A o \in statics' : o.off = 0 \/ Aside(o)
       /\ \A o \in statics' \cap Closing : \E sign \in {-1, 1} : StopsBefore(sign, o, s)
       /\ missed' <= StaleCycles => AgeOf(s) \in Lags[missed']
  BY <1>1, <1>6, <1>11, InputsKeepStops
<1>13. CASE Stale
  <2>1. prev_linear' = 0
    BY <1>4, <1>13 DEF Send, EmergencyStop, Stop
  <2>2. x' = x /\ ~(missed' < StaleCycles) /\ (~unrecorded' => prev_cmd_v' = 0)
    <3>1. x' = x
      <4>1. x' = x + prev_linear' /\ x \in Int
        BY <1>1, <1>7
      <4> QED BY <2>1, <4>1
    <3>2. ~(missed' < StaleCycles)
      <4>1. \A m \in 0 .. MissLimit : m > StaleCycles => ~(m < StaleCycles)
        BY DrivingAssumption
      <4> QED BY <1>5, <1>13, <4>1, Zenon DEF Stale
    <3>3. ~unrecorded' => prev_cmd_v' = 0
      BY <1>11, <1>13, Zenon
    <3> QED BY <3>1, <3>2, <3>3
  <2>3. ASSUME NEW o \in statics' \cap Closing
        PROVE  \E sign \in {-1, 1} : StopsBefore(sign, o, last_world)'
    <3>1. PICK sign \in {-1, 1} : StopsBefore(sign, o, s)
      BY <1>12
    <3>2. 0 <= Room(sign, x, o)
      BY <1>7, <3>1, RoomHasASide, SettingsParts DEF StopsBefore, Commanded
    <3>3. KeepsRoom(sign, x, 0, o)
      BY <3>2, StandingStops DEF KeepsRoom
    <3>4. KeepsRoom(sign, last_world'.x, last_world'.v, o)
      BY <1>6, <3>1 DEF StopsBefore
    <3>5. StopsBefore(sign, o, last_world)'
      BY <2>1, <2>2, <3>3, <3>4, Zenon DEF StopsBefore
    <3> QED BY <3>5
  <2> QED BY <1>12, <2>2, <2>3
<1>14. CASE ~Stale
  <2> DEFINE cmd == answer.cmd
             c   == [linear |-> cmd.linear, angular |-> 0, confidence |-> cmd.confidence]
  <2>1. missed' <= StaleCycles /\ obstacles = statics'
        /\ missed' \in 0 .. limit /\ missed' \in 0 .. StaleCycles
    <3>1. missed' <= limit
      BY <1>14, Zenon DEF Stale, SeenWithin
    <3>2. missed' <= StaleCycles /\ missed' < Depth /\ missed' \in 0 .. limit
          /\ missed' \in 0 .. StaleCycles
      <4>1. limit < Depth
        BY SettingsParts
      <4> QED BY <1>5, <3>1, <4>1, DrivingAssumption
    <3> QED BY <1>6, <3>2 DEF Obstacles
  <2>2. Graduated(c)
    BY <1>4, <1>14, Zenon DEF Send
  <2>3. cmd.linear \in Commanded /\ cmd.linear \in Int /\ cmd.confidence \in {"low", "good"}
    BY <1>10 DEF InRange, Commanded
  <2>4. c \in Command /\ c.linear = cmd.linear
    BY <2>3 DEF Command
  <2>5. prev_linear' \in Commanded
    <3>1. mode' = "Traditional"
      BY <2>2 DEF Graduated
    <3> QED BY <3>1 DEF DriveInv
  <2>6. Grounded(cmd, prev_cmd_v, Projected(s), obstacles)
    <3>1. choice.phase = "Reverse" => RearClear(s, obstacles)
      BY <1>14, Zenon DEF Choices
    <3> QED BY <1>4, <1>6, <1>7, <1>8, <1>9, <3>1, SettingsParts, AnswersAreGrounded
  <2> HIDE DEF c, cmd
  <2>7. /\ prev_linear' \in NextSpeeds(prev_linear)
        /\ \A sign \in {-1, 1} :
             \/ sign * prev_linear' <= 0
             \/ sign * prev_linear' <= sign * cmd.linear
             \/ sign * prev_linear' <= sign * prev_linear - MaxDecel
    BY <1>7, <2>2, <2>4, <2>5, GraduatedMoves
  <2>8. AgeOf(s) \in Lags[missed'] /\ ChecksReach(AgeOf(s))
    BY <1>12, <2>1, SettingsParts
  <2>9. ASSUME NEW o \in statics' \cap Closing
        PROVE  \E sign \in {-1, 1} : StopsBefore(sign, o, last_world)'
    <3>1. PICK sign \in {-1, 1} : StopsBefore(sign, o, s)
      BY <1>12
    <3>2. /\ KeepsRoom(sign, x, prev_linear, o)
          /\ ~unrecorded => KeepsRoom(sign, x, prev_cmd_v, o)
          /\ KeepsRoom(sign, s.x, s.v, o)
      BY <3>1, Zenon DEF StopsBefore
    <3>3. cmd.ramp => KeepsRoom(sign, x, prev_cmd_v, o)
      BY <1>11, <3>2, Zenon DEF cmd
    <3>4. sign * cmd.linear > 0 /\ Before(sign, Projected(s), o) =>
            \/ cmd.ramp /\ sign * cmd.linear <= sign * prev_cmd_v - DwaDecel
            \/ Verified(sign, s.v, sign * cmd.linear, Room(sign, Projected(s).x, o))
      <4>1. Projected(s).v = s.v /\ o \in obstacles \cap Closing
        BY <1>6, <2>1, ProjectedIsState
      <4> QED BY <2>6, <4>1, Zenon DEF Grounded
    <3>5. ChecksReach(Lag(s.v, prev_linear, x - Projected(s).x))
      BY <2>8 DEF AgeOf
    <3>6. o \in Closing
      OBVIOUS
    <3>7. \/ sign * prev_linear' <= 0
          \/ sign * prev_linear' <= sign * cmd.linear
          \/ sign * prev_linear' <= sign * prev_linear - MaxDecel
      BY <2>7
    <3> DEFINE c1 == cmd.linear
               p1 == prev_linear
               q1 == prev_cmd_v
               w1 == prev_linear'
               y1 == x
    <3>10. /\ s \in State /\ s.v \in Commanded /\ y1 \in Int /\ p1 \in Commanded
           /\ q1 \in Commanded /\ c1 \in Commanded /\ w1 \in NextSpeeds(p1)
           /\ KeepsRoom(sign, y1, p1, o) /\ KeepsRoom(sign, s.x, s.v, o)
           /\ ChecksReach(Lag(s.v, p1, y1 - Projected(s).x))
           /\ \/ sign * w1 <= 0 \/ sign * w1 <= sign * c1 \/ sign * w1 <= sign * p1 - MaxDecel
           /\ sign * c1 > 0 /\ Before(sign, Projected(s), o) =>
                \/ KeepsRoom(sign, y1, q1, o) /\ sign * c1 <= sign * q1 - DwaDecel
                \/ Verified(sign, s.v, sign * c1, Room(sign, Projected(s).x, o))
      BY <1>6, <1>7, <2>3, <2>7, <3>2, <3>3, <3>4, <3>5, <3>7, Zenon
    <3> HIDE DEF c1, p1, q1, w1, y1
    <3>11. KeepsRoom(sign, y1 + w1, w1, o) /\ KeepsRoom(sign, y1 + w1, c1, o)
      BY <3>6, <3>10, MoveStopsBefore
    <3>8. ~unrecorded' => prev_cmd_v' = cmd.linear
      BY <1>11, <1>14, Zenon DEF cmd
    <3>9. StopsBefore(sign, o, last_world)'
      <4>1. /\ KeepsRoom(sign, x', prev_linear', o)
            /\ ~unrecorded' => KeepsRoom(sign, x', prev_cmd_v', o)
        BY <1>1, <3>8, <3>11, Zenon DEF c1, w1, y1
      <4> QED BY <1>6, <3>2, <4>1, Zenon DEF StopsBefore
    <3> QED BY <3>9
  <2>10. ASSUME missed' < StaleCycles
         PROVE  AgeOf(last_world)' \in Lags[missed' + 1]
    <3>1. missed' \in 0 .. StaleCycles /\ missed' + 1 \in 0 .. StaleCycles
      <4>1. \A m \in 0 .. StaleCycles : m < StaleCycles => m + 1 \in 0 .. StaleCycles
        BY DrivingAssumption
      <4> QED BY <2>1, <2>10, <4>1, Zenon
    <3> DEFINE ahead == x - Projected(s).x
    <3>2. Lag(s.v, prev_linear, ahead) \in Lags[missed']
      BY <2>8 DEF AgeOf
    <3>3. Lag(s.v, prev_linear', ahead + prev_linear') \in Lags[missed' + 1]
      <4> HIDE DEF ahead
      <4> QED BY <2>7, <3>1, <3>2, LagsGrow
    <3>4. ahead + prev_linear' = x' - Projected(s).x
      <4>1. Projected(s).x \in Int
        BY <1>6, ProjectedIsState DEF State
      <4> QED BY <1>1, <1>7, <4>1
    <3>5. AgeOf(last_world)' = Lag(s.v, prev_linear', x' - Projected(s).x)
      BY <1>6 DEF AgeOf, Projected
    <3> HIDE DEF ahead
    <3> QED BY <3>3, <3>4, <3>5
  <2> QED BY <1>12, <2>9, <2>10
<1> QED BY <1>13, <1>14

(* Every step of the loop keeps the invariant.                             *)
LEMMA DrivingKeepsStopInv ==
  ASSUME NEW limit \in 0 .. StaleCycles, StoppingSettings(limit), WorldsLeaveRoom,
         SeenWithin(limit)', DriveInv, DriveInv', StopInv, [DrivingNext]_<<arbVars, driveVars>>
  PROVE  StopInv'
<1> SUFFICES ASSUME mode' = "Traditional", ~drifted'
             PROVE  /\ \A o \in statics' : o.off = 0 \/ Aside(o)
                    /\ \A o \in statics' \cap Closing :
                         \E sign \in {-1, 1} : StopsBefore(sign, o, last_world)'
                    /\ missed' < StaleCycles => AgeOf(last_world)' \in Lags[missed' + 1]
  BY DEF StopInv
<1>1. CASE Drive
  <2>1. mode = "Traditional"
    BY <1>1 DEF Drive
  <2> QED BY <1>1, <2>1, CycleKeepsStops
<1>2. CASE [Next]_arbVars /\ UNCHANGED driveVars /\ (mode = "Traditional" => UNCHANGED arbVars)
  <2>1. mode' = mode
    BY <1>2 DEF Next, Arbitrate, Graduated, Ladder, EmergencyStop, arbVars, state
  <2>2. UNCHANGED <<prev_linear, x, statics, last_world, missed, prev_cmd_v, unrecorded, drifted>>
    BY <1>2, <2>1 DEF driveVars, worldVars, pathVars, execVars, arbVars, state
  <2>3. /\ \A o \in statics : o.off = 0 \/ Aside(o)
        /\ \A o \in statics \cap Closing : \E sign \in {-1, 1} : StopsBefore(sign, o, last_world)
        /\ missed < StaleCycles => AgeOf(last_world) \in Lags[missed + 1]
    BY <2>1, <2>2, Zenon DEF StopInv
  <2> QED BY <2>2, <2>3 DEF StopsBefore, AgeOf
<1>3. \/ Drive
      \/ [Next]_arbVars /\ UNCHANGED driveVars /\ (mode = "Traditional" => UNCHANGED arbVars)
  BY Zenon DEF DrivingNext, Halt, Unfollowed
<1> QED BY <1>1, <1>2, <1>3, Zenon

(* The invariant is about stopping: an obstacle that closes the lane is on *)
(* the side the robot stops before it, and the others leave room.          *)
LEMMA StopInvClears ==
  ASSUME NEW limit, StoppingSettings(limit), DriveInv, StopInv
  PROVE  StopsClear
<1> SUFFICES ASSUME mode = "Traditional", ~drifted, NEW o \in statics
             PROVE  StopDistance(prev_linear, o) >= Footprint
  BY DEF StopsClear, StopClears
<1>1. /\ o \in Obstacle /\ x \in Int /\ prev_linear \in Commanded /\ prev_linear \in Int
      /\ Footprint > 0 /\ Footprint \in Nat
  BY SettingsParts, ClearanceAssumption DEF DriveInv, DrivingTypeOK, IInv, TypeOK
<1>2. /\ o.off = 0 \/ Aside(o)
      /\ o \in Closing => \E sign \in {-1, 1} : StopsBefore(sign, o, last_world)
  BY DEF StopInv
<1>3. CASE Aside(o)
  <2>1. o.off >= Footprint + o.radius /\ o.off \in Nat /\ o.radius \in Nat /\ o.at \in Int
    BY <1>1, <1>3 DEF Aside, Obstacle
  <2>2. Sign(prev_linear) * StopReach(prev_linear) \in Int
    <3>1. Size(prev_linear) \in Nat /\ Size(Size(prev_linear)) = Size(prev_linear)
      BY <1>1 DEF Size, Larger
    <3>2. StopReach(prev_linear) = StopReach(Size(prev_linear))
      BY <3>1 DEF StopReach
    <3>3. StopReach(prev_linear) \in Nat
      BY <3>1, <3>2, StopReachGrows
    <3> QED BY <3>3 DEF Sign
  <2> DEFINE d == Sign(prev_linear) * StopReach(prev_linear)
  <2>3. StopDistance(prev_linear, o) = SweptDistance(x, d, o)
    BY DEF StopDistance
  <2>4. \A a \in Int : NetDistance(a, o) >= Footprint
    BY <1>1, <2>1 DEF NetDistance, Larger, Size
  <2>5. Between(o.at, Smaller(x, x + d), Larger(x, x + d)) \in Int
    <3> HIDE DEF d
    <3> QED BY <1>1, <2>1, <2>2 DEF Between, Larger, Smaller, d
  <2> QED BY <2>3, <2>4, <2>5 DEF SweptDistance
<1>4. CASE o.off = 0
  <2>1. o \in Closing
    BY <1>1, <1>4 DEF Closing
  <2>2. PICK sign \in {-1, 1} : KeepsRoom(sign, x, prev_linear, o)
    BY <1>2, <2>1 DEF StopsBefore
  <2>3. KeepsRoom(IF x < o.at THEN 1 ELSE -1, x, prev_linear, o)
    BY <1>1, <2>1, <2>2, RoomHasASide
  <2> QED BY <1>1, <2>1, <2>3, RoomIsClear DEF StopDistance
<1> QED BY <1>2, <1>3, <1>4

(* Where the settings let the executors see far enough for as many missed  *)
(* WorldStates as there are, the robot can always stop clear: in every     *)
(* cycle of traditional driving, up to a ramp from an unrecorded speed, a  *)
(* full stop along the lane ends without the footprint touching an         *)
(* obstacle, whatever the planner chooses and the arbitrator makes of it.  *)
THEOREM StopsAreClear ==
  ASSUME NEW limit \in 0 .. StaleCycles, StoppingSettings(limit), WorldsLeaveRoom
  PROVE  DrivingSpec /\ []SeenWithin(limit) => []StopsClear
<1>1. DrivingInit => StopInv
  BY StopInvStarts
<1>2. DriveInv /\ DriveInv' /\ StopInv /\ SeenWithin(limit)'
        /\ [DrivingNext]_<<arbVars, driveVars>> => StopInv'
  BY DrivingKeepsStopInv
<1>3. DriveInv /\ StopInv => StopsClear
  BY StopInvClears
<1> QED BY <1>1, <1>2, <1>3, DrivingInvariant, PTL DEF DrivingSpec
=============================================================================
