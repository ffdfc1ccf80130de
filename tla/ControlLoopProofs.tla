-------------------------- MODULE ControlLoopProofs --------------------------
(***************************************************************************)
(* Proofs about ControlLoop and StopChain for every value of their         *)
(* constants.                                                              *)
(*                                                                         *)
(* The inductive invariant IInv adds to the type invariant what relates    *)
(* the counters: an unlatched watchdog was checked sinceCycle ticks ago,   *)
(* the planned velocity in force is at most one age gate older than the    *)
(* last command notification, and the heartbeat table is at most one       *)
(* PeerHealth threshold older than the watchdog's own observation.         *)
(*                                                                         *)
(* StopInv, for the chain, keeps account of the time that motion can last. *)
(* Once no planned velocity can be in force, only a speed read from the    *)
(* vehicle, made the seed of a ramp, can set the motors; a ramp step sheds *)
(* DecelStep, and that pays for the longest round of crash, restart,       *)
(* timeout and step that the speed left over can go through.               *)
(*                                                                         *)
(* RecoveryInv, for the chain after the faults, counts the other way: from *)
(* which tick on the beat is seen, the queue holds only velocities, cycles *)
(* are fed, an explicit stop has brought the vehicle to rest, and a latch  *)
(* can only wait for the next cycle.                                       *)
(***************************************************************************)
EXTENDS StopChain, SequenceTheorems, TLAPS

(* An unlatched watchdog passed its check within the last sinceCycle ticks. *)
CheckedRecently ==
  wd.latched = "None" =>
    /\ wd.cmdAge <= CommandTimeout + sinceCycle
    /\ wd.hbAge <= HeartbeatDead + sinceCycle

(* A planned velocity in force is clamped and was fresh when accepted. *)
PlannedWithinLimits ==
  wd.latched = "None" =>
    /\ lastActuated \in -MaxSpeed .. MaxSpeed
    /\ lastActuated # 0 => dataAge <= wd.cmdAge + MaxCommandAge

(* The watchdog saw planning at most one PeerHealth threshold after the    *)
(* last heartbeat that came in.                                            *)
ObservationLag == peerAge < wd.hbAge + HeartbeatDegraded

IInv ==
  /\ TypeOK
  /\ ActuationMatchesLatch
  /\ CheckedRecently
  /\ PlannedWithinLimits
  /\ ObservationLag

-----------------------------------------------------------------------------
(***************************************************************************)
(* The watchdog's methods.                                                 *)
(***************************************************************************)

(* What a watchdog between method calls satisfies. *)
Consistent(w) ==
  /\ w \in WatchdogState
  /\ w.estopActive <=> w.latched # "None"
  /\ w.latched = "None" => w.ramp = 0

(* A method that neither sees nor moves the clocks and the measured speed. *)
SameReadings(w, t) ==
  t.measured = w.measured /\ t.cmdAge = w.cmdAge /\ t.hbAge = w.hbAge

(* trigger_estop always leaves a latch, never a weaker one, never touches  *)
(* the readings, and moves the ramp only when it latches first.            *)
LEMMA TriggerEstopLatches ==
  ASSUME NEW w, Consistent(w), NEW r \in Reason
  PROVE  LET t == TriggerEstop(w, r) IN
           /\ Consistent(t) /\ SameReadings(w, t)
           /\ t.latched \in {w.latched, r} /\ t.latched # "None"
           /\ Severity(t.latched) >= Severity(w.latched)
           /\ Severity(t.latched) >= Severity(r)
           /\ w.latched # "None" => t.ramp = w.ramp
<1> DEFINE t == TriggerEstop(w, r)
<1>1. t \in WatchdogState /\ SameReadings(w, t)
  BY DEF TriggerEstop, Consistent, WatchdogState, SameReadings, Latch, Reason
<1>2. t.latched \in {w.latched, r} /\ t.latched # "None" /\ t.estopActive
  BY DEF TriggerEstop, Consistent, WatchdogState, Latch, Reason
<1>3. w.latched # "None" => t.ramp = w.ramp
  BY DEF TriggerEstop, Consistent, WatchdogState
<1>4. Severity(t.latched) >= Severity(w.latched)
  BY DEF TriggerEstop, Consistent, WatchdogState, Latch, Reason, Severity
<1>5. Severity(t.latched) >= Severity(r)
  <2>1. CASE w.latched = "None"
    BY <2>1 DEF TriggerEstop, Consistent, WatchdogState, Latch, Reason, Severity
  <2>2. CASE w.latched # "None"
    BY <2>2 DEF TriggerEstop, Consistent, WatchdogState, Latch, Reason, Severity
  <2> QED BY <2>1, <2>2
<1> QED BY <1>1, <1>2, <1>3, <1>4, <1>5 DEF Consistent

(* notify_command_received either latches the explicit request, or clears  *)
(* the latch by its rule, or leaves it; it always restarts the command age.*)
LEMMA NotifyCommandKeepsOrClears ==
  ASSUME NEW w, Consistent(w), NEW e \in BOOLEAN, WatchdogAssumption
  PROVE  LET t == NotifyCommandReceived(w, e) IN
           /\ Consistent(t)
           /\ t.cmdAge = 0 /\ t.hbAge = w.hbAge /\ t.measured = w.measured
           /\ e => t.latched = "ExplicitRequest"
           /\ ~e => t.latched \in {w.latched, "None"}
           /\ ~e /\ w.latched # "None" /\ t.latched = "None" => MayRelease(w)
           /\ t.latched = w.latched /\ w.latched # "None" => t.ramp = w.ramp
<1> DEFINE fed == [w EXCEPT !.cmdAge = 0]
           t   == NotifyCommandReceived(w, e)
<1>1. /\ Consistent(fed) /\ fed.cmdAge = 0 /\ fed.hbAge = w.hbAge
      /\ fed.measured = w.measured /\ fed.latched = w.latched /\ fed.ramp = w.ramp
  BY DEF Consistent, WatchdogState, Age, WatchdogAssumption
<1>2. MayRelease(fed) <=> MayRelease(w)
  BY <1>1 DEF MayRelease, PeerHealthy
<1> HIDE DEF fed
<1>3. CASE e
  <2>1. t = TriggerEstop(fed, "ExplicitRequest")
    BY <1>3 DEF NotifyCommandReceived, fed
  <2>2. t.latched = "ExplicitRequest"
    BY <2>1, <1>1, TriggerEstopLatches
       DEF Severity, Reason, Consistent, WatchdogState, Latch
  <2> HIDE DEF t
  <2>3. /\ Consistent(t) /\ SameReadings(fed, t)
        /\ fed.latched # "None" => t.ramp = fed.ramp
    <3>1. "ExplicitRequest" \in Reason
      BY DEF Reason
    <3> QED BY <2>1, <3>1, <1>1, TriggerEstopLatches
  <2>4. t.latched = w.latched /\ w.latched # "None" => t.ramp = w.ramp
    BY <2>3, <1>1
  <2> QED BY <2>2, <2>3, <2>4, <1>1, <1>3 DEF SameReadings, t
<1>4. CASE ~e /\ MayRelease(fed)
  <2>1. t = ClearEstop(fed)
    BY <1>4 DEF NotifyCommandReceived, fed
  <2> HIDE DEF t
  <2>2. Consistent(t) /\ t.latched = "None" /\ SameReadings(fed, t)
    <3>1. fed \in WatchdogState
      BY <1>1 DEF Consistent
    <3>2. t = [fed EXCEPT !.latched = "None", !.ramp = 0, !.estopActive = FALSE]
      BY <2>1 DEF ClearEstop
    <3>3. t = [ latched |-> "None", estopActive |-> FALSE, ramp |-> 0,
                measured |-> fed.measured, cmdAge |-> fed.cmdAge, hbAge |-> fed.hbAge ]
      BY <3>1, <3>2 DEF WatchdogState, Latch
    <3>4. t \in WatchdogState
      BY <3>1, <3>3 DEF WatchdogState, Latch
    <3> QED BY <3>3, <3>4 DEF Consistent, SameReadings
  <2> QED BY <2>2, <1>1, <1>2, <1>4 DEF SameReadings, t
<1>5. CASE ~e /\ ~MayRelease(fed)
  <2>1. t = fed
    BY <1>5 DEF NotifyCommandReceived, fed
  <2> QED BY <2>1, <1>1, <1>2, <1>5
<1> QED BY <1>3, <1>4, <1>5

(* check latches whenever a threshold is passed and otherwise does nothing.*)
LEMMA CheckLatches ==
  ASSUME NEW w, Consistent(w)
  PROVE  LET t == CheckConditions(w) IN
           /\ Consistent(t) /\ SameReadings(w, t)
           /\ t.latched = "None" =>
                t = w /\ w.cmdAge <= CommandTimeout /\ w.hbAge <= HeartbeatDead
           /\ w.latched # "None" =>
                t.latched # "None" /\ t.ramp = w.ramp
                /\ Severity(t.latched) >= Severity(w.latched)
           /\ t.latched = "CommandTimeout" =>
                w.latched = "CommandTimeout" \/ w.cmdAge > CommandTimeout
           /\ t.latched \in {w.latched, "CommandTimeout", "PeerDead"}
<1> DEFINE t == CheckConditions(w)
<1>1. CASE w.cmdAge > CommandTimeout
  <2>1. t = TriggerEstop(w, "CommandTimeout")
    BY <1>1 DEF CheckConditions
  <2> QED BY <2>1, <1>1, TriggerEstopLatches DEF Reason
<1>2. CASE ~(w.cmdAge > CommandTimeout) /\ w.hbAge > HeartbeatDead
  <2>1. t = TriggerEstop(w, "PeerDead")
    BY <1>2 DEF CheckConditions
  <2> QED BY <2>1, TriggerEstopLatches DEF Reason
<1>3. CASE ~(w.cmdAge > CommandTimeout) /\ ~(w.hbAge > HeartbeatDead)
  <2>1. t = w
    BY <1>3 DEF CheckConditions
  <2>2. w.cmdAge <= CommandTimeout /\ w.hbAge <= HeartbeatDead
    BY <1>3, WatchdogAssumption DEF Consistent, WatchdogState, Age, WatchdogAssumption
  <2> QED
    BY <2>1, <2>2 DEF Consistent, WatchdogState, Severity, Latch, Reason, SameReadings
<1> QED BY <1>1, <1>2, <1>3

(* One ramp step shrinks a non-zero speed, keeps its sign and ends at zero. *)
LEMMA RampShrinks ==
  ASSUME NEW ramp \in Int, WatchdogAssumption
  PROVE  LET v == DecelerationVelocity(ramp) IN
           /\ v \in Int
           /\ ramp = 0 => v = 0
           /\ ramp # 0 => AbsVal(v) < AbsVal(ramp)
           /\ v # 0 => (v > 0 <=> ramp > 0)
  BY DEF DecelerationVelocity, AbsVal, WatchdogAssumption
-----------------------------------------------------------------------------
(***************************************************************************)
(* One control cycle.                                                      *)
(***************************************************************************)

(* The watchdog after the readings and the classification of the command:  *)
(* unlatched or restarted only by a fresh command, explicit on request.    *)
LEMMA ClassifiedFacts ==
  ASSUME IInv, WatchdogAssumption, ControlLoopAssumption,
         NEW cmds \in Seq(Command)
  PROVE  LET o == Observed(wd)
             c == Classified(o, cmds) IN
           /\ Consistent(c)
           /\ c.measured = feedback
           /\ c.hbAge = IF HeartbeatVisible THEN 0 ELSE wd.hbAge
           /\ c.cmdAge = IF IsPlanned(cmds) \/ IsRequested(cmds) THEN 0 ELSE wd.cmdAge
           /\ IsRequested(cmds) => c.latched = "ExplicitRequest"
           /\ ~IsRequested(cmds) => c.latched \in {wd.latched, "None"}
           /\ wd.latched # "None" /\ c.latched = "None" =>
                IsPlanned(cmds) /\ MayRelease(o)
           /\ c.latched = wd.latched /\ wd.latched # "None" => c.ramp = wd.ramp
<1> DEFINE o == Observed(wd)
           c == Classified(o, cmds)
<1>1. Consistent(wd)
  BY DEF IInv, TypeOK, ActuationMatchesLatch, Consistent
<1>2. /\ Consistent(o) /\ o.measured = feedback
      /\ o.hbAge = IF HeartbeatVisible THEN 0 ELSE wd.hbAge
      /\ o.cmdAge = wd.cmdAge /\ o.latched = wd.latched /\ o.ramp = wd.ramp
  <2>1. feedback \in Int
    BY DEF IInv, TypeOK, ControlLoopAssumption
  <2>2. 0 \in Age
    BY DEF Age, WatchdogAssumption
  <2> QED
    BY <1>1, <2>1, <2>2
       DEF Observed, UpdateMeasuredSpeed, NotifyHeartbeat, Consistent, WatchdogState
<1> HIDE DEF o
<1>3. ~(IsPlanned(cmds) /\ IsRequested(cmds))
  BY DEF IsPlanned, IsRequested
<1>4. CASE IsRequested(cmds)
  <2>1. c = NotifyCommandReceived(o, TRUE)
    BY <1>4 DEF Classified
  <2> HIDE DEF c
  <2>2. /\ Consistent(c) /\ c.cmdAge = 0 /\ c.hbAge = o.hbAge
        /\ c.measured = o.measured /\ c.latched = "ExplicitRequest"
        /\ c.latched = o.latched /\ o.latched # "None" => c.ramp = o.ramp
    BY <2>1, <1>2, NotifyCommandKeepsOrClears
  <2> QED BY <2>2, <1>2, <1>3, <1>4 DEF c, o
<1>5. CASE ~IsRequested(cmds) /\ IsPlanned(cmds)
  <2>1. c = NotifyCommandReceived(o, FALSE)
    BY <1>5 DEF Classified
  <2> HIDE DEF c
  <2>2. /\ Consistent(c) /\ c.cmdAge = 0 /\ c.hbAge = o.hbAge
        /\ c.measured = o.measured /\ c.latched \in {o.latched, "None"}
        /\ o.latched # "None" /\ c.latched = "None" => MayRelease(o)
        /\ c.latched = o.latched /\ o.latched # "None" => c.ramp = o.ramp
    BY <2>1, <1>2, NotifyCommandKeepsOrClears
  <2> QED BY <2>2, <1>2, <1>5 DEF c, o
<1>6. CASE ~IsRequested(cmds) /\ ~IsPlanned(cmds)
  <2>1. c = o
    BY <1>6 DEF Classified
  <2> QED BY <2>1, <1>2, <1>6 DEF o
<1> QED BY <1>4, <1>5, <1>6 DEF c, o

(* What the latch is after the check, and why: the facts every conjunct of *)
(* the invariant and every action property of a cycle follow from.         *)
LEMMA CheckedFacts ==
  ASSUME IInv, WatchdogAssumption, ControlLoopAssumption,
         NEW cmds \in Seq(Command)
  PROVE  LET c == Checked(cmds) IN
           /\ Consistent(c)
           /\ c.measured = feedback
           /\ c.hbAge = IF HeartbeatVisible THEN 0 ELSE wd.hbAge
           /\ c.cmdAge = IF IsPlanned(cmds) \/ IsRequested(cmds) THEN 0 ELSE wd.cmdAge
           /\ c.latched = "None" =>
                /\ c.cmdAge <= CommandTimeout /\ c.hbAge <= HeartbeatDead
                /\ ~IsRequested(cmds)
           /\ wd.latched # "None" /\ c.latched = "None" =>
                /\ IsPlanned(cmds)
                /\ wd.latched = "ExplicitRequest" => AbsVal(feedback) < StoppedSpeed
           /\ wd.latched # "None" /\ c.latched = "CommandTimeout" =>
                wd.latched = "CommandTimeout" /\ c.ramp = wd.ramp
<1> DEFINE o == Observed(wd)
           k == Classified(o, cmds)
           c == Checked(cmds)
<1>1. c = CheckConditions(k)
  BY DEF Checked
<1>2. o.measured = feedback /\ o.latched = wd.latched
  BY DEF IInv, TypeOK, WatchdogState, Observed, UpdateMeasuredSpeed, NotifyHeartbeat
<1>3. /\ Consistent(k)
      /\ k.measured = feedback
      /\ k.hbAge = IF HeartbeatVisible THEN 0 ELSE wd.hbAge
      /\ k.cmdAge = IF IsPlanned(cmds) \/ IsRequested(cmds) THEN 0 ELSE wd.cmdAge
      /\ IsRequested(cmds) => k.latched = "ExplicitRequest"
      /\ ~IsRequested(cmds) => k.latched \in {wd.latched, "None"}
      /\ wd.latched # "None" /\ k.latched = "None" => IsPlanned(cmds) /\ MayRelease(o)
      /\ k.latched = wd.latched /\ wd.latched # "None" => k.ramp = wd.ramp
  BY ClassifiedFacts
<1>4. MayRelease(o) /\ wd.latched = "ExplicitRequest" => AbsVal(feedback) < StoppedSpeed
  BY <1>2 DEF MayRelease
<1> HIDE DEF o, k, c
<1>5. /\ Consistent(c) /\ SameReadings(k, c)
      /\ c.latched = "None" =>
           c = k /\ k.cmdAge <= CommandTimeout /\ k.hbAge <= HeartbeatDead
      /\ k.latched # "None" =>
           c.latched # "None" /\ c.ramp = k.ramp
           /\ Severity(c.latched) >= Severity(k.latched)
      /\ c.latched = "CommandTimeout" =>
           k.latched = "CommandTimeout" \/ k.cmdAge > CommandTimeout
      /\ c.latched \in {k.latched, "CommandTimeout", "PeerDead"}
  BY <1>1, <1>3, CheckLatches
<1>6. ASSUME wd.latched # "None", c.latched = "CommandTimeout"
      PROVE  wd.latched = "CommandTimeout" /\ c.ramp = wd.ramp
  <2>1. CASE k.latched = "None"
    <3>1. k.cmdAge = 0
      BY <1>3, <1>6, <2>1
    <3> QED BY <1>5, <1>6, <2>1, <3>1, WatchdogAssumption DEF WatchdogAssumption
  <2>2. CASE k.latched # "None"
    <3>1. Severity(c.latched) >= Severity(k.latched) /\ c.ramp = k.ramp
      BY <1>5, <2>2
    <3>2. k.latched = "CommandTimeout"
      BY <1>3, <1>6, <2>2, <3>1
         DEF Severity, Consistent, WatchdogState, Latch, Reason
    <3> QED BY <1>3, <1>6, <3>1, <3>2
  <2> QED BY <2>1, <2>2
<1> QED BY <1>3, <1>4, <1>5, <1>6 DEF SameReadings, c

(* A cycle re-establishes the invariant whatever it drained. *)
LEMMA CyclePreservesIInv ==
  ASSUME IInv, WatchdogAssumption, ControlLoopAssumption, Cycle
  PROVE  IInv'
<1>1. PICK n \in 0 .. Len(ch2) :
        /\ RunCycle(SubSeq(ch2, 1, n))
        /\ ch2' = SubSeq(ch2, n + 1, Len(ch2))
  BY DEF Cycle
<1>2. sinceCycle' = 0 /\ peerAge' = peerAge /\ feedback' = feedback
  BY DEF Cycle
<1> DEFINE cmds == SubSeq(ch2, 1, n)
           c    == Checked(cmds)
<1>3. /\ Len(ch2) \in Nat /\ Len(ch2) <= QueueCap
      /\ \A i \in 1 .. Len(ch2) : ch2[i] \in Command
  BY LenProperties, ElementOfSeq DEF IInv, TypeOK
<1>4. cmds \in Seq(Command)
  <2>1. \A i \in 1 .. n : ch2[i] \in Command
    BY <1>3
  <2> QED BY <2>1, SubSeqProperties
<1>5. ch2' \in Seq(Command) /\ Len(ch2') <= QueueCap
  <2>1. \A i \in n + 1 .. Len(ch2) : ch2[i] \in Command
    BY <1>3
  <2>2. /\ SubSeq(ch2, n + 1, Len(ch2)) \in Seq(Command)
        /\ Len(SubSeq(ch2, n + 1, Len(ch2)))
             = IF n + 1 <= Len(ch2) THEN Len(ch2) - (n + 1) + 1 ELSE 0
    BY <1>3, <2>1, SubSeqProperties
  <2> QED BY <1>1, <1>3, <2>2, ControlLoopAssumption DEF ControlLoopAssumption
<1>6. IsPlanned(cmds) => Newest(cmds) \in Command /\ Newest(cmds).age \in 0 .. MaxCommandAge
  <2> SUFFICES ASSUME IsPlanned(cmds)
               PROVE  Newest(cmds) \in Command /\ Newest(cmds).age \in 0 .. MaxCommandAge
    OBVIOUS
  <2> HIDE DEF cmds
  <2>1. Newest(cmds) \in Command
    BY <1>4, EmptySeq, ElementOfSeq DEF IsPlanned, Newest
  <2> QED
    BY <2>1, ControlLoopAssumption
       DEF IsPlanned, Newest, Fresh, Command, StampAge, ControlLoopAssumption
<1>7. /\ Consistent(c)
      /\ c.hbAge = IF HeartbeatVisible THEN 0 ELSE wd.hbAge
      /\ c.cmdAge = IF IsPlanned(cmds) \/ IsRequested(cmds) THEN 0 ELSE wd.cmdAge
      /\ c.latched = "None" =>
           c.cmdAge <= CommandTimeout /\ c.hbAge <= HeartbeatDead /\ ~IsRequested(cmds)
      /\ wd.latched # "None" /\ c.latched = "None" => IsPlanned(cmds)
  BY <1>4, CheckedFacts
<1>8. c.latched \in Latch /\ c \in WatchdogState
  BY <1>7 DEF Consistent, WatchdogState
<1>9. c.hbAge \in Age /\ peerAge < c.hbAge + HeartbeatDegraded
  BY <1>7, <1>8, WatchdogAssumption, ControlLoopAssumption
     DEF IInv, ObservationLag, HeartbeatVisible, TypeOK, WatchdogState, Age,
         WatchdogAssumption, ControlLoopAssumption
<1>10. RunCycle(cmds)
  BY <1>1
<1> HIDE DEF cmds, c
<1> DEFINE Rest == peerAge' = peerAge /\ feedback' = feedback
<1>11. CASE c.latched = "CommandTimeout"
  <2>1. ActuateRamp(c)
    BY <1>10, <1>11 DEF RunCycle, c
  <2> DEFINE v == DecelerationVelocity(c.ramp)
  <2>2. v \in Int
    BY <1>8, RampShrinks, WatchdogAssumption DEF WatchdogState
  <2>3. /\ wd' = [c EXCEPT !.ramp = v] /\ lastActuated' = v /\ dataAge' = 0
        /\ motor' = IF v # 0 THEN Velocity(v) ELSE HardStop
    BY <2>1 DEF ActuateRamp
  <2> HIDE DEF v
  <2>4. /\ wd' \in WatchdogState /\ wd'.latched = "CommandTimeout" /\ wd'.ramp = v
        /\ wd'.hbAge = c.hbAge /\ wd'.estopActive
    BY <1>7, <1>8, <1>11, <2>2, <2>3 DEF WatchdogState, Consistent
  <2>5. TypeOK'
    BY <1>2, <1>5, <2>2, <2>3, <2>4, WatchdogAssumption, ControlLoopAssumption
       DEF IInv, TypeOK, Motor, Velocity, HardStop, Age, WatchdogAssumption,
           ControlLoopAssumption
  <2>6. ActuationMatchesLatch'
    BY <2>3, <2>4 DEF ActuationMatchesLatch, Velocity, HardStop
  <2>7. CheckedRecently' /\ PlannedWithinLimits' /\ ObservationLag'
    BY <1>2, <1>9, <2>4 DEF CheckedRecently, PlannedWithinLimits, ObservationLag
  <2> QED BY <2>5, <2>6, <2>7 DEF IInv
<1>12. CASE c.latched \in {"PeerDead", "ExplicitRequest"}
  <2>1. ActuateHardStop(c)
    BY <1>10, <1>12 DEF RunCycle, c
  <2>2. wd' = c /\ lastActuated' = 0 /\ dataAge' = 0 /\ motor' = HardStop
    BY <2>1 DEF ActuateHardStop
  <2>3. TypeOK'
    BY <1>2, <1>5, <1>8, <2>2, WatchdogAssumption, ControlLoopAssumption
       DEF IInv, TypeOK, Motor, HardStop, Age, WatchdogAssumption, ControlLoopAssumption
  <2>4. ActuationMatchesLatch'
    BY <1>7, <1>12, <2>2 DEF ActuationMatchesLatch, HardStop, Consistent
  <2>5. CheckedRecently' /\ PlannedWithinLimits' /\ ObservationLag'
    BY <1>2, <1>9, <1>12, <2>2 DEF CheckedRecently, PlannedWithinLimits, ObservationLag
  <2> QED BY <2>3, <2>4, <2>5 DEF IInv
<1>13. CASE c.latched = "None"
  <2>1. ActuatePlanned(c, cmds)
    BY <1>10, <1>13 DEF RunCycle, c
  <2> DEFINE v == IF IsPlanned(cmds) THEN ClampCommand(Newest(cmds).linear)
                                     ELSE lastActuated
  <2>2. /\ wd' = c /\ lastActuated' = v /\ motor' = Velocity(v)
        /\ dataAge' = IF IsPlanned(cmds) THEN Newest(cmds).age ELSE dataAge
    BY <2>1 DEF ActuatePlanned
  <2>3. v \in -MaxSpeed .. MaxSpeed
    <3>1. CASE IsPlanned(cmds)
      BY <1>6, <3>1, ControlLoopAssumption
         DEF ClampCommand, Command, ControlLoopAssumption
    <3>2. CASE ~IsPlanned(cmds)
      BY <1>7, <1>13, <3>2 DEF IInv, PlannedWithinLimits
    <3> QED BY <3>1, <3>2
  <2>4. dataAge' \in Age /\ (v # 0 => dataAge' <= c.cmdAge + MaxCommandAge)
    <3>1. CASE IsPlanned(cmds)
      BY <1>6, <1>7, <2>2, <3>1, WatchdogAssumption, ControlLoopAssumption
         DEF Age, WatchdogAssumption, ControlLoopAssumption
    <3>2. CASE ~IsPlanned(cmds)
      BY <1>7, <1>13, <2>2, <3>2 DEF IInv, TypeOK, PlannedWithinLimits
    <3> QED BY <3>1, <3>2
  <2> HIDE DEF v
  <2>5. TypeOK'
    BY <1>2, <1>5, <1>8, <2>2, <2>3, <2>4, ControlLoopAssumption
       DEF IInv, TypeOK, Motor, Velocity, ControlLoopAssumption
  <2>6. ActuationMatchesLatch'
    BY <1>7, <1>13, <2>2 DEF ActuationMatchesLatch, Velocity, Consistent
  <2>7. CheckedRecently' /\ PlannedWithinLimits' /\ ObservationLag'
    BY <1>2, <1>7, <1>8, <1>9, <1>13, <2>2, <2>3, <2>4, WatchdogAssumption
       DEF CheckedRecently, PlannedWithinLimits, ObservationLag, WatchdogState, Age,
           WatchdogAssumption
  <2> QED BY <2>5, <2>6, <2>7 DEF IInv
<1> QED BY <1>8, <1>11, <1>12, <1>13 DEF Latch, Reason

(* Time passing keeps the relations between the counters, also where they  *)
(* saturate.                                                               *)
LEMMA TickPreservesIInv ==
  ASSUME IInv, WatchdogAssumption, ControlLoopAssumption, Tick
  PROVE  IInv'
<1> USE WatchdogAssumption, ControlLoopAssumption DEF WatchdogAssumption, ControlLoopAssumption
<1>1. /\ Len(ch2) \in Nat /\ Len(ch2) <= QueueCap
      /\ \A i \in 1 .. Len(ch2) : ch2[i] \in Command
  BY LenProperties, ElementOfSeq DEF IInv, TypeOK
<1>2. ch2' \in Seq(Command) /\ Len(ch2') <= QueueCap
  <2>1. \A i \in 1 .. Len(ch2) : [ch2[i] EXCEPT !.age = OlderStamp(@)] \in Command
    <3> SUFFICES ASSUME NEW i \in 1 .. Len(ch2)
                 PROVE  [ch2[i] EXCEPT !.age = OlderStamp(@)] \in Command
      OBVIOUS
    <3>1. ch2[i] \in Command /\ ch2[i].age \in StampAge
      BY <1>1 DEF Command
    <3>2. OlderStamp(ch2[i].age) \in StampAge
      BY <3>1 DEF StampAge, OlderStamp
    <3> HIDE DEF WatchdogAssumption, ControlLoopAssumption
    <3> QED BY <3>1, <3>2 DEF Command
  <2>2. ch2' \in [1 .. Len(ch2) -> Command] /\ Len(ch2') = Len(ch2)
    <3> DEFINE f == [i \in 1 .. Len(ch2) |-> [ch2[i] EXCEPT !.age = OlderStamp(@)]]
    <3>1. ch2' = f
      BY DEF Tick
    <3>2. f \in [1 .. Len(ch2) -> Command]
      BY <2>1
    <3> HIDE DEF f
    <3>3. DOMAIN f = 1 .. Len(ch2)
      BY <3>2
    <3> QED BY <1>1, <3>1, <3>2, <3>3
  <2>3. ch2' \in Seq(Command)
    BY <1>1, <2>2
  <2> QED BY <1>1, <2>2, <2>3
<1>3. wd \in WatchdogState /\ peerAge \in Age /\ dataAge \in Age /\ sinceCycle \in 0 .. MaxStall
  BY DEF IInv, TypeOK
<1>4. /\ wd' \in WatchdogState
      /\ wd'.latched = wd.latched /\ wd'.estopActive = wd.estopActive
      /\ wd'.ramp = wd.ramp
      /\ wd'.cmdAge = Older(wd.cmdAge) /\ wd'.hbAge = Older(wd.hbAge)
  <2>1. Older(wd.cmdAge) \in Age /\ Older(wd.hbAge) \in Age
    BY <1>3 DEF WatchdogState, Age, Older
  <2>2. wd' = [wd EXCEPT !.cmdAge = Older(wd.cmdAge), !.hbAge = Older(wd.hbAge)]
    BY DEF Tick, WatchdogTick
  <2> HIDE DEF WatchdogAssumption, ControlLoopAssumption
  <2> QED BY <1>3, <2>1, <2>2 DEF WatchdogState
<1>5. /\ peerAge' = Older(peerAge)
      /\ dataAge' = IF wd.latched = "None" THEN Older(dataAge) ELSE 0
      /\ sinceCycle' = sinceCycle + 1 /\ sinceCycle < MaxStall
      /\ feedback' = feedback /\ lastActuated' = lastActuated /\ motor' = motor
  BY DEF Tick
<1>6. TypeOK'
  BY <1>2, <1>3, <1>4, <1>5 DEF IInv, TypeOK, Older, Age
<1>7. ActuationMatchesLatch'
  BY <1>4, <1>5 DEF IInv, ActuationMatchesLatch, HardStop
<1>8. CheckedRecently'
  BY <1>3, <1>4, <1>5 DEF IInv, CheckedRecently, WatchdogState, Older, Age
<1>9. PlannedWithinLimits'
  BY <1>3, <1>4, <1>5 DEF IInv, PlannedWithinLimits, WatchdogState, Older, Age
<1>10. ObservationLag'
  BY <1>3, <1>4, <1>5 DEF IInv, ObservationLag, WatchdogState, Older, Age
<1> QED BY <1>6, <1>7, <1>8, <1>9, <1>10 DEF IInv

(* What the other processes and the HAL do between cycles. *)
LEMMA EnvironmentPreservesIInv ==
  ASSUME IInv, WatchdogAssumption, ControlLoopAssumption, Environment
  PROVE  IInv'
<1> USE WatchdogAssumption, ControlLoopAssumption DEF WatchdogAssumption, ControlLoopAssumption
<1>1. ASSUME NEW k \in Kind, NEW v \in Int, Publish(k, v)
      PROVE  IInv'
  <2>1. ch2' \in Seq(Command) /\ Len(ch2') <= QueueCap
    <3>1. [kind |-> k, linear |-> v, age |-> 0] \in Command
      BY DEF Command, StampAge
    <3> QED BY <1>1, <3>1, LenProperties, AppendProperties DEF Publish, IInv, TypeOK
  <2> QED
    BY <1>1, <2>1 DEF Publish, IInv, TypeOK, ActuationMatchesLatch, CheckedRecently,
                      PlannedWithinLimits, ObservationLag
<1>2. CASE Heartbeat
  BY <1>2 DEF Heartbeat, IInv, TypeOK, ActuationMatchesLatch, CheckedRecently,
              PlannedWithinLimits, ObservationLag, WatchdogState, Age
<1>3. CASE Feedback
  BY <1>3 DEF Feedback, IInv, TypeOK, ActuationMatchesLatch, CheckedRecently,
              PlannedWithinLimits, ObservationLag
<1>4. PublishVelocity \/ PublishEstop \/ PublishOther =>
        \E k \in Kind, v \in Int : Publish(k, v)
  BY DEF PublishVelocity, PublishEstop, PublishOther, Kind
<1> QED BY <1>1, <1>2, <1>3, <1>4 DEF Environment

(* Every step, a stutter included, preserves the inductive invariant. *)
LEMMA StepPreservesIInv ==
  ASSUME IInv, WatchdogAssumption, ControlLoopAssumption, [Next]_vars
  PROVE  IInv'
<1>1. CASE UNCHANGED vars
  BY <1>1 DEF vars, IInv, TypeOK, ActuationMatchesLatch, CheckedRecently,
              PlannedWithinLimits, ObservationLag
<1> QED
  BY <1>1, CyclePreservesIInv, TickPreservesIInv, EnvironmentPreservesIInv DEF Next

(* The processes start in the inductive invariant. *)
LEMMA InitEstablishesIInv ==
  ASSUME WatchdogAssumption, ControlLoopAssumption, Init
  PROVE  IInv
<1> USE WatchdogAssumption, ControlLoopAssumption DEF WatchdogAssumption, ControlLoopAssumption
<1>1. NewWatchdog \in WatchdogState
  BY DEF NewWatchdog, WatchdogState, Latch, Age
<1>2. ch2 \in Seq(Command) /\ Len(ch2) = 0
  BY EmptySeq DEF Init
<1>3. TypeOK
  BY <1>1, <1>2 DEF Init, TypeOK, Age, Motor, Velocity
<1> QED
  BY <1>3 DEF Init, IInv, NewWatchdog, ActuationMatchesLatch, CheckedRecently,
              PlannedWithinLimits, ObservationLag, Velocity

-----------------------------------------------------------------------------
(***************************************************************************)
(* Theorems.                                                               *)
(***************************************************************************)

(* Every reachable state of the control process satisfies the inductive    *)
(* invariant, for all thresholds, speeds, queue lengths and stall bounds.  *)
THEOREM ControlLoopInvariant == Spec => []IInv
<1>1. Init => IInv
  BY InitEstablishesIInv, WatchdogAssumption, ControlLoopAssumption
<1>2. IInv /\ [Next]_vars => IInv'
  BY StepPreservesIInv, WatchdogAssumption, ControlLoopAssumption
<1> QED BY <1>1, <1>2, PTL DEF Spec

(* Type correctness of the control process.                                *)
THEOREM ControlLoopTyped == Spec => []TypeOK
<1>1. IInv => TypeOK
  BY DEF IInv
<1> QED BY <1>1, ControlLoopInvariant, PTL

(* The velocity at the motors outside an e-stop is never older than the    *)
(* age gate, the command timeout and one control period together.          *)
THEOREM PlannedMotionStaysFresh == Spec => []PlannedMotionIsFresh
<1>1. IInv => PlannedMotionIsFresh
  BY WatchdogAssumption, ControlLoopAssumption
     DEF IInv, PlannedMotionIsFresh, CheckedRecently, PlannedWithinLimits, TypeOK,
         WatchdogState, Age, WatchdogAssumption, ControlLoopAssumption
<1> QED BY <1>1, ControlLoopInvariant, PTL

(* Planning's heartbeat is never older than both thresholds and one        *)
(* control period together while no e-stop is latched.                     *)
THEOREM PlanningStaysSupervised == Spec => []DrivesOnlyWithPlanningAlive
<1>1. IInv => DrivesOnlyWithPlanningAlive
  BY WatchdogAssumption, ControlLoopAssumption
     DEF IInv, DrivesOnlyWithPlanningAlive, CheckedRecently, ObservationLag, TypeOK,
         WatchdogState, Age, WatchdogAssumption, ControlLoopAssumption
<1> QED BY <1>1, ControlLoopInvariant, PTL

(* Latch, published flag, ramp and motors always agree. *)
THEOREM ActuationAlwaysMatchesLatch == Spec => []ActuationMatchesLatch
<1>1. IInv => ActuationMatchesLatch
  BY DEF IInv
<1> QED BY <1>1, ControlLoopInvariant, PTL

-----------------------------------------------------------------------------
(***************************************************************************)
(* Steps: what a step may never do, and the abstract contract.             *)
(***************************************************************************)

(* A cycle ran on some sequence of commands. *)
LEMMA CycleRunsOnCommands ==
  ASSUME IInv, Cycle
  PROVE  \E cmds \in Seq(Command) : RunCycle(cmds)
<1>1. PICK n \in 0 .. Len(ch2) : RunCycle(SubSeq(ch2, 1, n))
  BY DEF Cycle
<1>2. Len(ch2) \in Nat /\ \A i \in 1 .. Len(ch2) : ch2[i] \in Command
  BY LenProperties, ElementOfSeq DEF IInv, TypeOK
<1>3. \A i \in 1 .. n : ch2[i] \in Command
  BY <1>2
<1>4. SubSeq(ch2, 1, n) \in Seq(Command)
  BY <1>3, SubSeqProperties
<1> QED BY <1>1, <1>4

(* The three ways a cycle ends, related to the state it began in.          *)
LEMMA CycleOutcome ==
  ASSUME IInv, WatchdogAssumption, ControlLoopAssumption, Cycle
  PROVE  \/ /\ wd'.latched = "None"
            /\ wd.latched # "None" =>
                 /\ wd'.cmdAge = 0 /\ dataAge' <= MaxCommandAge
                 /\ wd'.hbAge <= HeartbeatDead
                 /\ wd.latched = "ExplicitRequest" => AbsVal(feedback) < StoppedSpeed
         \/ wd'.latched \in {"PeerDead", "ExplicitRequest"} /\ motor' = HardStop
         \/ /\ wd'.latched = "CommandTimeout"
            /\ \/ motor'.linear = 0
               \/ wd.latched = "None"
               \/ /\ wd.latched = "CommandTimeout"
                  /\ AbsVal(motor'.linear) < AbsVal(motor.linear)
                  /\ motor'.linear > 0 <=> motor.linear > 0
<1>1. PICK cmds \in Seq(Command) : RunCycle(cmds)
  BY CycleRunsOnCommands
<1> DEFINE c == Checked(cmds)
<1>2. /\ c \in WatchdogState
      /\ c.cmdAge = IF IsPlanned(cmds) \/ IsRequested(cmds) THEN 0 ELSE wd.cmdAge
      /\ c.latched = "None" => c.hbAge <= HeartbeatDead
      /\ wd.latched # "None" /\ c.latched = "None" =>
           /\ IsPlanned(cmds)
           /\ wd.latched = "ExplicitRequest" => AbsVal(feedback) < StoppedSpeed
      /\ wd.latched # "None" /\ c.latched = "CommandTimeout" =>
           wd.latched = "CommandTimeout" /\ c.ramp = wd.ramp
  BY CheckedFacts DEF Consistent
<1>3. \/ c.latched = "CommandTimeout" /\ ActuateRamp(c)
      \/ c.latched \in {"PeerDead", "ExplicitRequest"} /\ ActuateHardStop(c)
      \/ c.latched = "None" /\ ActuatePlanned(c, cmds)
  BY <1>1 DEF RunCycle
<1> HIDE DEF c
<1>4. CASE c.latched = "CommandTimeout" /\ ActuateRamp(c)
  <2> DEFINE v == DecelerationVelocity(c.ramp)
  <2>1. /\ wd' = [c EXCEPT !.ramp = v]
        /\ motor' = IF v # 0 THEN Velocity(v) ELSE HardStop
    BY <1>4 DEF ActuateRamp
  <2>2. /\ v \in Int
        /\ c.ramp = 0 => v = 0
        /\ c.ramp # 0 => AbsVal(v) < AbsVal(c.ramp)
        /\ v # 0 => (v > 0 <=> c.ramp > 0)
    BY <1>2, RampShrinks, WatchdogAssumption DEF WatchdogState
  <2> HIDE DEF v
  <2>3. wd'.latched = "CommandTimeout" /\ motor'.linear = v
    BY <1>2, <1>4, <2>1 DEF WatchdogState, Velocity, HardStop
  <2>4. CASE v = 0
    BY <2>3, <2>4
  <2>5. CASE v # 0 /\ wd.latched = "None"
    BY <2>3, <2>5
  <2>6. CASE v # 0 /\ wd.latched # "None"
    <3>1. wd.latched = "CommandTimeout" /\ c.ramp = wd.ramp
      BY <1>2, <1>4, <2>6
    <3>2. motor.linear = wd.ramp
      BY <3>1 DEF IInv, ActuationMatchesLatch
    <3> QED BY <2>2, <2>3, <2>6, <3>1, <3>2
  <2> QED BY <2>4, <2>5, <2>6
<1>5. CASE c.latched \in {"PeerDead", "ExplicitRequest"} /\ ActuateHardStop(c)
  BY <1>5 DEF ActuateHardStop
<1>6. CASE c.latched = "None" /\ ActuatePlanned(c, cmds)
  <2>1. wd' = c /\ dataAge' = IF IsPlanned(cmds) THEN Newest(cmds).age ELSE dataAge
    BY <1>6 DEF ActuatePlanned
  <2>2. IsPlanned(cmds) => Newest(cmds).age <= MaxCommandAge
    BY DEF IsPlanned, Fresh, Newest
  <2> QED BY <1>2, <1>6, <2>1, <2>2
<1> QED BY <1>3, <1>4, <1>5, <1>6

(* Only a cycle touches the latch and the motors. *)
LEMMA OnlyCyclesActuate ==
  ASSUME IInv, [Next]_vars, ~Cycle
  PROVE  wd'.latched = wd.latched /\ motor' = motor
<1>1. CASE Tick
  BY <1>1 DEF Tick, WatchdogTick, IInv, TypeOK, WatchdogState
<1>2. CASE Environment \/ UNCHANGED vars
  BY <1>2 DEF Environment, PublishVelocity, PublishEstop, PublishOther, Publish,
              Heartbeat, Feedback, vars
<1> QED BY <1>1, <1>2 DEF Next

(* Inside an e-stop no step makes the motors faster.                       *)
THEOREM LatchedNeverSpeedsUp == Spec => LatchedNeverAccelerates
<1>1. ASSUME IInv, [Next]_vars, wd.latched # "None", wd'.latched # "None"
      PROVE  AbsVal(motor'.linear) <= AbsVal(motor.linear)
  <2>1. motor.linear \in Int
    BY <1>1 DEF IInv, TypeOK, Motor
  <2>2. CASE Cycle
    <3>1. \/ motor'.linear = 0
          \/ AbsVal(motor'.linear) < AbsVal(motor.linear)
      BY <1>1, <2>2, CycleOutcome, WatchdogAssumption, ControlLoopAssumption
         DEF HardStop
    <3>2. motor'.linear \in Int
      BY <1>1, StepPreservesIInv, WatchdogAssumption, ControlLoopAssumption
         DEF IInv, TypeOK, Motor
    <3> QED BY <2>1, <3>1, <3>2 DEF AbsVal
  <2>3. CASE ~Cycle
    BY <1>1, <2>1, <2>3, OnlyCyclesActuate DEF AbsVal, Motor
  <2> QED BY <2>2, <2>3
<1>2. IInv /\ [Next]_vars =>
        [ wd.latched # "None" /\ wd'.latched # "None" =>
            AbsVal(motor'.linear) <= AbsVal(motor.linear) ]_vars
  BY <1>1
<1> QED BY <1>2, ControlLoopInvariant, PTL DEF Spec, LatchedNeverAccelerates

(* A latch is released only by a fresh command and only as its rule says.  *)
THEOREM ReleaseIsAlwaysEarned == Spec => ReleaseIsEarned
<1> DEFINE Earned ==
      wd.latched # "None" /\ wd'.latched = "None" =>
        /\ wd'.cmdAge = 0 /\ dataAge' <= MaxCommandAge
        /\ wd'.hbAge <= HeartbeatDead
        /\ wd.latched = "ExplicitRequest" => AbsVal(feedback) < StoppedSpeed
<1>1. ASSUME IInv, [Next]_vars
      PROVE  Earned
  <2>1. CASE Cycle
    BY <1>1, <2>1, CycleOutcome, WatchdogAssumption, ControlLoopAssumption
  <2>2. CASE ~Cycle
    BY <1>1, <2>2, OnlyCyclesActuate
  <2> QED BY <2>1, <2>2
<1>2. IInv /\ [Next]_vars => [Earned]_vars
  BY <1>1
<1> QED BY <1>2, ControlLoopInvariant, PTL DEF Spec, ReleaseIsEarned

(* The control process implements EstopContract: it starts driving at zero *)
(* and every step is a step of the contract or leaves mode and speed alone.*)
THEOREM ControlLoopKeepsContract == Spec => KeepsContract
<1>1. Init => Contract!Start
  BY DEF Init, NewWatchdog, Velocity, Contract!Start, ContractMode
<1>2. ASSUME IInv, IInv', [Next]_vars
      PROVE  [Contract!Step]_(Contract!contract)
  <2> USE DEF Contract!Step, Contract!contract, ContractMode
  <2>1. CASE ~Cycle
    BY <1>2, <2>1, OnlyCyclesActuate
  <2>2. CASE Cycle /\ wd'.latched = "None"
    BY <1>2, <2>2 DEF Contract!Drive, IInv, PlannedWithinLimits, ActuationMatchesLatch
  <2>3. CASE Cycle /\ wd'.latched # "None" /\ motor'.linear = 0
    BY <2>3 DEF Contract!Hold
  <2>4. CASE Cycle /\ wd'.latched # "None" /\ motor'.linear # 0
    <3>1. \/ wd.latched = "None"
          \/ /\ wd.latched = "CommandTimeout"
             /\ AbsVal(motor'.linear) < AbsVal(motor.linear)
             /\ motor'.linear > 0 <=> motor.linear > 0
      BY <1>2, <2>4, CycleOutcome, WatchdogAssumption, ControlLoopAssumption DEF HardStop
    <3>2. motor.linear \in Int /\ motor'.linear \in Int
      BY <1>2 DEF IInv, TypeOK, Motor
    <3>3. CASE wd.latched = "None"
      BY <2>4, <3>3 DEF Contract!EnterRamp
    <3>4. CASE wd.latched = "CommandTimeout"
      <4>1. /\ AbsVal(motor'.linear) < AbsVal(motor.linear)
            /\ motor'.linear > 0 <=> motor.linear > 0
        BY <3>1, <3>4
      <4>2. motor.linear # 0 /\ AbsVal(motor'.linear) > 0
        BY <2>4, <3>2, <4>1 DEF AbsVal
      <4> QED
        BY <2>4, <3>2, <3>4, <4>1, <4>2
           DEF Contract!RampDown, Contract!Magnitude, AbsVal
    <3> QED BY <3>1, <3>3, <3>4
  <2> QED BY <2>1, <2>2, <2>3, <2>4
<1> QED
  BY <1>1, <1>2, ControlLoopInvariant, PTL DEF Spec, KeepsContract, Contract!Promise

-----------------------------------------------------------------------------
(***************************************************************************)
(* StopChain: speeds and the time they can last.                           *)
(***************************************************************************)

(* What a ramp step leaves of a speed, without its sign.                   *)
Shed(v) == IF AbsVal(v) <= DecelStep THEN 0 ELSE AbsVal(v) - DecelStep
(* For so long after planning's last velocity one may still be in force.   *)
PlannedEra == MaxCommandAge + CommandTimeout + MaxStall

(* The constants, as the proofs about the chain use them.                  *)
Parameters ==
  /\ CommandTimeout \in Nat /\ HeartbeatDead \in Nat /\ StoppedSpeed \in Nat
  /\ DecelStep \in Nat \ {0} /\ Horizon \in Nat
  /\ MaxCommandAge \in Nat /\ HeartbeatDegraded \in Nat \ {0} /\ MaxSpeed \in Nat
  /\ MaxStall \in Nat \ {0} /\ QueueCap \in Nat
  /\ Horizon > CommandTimeout + MaxCommandAge + MaxStall
  /\ Brake \in Nat \ {0} /\ FirmwareTimeout \in Nat
  /\ TopSpeed \in Nat /\ MaxSpeed <= TopSpeed
  /\ WheelSpeeds = -TopSpeed .. TopSpeed

(* They follow from the modules' assumptions.                              *)
LEMMA ParametersHold == Parameters
  BY WatchdogAssumption, ControlLoopAssumption, StopChainAssumption
     DEF WatchdogAssumption, ControlLoopAssumption, StopChainAssumption, Parameters

(* Division rounded up: the quotient times the divisor covers the dividend. *)
LEMMA CeilingCovers ==
  ASSUME NEW a \in Nat \ {0}, NEW d \in Nat \ {0}
  PROVE  /\ (a + d - 1) \div d \in Nat \ {0}
         /\ ((a + d - 1) \div d) * d >= a
<1> DEFINE q == (a + d - 1) \div d
           r == (a + d - 1) % d
<1>1. q \in Int /\ r \in 0 .. d - 1 /\ a + d - 1 = d * q + r
  OBVIOUS
<1> HIDE DEF q, r
<1>2. d * q >= a
  BY <1>1
<1>3. q > 0
  <2> SUFFICES ASSUME q <= 0 PROVE FALSE
    BY <1>1
  <2> DEFINE z == d * q
             m == -q
  <2>1. m \in Nat /\ q = -m
    BY <1>1
  <2> HIDE DEF m
  <2>2. z = -(d * m) /\ d * m \in Nat
    BY <2>1
  <2>3. z <= 0 /\ z \in Int
    BY <2>2
  <2>4. z >= a
    BY <1>2
  <2> HIDE DEF z
  <2> QED BY <2>3, <2>4
<1>4. q * d = d * q
  BY <1>1
<1> QED BY <1>1, <1>2, <1>3, <1>4 DEF q

(* A product grows with its factor.                                        *)
LEMMA ProductGrows ==
  ASSUME NEW k \in Nat, NEW x \in Nat, NEW y \in Nat, x <= y
  PROVE  k * x \in Nat /\ k * x <= k * y
<1> DEFINE z == y - x
<1>1. z \in Nat /\ y = x + z
  OBVIOUS
<1> HIDE DEF z
<1>2. k * y = k * x + k * z /\ k * x \in Nat /\ k * z \in Nat
  BY <1>1
<1> QED BY <1>2

(* One ramp step sheds enough speed to pay for a whole round.              *)
LEMMA TicksPerSpeedFacts ==
  /\ TicksPerSpeed \in Nat \ {0} /\ CrashRound \in Nat \ {0}
  /\ TicksPerSpeed * DecelStep >= CrashRound
  /\ CrashRound = CommandTimeout + 2 * MaxStall + FirmwareTimeout + 1
<1>1. CrashRound \in Nat \ {0} /\ DecelStep \in Nat \ {0}
  BY ParametersHold DEF Parameters, CrashRound
<1> QED BY <1>1, CeilingCovers DEF TicksPerSpeed, CrashRound

(* How long a speed of so much can last.                                   *)
Lasting(v) == TicksPerSpeed * v

(* A greater speed lasts longer, and none less than a tick per unit.       *)
LEMMA LastingGrows ==
  ASSUME NEW x \in Nat, NEW y \in Nat
  PROVE  /\ Lasting(x) \in Nat
         /\ x <= y => Lasting(x) <= Lasting(y)
         /\ x < y => Lasting(x) < Lasting(y)
         /\ x = 0 => Lasting(x) = 0
         /\ Lasting(x) >= x
<1> DEFINE k == TicksPerSpeed
<1>1. k \in Nat \ {0}
  BY TicksPerSpeedFacts
<1> HIDE DEF k
<1>2. x <= y => k * x <= k * y
  BY <1>1, ProductGrows
<1>3. k * x \in Nat /\ (x = 0 => k * x = 0)
  BY <1>1
<1>4. x < y => k * x < k * y
  <2> SUFFICES ASSUME x < y PROVE k * x < k * y
    OBVIOUS
  <2>1. x + 1 <= y /\ x + 1 \in Nat
    OBVIOUS
  <2>2. k * (x + 1) <= k * y
    BY <1>1, <2>1, ProductGrows
  <2>3. k * (x + 1) = k * x + k
    BY <1>1
  <2>4. k * y \in Nat
    BY <1>1
  <2> QED BY <1>1, <1>3, <2>2, <2>3, <2>4
<1>5. k * x >= x
  <2> DEFINE j == k - 1
  <2>1. j \in Nat /\ k = j + 1
    BY <1>1
  <2> HIDE DEF j
  <2>2. k * x = j * x + x /\ j * x \in Nat
    BY <2>1
  <2> QED BY <2>2
<1> QED BY <1>2, <1>3, <1>4, <1>5 DEF Lasting, k

(* What a ramp step sheds shortens the speed's time by a round or more.    *)
LEMMA ShedPays ==
  ASSUME NEW v \in Int
  PROVE  /\ Shed(v) \in Nat /\ Shed(v) <= AbsVal(v) /\ AbsVal(v) \in Nat
         /\ AbsVal(DecelerationVelocity(v)) = Shed(v)
         /\ Shed(v) # 0 => Lasting(Shed(v)) + CrashRound <= Lasting(AbsVal(v))
<1>1. DecelStep \in Nat \ {0} /\ TicksPerSpeed \in Nat \ {0} /\ CrashRound \in Nat
      /\ TicksPerSpeed * DecelStep >= CrashRound
  BY ParametersHold, TicksPerSpeedFacts DEF Parameters
<1>2. /\ AbsVal(v) \in Nat /\ Shed(v) \in Nat /\ Shed(v) <= AbsVal(v)
      /\ AbsVal(DecelerationVelocity(v)) = Shed(v)
      /\ Shed(v) # 0 => AbsVal(v) = Shed(v) + DecelStep
  BY <1>1 DEF AbsVal, Shed, DecelerationVelocity
<1>3. ASSUME Shed(v) # 0 PROVE Lasting(Shed(v)) + CrashRound <= Lasting(AbsVal(v))
  <2> DEFINE k == TicksPerSpeed
             x == Shed(v)
             d == DecelStep
  <2>1. k \in Nat /\ x \in Nat /\ d \in Nat /\ AbsVal(v) = x + d /\ k * d >= CrashRound
    BY <1>1, <1>2, <1>3
  <2> HIDE DEF k, x, d
  <2>2. k * (x + d) = k * x + k * d /\ k * x \in Nat /\ k * d \in Nat
    BY <2>1
  <2>3. Lasting(AbsVal(v)) = k * (x + d) /\ Lasting(Shed(v)) = k * x
    BY <2>1 DEF Lasting, k, x
  <2> QED BY <1>1, <2>1, <2>2, <2>3
<1> QED BY <1>2, <1>3

-----------------------------------------------------------------------------
(***************************************************************************)
(* StopChain: one cycle of the control process.                            *)
(***************************************************************************)

(* A timeout that latches seeds the ramp with the reading. *)
LEMMA RampSeed ==
  ASSUME IInv, WatchdogAssumption, ControlLoopAssumption, NEW cmds \in Seq(Command),
         wd.latched = "None", Checked(cmds).latched = "CommandTimeout"
  PROVE  Checked(cmds).ramp = feedback
<1> DEFINE o == Observed(wd)
           k == Classified(o, cmds)
           c == Checked(cmds)
<1>1. Consistent(wd)
  BY DEF IInv, TypeOK, ActuationMatchesLatch, Consistent
<1>2. o \in WatchdogState /\ o.measured = feedback /\ o.latched = "None"
  <2>1. feedback \in Int /\ 0 \in Age
    BY DEF IInv, TypeOK, ControlLoopAssumption, Age, WatchdogAssumption
  <2> QED
    BY <1>1, <2>1 DEF Observed, UpdateMeasuredSpeed, NotifyHeartbeat, Consistent, WatchdogState
<1>3. c = CheckConditions(k)
  BY DEF Checked
<1>4. /\ Consistent(k)
      /\ k.cmdAge = IF IsPlanned(cmds) \/ IsRequested(cmds) THEN 0 ELSE wd.cmdAge
      /\ IsRequested(cmds) => k.latched = "ExplicitRequest"
      /\ ~IsRequested(cmds) => k.latched \in {wd.latched, "None"}
  BY ClassifiedFacts
<1>5. c.latched = "CommandTimeout" => k.latched = "CommandTimeout" \/ k.cmdAge > CommandTimeout
  BY <1>3, <1>4, CheckLatches
<1>5a. k.latched # "None" => Severity(c.latched) >= Severity(k.latched)
  BY <1>3, <1>4, CheckLatches
<1>6. ~ IsRequested(cmds)
  BY <1>4, <1>5a DEF Severity
<1>7. ~ IsPlanned(cmds)
  BY <1>4, <1>5, <1>6, WatchdogAssumption DEF WatchdogAssumption
<1>8. k = o
  BY <1>6, <1>7 DEF Classified
<1>9. o.cmdAge > CommandTimeout
  BY <1>2, <1>5, <1>8
<1>10. c = [o EXCEPT !.latched = "CommandTimeout", !.ramp = o.measured, !.estopActive = TRUE]
  <2> HIDE DEF o, k, c
  <2> QED BY <1>2, <1>3, <1>8, <1>9 DEF CheckConditions, TriggerEstop
<1> HIDE DEF o, c
<1> QED BY <1>2, <1>10 DEF WatchdogState, c

(* What the control process's step does, in terms of the chain. *)
LEMMA CycleOfChain ==
  ASSUME IInv, WatchdogAssumption, ControlLoopAssumption, Cycle
  PROVE  \E n \in 0 .. Len(ch2) :
           LET cmds == SubSeq(ch2, 1, n)
           IN  /\ ch2' = SubSeq(ch2, n + 1, Len(ch2))
               /\ sinceCycle' = 0 /\ feedback' = feedback
               /\ wd'.cmdAge = IF IsPlanned(cmds) \/ IsRequested(cmds) THEN 0 ELSE wd.cmdAge
               /\ wd'.latched = "None" =>
                    /\ ~IsRequested(cmds)
                    /\ wd.latched # "None" => IsPlanned(cmds)
                    /\ ~IsPlanned(cmds) => lastActuated' = lastActuated
               /\ wd'.latched = "CommandTimeout" =>
                    /\ wd.latched \in {"None", "CommandTimeout"}
                    /\ wd'.ramp = DecelerationVelocity(IF wd.latched = "None" THEN feedback
                                                       ELSE wd.ramp)
<1>1. PICK n \in 0 .. Len(ch2) :
        /\ RunCycle(SubSeq(ch2, 1, n))
        /\ ch2' = SubSeq(ch2, n + 1, Len(ch2))
  BY DEF Cycle
<1>2. sinceCycle' = 0 /\ feedback' = feedback
  BY DEF Cycle
<1> DEFINE cmds == SubSeq(ch2, 1, n)
           c    == Checked(cmds)
<1>3. cmds \in Seq(Command)
  <2>1. Len(ch2) \in Nat /\ \A i \in 1 .. Len(ch2) : ch2[i] \in Command
    BY LenProperties, ElementOfSeq DEF IInv, TypeOK
  <2>2. \A i \in 1 .. n : ch2[i] \in Command
    BY <2>1
  <2> QED BY <2>1, <2>2, SubSeqProperties
<1> HIDE DEF cmds
<1>4. /\ Consistent(c)
      /\ c.cmdAge = IF IsPlanned(cmds) \/ IsRequested(cmds) THEN 0 ELSE wd.cmdAge
      /\ c.latched = "None" => ~IsRequested(cmds)
      /\ wd.latched # "None" /\ c.latched = "None" => IsPlanned(cmds)
      /\ wd.latched # "None" /\ c.latched = "CommandTimeout" =>
           wd.latched = "CommandTimeout" /\ c.ramp = wd.ramp
  BY <1>3, CheckedFacts
<1>5. wd.latched = "None" /\ c.latched = "CommandTimeout" => c.ramp = feedback
  BY <1>3, RampSeed
<1>6. \/ c.latched = "CommandTimeout" /\ ActuateRamp(c)
      \/ c.latched \in {"PeerDead", "ExplicitRequest"} /\ ActuateHardStop(c)
      \/ c.latched = "None" /\ ActuatePlanned(c, cmds)
  BY <1>1 DEF RunCycle, cmds
<1> HIDE DEF c
<1>7. c \in WatchdogState
  BY <1>4 DEF Consistent
<1>8. /\ wd'.latched = c.latched /\ wd'.cmdAge = c.cmdAge
      /\ c.latched = "CommandTimeout" => wd'.ramp = DecelerationVelocity(c.ramp)
      /\ c.latched = "None" /\ ~IsPlanned(cmds) => lastActuated' = lastActuated
  <2>1. CASE c.latched = "CommandTimeout" /\ ActuateRamp(c)
    BY <1>7, <2>1 DEF ActuateRamp, WatchdogState
  <2>2. CASE c.latched \in {"PeerDead", "ExplicitRequest"} /\ ActuateHardStop(c)
    BY <2>2 DEF ActuateHardStop
  <2>3. CASE c.latched = "None" /\ ActuatePlanned(c, cmds)
    BY <2>3 DEF ActuatePlanned
  <2> QED BY <1>6, <2>1, <2>2, <2>3
<1> QED BY <1>1, <1>2, <1>4, <1>5, <1>8 DEF cmds

(* A queued velocity is as old as planning's last one, or past the gate.   *)
QueueIsOld ==
  \A i \in 1 .. Len(ch2) :
    ch2[i].kind = "VelocityCmd" => sinceVelocity <= ch2[i].age \/ ch2[i].age > MaxCommandAge
(* A planned velocity in force came with the last command accepted.        *)
PlannedIsRecent ==
  wd.latched = "None" /\ lastActuated # 0 => sinceVelocity <= wd.cmdAge + MaxCommandAge
(* Even the first speed of a ramp is a step below some reading.            *)
RampIsShed == wd.latched = "CommandTimeout" => AbsVal(wd.ramp) <= Shed(TopSpeed)
(* A control process that is not running holds nothing.                    *)
DownIsNew ==
  control = "down" => wd = NewWatchdog /\ feedback = 0 /\ lastActuated = 0 /\ ch2 = <<>>

(* The ranges of the chain's own variables, and ControlLoop's invariant.   *)
ChainTypes ==
  /\ IInv
  /\ control \in {"up", "down"}
  /\ frame \in -TopSpeed .. TopSpeed /\ frameAge \in 0 .. FirmwareTimeout + 1
  /\ speed \in -TopSpeed .. TopSpeed
  /\ sinceVelocity \in 0 .. StopBound + 1

(* For how long the motion that one part of the chain holds can last: the  *)
(* vehicle's own speed, the last frame, a ramp, and a reading that a       *)
(* timeout may yet make the seed of a ramp.  Each covers the rounds that   *)
(* the speeds it leads to can cost: a crash, a restart, a timeout, a step. *)
SpeedTime == Lasting(AbsVal(speed))
FrameTime ==
  IF frame # 0 /\ frameAge <= FirmwareTimeout
  THEN Lasting(AbsVal(frame)) + (FirmwareTimeout + 1 - frameAge) ELSE 0
RampTime ==
  IF wd.latched = "CommandTimeout" /\ wd.ramp # 0
  THEN Lasting(AbsVal(wd.ramp)) + (MaxStall - sinceCycle) + FirmwareTimeout + 1 ELSE 0
LatchTime ==
  IF wd.latched = "None" /\ Shed(feedback) # 0
  THEN Lasting(Shed(feedback)) + (CommandTimeout + MaxStall - wd.cmdAge)
         + MaxStall + FirmwareTimeout + 1
  ELSE 0

(* Motion lasting so long from now ends in time.                           *)
Ends(time) == sinceVelocity + time <= StopBound + 1

(* Once no planned velocity is in force, every part's motion ends in time. *)
MotionEnds ==
  sinceVelocity > PlannedEra =>
    Ends(SpeedTime) /\ Ends(FrameTime) /\ Ends(RampTime) /\ Ends(LatchTime)

(* The inductive invariant of the chain.                                   *)
StopInv == ChainTypes /\ QueueIsOld /\ PlannedIsRecent /\ RampIsShed /\ DownIsNew /\ MotionEnds

-----------------------------------------------------------------------------
(***************************************************************************)
(* StopChain: the invariant and its steps.                                 *)
(***************************************************************************)

(* StopBound is the planned era, a last frame and the top speed's time.    *)
LEMMA BoundsAreNatural ==
  /\ StopBound \in Nat /\ PlannedEra \in Nat
  /\ StopBound = PlannedEra + FirmwareTimeout + 1 + Lasting(TopSpeed)
<1>1. Lasting(TopSpeed) \in Nat
  BY ParametersHold, LastingGrows DEF Parameters
<1>2. StopBound = PlannedEra + FirmwareTimeout + 1 + Lasting(TopSpeed)
  BY DEF StopBound, PlannedEra, Lasting
<1> QED BY <1>1, <1>2, ParametersHold DEF Parameters, PlannedEra

(* What IInv says of the queue, message by message.                        *)
LEMMA QueueTyped ==
  ASSUME IInv
  PROVE  /\ Len(ch2) \in Nat
         /\ \A i \in 1 .. Len(ch2) : ch2[i] \in Command
         /\ \A i \in 1 .. Len(ch2) : ch2[i].age \in 0 .. MaxCommandAge + 1
<1>1. Len(ch2) \in Nat /\ \A i \in 1 .. Len(ch2) : ch2[i] \in Command
  BY LenProperties, ElementOfSeq DEF IInv, TypeOK
<1> QED BY <1>1 DEF Command, StampAge

(* Initially nothing moves and nothing was published.                      *)
LEMMA ChainStarts == ChainInit => StopInv
<1> SUFFICES ASSUME ChainInit PROVE StopInv
  OBVIOUS
<1> USE ParametersHold DEF Parameters
<1>1. IInv
  BY InitEstablishesIInv, WatchdogAssumption, ControlLoopAssumption DEF ChainInit
<1>2. /\ ch2 = <<>> /\ wd = NewWatchdog /\ feedback = 0 /\ control = "up"
      /\ frame = 0 /\ frameAge = 0 /\ speed = 0 /\ sinceVelocity = StopBound + 1
      /\ lastActuated = 0
  BY DEF ChainInit, Init
<1>3. ChainTypes
  BY <1>1, <1>2, BoundsAreNatural DEF ChainTypes
<1>4. QueueIsOld /\ PlannedIsRecent /\ RampIsShed /\ DownIsNew
  BY <1>2 DEF QueueIsOld, PlannedIsRecent, RampIsShed, DownIsNew, NewWatchdog
<1>5. SpeedTime = 0 /\ FrameTime = 0 /\ RampTime = 0 /\ LatchTime = 0
  <2>1. AbsVal(0) = 0 /\ Shed(0) = 0
    BY DEF AbsVal, Shed
  <2>2. Lasting(0) = 0
    BY LastingGrows
  <2> QED BY <1>2, <2>1, <2>2 DEF SpeedTime, FrameTime, RampTime, LatchTime, NewWatchdog
<1>6. MotionEnds
  BY <1>2, <1>5, BoundsAreNatural DEF MotionEnds, Ends
<1> QED BY <1>3, <1>4, <1>6 DEF StopInv

(* A cycle of planning's main loop: a velocity starts the count again, an  *)
(* e-stop request only takes a place in the queue.                         *)
LEMMA PlannerCycleKeepsStop ==
  ASSUME StopInv, PlannerCycle
  PROVE  StopInv'
<1> USE ParametersHold DEF Parameters
<1>1. /\ IInv /\ control \in {"up", "down"} /\ ChainTypes
  BY DEF StopInv, ChainTypes
<1>2. UNCHANGED <<healthyFor, control, frame, frameAge, speed>>
  BY DEF PlannerCycle
<1>3. \/ /\ sinceVelocity' = 0
         /\ ((control = "up" /\ PublishVelocity) \/ UNCHANGED vars)
      \/ /\ sinceVelocity' = sinceVelocity
         /\ ((control = "up" /\ PublishEstop) \/ UNCHANGED vars)
  BY DEF PlannerCycle, Sent
<1>4. IInv'
  <2>1. [Next]_vars
    BY <1>3 DEF Next, Environment
  <2> QED BY <1>1, <2>1, StepPreservesIInv, WatchdogAssumption, ControlLoopAssumption
<1>5. ChainTypes'
  BY <1>1, <1>2, <1>3, <1>4, BoundsAreNatural DEF ChainTypes
<1>6. UNCHANGED <<peerAge, feedback, wd, lastActuated, motor, sinceCycle, dataAge>>
  BY <1>3 DEF PublishVelocity, PublishEstop, Publish, vars
<1>6a. control = "down" => ch2' = ch2
  BY <1>3 DEF vars
<1>7. RampIsShed' /\ DownIsNew'
  BY <1>2, <1>6, <1>6a DEF StopInv, RampIsShed, DownIsNew
<1>8. CASE sinceVelocity' = 0
  <2>1. QueueIsOld'
    <3>1. ASSUME NEW i \in 1 .. Len(ch2') PROVE ch2'[i].age \in 0 .. MaxCommandAge + 1
      <4>1. /\ Len(ch2') \in Nat /\ \A j \in 1 .. Len(ch2') : ch2'[j] \in Command
        BY <1>4, LenProperties, ElementOfSeq DEF IInv, TypeOK
      <4> QED BY <4>1 DEF Command, StampAge
    <3> QED BY <1>8, <3>1 DEF QueueIsOld
  <2>2. PlannedIsRecent'
    <3>1. wd'.cmdAge \in Nat
      BY <1>4 DEF IInv, TypeOK, WatchdogState, Age
    <3> QED BY <1>8, <3>1 DEF PlannedIsRecent
  <2>3. MotionEnds'
    BY <1>8, BoundsAreNatural DEF MotionEnds
  <2> QED BY <1>5, <1>7, <2>1, <2>2, <2>3 DEF StopInv
<1>9. CASE sinceVelocity' = sinceVelocity /\ (PublishEstop \/ UNCHANGED vars)
  <2>1. QueueIsOld'
    <3>1. CASE UNCHANGED vars
      BY <1>9, <3>1 DEF StopInv, QueueIsOld, vars
    <3>2. CASE PublishEstop
      <4> DEFINE stop == [kind |-> "EmergencyStop", linear |-> 0, age |-> 0]
      <4>1. ch2' = IF Len(ch2) < QueueCap THEN Append(ch2, stop) ELSE ch2
        BY <3>2 DEF PublishEstop, Publish
      <4>2. stop.kind # "VelocityCmd"
        OBVIOUS
      <4> HIDE DEF stop
      <4>3. ch2 \in Seq(Command)
        BY <1>1 DEF IInv, TypeOK
      <4>4. CASE ch2' = ch2
        BY <1>9, <4>4 DEF StopInv, QueueIsOld
      <4>5. CASE ch2' = Append(ch2, stop)
        <5>1. /\ Len(ch2') = Len(ch2) + 1 /\ Len(ch2) \in Nat /\ ch2'[Len(ch2) + 1] = stop
              /\ \A i \in 1 .. Len(ch2) : ch2'[i] = ch2[i]
          BY <4>3, <4>5
        <5> QED BY <1>9, <4>2, <5>1 DEF StopInv, QueueIsOld
      <4> QED BY <4>1, <4>4, <4>5
    <3> QED BY <1>9, <3>1, <3>2
  <2>2. PlannedIsRecent'
    BY <1>6, <1>9 DEF StopInv, PlannedIsRecent
  <2>3. MotionEnds'
    BY <1>2, <1>6, <1>9
       DEF StopInv, MotionEnds, Ends, SpeedTime, FrameTime, RampTime, LatchTime
  <2> QED BY <1>5, <1>7, <2>1, <2>2, <2>3 DEF StopInv
<1> QED BY <1>3, <1>8, <1>9

(* Steps that touch neither the queue, the watchdog, the ramp nor the      *)
(* vehicle.                                                                *)
LEMMA IdleStepKeepsStop ==
  ASSUME StopInv, IInv',
         UNCHANGED <<ch2, feedback, wd, lastActuated, sinceCycle, frame, frameAge, speed,
                     sinceVelocity>>,
         control' \in {"up", "down"}, control' = "down" => control = "down"
  PROVE  StopInv'
<1>1. ChainTypes'
  BY DEF StopInv, ChainTypes
<1>2. QueueIsOld' /\ PlannedIsRecent' /\ RampIsShed' /\ DownIsNew'
  BY DEF StopInv, QueueIsOld, PlannedIsRecent, RampIsShed, DownIsNew
<1>3. MotionEnds'
  BY DEF StopInv, MotionEnds, Ends, SpeedTime, FrameTime, RampTime, LatchTime
<1> QED BY <1>1, <1>2, <1>3 DEF StopInv

(* A beat, a restart and the end of the faults are such steps.             *)
LEMMA IdleStepsKeepStop ==
  ASSUME StopInv, PlannerBeat \/ ControlRestart \/ BecomesHealthy \/ UNCHANGED allVars
  PROVE  StopInv'
<1>1. IInv /\ control \in {"up", "down"}
  BY DEF StopInv, ChainTypes
<1>2. [Next]_vars
  BY DEF PlannerBeat, Sent, Next, Environment, ControlRestart, BecomesHealthy, allVars
<1>3. IInv'
  BY <1>1, <1>2, StepPreservesIInv, WatchdogAssumption, ControlLoopAssumption
<1>4. /\ UNCHANGED <<ch2, feedback, wd, lastActuated, sinceCycle, frame, frameAge, speed,
                     sinceVelocity>>
      /\ control' \in {"up", "down"} /\ (control' = "down" => control = "down")
  BY <1>1 DEF PlannerBeat, Sent, Heartbeat, ControlRestart, BecomesHealthy, allVars,
              chainVars, vars
<1> QED BY <1>3, <1>4, IdleStepKeepsStop

(* A crash of the control process leaves the frame and the speed.          *)
LEMMA CrashKeepsStop ==
  ASSUME StopInv, ControlCrash
  PROVE  StopInv'
<1> USE ParametersHold DEF Parameters
<1>1. /\ ch2' = <<>> /\ peerAge' = 0 /\ feedback' = 0 /\ wd' = NewWatchdog
      /\ lastActuated' = 0 /\ motor' = Velocity(0) /\ sinceCycle' = 0 /\ dataAge' = 0
      /\ control' = "down"
      /\ UNCHANGED <<frame, frameAge, speed, sinceVelocity>>
  BY DEF ControlCrash
<1>2. IInv'
  <2>1. NewWatchdog \in WatchdogState
    BY DEF NewWatchdog, WatchdogState, Latch, Age
  <2>2. ch2' \in Seq(Command) /\ Len(ch2') = 0
    BY <1>1, EmptySeq
  <2>3. TypeOK'
    BY <1>1, <2>1, <2>2 DEF TypeOK, Age, Motor, Velocity
  <2> QED
    BY <1>1, <2>3 DEF IInv, NewWatchdog, ActuationMatchesLatch, CheckedRecently,
                      PlannedWithinLimits, ObservationLag, Velocity
<1>3. ChainTypes'
  BY <1>1, <1>2 DEF StopInv, ChainTypes
<1>4. QueueIsOld' /\ PlannedIsRecent' /\ RampIsShed' /\ DownIsNew'
  BY <1>1 DEF QueueIsOld, PlannedIsRecent, RampIsShed, DownIsNew, NewWatchdog
<1>5. SpeedTime' = SpeedTime /\ FrameTime' = FrameTime /\ RampTime' = 0 /\ LatchTime' = 0
  <2>1. Shed(0) = 0
    BY DEF AbsVal, Shed
  <2> QED BY <1>1, <2>1 DEF SpeedTime, FrameTime, RampTime, LatchTime, NewWatchdog
<1>6. MotionEnds'
  <2>1. sinceVelocity \in 0 .. StopBound + 1
    BY DEF StopInv, ChainTypes
  <2> QED BY <1>1, <1>5, <2>1, BoundsAreNatural DEF StopInv, MotionEnds, Ends
<1> QED BY <1>3, <1>4, <1>6 DEF StopInv

(* The arithmetic of a round: a ramp step, or a restart that seeds one.    *)
LEMMA RoundIsPaid ==
  ASSUME NEW timeout \in Nat, NEW stall \in Nat, NEW firmware \in Nat, NEW age \in Nat,
         NEW since \in 0 .. stall, NEW short \in Nat, NEW long \in Nat,
         short + (timeout + 2 * stall + firmware + 1) <= long
  PROVE  /\ short + (timeout + stall - age) + stall + firmware + 1 <= long
         /\ short + (timeout + stall - age) + stall + firmware + 1 \in Int
         /\ short + (stall - 0) + firmware + 1 <= long + (stall - since) + firmware + 1
         /\ short + (stall - 0) + firmware + 1 \in Int
         /\ long + (stall - since) + firmware + 1 \in Int
  OBVIOUS

(* A timeout that latches turns a possible seed into a ramp.               *)
LEMMA LatchingPays ==
  ASSUME NEW timeout \in Nat, NEW stall \in Nat, NEW firmware \in Nat, NEW age \in Nat,
         NEW since \in 0 .. stall, NEW short \in Nat, age <= timeout + since
  PROVE  /\ short + (stall - 0) + firmware + 1
               <= short + (timeout + stall - age) + stall + firmware + 1
         /\ short + (stall - 0) + firmware + 1 \in Int
         /\ short + (timeout + stall - age) + stall + firmware + 1 \in Int
  OBVIOUS

(* The constants that are times.                                           *)
LEMMA Clocks ==
  /\ CommandTimeout \in Nat /\ MaxStall \in Nat /\ FirmwareTimeout \in Nat
  /\ MaxCommandAge \in Nat /\ TopSpeed \in Nat
  /\ CrashRound = CommandTimeout + 2 * MaxStall + FirmwareTimeout + 1
  BY ParametersHold DEF Parameters, CrashRound

(* Once the planned era is over, only a ramp moves the motors. *)
LEMMA OnlyRampsMove ==
  ASSUME StopInv
  PROVE  /\ motor.linear \in -TopSpeed .. TopSpeed
         /\ sinceVelocity > PlannedEra /\ wd.latched = "None" => lastActuated = 0
         /\ sinceVelocity > PlannedEra /\ motor.linear # 0 =>
              wd.latched = "CommandTimeout" /\ wd.ramp = motor.linear
<1> USE ParametersHold DEF Parameters
<1>1. /\ IInv /\ PlannedIsRecent /\ RampIsShed /\ sinceVelocity \in 0 .. StopBound + 1
      /\ sinceCycle \in 0 .. MaxStall /\ wd \in WatchdogState /\ wd.cmdAge \in Nat
      /\ motor \in Motor
  BY DEF StopInv, ChainTypes, IInv, TypeOK, WatchdogState, Age
<1>2. /\ motor.linear = lastActuated
      /\ wd.latched = "CommandTimeout" => motor.linear = wd.ramp
      /\ wd.latched \in {"PeerDead", "ExplicitRequest"} => motor = HardStop
      /\ wd.latched = "None" => lastActuated \in -MaxSpeed .. MaxSpeed
                                /\ wd.cmdAge <= CommandTimeout + sinceCycle
  BY <1>1 DEF IInv, ActuationMatchesLatch, PlannedWithinLimits, CheckedRecently
<1>3. wd.latched \in {"None", "CommandTimeout", "PeerDead", "ExplicitRequest"}
  BY <1>1 DEF WatchdogState, Latch, Reason
<1>4. wd.latched \in {"PeerDead", "ExplicitRequest"} => motor.linear = 0
  BY <1>2 DEF HardStop
<1>5. motor.linear \in -TopSpeed .. TopSpeed
  <2>1. CASE wd.latched = "CommandTimeout"
    <3>1. Shed(TopSpeed) <= TopSpeed /\ Shed(TopSpeed) \in Nat
      BY ShedPays DEF AbsVal
    <3>2. motor.linear \in Int
      BY <1>1 DEF Motor
    <3>3. AbsVal(motor.linear) <= Shed(TopSpeed)
      BY <1>1, <1>2, <2>1 DEF RampIsShed
    <3> QED BY <3>1, <3>2, <3>3 DEF AbsVal
  <2> QED BY <1>2, <1>3, <1>4, <2>1
<1>6. sinceVelocity > PlannedEra /\ wd.latched = "None" => lastActuated = 0
  BY <1>1, <1>2 DEF PlannedIsRecent, PlannedEra
<1> QED BY <1>2, <1>3, <1>4, <1>5, <1>6

(* The chassis thread passes the ramp on to the chassis, and the vehicle's *)
(* speed back to a watchdog that may make it the seed of a ramp.           *)
LEMMA ChassisKeepsStop ==
  ASSUME StopInv, ChassisLoop
  PROVE  StopInv'
<1> USE ParametersHold DEF Parameters
<1>1. /\ frame' = motor.linear /\ frameAge' = 0
      /\ feedback' = speed \/ feedback' = feedback
      /\ UNCHANGED <<ch2, peerAge, wd, lastActuated, motor, sinceCycle, dataAge,
                     control, speed, sinceVelocity>>
      /\ control = "up"
  BY DEF ChassisLoop
<1>2. /\ IInv /\ speed \in -TopSpeed .. TopSpeed /\ sinceVelocity \in 0 .. StopBound + 1
      /\ sinceCycle \in 0 .. MaxStall /\ wd.cmdAge \in Nat
  BY DEF StopInv, ChainTypes, IInv, TypeOK, WatchdogState, Age
<1>3. IInv'
  <2>1. CASE feedback' = speed
    <3>1. Feedback
      BY <1>1, <1>2, <2>1 DEF Feedback
    <3>2. [Next]_vars
      BY <3>1 DEF Next, Environment
    <3> QED BY <1>2, <3>2, StepPreservesIInv, WatchdogAssumption, ControlLoopAssumption
  <2>2. CASE feedback' = feedback
    <3>1. [Next]_vars
      BY <1>1, <2>2 DEF vars
    <3> QED BY <1>2, <3>1, StepPreservesIInv, WatchdogAssumption, ControlLoopAssumption
  <2> QED BY <1>1, <2>1, <2>2
<1>4. ChainTypes'
  <2>1. motor.linear \in -TopSpeed .. TopSpeed
    BY OnlyRampsMove
  <2> QED BY <1>1, <1>3, <2>1 DEF StopInv, ChainTypes
<1>5. QueueIsOld' /\ PlannedIsRecent' /\ RampIsShed' /\ DownIsNew'
  BY <1>1 DEF StopInv, QueueIsOld, PlannedIsRecent, RampIsShed, DownIsNew
<1>6. MotionEnds'
  <2> SUFFICES ASSUME sinceVelocity > PlannedEra
               PROVE  (Ends(SpeedTime) /\ Ends(FrameTime) /\ Ends(RampTime) /\ Ends(LatchTime))'
    BY <1>1 DEF MotionEnds, PlannedEra
  <2>1. Ends(SpeedTime) /\ Ends(FrameTime) /\ Ends(RampTime) /\ Ends(LatchTime)
    BY DEF StopInv, MotionEnds
  <2>2. Ends(SpeedTime)' /\ Ends(RampTime)'
    BY <1>1, <2>1 DEF Ends, SpeedTime, RampTime
  <2>3. Ends(FrameTime)'
    <3>1. CASE motor.linear = 0
      BY <1>1, <1>2, <3>1 DEF Ends, FrameTime
    <3>2. CASE motor.linear # 0
      <4>1. wd.latched = "CommandTimeout" /\ wd.ramp = motor.linear
        BY <3>2, OnlyRampsMove
      <4>2. motor.linear \in Int
        BY OnlyRampsMove
      <4> DEFINE lasting == Lasting(AbsVal(motor.linear))
      <4>3. lasting \in Nat
        <5>1. AbsVal(motor.linear) \in Nat
          BY <4>2 DEF AbsVal
        <5> QED BY <5>1, LastingGrows
      <4>4. RampTime = lasting + (MaxStall - sinceCycle) + FirmwareTimeout + 1
        BY <3>2, <4>1 DEF RampTime
      <4>5. FrameTime' = lasting + (FirmwareTimeout + 1 - 0)
        BY <1>1, <3>2 DEF FrameTime
      <4> HIDE DEF lasting
      <4>6. FrameTime' <= RampTime /\ FrameTime' \in Int /\ RampTime \in Int
        BY <1>2, <4>3, <4>4, <4>5
      <4> QED BY <1>1, <1>2, <2>1, <4>6, BoundsAreNatural DEF Ends
    <3> QED BY <3>1, <3>2
  <2>4. Ends(LatchTime)'
    <3>1. CASE feedback' = feedback
      BY <1>1, <2>1, <3>1 DEF Ends, LatchTime
    <3>2. CASE feedback' = speed
      <4>1. CASE ~ (wd.latched = "None" /\ Shed(speed) # 0)
        BY <1>1, <1>2, <3>2, <4>1 DEF Ends, LatchTime
      <4>2. CASE wd.latched = "None" /\ Shed(speed) # 0
        <5>1. /\ Shed(speed) \in Nat /\ AbsVal(speed) \in Nat
              /\ Lasting(Shed(speed)) + CrashRound <= Lasting(AbsVal(speed))
          BY <1>2, <4>2, ShedPays
        <5>2. Lasting(Shed(speed)) \in Nat /\ Lasting(AbsVal(speed)) \in Nat
          BY <5>1, LastingGrows
        <5>3. LatchTime' = Lasting(Shed(speed)) + (CommandTimeout + MaxStall - wd.cmdAge)
                             + MaxStall + FirmwareTimeout + 1
          BY <1>1, <3>2, <4>2 DEF LatchTime
        <5>4. LatchTime' <= SpeedTime /\ LatchTime' \in Int /\ SpeedTime \in Int
          <6> DEFINE short == Lasting(Shed(speed))
                     long  == Lasting(AbsVal(speed))
                     age   == wd.cmdAge
          <6>1. /\ short \in Nat /\ long \in Nat /\ age \in Nat
                /\ short + (CommandTimeout + 2 * MaxStall + FirmwareTimeout + 1) <= long
                /\ SpeedTime = long /\ sinceCycle \in 0 .. MaxStall
                /\ LatchTime' = short + (CommandTimeout + MaxStall - age)
                                  + MaxStall + FirmwareTimeout + 1
            BY Clocks, <1>2, <5>1, <5>2, <5>3 DEF SpeedTime
          <6> HIDE DEF short, long, age
          <6>2. /\ short + (CommandTimeout + MaxStall - age) + MaxStall
                     + FirmwareTimeout + 1 <= long
                /\ short + (CommandTimeout + MaxStall - age) + MaxStall
                     + FirmwareTimeout + 1 \in Int
            BY <6>1, Clocks, RoundIsPaid
          <6> QED BY <6>1, <6>2
        <5> QED BY <1>1, <1>2, <2>1, <5>4, BoundsAreNatural DEF Ends
      <4> QED BY <4>1, <4>2
    <3> QED BY <1>1, <3>1, <3>2
  <2> QED BY <2>2, <2>3, <2>4
<1> QED BY <1>4, <1>5, <1>6 DEF StopInv

(* The control cycle: a planned velocity is in force only in its era; a    *)
(* ramp is seeded, or takes a step, and pays for the round.                *)
LEMMA ControlCycleKeepsStop ==
  ASSUME StopInv, ControlCycle
  PROVE  StopInv'
<1>1. /\ Cycle /\ control = "up"
      /\ UNCHANGED <<control, frame, frameAge, speed, sinceVelocity>>
  BY DEF ControlCycle, chainVars
<1>2. /\ IInv /\ sinceVelocity \in 0 .. StopBound + 1
      /\ sinceCycle \in 0 .. MaxStall /\ wd.cmdAge \in Nat /\ wd.ramp \in Int
      /\ feedback \in -TopSpeed .. TopSpeed
      /\ wd.latched = "None" => wd.cmdAge <= CommandTimeout + sinceCycle
  BY ParametersHold DEF StopInv, ChainTypes, IInv, TypeOK, WatchdogState, Age, CheckedRecently,
                        Parameters
<1>3. IInv'
  BY <1>1, <1>2, CyclePreservesIInv, WatchdogAssumption, ControlLoopAssumption
<1>4. PICK n \in 0 .. Len(ch2) :
           LET cmds == SubSeq(ch2, 1, n)
           IN  /\ ch2' = SubSeq(ch2, n + 1, Len(ch2))
               /\ sinceCycle' = 0 /\ feedback' = feedback
               /\ wd'.cmdAge = IF IsPlanned(cmds) \/ IsRequested(cmds) THEN 0 ELSE wd.cmdAge
               /\ wd'.latched = "None" =>
                    /\ ~IsRequested(cmds)
                    /\ wd.latched # "None" => IsPlanned(cmds)
                    /\ ~IsPlanned(cmds) => lastActuated' = lastActuated
               /\ wd'.latched = "CommandTimeout" =>
                    /\ wd.latched \in {"None", "CommandTimeout"}
                    /\ wd'.ramp = DecelerationVelocity(IF wd.latched = "None" THEN feedback
                                                       ELSE wd.ramp)
  BY <1>1, <1>2, CycleOfChain, WatchdogAssumption, ControlLoopAssumption
<1> DEFINE cmds == SubSeq(ch2, 1, n)
           seed == IF wd.latched = "None" THEN feedback ELSE wd.ramp
<1>5. Len(ch2) \in Nat /\ \A i \in 1 .. Len(ch2) : ch2[i].age \in 0 .. MaxCommandAge + 1
  BY <1>2, QueueTyped
<1>6. IsPlanned(cmds) => sinceVelocity <= MaxCommandAge
  <2> SUFFICES ASSUME IsPlanned(cmds) PROVE sinceVelocity <= MaxCommandAge
    OBVIOUS
  <2>1. n # 0
    <3>1. cmds # <<>>
      BY DEF IsPlanned
    <3>2. n = 0 => cmds = <<>>
      OBVIOUS
    <3> QED BY <3>1, <3>2
  <2>2. Len(cmds) = n /\ cmds[n] = ch2[n] /\ n \in 1 .. Len(ch2)
    BY <1>5, <2>1
  <2> HIDE DEF cmds
  <2>3. ch2[n].age <= MaxCommandAge /\ ch2[n].kind = "VelocityCmd"
    BY <2>2 DEF IsPlanned, Fresh
  <2>4. sinceVelocity <= ch2[n].age \/ ch2[n].age > MaxCommandAge
    BY <2>2, <2>3 DEF StopInv, QueueIsOld
  <2>5. ch2[n].age \in 0 .. MaxCommandAge + 1
    BY <1>5, <2>2
  <2>6. sinceVelocity \in Int /\ MaxCommandAge \in Nat
    BY <1>2, BoundsAreNatural, Clocks
  <2> QED BY <2>3, <2>4, <2>5, <2>6
<1>7. QueueIsOld'
  <2>1. ASSUME NEW i \in 1 .. Len(ch2')
        PROVE  n + i \in 1 .. Len(ch2) /\ ch2'[i] = ch2[n + i]
    <3>1. ch2' = SubSeq(ch2, n + 1, Len(ch2))
      BY <1>4
    <3>2. CASE n + 1 <= Len(ch2)
      BY <1>5, <3>1, <3>2
    <3>3. CASE ~ (n + 1 <= Len(ch2))
      BY <1>5, <3>1, <3>3
    <3> QED BY <3>2, <3>3
  <2> QED BY <1>1, <2>1 DEF StopInv, QueueIsOld
<1>8. /\ sinceCycle' = 0 /\ feedback' = feedback
      /\ wd'.cmdAge = IF IsPlanned(cmds) \/ IsRequested(cmds) THEN 0 ELSE wd.cmdAge
      /\ wd'.latched = "None" =>
           /\ ~IsRequested(cmds)
           /\ wd.latched # "None" => IsPlanned(cmds)
           /\ ~IsPlanned(cmds) => lastActuated' = lastActuated
      /\ wd'.latched = "CommandTimeout" =>
           wd.latched \in {"None", "CommandTimeout"} /\ wd'.ramp = DecelerationVelocity(seed)
  BY <1>4
<1> HIDE DEF cmds
<1>9. PlannedIsRecent'
  <2>1. CASE IsPlanned(cmds)
    <3>1. sinceVelocity' <= MaxCommandAge /\ wd'.cmdAge = 0
      BY <1>1, <1>6, <1>8, <2>1
    <3> QED BY <3>1, <1>2, Clocks DEF PlannedIsRecent
  <2>2. CASE ~ IsPlanned(cmds)
    BY <1>1, <1>8, <2>2 DEF StopInv, PlannedIsRecent
  <2> QED BY <2>1, <2>2
<1>10. seed \in Int /\ (wd'.latched = "CommandTimeout" => AbsVal(wd'.ramp) = Shed(seed))
  <2>1. seed \in Int
    BY <1>2, Clocks
  <2> HIDE DEF seed
  <2> QED BY <1>8, <2>1, ShedPays
<1>11. RampIsShed'
  <2> SUFFICES ASSUME wd'.latched = "CommandTimeout"
               PROVE  Shed(seed) <= Shed(TopSpeed)
    BY <1>10 DEF RampIsShed
  <2>1. CASE wd.latched = "None"
    <3>1. seed = feedback /\ TopSpeed \in Nat /\ DecelStep \in Nat
      BY <2>1, ParametersHold DEF Parameters
    <3> QED BY <1>2, <3>1 DEF Shed, AbsVal
  <2>2. CASE wd.latched = "CommandTimeout"
    <3>1. Shed(seed) <= AbsVal(seed) /\ AbsVal(seed) \in Nat /\ Shed(seed) \in Nat
          /\ Shed(TopSpeed) \in Nat
      <4> HIDE DEF seed
      <4>1. Shed(seed) <= AbsVal(seed) /\ AbsVal(seed) \in Nat /\ Shed(seed) \in Nat
        BY <1>10, ShedPays
      <4>2. Shed(TopSpeed) \in Nat
        <5>1. TopSpeed \in Int
          BY Clocks
        <5> QED BY <5>1, ShedPays
      <4> QED BY <4>1, <4>2
    <3>2. AbsVal(seed) <= Shed(TopSpeed)
      BY <2>2 DEF StopInv, RampIsShed
    <3> QED BY <3>1, <3>2
  <2> QED BY <1>8, <2>1, <2>2
<1>12. ChainTypes'
  BY <1>1, <1>3 DEF StopInv, ChainTypes
<1>13. DownIsNew'
  BY <1>1 DEF DownIsNew
<1>14. MotionEnds'
  <2> SUFFICES ASSUME sinceVelocity > PlannedEra
               PROVE  (Ends(SpeedTime) /\ Ends(FrameTime) /\ Ends(RampTime) /\ Ends(LatchTime))'
    BY <1>1 DEF MotionEnds, PlannedEra
  <2>1. Ends(SpeedTime) /\ Ends(FrameTime) /\ Ends(RampTime) /\ Ends(LatchTime)
    BY DEF StopInv, MotionEnds
  <2>2. Ends(SpeedTime)' /\ Ends(FrameTime)'
    BY <1>1, <2>1 DEF Ends, SpeedTime, FrameTime
  <2>3. ~ IsPlanned(cmds)
    <3>1. MaxCommandAge < sinceVelocity
      BY <1>2, Clocks, BoundsAreNatural DEF PlannedEra
    <3>2. sinceVelocity \in Int /\ MaxCommandAge \in Int
      BY <1>2, Clocks, BoundsAreNatural
    <3> QED BY <1>6, <3>1, <3>2
  <2>4. Ends(LatchTime)'
    <3>1. CASE wd'.latched # "None" \/ Shed(feedback) = 0
      BY <1>1, <1>2, <1>8, <3>1 DEF Ends, LatchTime
    <3>2. CASE wd'.latched = "None" /\ Shed(feedback) # 0
      <4>1. wd.latched = "None" /\ wd'.cmdAge = wd.cmdAge
        BY <1>8, <2>3, <3>2
      <4>2. LatchTime' = LatchTime
        BY <1>8, <3>2, <4>1 DEF LatchTime
      <4> QED BY <1>1, <2>1, <4>2 DEF Ends
    <3> QED BY <3>1, <3>2
  <2>5. Ends(RampTime)'
    <3>1. CASE ~ (wd'.latched = "CommandTimeout" /\ wd'.ramp # 0)
      BY <1>1, <1>2, <3>1 DEF Ends, RampTime
    <3>2. CASE wd'.latched = "CommandTimeout" /\ wd'.ramp # 0
      <4> DEFINE shed == Shed(seed)
      <4>1. AbsVal(wd'.ramp) = shed /\ shed # 0
        <5>1. wd'.ramp \in Int
          BY <1>3 DEF IInv, TypeOK, WatchdogState
        <5> QED BY <1>10, <3>2, <5>1 DEF AbsVal
      <4>2. /\ Lasting(shed) + CrashRound <= Lasting(AbsVal(seed))
            /\ shed \in Nat /\ AbsVal(seed) \in Nat
        BY <1>10, <4>1, ShedPays
      <4>3. Lasting(shed) \in Nat /\ Lasting(AbsVal(seed)) \in Nat
        BY <4>2, LastingGrows
      <4>4. RampTime' = Lasting(shed) + (MaxStall - 0) + FirmwareTimeout + 1
        BY <1>8, <3>2, <4>1 DEF RampTime
      <4>5. CASE wd.latched = "None"
        <5>1. LatchTime = Lasting(shed) + (CommandTimeout + MaxStall - wd.cmdAge)
                            + MaxStall + FirmwareTimeout + 1
          BY <4>1, <4>5 DEF LatchTime
        <5> HIDE DEF shed, seed
        <5>2. RampTime' <= LatchTime /\ RampTime' \in Int /\ LatchTime \in Int
          BY Clocks, <1>2, <4>3, <4>4, <4>5, <5>1, LatchingPays
        <5> QED BY <1>1, <1>2, <2>1, <5>2, BoundsAreNatural DEF Ends
      <4>6. CASE wd.latched = "CommandTimeout"
        <5>1. seed = wd.ramp /\ wd.ramp # 0
          <6>1. seed = wd.ramp
            BY <4>6
          <6>2. Shed(0) = 0
            BY ParametersHold DEF Shed, AbsVal, Parameters
          <6> QED BY <4>1, <6>1, <6>2
        <5>2. RampTime = Lasting(AbsVal(seed)) + (MaxStall - sinceCycle) + FirmwareTimeout + 1
          BY <4>6, <5>1 DEF RampTime
        <5> HIDE DEF shed, seed
        <5>3. RampTime' <= RampTime /\ RampTime' \in Int /\ RampTime \in Int
          <6> DEFINE short == Lasting(shed)
                     long  == Lasting(AbsVal(seed))
          <6>1. /\ short \in Nat /\ long \in Nat /\ sinceCycle \in 0 .. MaxStall
                /\ short + (CommandTimeout + 2 * MaxStall + FirmwareTimeout + 1) <= long
                /\ RampTime' = short + (MaxStall - 0) + FirmwareTimeout + 1
                /\ RampTime = long + (MaxStall - sinceCycle) + FirmwareTimeout + 1
            BY Clocks, <1>2, <4>2, <4>3, <4>4, <5>2
          <6> HIDE DEF short, long
          <6>2. /\ short + (MaxStall - 0) + FirmwareTimeout + 1
                     <= long + (MaxStall - sinceCycle) + FirmwareTimeout + 1
                /\ short + (MaxStall - 0) + FirmwareTimeout + 1 \in Int
                /\ long + (MaxStall - sinceCycle) + FirmwareTimeout + 1 \in Int
            BY <6>1, Clocks, RoundIsPaid
          <6> QED BY <6>1, <6>2
        <5> QED BY <1>1, <1>2, <2>1, <5>3, BoundsAreNatural DEF Ends
      <4> QED BY <1>8, <3>2, <4>5, <4>6
    <3> QED BY <3>1, <3>2
  <2> QED BY <2>2, <2>4, <2>5
<1> QED BY <1>7, <1>9, <1>11, <1>12, <1>13, <1>14 DEF StopInv

(* The speed comes nearer to what the chassis was asked for. *)
LEMMA TowardFacts ==
  ASSUME NEW s \in -TopSpeed .. TopSpeed, NEW target \in -TopSpeed .. TopSpeed
  PROVE  /\ Toward(s, target) \in -TopSpeed .. TopSpeed
         /\ \/ AbsVal(Toward(s, target)) <= AbsVal(target)
            \/ AbsVal(Toward(s, target)) < AbsVal(s)
<1>1. TopSpeed \in Nat /\ Brake \in Nat \ {0}
  BY ParametersHold DEF Parameters
<1> QED BY <1>1 DEF Toward, AbsVal

(* No part of the chain holds more motion than the bound allows for. *)
LEMMA MotionIsBounded ==
  ChainTypes /\ RampIsShed =>
    \A time \in {SpeedTime, FrameTime, RampTime, LatchTime} :
      time \in Nat /\ time <= FirmwareTimeout + 1 + Lasting(TopSpeed)
<1> SUFFICES ASSUME ChainTypes, RampIsShed
             PROVE  \A time \in {SpeedTime, FrameTime, RampTime, LatchTime} :
                      time \in Nat /\ time <= FirmwareTimeout + 1 + Lasting(TopSpeed)
  OBVIOUS
<1> DEFINE top == Lasting(TopSpeed)
<1>1. /\ sinceCycle \in 0 .. MaxStall /\ wd.cmdAge \in Nat /\ wd.ramp \in Int
      /\ feedback \in -TopSpeed .. TopSpeed /\ frame \in -TopSpeed .. TopSpeed
      /\ speed \in -TopSpeed .. TopSpeed /\ frameAge \in 0 .. FirmwareTimeout + 1
      /\ wd.latched = "None" => wd.cmdAge <= CommandTimeout + sinceCycle
  BY ParametersHold DEF ChainTypes, IInv, TypeOK, WatchdogState, Age, CheckedRecently,
                        Parameters
<1>2. top \in Nat /\ TopSpeed \in Int
  BY Clocks, LastingGrows
<1>3. ASSUME NEW v \in -TopSpeed .. TopSpeed
      PROVE  AbsVal(v) \in Nat /\ Lasting(AbsVal(v)) \in Nat /\ Lasting(AbsVal(v)) <= top
  <2>1. AbsVal(v) \in Nat /\ AbsVal(v) <= TopSpeed
    BY Clocks DEF AbsVal
  <2> QED BY <2>1, Clocks, LastingGrows
<1>4. ASSUME NEW v \in Int, Shed(v) # 0, AbsVal(v) <= TopSpeed
      PROVE  /\ Lasting(Shed(v)) \in Nat
             /\ Lasting(Shed(v)) + CrashRound <= top
  <2>1. Shed(v) \in Nat /\ AbsVal(v) \in Nat
        /\ Lasting(Shed(v)) + CrashRound <= Lasting(AbsVal(v))
    BY <1>4, ShedPays
  <2>2. /\ Lasting(Shed(v)) \in Nat /\ Lasting(AbsVal(v)) \in Nat /\ CrashRound \in Nat
        /\ Lasting(AbsVal(v)) <= top
    BY <2>1, <1>4, Clocks, LastingGrows, TicksPerSpeedFacts
  <2> HIDE DEF top
  <2> QED BY <1>2, <2>1, <2>2
<1> HIDE DEF top
<1>5. SpeedTime \in Nat /\ SpeedTime <= FirmwareTimeout + 1 + top
  BY <1>1, <1>2, <1>3, Clocks DEF SpeedTime
<1>6. FrameTime \in Nat /\ FrameTime <= FirmwareTimeout + 1 + top
  <2>1. Lasting(AbsVal(frame)) \in Nat /\ Lasting(AbsVal(frame)) <= top
    BY <1>1, <1>3
  <2> QED BY <1>1, <1>2, <2>1, Clocks DEF FrameTime
<1>7. RampTime \in Nat /\ RampTime <= FirmwareTimeout + 1 + top
  <2>1. CASE ~ (wd.latched = "CommandTimeout" /\ wd.ramp # 0)
    BY <1>2, <2>1, Clocks DEF RampTime
  <2>2. CASE wd.latched = "CommandTimeout" /\ wd.ramp # 0
    <3> DEFINE lasting == Lasting(AbsVal(wd.ramp))
               shed    == Lasting(Shed(TopSpeed))
    <3>1. AbsVal(wd.ramp) <= Shed(TopSpeed) /\ AbsVal(wd.ramp) \in Nat
      BY <1>1, <2>2 DEF RampIsShed, AbsVal
    <3>2. AbsVal(wd.ramp) # 0
      BY <1>1, <2>2 DEF AbsVal
    <3>3. Shed(TopSpeed) \in Nat /\ AbsVal(TopSpeed) = TopSpeed
      <4>1. Shed(TopSpeed) \in Nat
        BY <1>2, ShedPays
      <4> QED BY <4>1, Clocks DEF AbsVal
    <3>4. Shed(TopSpeed) # 0
      BY <3>1, <3>2, <3>3
    <3>5. shed \in Nat /\ shed + CrashRound <= top
      BY <1>2, <1>4, <3>3, <3>4
    <3>6. lasting \in Nat /\ lasting <= shed
      BY <3>1, <3>3, LastingGrows
    <3>7. RampTime = lasting + (MaxStall - sinceCycle) + FirmwareTimeout + 1
      BY <2>2 DEF RampTime
    <3> HIDE DEF lasting, shed
    <3> QED BY <1>1, <1>2, <3>5, <3>6, <3>7, Clocks
  <2> QED BY <2>1, <2>2
<1>8. LatchTime \in Nat /\ LatchTime <= FirmwareTimeout + 1 + top
  <2>1. CASE ~ (wd.latched = "None" /\ Shed(feedback) # 0)
    BY <1>2, <2>1, Clocks DEF LatchTime
  <2>2. CASE wd.latched = "None" /\ Shed(feedback) # 0
    <3> DEFINE shed == Lasting(Shed(feedback))
               age  == wd.cmdAge
    <3>1. AbsVal(feedback) <= TopSpeed /\ feedback \in Int
      BY <1>1, Clocks DEF AbsVal
    <3>2. shed \in Nat /\ shed + CrashRound <= top
      BY <1>4, <2>2, <3>1
    <3>3. LatchTime = shed + (CommandTimeout + MaxStall - age) + MaxStall + FirmwareTimeout + 1
      BY <2>2 DEF LatchTime
    <3>4. age \in Nat /\ age <= CommandTimeout + sinceCycle
      BY <1>1, <2>2
    <3> HIDE DEF shed, age
    <3> QED BY <1>1, <1>2, <3>2, <3>3, <3>4, Clocks
  <2> QED BY <2>1, <2>2
<1> QED BY <1>5, <1>6, <1>7, <1>8 DEF top

(* A tick of the control process's clocks, as far as the chain needs it. *)
LEMMA TickOfChain ==
  ASSUME ChainTypes, DownIsNew, TimePasses
  PROVE  /\ IInv' /\ wd'.latched = wd.latched /\ wd'.ramp = wd.ramp
         /\ feedback' = feedback /\ lastActuated' = lastActuated
         /\ control = "up" =>
              /\ sinceCycle' = sinceCycle + 1 /\ sinceCycle < MaxStall
              /\ wd.latched = "None" => wd'.cmdAge = wd.cmdAge + 1
              /\ Len(ch2') = Len(ch2)
              /\ \A i \in 1 .. Len(ch2) :
                   ch2'[i].kind = ch2[i].kind /\ ch2'[i].age = OlderStamp(ch2[i].age)
         /\ control = "down" =>
              wd' = NewWatchdog /\ feedback' = 0 /\ lastActuated' = 0 /\ ch2' = <<>>
<1>1. IInv /\ control \in {"up", "down"} /\ Len(ch2) \in Nat
      /\ \A i \in 1 .. Len(ch2) : ch2[i] \in Command
  BY QueueTyped DEF ChainTypes
<1>2. CASE control = "up"
  <2>1. Tick
    BY <1>2 DEF TimePasses
  <2>2. IInv'
    BY <1>1, <2>1, TickPreservesIInv, WatchdogAssumption, ControlLoopAssumption
  <2>3. wd \in WatchdogState /\ wd.cmdAge \in Nat /\ sinceCycle \in 0 .. MaxStall
        /\ (wd.latched = "None" => wd.cmdAge <= CommandTimeout + sinceCycle)
    BY <1>1 DEF IInv, TypeOK, CheckedRecently, WatchdogState, Age
  <2>4. wd' = [wd EXCEPT !.cmdAge = Older(wd.cmdAge), !.hbAge = Older(wd.hbAge)]
        /\ sinceCycle' = sinceCycle + 1 /\ sinceCycle < MaxStall
        /\ feedback' = feedback /\ lastActuated' = lastActuated
    BY <2>1 DEF Tick, WatchdogTick
  <2>5. wd'.latched = wd.latched /\ wd'.ramp = wd.ramp /\ wd'.cmdAge = Older(wd.cmdAge)
    BY <2>3, <2>4 DEF WatchdogState
  <2>6. wd.latched = "None" => wd'.cmdAge = wd.cmdAge + 1
    <3>1. /\ Horizon > CommandTimeout + MaxCommandAge + MaxStall /\ Horizon \in Nat
          /\ MaxStall \in Nat /\ MaxCommandAge \in Nat /\ CommandTimeout \in Nat
      BY ParametersHold DEF Parameters
    <3>2. wd.latched = "None" => wd.cmdAge < Horizon
      BY <2>3, <2>4, <3>1
    <3> QED BY <2>5, <3>2 DEF Older
  <2>7. /\ Len(ch2') = Len(ch2)
        /\ \A i \in 1 .. Len(ch2) :
             ch2'[i].kind = ch2[i].kind /\ ch2'[i].age = OlderStamp(ch2[i].age)
    <3> DEFINE f == [i \in 1 .. Len(ch2) |-> [ch2[i] EXCEPT !.age = OlderStamp(@)]]
    <3>1. ch2' = f
      BY <2>1 DEF Tick
    <3>2. \A i \in 1 .. Len(ch2) : f[i] = [ch2[i] EXCEPT !.age = OlderStamp(ch2[i].age)]
      OBVIOUS
    <3>3. \A i \in 1 .. Len(ch2) : f[i].kind = ch2[i].kind /\ f[i].age = OlderStamp(ch2[i].age)
      BY <1>1, <3>2 DEF Command
    <3>4. DOMAIN f = 1 .. Len(ch2)
      OBVIOUS
    <3>5. Len(ch2') \in Nat /\ DOMAIN ch2' = 1 .. Len(ch2')
      BY <2>2, LenProperties DEF IInv, TypeOK
    <3> HIDE DEF f
    <3>6. Len(ch2') = Len(ch2)
      BY <1>1, <3>1, <3>4, <3>5
    <3> QED BY <3>1, <3>3, <3>6
  <2> QED BY <1>2, <2>2, <2>4, <2>5, <2>6, <2>7
<1>3. CASE control = "down"
  <2>1. UNCHANGED vars
    BY <1>3 DEF TimePasses
  <2>2. IInv'
    BY <1>1, <2>1, StepPreservesIInv, WatchdogAssumption, ControlLoopAssumption
  <2> QED BY <1>3, <2>1, <2>2 DEF vars, DownIsNew
<1> QED BY <1>1, <1>2, <1>3

(* A tick takes away from the motion that any part of the chain holds. *)
LEMMA MotionIsSpent ==
  ASSUME ChainTypes, RampIsShed, DownIsNew, TimePasses
  PROVE  /\ SpeedTime' = 0 \/ SpeedTime' <= SpeedTime - 1 \/ SpeedTime' <= FrameTime - 1
         /\ FrameTime' = 0 \/ FrameTime' <= FrameTime - 1
         /\ RampTime' = 0 \/ RampTime' <= RampTime - 1
         /\ LatchTime' = 0 \/ LatchTime' <= LatchTime - 1
<1> DEFINE target == IF frameAge > FirmwareTimeout THEN 0 ELSE frame
<1>1. /\ frame' = frame /\ speed' = Toward(speed, target)
      /\ frameAge' = IF frameAge <= FirmwareTimeout THEN frameAge + 1 ELSE frameAge
      /\ control' = control
  BY DEF TimePasses
<1>2. /\ frame \in -TopSpeed .. TopSpeed /\ speed \in -TopSpeed .. TopSpeed
      /\ frameAge \in 0 .. FirmwareTimeout + 1 /\ sinceCycle \in 0 .. MaxStall
      /\ wd.cmdAge \in Nat /\ wd.ramp \in Int /\ feedback \in Int
      /\ control \in {"up", "down"}
  BY ParametersHold DEF ChainTypes, IInv, TypeOK, WatchdogState, Age, Parameters
<1>3. /\ SpeedTime \in Nat /\ FrameTime \in Nat /\ RampTime \in Nat /\ LatchTime \in Nat
  BY MotionIsBounded
<1>4. SpeedTime' = 0 \/ SpeedTime' <= SpeedTime - 1 \/ SpeedTime' <= FrameTime - 1
  <2> DEFINE s == AbsVal(speed')
             t == AbsVal(target)
             o == AbsVal(speed)
  <2>1. target \in -TopSpeed .. TopSpeed
    BY <1>2, Clocks
  <2>2. /\ speed' \in -TopSpeed .. TopSpeed
        /\ s <= t \/ s < o
    BY <1>1, <1>2, <2>1, TowardFacts
  <2>3. s \in Nat /\ t \in Nat /\ o \in Nat
    <3>1. speed' \in Int /\ target \in Int /\ speed \in Int
      BY <1>2, <2>1, <2>2, Clocks
    <3>2. \A v \in Int : AbsVal(v) \in Nat
      BY DEF AbsVal
    <3> QED BY <3>1, <3>2
  <2>4. SpeedTime' = Lasting(s) /\ SpeedTime = Lasting(o)
    BY DEF SpeedTime
  <2>5. CASE s < o
    <3> HIDE DEF s, o
    <3>1. Lasting(s) < Lasting(o) /\ Lasting(s) \in Nat /\ Lasting(o) \in Nat
      BY <2>3, <2>5, LastingGrows
    <3> QED BY <2>4, <3>1
  <2>6. CASE s <= t /\ target = 0
    <3>1. t = 0
      BY <2>6 DEF AbsVal
    <3> HIDE DEF s, t
    <3>2. s = 0
      BY <2>3, <2>6, <3>1
    <3> QED BY <2>3, <2>4, <3>2, LastingGrows
  <2>7. CASE s <= t /\ target # 0
    <3>1. frameAge <= FirmwareTimeout /\ target = frame /\ frame # 0
      BY <1>2, <2>7, Clocks
    <3>2. FrameTime = Lasting(t) + (FirmwareTimeout + 1 - frameAge)
      BY <3>1 DEF FrameTime
    <3> HIDE DEF s, t
    <3>3. Lasting(s) <= Lasting(t) /\ Lasting(s) \in Nat /\ Lasting(t) \in Nat
      BY <2>3, <2>7, LastingGrows
    <3> QED BY <1>2, <2>4, <3>1, <3>2, <3>3, Clocks
  <2> QED BY <2>2, <2>5, <2>6, <2>7
<1>5. FrameTime' = 0 \/ FrameTime' <= FrameTime - 1
  <2>1. CASE ~ (frame' # 0 /\ frameAge' <= FirmwareTimeout)
    BY <2>1 DEF FrameTime
  <2>2. CASE frame' # 0 /\ frameAge' <= FirmwareTimeout
    <3> DEFINE lasting == Lasting(AbsVal(frame))
    <3>1. frameAge <= FirmwareTimeout /\ frameAge' = frameAge + 1
      BY <1>1, <1>2, <2>2, Clocks
    <3>2. /\ FrameTime = lasting + (FirmwareTimeout + 1 - frameAge)
          /\ FrameTime' = lasting + (FirmwareTimeout + 1 - frameAge')
      BY <1>1, <2>2, <3>1 DEF FrameTime
    <3>3. lasting \in Nat
      <4>1. AbsVal(frame) \in Nat
        BY <1>2, Clocks DEF AbsVal
      <4> QED BY <4>1, LastingGrows
    <3> HIDE DEF lasting
    <3> QED BY <1>2, <3>1, <3>2, <3>3, Clocks
  <2> QED BY <2>1, <2>2
<1>6. RampTime' = 0 \/ RampTime' <= RampTime - 1
  <2>1. CASE ~ (wd'.latched = "CommandTimeout" /\ wd'.ramp # 0)
    BY <2>1 DEF RampTime
  <2>2. CASE wd'.latched = "CommandTimeout" /\ wd'.ramp # 0
    <3> DEFINE lasting == Lasting(AbsVal(wd.ramp))
    <3>1. control = "up"
      BY <1>2, <2>2, TickOfChain DEF NewWatchdog
    <3>2. /\ wd'.latched = wd.latched /\ wd'.ramp = wd.ramp
          /\ sinceCycle' = sinceCycle + 1
      BY <3>1, TickOfChain
    <3>3. /\ RampTime = lasting + (MaxStall - sinceCycle) + FirmwareTimeout + 1
          /\ RampTime' = lasting + (MaxStall - sinceCycle') + FirmwareTimeout + 1
      BY <2>2, <3>2 DEF RampTime
    <3>4. lasting \in Nat
      <4>1. AbsVal(wd.ramp) \in Nat
        BY <1>2 DEF AbsVal
      <4> QED BY <4>1, LastingGrows
    <3> HIDE DEF lasting
    <3> QED BY <1>2, <3>2, <3>3, <3>4, Clocks
  <2> QED BY <2>1, <2>2
<1>7. LatchTime' = 0 \/ LatchTime' <= LatchTime - 1
  <2>1. CASE ~ (wd'.latched = "None" /\ Shed(feedback') # 0)
    BY <2>1 DEF LatchTime
  <2>2. CASE wd'.latched = "None" /\ Shed(feedback') # 0
    <3> DEFINE shed == Lasting(Shed(feedback))
               age  == wd.cmdAge
    <3>1. control = "up"
      <4>1. Shed(0) = 0
        BY ParametersHold DEF Shed, AbsVal, Parameters
      <4> QED BY <1>2, <2>2, <4>1, TickOfChain
    <3>2. wd.latched = "None" /\ feedback' = feedback /\ wd'.cmdAge = age + 1
      BY <2>2, <3>1, TickOfChain
    <3>3. /\ LatchTime = shed + (CommandTimeout + MaxStall - age) + MaxStall
                           + FirmwareTimeout + 1
          /\ LatchTime' = shed + (CommandTimeout + MaxStall - (age + 1)) + MaxStall
                           + FirmwareTimeout + 1
      BY <2>2, <3>2 DEF LatchTime
    <3>4. shed \in Nat /\ age \in Nat
      <4>1. Shed(feedback) \in Nat
        BY <1>2, ShedPays
      <4> QED BY <1>2, <4>1, LastingGrows
    <3> HIDE DEF shed, age
    <3> QED BY <3>3, <3>4, Clocks
  <2> QED BY <2>1, <2>2
<1> QED BY <1>4, <1>5, <1>6, <1>7

(* Time passing uses up what is left; the era's last tick starts the count. *)
LEMMA TimePassesKeepsStop ==
  ASSUME StopInv, TimePasses
  PROVE  StopInv'
<1>1. /\ ChainTypes /\ RampIsShed /\ DownIsNew /\ QueueIsOld /\ PlannedIsRecent
      /\ control \in {"up", "down"} /\ control' = control
      /\ sinceVelocity \in 0 .. StopBound + 1
      /\ sinceVelocity' = IF sinceVelocity <= StopBound THEN sinceVelocity + 1
                          ELSE sinceVelocity
  BY DEF StopInv, ChainTypes, TimePasses
<1>2. StopBound \in Nat /\ PlannedEra \in Nat /\ Lasting(TopSpeed) \in Nat
      /\ StopBound = PlannedEra + FirmwareTimeout + 1 + Lasting(TopSpeed)
  BY Clocks, BoundsAreNatural, LastingGrows
<1>3. sinceVelocity' \in 0 .. StopBound + 1 /\ sinceVelocity' <= sinceVelocity + 1
  BY <1>1, <1>2
<1>4. ChainTypes'
  <2>1. IInv'
    BY <1>1, TickOfChain
  <2>2. frame' = frame /\ frame \in -TopSpeed .. TopSpeed
    BY DEF TimePasses, StopInv, ChainTypes
  <2>3. frameAge' \in 0 .. FirmwareTimeout + 1
    BY Clocks DEF TimePasses, StopInv, ChainTypes
  <2>4. speed' \in -TopSpeed .. TopSpeed
    <3> DEFINE target == IF frameAge > FirmwareTimeout THEN 0 ELSE frame
    <3>1. target \in -TopSpeed .. TopSpeed
      BY <2>2, Clocks
    <3>2. speed' = Toward(speed, target)
      BY DEF TimePasses
    <3>3. speed \in -TopSpeed .. TopSpeed
      BY <1>1 DEF ChainTypes
    <3> HIDE DEF target
    <3> QED BY <3>1, <3>2, <3>3, TowardFacts
  <2> QED BY <1>1, <1>3, <2>1, <2>2, <2>3, <2>4 DEF ChainTypes
<1>5. QueueIsOld'
  <2>1. CASE control = "down"
    <3>1. ch2' = <<>>
      BY <1>1, <2>1, TickOfChain
    <3> QED BY <3>1 DEF QueueIsOld
  <2>2. CASE control = "up"
    <3> SUFFICES ASSUME NEW i \in 1 .. Len(ch2'), ch2'[i].kind = "VelocityCmd"
                 PROVE  sinceVelocity' <= ch2'[i].age \/ ch2'[i].age > MaxCommandAge
      BY DEF QueueIsOld
    <3>1. i \in 1 .. Len(ch2) /\ ch2[i].kind = "VelocityCmd"
          /\ ch2'[i].age = OlderStamp(ch2[i].age)
      BY <1>1, <2>2, TickOfChain
    <3>2. ch2[i].age \in 0 .. MaxCommandAge + 1
      BY <1>1, <3>1, QueueTyped DEF ChainTypes
    <3>3. sinceVelocity <= ch2[i].age \/ ch2[i].age > MaxCommandAge
      BY <1>1, <3>1 DEF QueueIsOld
    <3> QED BY <1>1, <1>3, <3>1, <3>2, <3>3, Clocks DEF OlderStamp
  <2> QED BY <1>1, <2>1, <2>2
<1>6. PlannedIsRecent'
  <2> SUFFICES ASSUME wd'.latched = "None", lastActuated' # 0
               PROVE  sinceVelocity' <= wd'.cmdAge + MaxCommandAge
    BY DEF PlannedIsRecent
  <2>1. control = "up" /\ wd.latched = "None" /\ lastActuated # 0
        /\ wd'.cmdAge = wd.cmdAge + 1
    BY <1>1, TickOfChain
  <2>2. sinceVelocity <= wd.cmdAge + MaxCommandAge /\ wd.cmdAge \in Nat
    BY <1>1, <2>1 DEF PlannedIsRecent, ChainTypes, IInv, TypeOK, WatchdogState, Age
  <2> QED BY <1>1, <1>3, <2>1, <2>2, Clocks
<1>7. RampIsShed' /\ DownIsNew'
  BY <1>1, TickOfChain DEF RampIsShed, DownIsNew
<1>8. MotionEnds'
  <2> SUFFICES ASSUME sinceVelocity' > PlannedEra
               PROVE  (Ends(SpeedTime) /\ Ends(FrameTime) /\ Ends(RampTime) /\ Ends(LatchTime))'
    BY DEF MotionEnds, PlannedEra
  <2>1. \A time \in {SpeedTime', FrameTime', RampTime', LatchTime'} :
          time \in Nat /\ time <= FirmwareTimeout + 1 + Lasting(TopSpeed)
    <3>1. (ChainTypes /\ RampIsShed =>
            \A time \in {SpeedTime, FrameTime, RampTime, LatchTime} :
              time \in Nat /\ time <= FirmwareTimeout + 1 + Lasting(TopSpeed))'
      BY MotionIsBounded, PTL
    <3>2. Lasting(TopSpeed)' = Lasting(TopSpeed)
      BY DEF Lasting, TicksPerSpeed, CrashRound, TopSpeed
    <3> QED BY <1>4, <1>7, <3>1, <3>2
  <2>2. \A time \in {SpeedTime, FrameTime, RampTime, LatchTime} : time \in Nat
    BY <1>1, MotionIsBounded
  <2>3. CASE sinceVelocity <= PlannedEra
    <3>1. sinceVelocity' = PlannedEra + 1
      BY <1>1, <1>2, <2>3, Clocks
    <3>2. \A time \in {SpeedTime', FrameTime', RampTime', LatchTime'} :
            sinceVelocity' + time <= StopBound + 1
      BY <1>2, <2>1, <3>1, Clocks
    <3> QED BY <3>2 DEF Ends, StopBound, TicksPerSpeed, CrashRound, TopSpeed
  <2>4. CASE sinceVelocity > PlannedEra
    <3>1. \A time \in {SpeedTime, FrameTime, RampTime, LatchTime} :
            sinceVelocity + time <= StopBound + 1
      BY <2>4 DEF StopInv, MotionEnds, Ends
    <3>2. ASSUME NEW before \in {SpeedTime, FrameTime, RampTime, LatchTime},
                 NEW time \in Nat, time <= before - 1
          PROVE  sinceVelocity' + time <= StopBound + 1
      <4>1. before \in Nat /\ sinceVelocity + before <= StopBound + 1
        BY <2>2, <3>1
      <4> QED BY <1>1, <1>2, <1>3, <3>2, <4>1
    <3>3. sinceVelocity' + 0 <= StopBound + 1
      BY <1>2, <1>3
    <3>4. \A time \in {SpeedTime', FrameTime', RampTime', LatchTime'} :
            sinceVelocity' + time <= StopBound + 1
      BY <1>1, <2>1, <3>2, <3>3, MotionIsSpent
    <3> QED BY <3>4 DEF Ends, StopBound, TicksPerSpeed, CrashRound, TopSpeed
  <2> QED BY <1>1, <1>2, <2>3, <2>4
<1> QED BY <1>4, <1>5, <1>6, <1>7, <1>8 DEF StopInv

(* The inductive invariant of the chain holds: whatever dies, hangs,       *)
(* restarts or is lost, what every part can still set in motion ends within *)
(* StopBound ticks of planning's last velocity.                            *)
THEOREM ChainInvariant == ChainSpec => []StopInv
<1>1. ChainInit => StopInv
  BY ChainStarts
<1>2. StopInv /\ [ChainNext]_allVars => StopInv'
  <2> SUFFICES ASSUME StopInv, [ChainNext]_allVars PROVE StopInv'
    OBVIOUS
  <2> QED
    BY PlannerCycleKeepsStop, IdleStepsKeepStop, ControlCycleKeepsStop, ChassisKeepsStop,
       CrashKeepsStop, TimePassesKeepsStop DEF ChainNext
<1> QED BY <1>1, <1>2, PTL DEF ChainSpec

(* The vehicle stands still StopBound ticks after planning's last velocity, *)
(* also when the control process crashed and ramped again on the way.      *)
THEOREM VehicleStopsInTime == ChainSpec => []VehicleStopsWithoutVelocity
<1>1. StopInv => VehicleStopsWithoutVelocity
  <2> SUFFICES ASSUME StopInv, sinceVelocity > StopBound PROVE speed = 0
    BY DEF VehicleStopsWithoutVelocity
  <2>1. StopBound \in Nat /\ PlannedEra \in Nat /\ StopBound >= PlannedEra
        /\ sinceVelocity \in 0 .. StopBound + 1 /\ speed \in -TopSpeed .. TopSpeed
    BY Clocks, BoundsAreNatural, LastingGrows DEF StopInv, ChainTypes
  <2>2. sinceVelocity + Lasting(AbsVal(speed)) <= StopBound + 1
    BY <2>1 DEF StopInv, MotionEnds, Ends, SpeedTime
  <2>3. AbsVal(speed) \in Nat
    BY <2>1, Clocks DEF AbsVal
  <2>4. Lasting(AbsVal(speed)) \in Nat /\ AbsVal(speed) <= Lasting(AbsVal(speed))
    BY <2>3, LastingGrows
  <2>5. AbsVal(speed) = 0
    BY <2>1, <2>2, <2>3, <2>4
  <2> QED BY <2>1, <2>5, Clocks DEF AbsVal
<1> QED BY <1>1, ChainInvariant, PTL

-----------------------------------------------------------------------------
(***************************************************************************)
(* StopChain: recovery.                                                    *)
(***************************************************************************)

(* By Quiet ticks of health a cycle has read CH2 in full, and the latch of *)
(* a stop has been closed; by Settled the vehicle stands still and that    *)
(* has been read.                                                          *)
Quiet   == MaxStall + 2
Settled == Quiet + HaltTime + 1

(* The times of recovery are numbers, and a halt is long enough to brake *)
(* from the top speed.                                                   *)
LEMMA RecoveryClocks ==
  /\ MaxStall \in Nat \ {0} /\ HaltTime \in Nat /\ Brake \in Nat \ {0} /\ TopSpeed \in Nat
  /\ HaltTime * Brake >= TopSpeed
  /\ Quiet = MaxStall + 2 /\ Settled = Quiet + HaltTime + 1
  /\ RecoveryBound = Settled + MaxStall
<1> USE ParametersHold DEF Parameters
<1>1. HaltTime \in Nat /\ HaltTime * Brake >= TopSpeed
  <2>1. CASE TopSpeed = 0
    <3> DEFINE q == (TopSpeed + Brake - 1) \div Brake
               r == (TopSpeed + Brake - 1) % Brake
               m == -q
               k == m - 1
    <3>1. q \in Int /\ r \in 0 .. Brake - 1 /\ TopSpeed + Brake - 1 = Brake * q + r
      OBVIOUS
    <3> HIDE DEF q, r
    <3>2. q >= 0
      <4> SUFFICES ASSUME q <= -1 PROVE FALSE
        BY <3>1
      <4>1. k \in Nat /\ m = k + 1 /\ q = -m
        BY <3>1
      <4> HIDE DEF k, m
      <4>2. Brake * q = -(Brake * k + Brake) /\ Brake * k \in Nat
        BY <4>1
      <4> QED BY <3>1, <4>2
    <3>3. q * Brake \in Nat
      BY <3>1, <3>2
    <3> QED BY <2>1, <3>1, <3>2, <3>3 DEF HaltTime, q
  <2>2. CASE TopSpeed # 0
    BY <2>2, CeilingCovers DEF HaltTime
  <2> QED BY <2>1, <2>2
<1>2. Quiet = MaxStall + 2 /\ Settled = Quiet + HaltTime + 1
  BY DEF Quiet, Settled
<1>3. RecoveryBound = Settled + MaxStall
  BY <1>1 DEF RecoveryBound, Settled, Quiet
<1> QED BY <1>1, <1>2, <1>3

(* Bounds stay what they are. *)
LEMMA FixedBounds ==
  Quiet' = Quiet /\ Settled' = Settled /\ RecoveryBound' = RecoveryBound
  BY DEF Quiet, Settled, RecoveryBound, HaltTime, TopSpeed

(* The most a vehicle at top speed can have after braking for n ticks. *)
Braked(n) == IF n * Brake >= TopSpeed THEN 0 ELSE TopSpeed - n * Brake

(* Braking sheds Brake a tick, and comes to rest. *)
LEMMA BrakingEnds ==
  /\ \A n \in Nat : \A s \in -TopSpeed .. TopSpeed :
       AbsVal(s) <= Braked(n) => AbsVal(Toward(s, 0)) <= Braked(n + 1)
  /\ \A s \in -TopSpeed .. TopSpeed : AbsVal(s) <= Braked(0)
  /\ \A n \in Nat : n >= HaltTime => Braked(n) = 0
<1>1. /\ TopSpeed \in Nat /\ Brake \in Nat \ {0} /\ HaltTime \in Nat
      /\ HaltTime * Brake >= TopSpeed
  BY RecoveryClocks
<1>2. ASSUME NEW n \in Nat, NEW s \in -TopSpeed .. TopSpeed, AbsVal(s) <= Braked(n)
      PROVE  AbsVal(Toward(s, 0)) <= Braked(n + 1)
  <2> DEFINE b == n * Brake
  <2>1. b \in Nat /\ (n + 1) * Brake = b + Brake
    BY <1>1
  <2>2. Braked(n) = (IF b >= TopSpeed THEN 0 ELSE TopSpeed - b)
        /\ Braked(n + 1) = (IF b + Brake >= TopSpeed THEN 0 ELSE TopSpeed - (b + Brake))
    BY <2>1 DEF Braked
  <2> HIDE DEF b
  <2>3. CASE AbsVal(s) <= Brake
    <3>1. Toward(s, 0) = 0
      BY <1>1, <2>3 DEF Toward, AbsVal
    <3>2. AbsVal(0) = 0 /\ Braked(n + 1) >= 0
      BY <1>1, <2>1, <2>2 DEF AbsVal
    <3> QED BY <3>1, <3>2
  <2>4. CASE AbsVal(s) > Brake
    <3>1. AbsVal(Toward(s, 0)) = AbsVal(s) - Brake
      BY <1>1, <2>4 DEF Toward, AbsVal
    <3>2. AbsVal(s) \in Int
      BY <1>1 DEF AbsVal
    <3> QED BY <1>1, <1>2, <2>1, <2>2, <2>4, <3>1, <3>2
  <2>5. AbsVal(s) \in Int
    BY <1>1 DEF AbsVal
  <2> QED BY <1>1, <2>3, <2>4, <2>5
<1>3. ASSUME NEW s \in -TopSpeed .. TopSpeed PROVE AbsVal(s) <= Braked(0)
  BY <1>1 DEF Braked, AbsVal
<1>4. ASSUME NEW n \in Nat, n >= HaltTime PROVE Braked(n) = 0
  <2>1. n * Brake >= HaltTime * Brake
    BY <1>1, <1>4
  <2> DEFINE b == n * Brake
             h == HaltTime * Brake
  <2>2. b \in Int /\ h \in Int /\ h >= TopSpeed /\ b >= h
    BY <1>1, <2>1
  <2> HIDE DEF b, h
  <2>3. b >= TopSpeed
    BY <1>1, <2>2
  <2> QED BY <2>3 DEF Braked, b
<1> QED BY <1>2, <1>3, <1>4

-----------------------------------------------------------------------------
(* What a cycle on a queue read in full comes to. *)

(* With planning heard, and a command or not yet the lack of one, the      *)
(* check finds nothing; a command releases what may be released.           *)
LEMMA HealthyCheck ==
  ASSUME IInv, WatchdogAssumption, ControlLoopAssumption, NEW cmds \in Seq(Command),
         HeartbeatVisible, ~IsRequested(cmds),
         IsPlanned(cmds) \/ wd.cmdAge <= CommandTimeout
  PROVE  /\ Checked(cmds).latched \in {wd.latched, "None"}
         /\ IsPlanned(cmds) /\ (wd.latched = "ExplicitRequest" => AbsVal(feedback) < StoppedSpeed)
              => Checked(cmds).latched = "None"
<1> DEFINE o == Observed(wd)
           k == Classified(o, cmds)
           c == Checked(cmds)
<1>1. /\ Consistent(k) /\ k.hbAge = 0
      /\ k.cmdAge = IF IsPlanned(cmds) \/ IsRequested(cmds) THEN 0 ELSE wd.cmdAge
      /\ k.latched \in {wd.latched, "None"}
  BY ClassifiedFacts
<1>2. c = CheckConditions(k)
  BY DEF Checked
<1>3. ~ (k.cmdAge > CommandTimeout) /\ ~ (k.hbAge > HeartbeatDead)
  <2>1. wd.cmdAge \in Nat
    BY DEF IInv, TypeOK, WatchdogState, Age
  <2> HIDE DEF k
  <2> QED BY <1>1, <2>1, WatchdogAssumption DEF WatchdogAssumption
<1>4. c = k
  <2> HIDE DEF k, c
  <2> QED BY <1>2, <1>3 DEF CheckConditions
<1>5. ASSUME IsPlanned(cmds), wd.latched = "ExplicitRequest" => AbsVal(feedback) < StoppedSpeed
      PROVE  k.latched = "None"
  <2>1. /\ o \in WatchdogState /\ o.measured = feedback /\ o.hbAge = 0
        /\ o.latched = wd.latched
    <3>1. feedback \in Int /\ 0 \in Age /\ wd \in WatchdogState
      BY DEF IInv, TypeOK, ControlLoopAssumption, Age, WatchdogAssumption
    <3> QED BY <3>1 DEF Observed, UpdateMeasuredSpeed, NotifyHeartbeat, WatchdogState
  <2> DEFINE fed == [o EXCEPT !.cmdAge = 0]
  <2>2. /\ k = IF MayRelease(fed) THEN ClearEstop(fed) ELSE fed
    BY <1>5 DEF Classified, NotifyCommandReceived
  <2> HIDE DEF o, k
  <2>3. /\ fed.measured = feedback /\ fed.hbAge = 0 /\ fed.latched = wd.latched
        /\ fed \in WatchdogState
    <3>1. 0 \in Age
      BY WatchdogAssumption DEF Age, WatchdogAssumption
    <3> QED BY <2>1, <3>1 DEF WatchdogState
  <2> HIDE DEF fed
  <2>4. CASE MayRelease(fed)
    BY <2>2, <2>3, <2>4 DEF ClearEstop, WatchdogState
  <2>5. CASE ~ MayRelease(fed)
    <3>1. wd.latched \in {"None", "CommandTimeout", "PeerDead", "ExplicitRequest"}
      BY DEF IInv, TypeOK, WatchdogState, Latch, Reason
    <3>2. PeerHealthy(fed)
      BY <2>3, WatchdogAssumption DEF PeerHealthy, WatchdogAssumption
    <3>3. wd.latched = "None"
      BY <1>5, <2>3, <2>5, <3>1, <3>2 DEF MayRelease
    <3> QED BY <2>2, <2>3, <2>5, <3>3
  <2> QED BY <2>4, <2>5
<1> QED BY <1>1, <1>4, <1>5

(* A latch is what the check says, and so is the age of the last command. *)
LEMMA ChecksLatch ==
  ASSUME IInv, WatchdogAssumption, ControlLoopAssumption, NEW cmds \in Seq(Command),
         RunCycle(cmds)
  PROVE  /\ wd'.latched = Checked(cmds).latched /\ wd'.cmdAge = Checked(cmds).cmdAge
         /\ wd'.latched = "ExplicitRequest" =>
              wd.latched = "ExplicitRequest" \/ IsRequested(cmds)
<1> DEFINE k == Classified(Observed(wd), cmds)
           c == Checked(cmds)
<1>1. Consistent(k) /\ (~IsRequested(cmds) => k.latched \in {wd.latched, "None"})
  BY ClassifiedFacts
<1>2. c = CheckConditions(k)
  BY DEF Checked
<1> HIDE DEF k
<1>3. Consistent(c) /\ c.latched \in {k.latched, "CommandTimeout", "PeerDead"}
  BY <1>1, <1>2, CheckLatches
<1>4. \/ c.latched = "CommandTimeout" /\ ActuateRamp(c)
      \/ c.latched \in {"PeerDead", "ExplicitRequest"} /\ ActuateHardStop(c)
      \/ c.latched = "None" /\ ActuatePlanned(c, cmds)
  BY DEF RunCycle
<1> HIDE DEF c
<1>5. wd'.latched = c.latched /\ wd'.cmdAge = c.cmdAge
  <2>1. c \in WatchdogState
    BY <1>3 DEF Consistent
  <2> QED BY <1>4, <2>1 DEF ActuateRamp, ActuateHardStop, ActuatePlanned, WatchdogState
<1> QED BY <1>1, <1>3, <1>5 DEF c

-----------------------------------------------------------------------------
(* What recovery is proved for: a command is not too old when a cycle comes *)
(* at the latest, the queue holds one, and no threshold is below a tick.   *)
RecoverySettings ==
  /\ MaxStall <= MaxCommandAge /\ QueueCap >= 1 /\ CommandTimeout >= 1
  /\ HeartbeatDegraded >= 2 /\ StoppedSpeed >= 1

(* The heartbeat of the last tick has been seen.                           *)
BeatIsSeen ==
  /\ healthyFor >= 2 /\ "heartbeat" \in ran => peerAge = 0
  /\ healthyFor >= 3 => peerAge <= 1

(* A cycle has emptied CH2 since the faults ended: what it holds are       *)
(* velocities published since, one for each tick that passed.              *)
QueueIsHealthy ==
  sinceCycle + 2 <= healthyFor =>
    /\ \A i \in 1 .. Len(ch2) : ch2[i].kind = "VelocityCmd" /\ ch2[i].age <= sinceCycle
    /\ sinceCycle >= 2 \/ (sinceCycle = 1 /\ "planning" \in ran) => ch2 # <<>>

(* The next cycle finds a command, or comes before planning's first.       *)
Supplied == "planning" \in ran \/ sinceCycle >= 1 => ch2 # <<>>

(* The watchdog had a command in its last cycle, or in the one before.     *)
IsFed ==
  /\ sinceCycle + Quiet <= healthyFor => wd.cmdAge <= sinceCycle \/ Supplied
  /\ sinceCycle + Quiet < healthyFor => wd.cmdAge <= sinceCycle + 1

(* An explicit stop that is still latched brings the vehicle to rest, and  *)
(* that is read.                                                           *)
Halts ==
  wd.latched = "ExplicitRequest" =>
    /\ healthyFor > Quiet \/ (healthyFor = Quiet /\ "chassis" \in ran) => frame = 0
    /\ healthyFor > Quiet => AbsVal(speed) <= Braked(healthyFor - Quiet)
    /\ healthyFor >= Settled \/ (healthyFor + 1 = Settled /\ "chassis" \in ran)
         => feedback = 0

(* From then on a latch outlives only the time since the last cycle.       *)
Releases ==
  wd.latched # "None" /\ healthyFor >= Settled =>
    /\ healthyFor <= sinceCycle + Settled
    /\ healthyFor = sinceCycle + Settled => Supplied

(* The inductive invariant of recovery, on top of the chain's.             *)
RecoveryInv ==
  /\ healthyFor \in 0 .. RecoveryBound + 1
  /\ healthy =>
       control = "up" /\ BeatIsSeen /\ QueueIsHealthy /\ IsFed /\ Halts /\ Releases

(* The numbers in it.                                                      *)
LEMMA RecoveryNumbers ==
  ASSUME StopInv, RecoveryInv
  PROVE  /\ healthyFor \in 0 .. RecoveryBound + 1 /\ (healthy <=> healthyFor > 0)
         /\ MaxStall \in Nat \ {0} /\ HaltTime \in Nat
         /\ Quiet = MaxStall + 2 /\ Settled = Quiet + HaltTime + 1
         /\ RecoveryBound = Settled + MaxStall
         /\ sinceCycle \in 0 .. MaxStall /\ peerAge \in Nat /\ wd.cmdAge \in Nat
         /\ feedback \in Int /\ IInv
         /\ speed \in -TopSpeed .. TopSpeed /\ TopSpeed \in Nat
  BY RecoveryClocks, ControlLoopAssumption
     DEF StopInv, ChainTypes, IInv, TypeOK, WatchdogState, Age, RecoveryInv, healthy,
         ControlLoopAssumption

(* Nothing is healthy at first, nor after a step of a chain that is not,   *)
(* except the one that makes it so.                                        *)
LEMMA UnhealthyRecovers ==
  ASSUME StopInv, RecoveryInv, ~healthy, [ChainNext]_allVars
  PROVE  RecoveryInv'
<1>1. healthyFor = 0 /\ RecoveryBound \in Nat /\ RecoveryBound' = RecoveryBound
  BY RecoveryNumbers, RecoveryClocks, FixedBounds
<1>2. CASE healthyFor' = healthyFor
  BY <1>1, <1>2 DEF RecoveryInv, healthy
<1>3. CASE BecomesHealthy
  <2>1. healthyFor' = 1 /\ control' = "up"
    BY <1>3 DEF BecomesHealthy
  <2>2. sinceCycle' \in Nat
    BY <1>3, RecoveryNumbers DEF BecomesHealthy, vars
  <2>3. /\ Quiet \in Nat /\ Quiet >= 3 /\ Settled \in Nat /\ Settled >= 3
    BY RecoveryNumbers
  <2>4. /\ ~ (healthyFor' >= 2) /\ ~ (healthyFor' >= 3)
        /\ ~ (sinceCycle' + 2 <= healthyFor') /\ ~ (sinceCycle' + Quiet <= healthyFor')
        /\ ~ (sinceCycle' + Quiet < healthyFor') /\ ~ (healthyFor' > Quiet)
        /\ healthyFor' # Quiet /\ ~ (healthyFor' >= Settled) /\ healthyFor' + 1 # Settled
    <3>1. ASSUME NEW h, h = 1, NEW s \in Nat, NEW q \in Nat, q >= 3, NEW t \in Nat, t >= 3
          PROVE  /\ ~ (h >= 2) /\ ~ (h >= 3) /\ ~ (s + 2 <= h) /\ ~ (s + q <= h)
                 /\ ~ (s + q < h) /\ ~ (h > q) /\ h # q /\ ~ (h >= t) /\ h + 1 # t
      BY <3>1
    <3> QED BY <2>1, <2>2, <2>3, <3>1, Zenon
  <2>5. BeatIsSeen' /\ QueueIsHealthy'
    BY <2>4, Zenon DEF BeatIsSeen, QueueIsHealthy
  <2>6. IsFed' /\ Halts' /\ Releases'
    BY <2>4, FixedBounds, Zenon DEF IsFed, Halts, Releases
  <2> QED BY <1>1, <2>1, <2>5, <2>6 DEF RecoveryInv, healthy
<1>4. healthyFor' = healthyFor \/ BecomesHealthy
  BY DEF ChainNext, allVars, chainVars, PlannerCycle, PlannerBeat, ControlCycle, ChassisLoop,
         ControlCrash, ControlRestart, TimePasses
<1> QED BY <1>2, <1>3, <1>4

(* A stutter, and the steps a healthy chain does not take.                 *)
LEMMA OtherStepsRecover ==
  ASSUME StopInv, RecoveryInv, healthy,
         ControlCrash \/ ControlRestart \/ BecomesHealthy \/ UNCHANGED allVars
  PROVE  RecoveryInv'
<1>1. UNCHANGED allVars
  BY DEF RecoveryInv, ControlCrash, ControlRestart, BecomesHealthy
<1>2. UNCHANGED <<ch2, peerAge, feedback, wd, sinceCycle, healthyFor, control, frame, speed, ran>>
  BY <1>1 DEF allVars, vars, chainVars
<1>3. BeatIsSeen' = BeatIsSeen /\ QueueIsHealthy' = QueueIsHealthy /\ Supplied' = Supplied
  BY <1>2 DEF BeatIsSeen, QueueIsHealthy, Supplied
<1>4. IsFed' = IsFed /\ Halts' = Halts /\ Releases' = Releases
  BY <1>2, <1>3, FixedBounds, RecoveryClocks
     DEF IsFed, Halts, Releases, Braked, TopSpeed
<1> QED BY <1>2, <1>3, <1>4, FixedBounds DEF RecoveryInv, healthy

(* Planning publishes: the queue holds a command again.                    *)
LEMMA PlannerCycleRecovers ==
  ASSUME StopInv, RecoveryInv, RecoverySettings, healthy, PlannerCycle
  PROVE  RecoveryInv'
<1>1. PICK v \in RequestedSpeeds : Publish("VelocityCmd", v)
  BY DEF PlannerCycle, Sent, PublishVelocity
<1>2. /\ UNCHANGED <<peerAge, feedback, wd, sinceCycle, healthyFor, control, frame, speed>>
      /\ ran' = ran \cup {"planning"}
      /\ control = "up" /\ BeatIsSeen /\ QueueIsHealthy /\ IsFed /\ Halts /\ Releases
  BY <1>1 DEF PlannerCycle, Runs, Publish, RecoveryInv
<1> DEFINE cmd == [kind |-> "VelocityCmd", linear |-> v, age |-> 0]
<1>3. ch2' = IF Len(ch2) < QueueCap THEN Append(ch2, cmd) ELSE ch2
  BY <1>1 DEF Publish
<1>4. cmd.kind = "VelocityCmd" /\ cmd.age = 0
  OBVIOUS
<1> HIDE DEF cmd
<1>5. Len(ch2) \in Nat /\ ch2 \in Seq(Command) /\ QueueCap >= 1 /\ QueueCap \in Nat
  BY RecoveryNumbers, QueueTyped, ControlLoopAssumption
     DEF IInv, TypeOK, RecoverySettings, ControlLoopAssumption
<1>6. /\ ch2' # <<>>
      /\ \A i \in 1 .. Len(ch2') :
           \/ ch2'[i].kind = "VelocityCmd" /\ ch2'[i].age = 0
           \/ i \in 1 .. Len(ch2) /\ ch2'[i] = ch2[i]
  <2>1. CASE Len(ch2) < QueueCap
    <3>1. /\ ch2' = Append(ch2, cmd)
          /\ Len(ch2') = Len(ch2) + 1 /\ ch2'[Len(ch2) + 1] = cmd
          /\ \A i \in 1 .. Len(ch2) : ch2'[i] = ch2[i]
      BY <1>3, <1>5, <2>1
    <3>2. ch2' # <<>>
      BY <1>5, <3>1
    <3> QED BY <1>4, <1>5, <3>1, <3>2
  <2>2. CASE ~ Len(ch2) < QueueCap
    <3>1. ch2' = ch2 /\ Len(ch2) >= 1
      BY <1>3, <1>5, <2>2
    <3> QED BY <1>5, <3>1
  <2> QED BY <2>1, <2>2
<1>7. Supplied' /\ BeatIsSeen'
  BY <1>2, <1>6 DEF Supplied, BeatIsSeen
<1>8. QueueIsHealthy'
  <2> SUFFICES ASSUME sinceCycle + 2 <= healthyFor, NEW i \in 1 .. Len(ch2')
               PROVE  ch2'[i].kind = "VelocityCmd" /\ ch2'[i].age <= sinceCycle
    BY <1>2, <1>6 DEF QueueIsHealthy
  <2>1. sinceCycle \in Nat
    BY RecoveryNumbers
  <2>2. \A j \in 1 .. Len(ch2) : ch2[j].kind = "VelocityCmd" /\ ch2[j].age <= sinceCycle
    BY <1>2 DEF QueueIsHealthy
  <2>3. CASE ch2'[i].kind = "VelocityCmd" /\ ch2'[i].age = 0
    BY <2>1, <2>3
  <2>4. CASE i \in 1 .. Len(ch2) /\ ch2'[i] = ch2[i]
    BY <2>2, <2>4
  <2> QED BY <1>6, <2>3, <2>4
<1>9. IsFed' /\ Releases'
  BY <1>2, <1>7, FixedBounds DEF IsFed, Releases
<1>10. Halts'
  BY <1>2, FixedBounds DEF Halts, Braked, TopSpeed
<1> QED BY <1>2, <1>7, <1>8, <1>9, <1>10, FixedBounds DEF RecoveryInv, healthy

(* A beat.                                                                 *)
LEMMA PlannerBeatRecovers ==
  ASSUME StopInv, RecoveryInv, healthy, PlannerBeat
  PROVE  RecoveryInv'
<1>1. /\ UNCHANGED <<ch2, feedback, wd, sinceCycle, healthyFor, control, frame, speed>>
      /\ ran' = ran \cup {"heartbeat"} /\ peerAge' = 0
      /\ control = "up" /\ QueueIsHealthy /\ IsFed /\ Halts /\ Releases
  BY DEF PlannerBeat, Sent, Heartbeat, Runs, RecoveryInv
<1>2. BeatIsSeen'
  BY <1>1 DEF BeatIsSeen
<1>3. QueueIsHealthy' /\ Supplied' = Supplied
  BY <1>1 DEF QueueIsHealthy, Supplied
<1>4. IsFed' /\ Releases'
  BY <1>1, <1>3, FixedBounds DEF IsFed, Releases
<1>5. Halts'
  BY <1>1, FixedBounds DEF Halts, Braked, TopSpeed
<1> QED BY <1>1, <1>2, <1>3, <1>4, <1>5, FixedBounds DEF RecoveryInv, healthy

(* The chassis gets the zero of an explicit stop, and the speed is read.   *)
LEMMA ChassisRecovers ==
  ASSUME StopInv, RecoveryInv, healthy, ChassisLoop
  PROVE  RecoveryInv'
<1>1. /\ UNCHANGED <<ch2, peerAge, wd, sinceCycle, healthyFor, control, speed>>
      /\ ran' = ran \cup {"chassis"} /\ frame' = motor.linear /\ feedback' = speed
      /\ control = "up" /\ BeatIsSeen /\ QueueIsHealthy /\ IsFed /\ Halts /\ Releases
  BY DEF ChassisLoop, Runs, RecoveryInv
<1>2. BeatIsSeen' /\ QueueIsHealthy' /\ Supplied' = Supplied
  BY <1>1 DEF BeatIsSeen, QueueIsHealthy, Supplied
<1>3. IsFed' /\ Releases'
  BY <1>1, <1>2, FixedBounds DEF IsFed, Releases
<1>4. Halts'
  <2> SUFFICES ASSUME wd.latched = "ExplicitRequest"
               PROVE  /\ frame' = 0
                      /\ healthyFor > Quiet => AbsVal(speed) <= Braked(healthyFor - Quiet)
                      /\ healthyFor + 1 >= Settled => speed = 0
    <3>1. /\ wd' = wd /\ healthyFor' = healthyFor /\ speed' = speed /\ feedback' = speed
          /\ Quiet' = Quiet /\ Settled' = Settled /\ TopSpeed' = TopSpeed
          /\ healthyFor \in Nat /\ Settled \in Nat
      BY <1>1, FixedBounds, RecoveryNumbers DEF TopSpeed
    <3> QED BY <3>1 DEF Halts, Braked
  <2>1. frame' = 0
    <3>1. motor = HardStop
      BY RecoveryNumbers DEF IInv, ActuationMatchesLatch
    <3> QED BY <1>1, <3>1 DEF HardStop
  <2>2. healthyFor > Quiet => AbsVal(speed) <= Braked(healthyFor - Quiet)
    BY <1>1 DEF Halts
  <2>3. ASSUME healthyFor + 1 >= Settled PROVE speed = 0
    <3> DEFINE n == healthyFor - Quiet
    <3>1. n \in Nat /\ n >= HaltTime /\ (healthyFor = Quiet => n = 0)
      BY <2>3, RecoveryNumbers
    <3>2. AbsVal(speed) <= Braked(n)
      <4>1. CASE healthyFor > Quiet
        BY <2>2, <4>1
      <4>2. CASE healthyFor = Quiet
        <5>1. n = 0
          BY <3>1, <4>2
        <5> HIDE DEF n
        <5> QED BY <5>1, RecoveryNumbers, BrakingEnds
      <4> QED BY <2>3, <4>1, <4>2, RecoveryNumbers
    <3> HIDE DEF n
    <3>3. Braked(n) = 0
      BY <3>1, BrakingEnds
    <3> QED BY <3>2, <3>3, RecoveryNumbers DEF AbsVal
  <2> QED BY <2>1, <2>2, <2>3
<1> QED BY <1>1, <1>2, <1>3, <1>4, FixedBounds DEF RecoveryInv, healthy

(* What a cycle finds once the queue is healthy: the newest command is a   *)
(* fresh velocity, or it is one tick since the last cycle and planning has *)
(* still to publish.                                                       *)
LEMMA HealthyQueue ==
  ASSUME StopInv, RecoveryInv, RecoverySettings, healthy, healthyFor >= Quiet, sinceCycle > 0
  PROVE  /\ ~IsRequested(ch2)
         /\ IsPlanned(ch2) \/ (ch2 = <<>> /\ sinceCycle = 1 /\ "planning" \notin ran)
<1>1. /\ ch2 \in Seq(Command) /\ Len(ch2) \in Nat
      /\ \A i \in 1 .. Len(ch2) : ch2[i] \in Command
      /\ sinceCycle \in 0 .. MaxStall /\ MaxStall \in Nat /\ MaxStall <= MaxCommandAge
      /\ MaxCommandAge \in Nat /\ sinceCycle + 2 <= healthyFor
  BY SMTT(20), RecoveryNumbers, QueueTyped, ControlLoopAssumption
     DEF IInv, TypeOK, RecoverySettings, ControlLoopAssumption
<1>2. /\ \A i \in 1 .. Len(ch2) : ch2[i].kind = "VelocityCmd" /\ ch2[i].age <= sinceCycle
      /\ sinceCycle >= 2 \/ (sinceCycle = 1 /\ "planning" \in ran) => ch2 # <<>>
  BY <1>1 DEF RecoveryInv, QueueIsHealthy
<1>3. CASE ch2 = <<>>
  <2>1. ~IsRequested(ch2)
    BY <1>3 DEF IsRequested
  <2>2. sinceCycle = 1
    BY <1>1, <1>2, <1>3
  <2> QED BY <1>2, <1>3, <2>1, <2>2
<1>4. CASE ch2 # <<>>
  <2>1. Len(ch2) \in 1 .. Len(ch2)
    BY <1>1, <1>4, EmptySeq
  <2>2. /\ ch2[Len(ch2)].kind = "VelocityCmd" /\ ch2[Len(ch2)].age <= sinceCycle
        /\ ch2[Len(ch2)].age \in 0 .. MaxCommandAge + 1
    BY <1>2, <2>1, RecoveryNumbers, QueueTyped
  <2>3. Fresh(ch2[Len(ch2)])
    BY <1>1, <2>2 DEF Fresh
  <2> QED BY <1>4, <2>2, <2>3 DEF IsPlanned, IsRequested
<1> QED BY <1>3, <1>4

(* A cycle of the healthy chain: it reads the queue in full, is fed if     *)
(* there is a command, and a command releases a latch of a chain at rest.  *)
LEMMA ControlCycleRecovers ==
  ASSUME StopInv, RecoveryInv, RecoverySettings, healthy, ControlCycle
  PROVE  RecoveryInv'
<1>1. /\ UNCHANGED <<healthyFor, control, frame, speed, ran, peerAge, feedback>>
      /\ ch2' = <<>> /\ sinceCycle' = 0 /\ sinceCycle > 0
      /\ control = "up" /\ BeatIsSeen /\ QueueIsHealthy /\ IsFed /\ Halts /\ Releases
  BY DEF ControlCycle, Cycle, chainVars, RecoveryInv
<1>2. ch2 \in Seq(Command) /\ Len(ch2) \in Nat
  BY RecoveryNumbers, QueueTyped DEF IInv, TypeOK
<1>3. RunCycle(ch2)
  <2>1. PICK n \in 0 .. Len(ch2) :
          RunCycle(SubSeq(ch2, 1, n)) /\ ch2' = SubSeq(ch2, n + 1, Len(ch2))
    BY DEF ControlCycle, Cycle
  <2>2. n = Len(ch2)
    <3>1. Len(SubSeq(ch2, n + 1, Len(ch2))) = 0
      <4> DEFINE rest == SubSeq(ch2, n + 1, Len(ch2))
      <4>1. rest = <<>>
        BY <1>1, <2>1, Zenon
      <4> HIDE DEF rest
      <4>2. Len(rest) = 0
        BY <4>1
      <4> QED BY <4>2 DEF rest
    <3>2. n + 1 <= Len(ch2) => Len(SubSeq(ch2, n + 1, Len(ch2))) = Len(ch2) - n
      BY <1>2
    <3> QED BY <1>2, <3>1, <3>2
  <2>3. SubSeq(ch2, 1, Len(ch2)) = ch2
    BY <1>2
  <2> QED BY <2>1, <2>2, <2>3
<1> DEFINE c == Checked(ch2)
<1>4. /\ wd'.latched = c.latched /\ wd'.cmdAge = c.cmdAge
      /\ wd'.latched = "ExplicitRequest" => wd.latched = "ExplicitRequest" \/ IsRequested(ch2)
  BY <1>2, <1>3, RecoveryNumbers, ChecksLatch, WatchdogAssumption, ControlLoopAssumption
<1>5. c.cmdAge = IF IsPlanned(ch2) \/ IsRequested(ch2) THEN 0 ELSE wd.cmdAge
  BY <1>2, RecoveryNumbers, CheckedFacts, WatchdogAssumption, ControlLoopAssumption
<1>6. healthyFor >= Quiet =>
        /\ ~IsRequested(ch2)
        /\ IsPlanned(ch2) \/ (ch2 = <<>> /\ sinceCycle = 1 /\ "planning" \notin ran)
  BY <1>1, HealthyQueue
<1> HIDE DEF c
<1>7. ch2 = <<>> => ~IsPlanned(ch2)
  BY DEF IsPlanned
<1>8. BeatIsSeen'
  BY <1>1 DEF BeatIsSeen
<1>9. QueueIsHealthy'
  <2>1. Len(ch2') = 0 /\ ~ (sinceCycle' >= 2) /\ sinceCycle' # 1
    BY <1>1
  <2> QED BY <2>1 DEF QueueIsHealthy
<1>10. ASSUME healthyFor >= Quiet, ~IsPlanned(ch2) PROVE Supplied'
  <2>1. "planning" \notin ran' /\ ~ (sinceCycle' >= 1)
    BY <1>1, <1>6, <1>10
  <2> QED BY <2>1 DEF Supplied
<1>11. ASSUME healthyFor > Quiet, ~IsPlanned(ch2) PROVE wd.cmdAge <= 1 /\ ~Supplied
  <2>1. sinceCycle = 1 /\ ch2 = <<>>
    BY <1>6, <1>11, RecoveryNumbers
  <2>2. ~Supplied
    BY <2>1 DEF Supplied
  <2>3. sinceCycle + Quiet <= healthyFor
    BY <1>11, <2>1, RecoveryNumbers
  <2> QED BY <1>1, <2>1, <2>2, <2>3 DEF IsFed
<1>12. IsFed'
  <2>1. healthyFor >= Quiet => wd'.cmdAge = 0 \/ Supplied'
    BY <1>4, <1>5, <1>10
  <2>2. healthyFor > Quiet => wd'.cmdAge <= 1
    BY <1>4, <1>5, <1>6, <1>11, RecoveryNumbers
  <2>3. /\ sinceCycle' = 0 /\ healthyFor' = healthyFor /\ Quiet' = Quiet
        /\ Quiet \in Nat /\ healthyFor \in Nat
    BY <1>1, FixedBounds, RecoveryNumbers
  <2>4. /\ sinceCycle' + Quiet' <= healthyFor' => healthyFor >= Quiet
        /\ sinceCycle' + Quiet' < healthyFor' => healthyFor > Quiet
    BY <2>3
  <2>5. /\ wd'.cmdAge = 0 => wd'.cmdAge <= sinceCycle'
        /\ wd'.cmdAge <= 1 => wd'.cmdAge <= sinceCycle' + 1
    BY <2>3
  <2> QED BY <2>1, <2>2, <2>4, <2>5, Zenon DEF IsFed
<1>13. Halts'
  <2>1. CASE wd'.latched = "ExplicitRequest" /\ wd.latched = "ExplicitRequest"
    <3>1. wd'.latched = wd.latched
      BY <2>1
    <3> QED BY <1>1, <2>1, FixedBounds DEF Halts, Braked, TopSpeed
  <2>2. CASE wd'.latched = "ExplicitRequest" /\ IsRequested(ch2)
    <3>1. healthyFor < Quiet
      BY <1>6, <2>2, RecoveryNumbers
    <3>2. /\ ~ (healthyFor > Quiet) /\ healthyFor # Quiet /\ ~ (healthyFor >= Settled)
          /\ healthyFor + 1 # Settled
      BY <3>1, RecoveryNumbers
    <3> QED BY <1>1, <3>2, FixedBounds, Zenon DEF Halts
  <2>3. CASE wd'.latched # "ExplicitRequest"
    BY <2>3 DEF Halts
  <2> QED BY <1>4, <2>1, <2>2, <2>3
<1>14. ASSUME wd'.latched # "None", healthyFor >= Settled
       PROVE  healthyFor = Settled /\ Supplied'
  <2>1. HeartbeatVisible /\ ~IsRequested(ch2) /\ healthyFor > Quiet
    <3>1. healthyFor >= 3 /\ healthyFor > Quiet
      BY <1>14, RecoveryNumbers
    <3>2. peerAge <= 1 /\ peerAge \in Nat
      BY <1>1, <3>1, RecoveryNumbers DEF BeatIsSeen
    <3>3. HeartbeatDegraded \in Nat /\ HeartbeatDegraded >= 2
      BY ControlLoopAssumption DEF ControlLoopAssumption, RecoverySettings
    <3>4. HeartbeatVisible
      BY <3>2, <3>3 DEF HeartbeatVisible
    <3> QED BY <1>6, <3>1, <3>4, RecoveryNumbers
  <2>2. CommandTimeout >= 1 /\ CommandTimeout \in Nat /\ StoppedSpeed >= 1 /\ StoppedSpeed \in Nat
    BY WatchdogAssumption DEF WatchdogAssumption, RecoverySettings
  <2>3. IsPlanned(ch2) \/ wd.cmdAge <= CommandTimeout
    BY <1>11, <2>1, <2>2, RecoveryNumbers
  <2>4. /\ c.latched \in {wd.latched, "None"}
        /\ IsPlanned(ch2) /\ (wd.latched = "ExplicitRequest" => AbsVal(feedback) < StoppedSpeed)
             => c.latched = "None"
    BY <1>2, <2>1, <2>3, HealthyCheck, RecoveryNumbers, WatchdogAssumption,
       ControlLoopAssumption DEF c
  <2>5. wd.latched = "ExplicitRequest" => AbsVal(feedback) < StoppedSpeed
    <3> SUFFICES ASSUME wd.latched = "ExplicitRequest" PROVE AbsVal(feedback) < StoppedSpeed
      OBVIOUS
    <3>1. feedback = 0
      BY <1>1, <1>14 DEF Halts
    <3> QED BY <2>2, <3>1 DEF AbsVal
  <2>6. ~IsPlanned(ch2) /\ wd.latched # "None"
    BY <1>4, <1>14, <2>4, <2>5
  <2>7. sinceCycle = 1 /\ ~Supplied /\ Supplied'
    BY <1>6, <1>10, <1>11, <2>1, <2>6, RecoveryNumbers
  <2>8. healthyFor <= sinceCycle + Settled /\ healthyFor # sinceCycle + Settled
    BY <1>1, <1>14, <2>6, <2>7 DEF Releases
  <2> QED BY <1>14, <2>7, <2>8, RecoveryNumbers
<1>15. Releases'
  <2>1. sinceCycle' + Settled = Settled /\ healthyFor' = healthyFor
    BY <1>1, RecoveryNumbers
  <2>2. healthyFor = Settled => healthyFor <= Settled
    BY RecoveryNumbers
  <2> QED BY <1>14, <2>1, <2>2, FixedBounds, Zenon DEF Releases
<1> QED BY <1>1, <1>8, <1>9, <1>12, <1>13, <1>15, FixedBounds DEF RecoveryInv, healthy

(* A tick of the healthy chain: every thread ran, so there is a beat, a    *)
(* command, a frame and a reading of this tick, and a stopping vehicle has *)
(* braked once more.                                                       *)
LEMMA TimePassesRecovers ==
  ASSUME StopInv, RecoveryInv, RecoverySettings, healthy, TimePasses
  PROVE  RecoveryInv'
<1>1. /\ control = "up" /\ control' = control /\ frame' = frame /\ ran' = {}
      /\ "chassis" \in ran /\ "planning" \in ran /\ "heartbeat" \in ran
      /\ BeatIsSeen /\ QueueIsHealthy /\ IsFed /\ Halts /\ Releases
      /\ healthyFor' = IF healthyFor <= RecoveryBound THEN healthyFor + 1 ELSE healthyFor
      /\ Tick
  BY DEF TimePasses, Due, RecoveryInv
<1>2. /\ wd'.latched = wd.latched /\ feedback' = feedback /\ sinceCycle' = sinceCycle + 1
      /\ sinceCycle < MaxStall /\ Len(ch2') = Len(ch2) /\ Len(ch2) \in Nat
      /\ \A i \in 1 .. Len(ch2) :
           ch2'[i].kind = ch2[i].kind /\ ch2'[i].age = OlderStamp(ch2[i].age)
  BY <1>1, TickOfChain, QueueTyped, RecoveryNumbers DEF StopInv
<1>3. wd'.cmdAge <= wd.cmdAge + 1 /\ peerAge' <= peerAge + 1
      /\ wd'.cmdAge \in Int /\ peerAge' \in Int
  <2>1. wd' = WatchdogTick(wd) /\ peerAge' = Older(peerAge) /\ wd \in WatchdogState
    BY <1>1, RecoveryNumbers DEF Tick, IInv, TypeOK
  <2>2. wd'.cmdAge = Older(wd.cmdAge)
    BY <2>1 DEF WatchdogTick, WatchdogState
  <2> QED BY <2>1, <2>2, RecoveryNumbers DEF Older
<1>4. ch2 # <<>> => ch2' # <<>>
  <2> SUFFICES ASSUME ch2 # <<>>, ch2' = <<>> PROVE FALSE
    OBVIOUS
  <2>1. ch2 \in Seq(Command) /\ Len(ch2) = 0
    BY <1>2, RecoveryNumbers DEF IInv, TypeOK
  <2> QED BY <2>1, EmptySeq
<1>5. healthyFor \in Nat /\ healthyFor > 0 /\ healthyFor' \in 0 .. RecoveryBound + 1
      /\ healthyFor' > 0 /\ healthyFor' <= healthyFor + 1
  BY <1>1, RecoveryNumbers
<1>6. wd.latched # "None" => healthyFor' = healthyFor + 1
  <2> SUFFICES ASSUME wd.latched # "None" PROVE healthyFor <= RecoveryBound
    BY <1>1
  <2>1. healthyFor >= Settled => healthyFor <= sinceCycle + Settled
    BY <1>1 DEF Releases
  <2> QED BY <2>1, RecoveryNumbers
<1>7. BeatIsSeen'
  <2>1. healthyFor' >= 3 => peerAge' <= 1
    <3> SUFFICES ASSUME healthyFor' >= 3 PROVE peerAge' <= 1
      OBVIOUS
    <3>1. healthyFor >= 2
      BY <1>5
    <3>2. peerAge = 0
      BY <1>1, <3>1 DEF BeatIsSeen
    <3> QED BY <1>3, <3>2
  <2> QED BY <1>1, <2>1 DEF BeatIsSeen
<1>8. QueueIsHealthy'
  <2> SUFFICES ASSUME sinceCycle' + 2 <= healthyFor'
               PROVE  /\ \A i \in 1 .. Len(ch2') :
                           ch2'[i].kind = "VelocityCmd" /\ ch2'[i].age <= sinceCycle'
                      /\ sinceCycle' >= 2 => ch2' # <<>>
    BY <1>1 DEF QueueIsHealthy
  <2>1. sinceCycle + 2 <= healthyFor /\ sinceCycle \in Nat
    BY SMTT(20), <1>2, <1>5, RecoveryNumbers
  <2>2. /\ \A i \in 1 .. Len(ch2) : ch2[i].kind = "VelocityCmd" /\ ch2[i].age <= sinceCycle
        /\ sinceCycle >= 2 \/ sinceCycle = 1 => ch2 # <<>>
    BY <1>1, <2>1 DEF QueueIsHealthy
  <2>3. ASSUME NEW i \in 1 .. Len(ch2')
        PROVE  ch2'[i].kind = "VelocityCmd" /\ ch2'[i].age <= sinceCycle'
    <3>1. /\ i \in 1 .. Len(ch2) /\ ch2'[i].kind = ch2[i].kind
          /\ ch2'[i].age = OlderStamp(ch2[i].age)
      BY <1>2, <2>3
    <3>2. ch2[i].kind = "VelocityCmd" /\ ch2[i].age <= sinceCycle
      BY <2>2, <3>1
    <3>3. ch2[i].age \in 0 .. MaxCommandAge + 1
      BY <3>1, QueueTyped, RecoveryNumbers
    <3>4. OlderStamp(ch2[i].age) <= sinceCycle + 1
      BY <2>1, <3>2, <3>3, ControlLoopAssumption DEF OlderStamp, ControlLoopAssumption
    <3> QED BY <1>2, <3>1, <3>2, <3>4
  <2>4. sinceCycle' >= 2 => sinceCycle >= 2 \/ sinceCycle = 1
    BY <1>2, <2>1
  <2> QED BY <1>4, <2>2, <2>3, <2>4
<1>9. Supplied => Supplied'
  BY <1>1, <1>4 DEF Supplied
<1>10. IsFed'
  <2>0. /\ wd.cmdAge <= sinceCycle => wd'.cmdAge <= sinceCycle'
        /\ wd.cmdAge <= sinceCycle + 1 => wd'.cmdAge <= sinceCycle' + 1
    <3> DEFINE before == wd.cmdAge
               after  == wd'.cmdAge
    <3>1. /\ before \in Nat /\ after \in Int /\ after <= before + 1
          /\ sinceCycle \in Nat /\ sinceCycle' = sinceCycle + 1
      BY <1>2, <1>3, RecoveryNumbers
    <3> HIDE DEF before, after
    <3>2. /\ before <= sinceCycle => after <= sinceCycle'
          /\ before <= sinceCycle + 1 => after <= sinceCycle' + 1
      BY <3>1
    <3> QED BY <3>2 DEF before, after
  <2>1. ASSUME sinceCycle' + Quiet <= healthyFor' PROVE wd'.cmdAge <= sinceCycle' \/ Supplied'
    <3>1. sinceCycle + Quiet <= healthyFor
      BY SMTT(20), <1>2, <1>5, <2>1, RecoveryNumbers
    <3>2. wd.cmdAge <= sinceCycle \/ Supplied
      BY <1>1, <3>1 DEF IsFed
    <3>3. wd.cmdAge <= sinceCycle => wd'.cmdAge <= sinceCycle'
      BY <2>0
    <3> QED BY <1>9, <3>2, <3>3
  <2>2. ASSUME sinceCycle' + Quiet < healthyFor' PROVE wd'.cmdAge <= sinceCycle' + 1
    <3>1. sinceCycle + Quiet < healthyFor
      BY SMTT(20), <1>2, <1>5, <2>2, RecoveryNumbers
    <3>2. wd.cmdAge <= sinceCycle + 1
      BY <1>1, <3>1 DEF IsFed
    <3> QED BY <2>0, <3>2
  <2> QED BY <2>1, <2>2, FixedBounds DEF IsFed
<1>11. Halts'
  <2> SUFFICES ASSUME wd.latched = "ExplicitRequest"
               PROVE  /\ healthyFor + 1 > Quiet => frame = 0
                      /\ healthyFor + 1 > Quiet =>
                           AbsVal(speed') <= Braked(healthyFor + 1 - Quiet)
                      /\ healthyFor + 1 >= Settled => feedback = 0
    <3>1. wd.latched = "ExplicitRequest" => healthyFor' = healthyFor + 1
      BY <1>6
    <3>2. Braked(healthyFor' - Quiet') = Braked(healthyFor' - Quiet)
      BY FixedBounds
    <3>3. Braked(healthyFor - Quiet)' = Braked(healthyFor' - Quiet')
      BY FixedBounds DEF Braked, TopSpeed
    <3>4. "chassis" \notin ran' /\ frame' = frame /\ feedback' = feedback
          /\ wd'.latched = wd.latched /\ Quiet' = Quiet /\ Settled' = Settled
      BY <1>1, <1>2, FixedBounds
    <3>5. ASSUME wd'.latched = "ExplicitRequest"
          PROVE  /\ healthyFor' > Quiet' => frame' = 0
                 /\ healthyFor' > Quiet' => AbsVal(speed') <= Braked(healthyFor' - Quiet')
                 /\ healthyFor' >= Settled' => feedback' = 0
      <4>1. /\ healthyFor + 1 > Quiet => frame = 0
            /\ healthyFor + 1 > Quiet => AbsVal(speed') <= Braked(healthyFor + 1 - Quiet)
            /\ healthyFor + 1 >= Settled => feedback = 0
        BY <3>4, <3>5
      <4>2. healthyFor' = healthyFor + 1
        BY <3>1, <3>4, <3>5
      <4>3. healthyFor' - Quiet' = healthyFor + 1 - Quiet
        BY <3>4, <4>2, RecoveryNumbers
      <4>4. Braked(healthyFor' - Quiet') = Braked(healthyFor + 1 - Quiet)
        BY <4>3
      <4>5. /\ healthyFor' > Quiet' => healthyFor + 1 > Quiet
            /\ healthyFor' >= Settled' => healthyFor + 1 >= Settled
        BY <3>4, <4>2
      <4>6. healthyFor' > Quiet' => frame' = 0
        BY <3>4, <4>1, <4>5
      <4>7. healthyFor' >= Settled' => feedback' = 0
        BY <3>4, <4>1, <4>5
      <4>8. healthyFor' > Quiet' => AbsVal(speed') <= Braked(healthyFor' - Quiet')
        BY <4>1, <4>4, <4>5
      <4> QED BY <4>6, <4>7, <4>8, Zenon
    <3>6. healthyFor' = Quiet' /\ "chassis" \in ran' => frame' = 0
      BY <3>4
    <3>7. healthyFor' + 1 = Settled' /\ "chassis" \in ran' => feedback' = 0
      BY <3>4
    <3> QED BY <3>3, <3>4, <3>5, <3>6, <3>7 DEF Halts
  <2>1. ASSUME healthyFor + 1 > Quiet PROVE frame = 0
    <3>1. healthyFor > Quiet \/ healthyFor = Quiet
      BY <2>1, RecoveryNumbers
    <3> QED BY <1>1, <3>1 DEF Halts
  <2>2. ASSUME healthyFor + 1 > Quiet PROVE AbsVal(speed') <= Braked(healthyFor + 1 - Quiet)
    <3> DEFINE n == healthyFor - Quiet
    <3>1. n \in Nat /\ healthyFor + 1 - Quiet = n + 1 /\ (healthyFor = Quiet <=> n = 0)
      BY <2>2, RecoveryNumbers
    <3>2. speed' = Toward(speed, 0)
      BY <2>1, <2>2 DEF TimePasses
    <3>3. AbsVal(speed) <= Braked(n)
      <4>1. CASE healthyFor > Quiet
        BY <1>1, <4>1 DEF Halts
      <4>2. CASE healthyFor = Quiet
        <5>1. n = 0
          BY <3>1, <4>2
        <5> HIDE DEF n
        <5> QED BY <5>1, RecoveryNumbers, BrakingEnds
      <4> QED BY <2>2, <4>1, <4>2, RecoveryNumbers
    <3> HIDE DEF n
    <3> QED BY <3>1, <3>2, <3>3, RecoveryNumbers, BrakingEnds
  <2>3. ASSUME healthyFor + 1 >= Settled PROVE feedback = 0
    <3>1. healthyFor >= Settled \/ healthyFor + 1 = Settled
      BY <2>3, RecoveryNumbers
    <3> QED BY <1>1, <3>1 DEF Halts
  <2> QED BY <2>1, <2>2, <2>3
<1>12. Releases'
  <2> SUFFICES ASSUME wd.latched # "None", healthyFor + 1 >= Settled
               PROVE  /\ healthyFor + 1 <= sinceCycle + 1 + Settled
                      /\ healthyFor + 1 = sinceCycle + 1 + Settled => Supplied'
    <3>1. wd.latched # "None" => healthyFor' = healthyFor + 1
      BY <1>6
    <3> QED BY <1>2, <3>1, FixedBounds DEF Releases
  <2>1. healthyFor >= Settled =>
          /\ healthyFor <= sinceCycle + Settled
          /\ healthyFor = sinceCycle + Settled => Supplied
    BY <1>1 DEF Releases
  <2>2. healthyFor <= sinceCycle + Settled
    BY <2>1, RecoveryNumbers
  <2>3. healthyFor + 1 = sinceCycle + 1 + Settled =>
          healthyFor = sinceCycle + Settled /\ healthyFor >= Settled
    BY RecoveryNumbers
  <2> QED BY <1>9, <2>1, <2>2, <2>3, RecoveryNumbers
<1> QED BY <1>1, <1>5, <1>7, <1>8, <1>10, <1>11, <1>12, FixedBounds DEF RecoveryInv, healthy

(* No e-stop outlives its cause by more than RecoveryBound ticks: from then *)
(* on nothing is latched, whatever latched before and whatever was queued. *)
THEOREM RecoversAlways ==
  ASSUME RecoverySettings
  PROVE  ChainSpec => []RecoversInTime
<1>1. ChainInit => RecoveryInv
  <2> SUFFICES ASSUME ChainInit PROVE RecoveryInv
    OBVIOUS
  <2>1. healthyFor = 0 /\ RecoveryBound \in Nat
    BY RecoveryClocks DEF ChainInit
  <2> QED BY <2>1 DEF RecoveryInv, healthy
<1>2. StopInv /\ RecoveryInv /\ [ChainNext]_allVars => RecoveryInv'
  <2> SUFFICES ASSUME StopInv, RecoveryInv, [ChainNext]_allVars PROVE RecoveryInv'
    OBVIOUS
  <2>1. CASE ~healthy
    BY <2>1, UnhealthyRecovers
  <2>2. CASE healthy
    <3>1. RecoverySettings
      OBVIOUS
    <3> QED
      BY <2>2, <3>1, PlannerCycleRecovers, PlannerBeatRecovers, ControlCycleRecovers,
         ChassisRecovers, TimePassesRecovers, OtherStepsRecover DEF ChainNext
  <2> QED BY <2>1, <2>2
<1>3. StopInv /\ RecoveryInv => RecoversInTime
  <2> SUFFICES ASSUME StopInv, RecoveryInv, healthyFor > RecoveryBound, wd.latched # "None"
               PROVE  FALSE
    BY DEF RecoversInTime
  <2>1. healthy /\ healthyFor >= Settled
    BY RecoveryNumbers
  <2>2. healthyFor <= sinceCycle + Settled
    BY <2>1 DEF RecoveryInv, Releases
  <2> QED BY <2>2, RecoveryNumbers
<1> QED BY <1>1, <1>2, <1>3, ChainInvariant, PTL DEF ChainSpec
=============================================================================
