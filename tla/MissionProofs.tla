----------------------------- MODULE MissionProofs -----------------------------
(***************************************************************************)
(* Proofs about Mission for any scenarios, lengths, patrols and managers.  *)
(*                                                                         *)
(* The inductive invariant adds to the properties the ledger of the        *)
(* waypoints: on a scenario that is no patrol those reached are exactly    *)
(* the ones before the index, and on a patrol the index never stays at     *)
(* the end of the list.                                                    *)
(***************************************************************************)
EXTENDS Mission, SequenceTheorems, TLAPS

ReachedSoFar ==
  scenario \in Scenario \ Patrol => reached = {scenario} \X (0 .. current_wp_index - 1)

PatrolIndex ==
  scenario \in Patrol => current_wp_index < Length \/ Length = 0

(* The part of the type invariant that is about planning. *)
PlanningTypeOK ==
  /\ step \in {"receive", "update", "advance"}
  /\ scenario \in Scenario \cup {"none"}
  /\ current_wp_index \in 0 .. Length
  /\ scenario_active \in BOOLEAN /\ (scenario_active => current_wp_index < Length)
  /\ mode \in Modes!Driving \cup {"idle", "stopped"}
  /\ goal \in Waypoint \cup {NoGoal} /\ reached \subseteq Waypoint

OutsideTypeOK ==
  /\ manager \in [phase : Phase, scenario : Scenario, sends : 0 .. MaxSends]
  /\ session \in 0 .. Sessions
  /\ ch8 \in Seq(Order) /\ ch9 \in Seq(BOOLEAN)
  /\ Len(ch8) <= QueueCap /\ Len(ch9) <= QueueCap

MissionInv ==
  PlanningTypeOK /\ GoalIsCurrentWaypoint /\ DrivesOnlyToGoal /\ ReachedSoFar /\ PatrolIndex

(* The length of the waypoint list is a natural number. *)
LEMMA LengthIsNat ==
  ASSUME MissionAssumption
  PROVE  Length \in Nat
BY DEF MissionAssumption, Length

(* A queue keeps its type and its bound, and loses both to no message. *)
LEMMA EnqueueKeepsType ==
  ASSUME MissionAssumption, NEW S, NEW queue \in Seq(S), NEW message \in S,
         Len(queue) <= QueueCap
  PROVE  Enqueue(queue, message) \in Seq(S) /\ Len(Enqueue(queue, message)) <= QueueCap
BY DEF Enqueue, MissionAssumption

(* Receiving one message leaves a queue within its capacity. *)
LEMMA TailKeepsType ==
  ASSUME MissionAssumption, NEW S, NEW queue \in Seq(S), queue # <<>>, Len(queue) <= QueueCap
  PROVE  Tail(queue) \in Seq(S) /\ Len(Tail(queue)) <= QueueCap
<1>1. Tail(queue) \in Seq(S) /\ Len(Tail(queue)) = Len(queue) - 1 /\ Len(queue) \in Nat
  BY HeadTailProperties
<1> QED BY <1>1 DEF MissionAssumption

(* Planning and managers start in their invariants. *)
LEMMA InitEstablishesInv ==
  ASSUME MissionAssumption, MissionInit
  PROVE  MissionInv /\ OutsideTypeOK
<1>1. PlanningTypeOK
  <2>1. current_wp_index \in 0 .. Length
    BY LengthIsNat DEF MissionInit
  <2>2. mode \in Modes!Driving \cup {"idle", "stopped"}
    BY DEF MissionInit
  <2>3. goal \in Waypoint \cup {NoGoal} /\ reached \subseteq Waypoint
    BY DEF MissionInit
  <2>4. scenario_active \in BOOLEAN /\ (scenario_active => current_wp_index < Length)
    BY DEF MissionInit
  <2> QED BY <2>1, <2>2, <2>3, <2>4 DEF MissionInit, PlanningTypeOK
<1>2. GoalIsCurrentWaypoint /\ ReachedSoFar
  BY DEF MissionInit, GoalIsCurrentWaypoint, ReachedSoFar
<1>3. DrivesOnlyToGoal
  BY DEF MissionInit, DrivesOnlyToGoal, Modes!GoalBacksDriving, Modes!Driving, Modes!Rung
<1>4. PatrolIndex
  BY LengthIsNat DEF MissionInit, PatrolIndex
<1>5. OutsideTypeOK
  BY DEF MissionInit, OutsideTypeOK, Phase, MissionAssumption
<1> QED BY <1>1, <1>2, <1>3, <1>4, <1>5 DEF MissionInv

(* A step that leaves the mission alone keeps the invariant. *)
LEMMA MissionUnchangedKeepsInv ==
  ASSUME MissionInv, UNCHANGED mission, step' \in {"receive", "update", "advance"}
  PROVE  MissionInv'
<1>1. UNCHANGED <<mode, goal, scenario, current_wp_index, scenario_active, reached>>
  BY DEF mission
<1>2. UNCHANGED Length
  BY <1>1 DEF Length
<1> QED BY <1>1, <1>2 DEF MissionInv, PlanningTypeOK, GoalIsCurrentWaypoint, DrivesOnlyToGoal,
           Modes!GoalBacksDriving, ReachedSoFar, PatrolIndex

(***************************************************************************)
(* The steps of the planning loop.                                         *)
(***************************************************************************)

(* Starting a scenario keeps the invariant. *)
LEMMA StartScenarioKeepsInv ==
  ASSUME MissionAssumption, MissionInv, NEW s \in Scenario, StartScenario(s),
         step' \in {"receive", "update", "advance"}
  PROVE  MissionInv'
<1>1. /\ scenario' = s /\ current_wp_index' = 0 /\ reached' = {}
      /\ scenario_active' = (Waypoints[s] > 0)
  BY DEF StartScenario
<1>2. Length' = Waypoints[s] /\ Length' \in Nat
  BY <1>1 DEF Length, MissionAssumption
<1>3. CASE Waypoints[s] > 0
  <2>1. goal' = <<s, 0>> /\ mode' = "drive" /\ goal' # NoGoal
    BY <1>3 DEF StartScenario, DriveTo, Modes!SetGoal, NoGoal
  <2>2. goal' \in Waypoint
    BY <2>1 DEF Waypoint
  <2>3. PlanningTypeOK'
    BY <1>1, <1>2, <1>3, <2>1, <2>2 DEF PlanningTypeOK, Waypoint, Modes!Driving
  <2>4. GoalIsCurrentWaypoint'
    BY <1>1, <1>3, <2>1 DEF GoalIsCurrentWaypoint
  <2>5. DrivesOnlyToGoal'
    BY <2>1 DEF DrivesOnlyToGoal, Modes!GoalBacksDriving, NoGoal
  <2>6. ReachedSoFar' /\ PatrolIndex'
    BY <1>1, <1>2, <1>3 DEF ReachedSoFar, PatrolIndex
  <2> QED BY <2>3, <2>4, <2>5, <2>6 DEF MissionInv
<1>4. CASE ~(Waypoints[s] > 0)
  <2>1. UNCHANGED <<mode, goal>> /\ Length' = 0
    BY <1>2, <1>4 DEF StartScenario
  <2>2. PlanningTypeOK'
    <3>1. current_wp_index' \in 0 .. Length'
      BY <1>1, <2>1
    <3>2. scenario_active' = FALSE
      <4>1. Waypoints[s] = 0
        BY <1>2, <1>4
      <4>2. (0 > 0) = FALSE
        OBVIOUS
      <4> QED BY <1>1, <4>1, <4>2, Zenon
    <3>3. goal' \in Waypoint \cup {NoGoal} /\ mode' \in Modes!Driving \cup {"idle", "stopped"}
      BY <2>1 DEF MissionInv, PlanningTypeOK
    <3>4. reached' \subseteq Waypoint /\ scenario' \in Scenario
      BY <1>1
    <3> QED BY <3>1, <3>2, <3>3, <3>4 DEF PlanningTypeOK
  <2>3. GoalIsCurrentWaypoint'
    BY <1>1, <1>4, <2>1 DEF GoalIsCurrentWaypoint
  <2>4. DrivesOnlyToGoal'
    BY <2>1 DEF MissionInv, DrivesOnlyToGoal, Modes!GoalBacksDriving
  <2>5. ReachedSoFar' /\ PatrolIndex'
    BY <1>1, <2>1 DEF ReachedSoFar, PatrolIndex
  <2> QED BY <2>2, <2>3, <2>4, <2>5 DEF MissionInv
<1> QED BY <1>3, <1>4

(* Stopping a scenario keeps the invariant. *)
LEMMA StopScenarioKeepsInv ==
  ASSUME MissionAssumption, MissionInv, StopScenario,
         step' \in {"receive", "update", "advance"}
  PROVE  MissionInv'
<1>1. /\ scenario_active' = FALSE /\ goal' = NoGoal /\ mode' = "idle"
      /\ UNCHANGED <<scenario, current_wp_index, reached>>
  BY DEF StopScenario, GiveUpGoal, Modes!ClearGoal
<1>2. UNCHANGED Length
  BY <1>1 DEF Length
<1>3. PlanningTypeOK'
  BY <1>1, <1>2 DEF MissionInv, PlanningTypeOK, Waypoint
<1>4. GoalIsCurrentWaypoint'
  BY <1>1 DEF GoalIsCurrentWaypoint
<1>5. DrivesOnlyToGoal'
  BY <1>1 DEF DrivesOnlyToGoal, Modes!GoalBacksDriving, Modes!Driving, Modes!Rung
<1>6. ReachedSoFar' /\ PatrolIndex'
  BY <1>1, <1>2 DEF MissionInv, ReachedSoFar, PatrolIndex
<1> QED BY <1>3, <1>4, <1>5, <1>6 DEF MissionInv

(* The step that receives an order keeps the invariant. *)
LEMMA ReceiveKeepsInv ==
  ASSUME MissionAssumption, MissionInv, Receive, ch8 \in Seq(Order)
  PROVE  MissionInv'
<1>1. step' \in {"receive", "update", "advance"}
  BY DEF Receive
<1>2. CASE UNCHANGED mission
  BY <1>1, <1>2, MissionUnchangedKeepsInv
<1>3. CASE Obey(Head(ch8))
  <2>1. CASE StopScenario
    BY <1>1, <2>1, StopScenarioKeepsInv
  <2>2. CASE \E s \in Scenario : StartScenario(s)
    BY <1>1, <2>2, StartScenarioKeepsInv
  <2> QED BY <1>2, <1>3, <2>1, <2>2, Zenon DEF Obey
<1> QED BY <1>2, <1>3 DEF Receive

(* The step of the behavior planner keeps the invariant. *)
LEMMA UpdateBehaviorKeepsInv ==
  ASSUME MissionAssumption, MissionInv, UpdateBehavior
  PROVE  MissionInv'
<1>1. /\ step' = "advance"
      /\ UNCHANGED <<goal, scenario, current_wp_index, scenario_active, reached>>
  BY DEF UpdateBehavior
<1>2. UNCHANGED Length
  BY <1>1 DEF Length
<1>3. /\ mode' \in Modes!Driving \cup {"idle", "stopped"}
      /\ (mode' \in Modes!Driving => goal' # NoGoal)
  <2>1. CASE Modes!Stop
    BY <2>1 DEF Modes!Stop, Modes!Driving, Modes!Rung
  <2>2. CASE Modes!Resume
    <3>1. mode' = IF goal # NoGoal THEN "drive" ELSE "idle"
      BY <2>2 DEF Modes!Resume
    <3> QED BY <1>1, <3>1 DEF Modes!Driving, Modes!Rung
  <2>3. mode \in Modes!Driving => goal # NoGoal
    BY DEF MissionInv, DrivesOnlyToGoal, Modes!GoalBacksDriving
  <2>4. CASE Modes!Proceed
    BY <1>1, <2>3, <2>4 DEF Modes!Proceed, Modes!Driving, Modes!Rung
  <2>5. CASE Modes!Climb
    BY <1>1, <2>3, <2>5 DEF Modes!Climb, Modes!Driving, Modes!Rung
  <2>6. CASE UNCHANGED mode
    BY <1>1, <2>3, <2>6 DEF MissionInv, PlanningTypeOK
  <2> QED BY <2>1, <2>2, <2>4, <2>5, <2>6, Zenon DEF UpdateBehavior
<1>4. PlanningTypeOK'
  BY <1>1, <1>2, <1>3 DEF MissionInv, PlanningTypeOK
<1>5. GoalIsCurrentWaypoint' /\ ReachedSoFar' /\ PatrolIndex'
  BY <1>1, <1>2 DEF MissionInv, GoalIsCurrentWaypoint, ReachedSoFar, PatrolIndex
<1>6. DrivesOnlyToGoal'
  BY <1>3 DEF DrivesOnlyToGoal, Modes!GoalBacksDriving
<1> QED BY <1>4, <1>5, <1>6 DEF MissionInv

(* The step the ledger is about: the waypoint reached is the one the index *)
(* names, so the ledger grows by it as the index moves past it.            *)
LEMMA AdvanceWaypointKeepsInv ==
  ASSUME MissionAssumption, MissionInv, AdvanceWaypoint, scenario_active,
         UNCHANGED scenario, step' \in {"receive", "update", "advance"}
  PROVE  MissionInv'
<1> DEFINE next == current_wp_index + 1
<1>1. Length \in Nat /\ UNCHANGED Length
  BY LengthIsNat DEF Length
<1>2. current_wp_index \in 0 .. Length /\ current_wp_index < Length
  BY DEF MissionInv, PlanningTypeOK
<1>3. scenario \in Scenario
  BY <1>1, <1>2 DEF Length
<1>4. goal = <<scenario, current_wp_index>> /\ reached' = reached \cup {goal}
  BY DEF MissionInv, GoalIsCurrentWaypoint, AdvanceWaypoint
<1>5. reached' \subseteq Waypoint
  BY <1>1, <1>2, <1>3, <1>4 DEF MissionInv, PlanningTypeOK, Waypoint
<1>6. next \in 1 .. Length /\ current_wp_index = next - 1
  BY <1>1, <1>2
<1>7. scenario \notin Patrol => reached' = {scenario} \X (0 .. next - 1)
  <2>1. SUFFICES ASSUME scenario \notin Patrol
                 PROVE  reached' = {scenario} \X (0 .. next - 1)
    OBVIOUS
  <2>2. reached = {scenario} \X (0 .. current_wp_index - 1)
    BY <1>3, <2>1 DEF MissionInv, ReachedSoFar
  <2>3. 0 .. next - 1 = (0 .. current_wp_index - 1) \cup {current_wp_index}
    BY <1>1, <1>2
  <2> QED BY <1>4, <2>2, <2>3
<1> HIDE DEF next
<1>8. CASE /\ next < Length \/ scenario \in Patrol
           /\ current_wp_index' = (IF next < Length THEN next ELSE 0)
           /\ DriveTo(<<scenario, current_wp_index'>>)
           /\ UNCHANGED scenario_active
  <2>1. goal' = <<scenario, current_wp_index'>> /\ mode' = "drive" /\ goal' # NoGoal
    BY <1>8 DEF DriveTo, Modes!SetGoal
  <2>2. current_wp_index' \in 0 .. Length /\ current_wp_index' < Length
    BY <1>1, <1>2, <1>6, <1>8
  <2>3. goal' \in Waypoint
    BY <1>1, <1>3, <2>1, <2>2 DEF Waypoint
  <2>4. scenario_active' = TRUE
    BY <1>8 DEF MissionInv, PlanningTypeOK
  <2>5. PlanningTypeOK'
    BY <1>1, <1>3, <1>5, <2>1, <2>2, <2>3, <2>4 DEF PlanningTypeOK, Modes!Driving
  <2>6. GoalIsCurrentWaypoint' /\ DrivesOnlyToGoal'
    BY <2>1, <2>4 DEF GoalIsCurrentWaypoint, DrivesOnlyToGoal, Modes!GoalBacksDriving
  <2>7. ReachedSoFar'
    BY <1>7, <1>8 DEF ReachedSoFar
  <2>8. PatrolIndex'
    BY <1>1, <2>2 DEF PatrolIndex
  <2> QED BY <2>5, <2>6, <2>7, <2>8 DEF MissionInv
<1>9. CASE /\ next >= Length /\ scenario \notin Patrol
           /\ current_wp_index' = next
           /\ scenario_active' = FALSE
           /\ GiveUpGoal
  <2>1. goal' = NoGoal /\ mode' = "idle"
    BY <1>9 DEF GiveUpGoal, Modes!ClearGoal
  <2>2. current_wp_index' \in 0 .. Length
    BY <1>1, <1>6, <1>9
  <2>3. PlanningTypeOK'
    BY <1>1, <1>3, <1>5, <1>9, <2>1, <2>2 DEF PlanningTypeOK
  <2>4. GoalIsCurrentWaypoint'
    BY <1>9, <2>1 DEF GoalIsCurrentWaypoint
  <2>5. DrivesOnlyToGoal'
    BY <2>1 DEF DrivesOnlyToGoal, Modes!GoalBacksDriving, Modes!Driving, Modes!Rung
  <2>6. ReachedSoFar' /\ PatrolIndex'
    BY <1>7, <1>9 DEF ReachedSoFar, PatrolIndex
  <2> QED BY <2>3, <2>4, <2>5, <2>6 DEF MissionInv
<1> QED BY <1>8, <1>9 DEF AdvanceWaypoint, next

(* The step that advances the waypoint keeps the invariant. *)
LEMMA AdvanceKeepsInv ==
  ASSUME MissionAssumption, MissionInv, Advance
  PROVE  MissionInv'
<1>1. step' \in {"receive", "update", "advance"} /\ UNCHANGED scenario
  BY DEF Advance
<1>2. CASE scenario_active /\ AdvanceWaypoint
  BY <1>1, <1>2, AdvanceWaypointKeepsInv
<1>3. CASE UNCHANGED <<mode, goal, current_wp_index, scenario_active, reached>>
  <2>1. UNCHANGED mission
    BY <1>1, <1>3 DEF mission
  <2> QED BY <1>1, <2>1, MissionUnchangedKeepsInv
<1> QED BY <1>2, <1>3 DEF Advance

(* A restart of planning establishes the invariant. *)
LEMMA RestartKeepsInv ==
  ASSUME MissionAssumption, PlanningRestart
  PROVE  MissionInv'
<1>1. /\ step' = "receive" /\ goal' = NoGoal /\ mode' = "idle"
      /\ scenario' = "none" /\ current_wp_index' = 0 /\ scenario_active' = FALSE /\ reached' = {}
  BY DEF PlanningRestart, GiveUpGoal, Modes!ClearGoal
<1>2. Length' \in Nat
  BY DEF Length, MissionAssumption
<1>3. PlanningTypeOK'
  <2>1. current_wp_index' \in 0 .. Length'
    BY <1>1, <1>2
  <2>2. reached' \subseteq Waypoint
    BY <1>1
  <2> QED BY <1>1, <2>1, <2>2 DEF PlanningTypeOK
<1>4. GoalIsCurrentWaypoint' /\ DrivesOnlyToGoal'
  BY <1>1 DEF GoalIsCurrentWaypoint, DrivesOnlyToGoal, Modes!GoalBacksDriving,
              Modes!Driving, Modes!Rung
<1>5. ReachedSoFar' /\ PatrolIndex'
  BY <1>1, <1>2 DEF ReachedSoFar, PatrolIndex
<1> QED BY <1>3, <1>4, <1>5 DEF MissionInv

(* Every step keeps the invariant of the mission. *)
LEMMA NextKeepsInv ==
  ASSUME MissionAssumption, MissionInv, ch8 \in Seq(Order), [MissionNext]_missionVars
  PROVE  MissionInv'
<1>1. CASE PlanningCycle
  BY <1>1, ReceiveKeepsInv, UpdateBehaviorKeepsInv, AdvanceKeepsInv DEF PlanningCycle
<1>2. CASE PlanningRestart
  BY <1>2, RestartKeepsInv
<1>3. CASE UNCHANGED planning
  <2>1. UNCHANGED mission /\ UNCHANGED step
    BY <1>3 DEF planning, mission
  <2> QED BY <2>1, MissionUnchangedKeepsInv DEF MissionInv, PlanningTypeOK
<1>4. \/ StartManager \/ SendCommand \/ ReceiveStatus \/ Interrupt \/ SendStop
      \/ UNCHANGED missionVars
      => UNCHANGED planning
  BY DEF StartManager, SendCommand, ReceiveStatus, Interrupt, SendStop, missionVars
<1> QED BY <1>1, <1>2, <1>3, <1>4, Zenon DEF MissionNext

(***************************************************************************)
(* The manager and the links.                                              *)
(***************************************************************************)

(* Every step keeps the types of queue and managers. *)
LEMMA OutsideKeepsType ==
  ASSUME MissionAssumption, OutsideTypeOK, scenario_active \in BOOLEAN, [MissionNext]_missionVars
  PROVE  OutsideTypeOK'
<1> USE DEF OutsideTypeOK
<1>1. CASE Receive
  <2>1. CASE ch8 # <<>> /\ ch8' = Tail(ch8)
    BY <1>1, <2>1, TailKeepsType DEF Receive
  <2>2. CASE UNCHANGED ch8
    BY <1>1, <2>2 DEF Receive
  <2> QED BY <1>1, <2>1, <2>2 DEF Receive
<1>2. CASE UpdateBehavior
  BY <1>2 DEF UpdateBehavior, outside
<1>3. CASE Advance
  <2>1. Complete' \in BOOLEAN
    BY DEF Complete
  <2>2. ch9' \in {ch9, Enqueue(ch9, Complete')} /\ UNCHANGED <<manager, session, ch8>>
    BY <1>3 DEF Advance, Report
  <2>3. PICK complete \in BOOLEAN : ch9' \in {ch9, Enqueue(ch9, complete)}
    BY <2>1, <2>2
  <2>4. ch9' \in Seq(BOOLEAN) /\ Len(ch9') <= QueueCap
    <3>1. ch9 \in Seq(BOOLEAN) /\ Len(ch9) <= QueueCap
      OBVIOUS
    <3>2. Enqueue(ch9, complete) \in Seq(BOOLEAN) /\ Len(Enqueue(ch9, complete)) <= QueueCap
      BY <3>1, EnqueueKeepsType, Zenon
    <3> QED BY <2>3, <3>1, <3>2, Zenon
  <2> QED BY <2>2, <2>4
<1>4. CASE PlanningRestart
  <2>1. ch8' = <<>> /\ UNCHANGED <<manager, session, ch9>>
    BY <1>4 DEF PlanningRestart
  <2> QED BY <2>1 DEF MissionAssumption
<1>5. CASE StartManager
  <2>1. \E s \in Scenario : manager' = [phase |-> "running", scenario |-> s, sends |-> 0]
    BY <1>5 DEF StartManager
  <2>2. manager' \in [phase : Phase, scenario : Scenario, sends : 0 .. MaxSends]
    BY <2>1 DEF Phase, MissionAssumption
  <2>3. session' \in 0 .. Sessions /\ ch9' = <<>> /\ UNCHANGED ch8
    BY <1>5 DEF StartManager, MissionAssumption
  <2> QED BY <2>2, <2>3 DEF MissionAssumption
<1>6. CASE SendCommand
  <2>1. manager' = [phase |-> manager.phase, scenario |-> manager.scenario, sends |-> manager.sends + 1]
    BY <1>6 DEF SendCommand
  <2>2. manager.sends + 1 \in 0 .. MaxSends
    BY <1>6 DEF SendCommand, MissionAssumption
  <2>3. manager' \in [phase : Phase, scenario : Scenario, sends : 0 .. MaxSends]
    BY <2>1, <2>2
  <2>4. ch8' \in {ch8, Enqueue(ch8, manager.scenario)} /\ manager.scenario \in Order
    BY <1>6 DEF SendCommand, Order
  <2>5. ch8' \in Seq(Order) /\ Len(ch8') <= QueueCap
    BY <2>4, EnqueueKeepsType
  <2> QED BY <1>6, <2>3, <2>5 DEF SendCommand
<1>7. CASE ReceiveStatus
  <2>1. manager' \in {manager, [manager EXCEPT !.phase = "done"]}
    BY <1>7 DEF ReceiveStatus
  <2>2. manager' \in [phase : Phase, scenario : Scenario, sends : 0 .. MaxSends]
    BY <2>1 DEF Phase
  <2>3. ch9' \in Seq(BOOLEAN) /\ Len(ch9') <= QueueCap
    BY <1>7, TailKeepsType DEF ReceiveStatus
  <2> QED BY <1>7, <2>2, <2>3 DEF ReceiveStatus
<1>8. CASE Interrupt
  <2>1. manager' \in [phase : Phase, scenario : Scenario, sends : 0 .. MaxSends]
    BY <1>8 DEF Interrupt, Phase
  <2> QED BY <1>8, <2>1 DEF Interrupt
<1>9. CASE SendStop
  <2>1. ch8' = Enqueue(ch8, "stop") /\ "stop" \in Order
    BY <1>9 DEF SendStop, Order
  <2>2. ch8' \in Seq(Order) /\ Len(ch8') <= QueueCap
    BY <2>1, EnqueueKeepsType
  <2>3. session' \in 0 .. Sessions
    BY <1>9 DEF SendStop, MissionAssumption
  <2> QED BY <1>9, <2>2, <2>3 DEF SendStop
<1>10. CASE UNCHANGED missionVars
  BY <1>10 DEF missionVars, outside
<1> QED BY <1>1, <1>2, <1>3, <1>4, <1>5, <1>6, <1>7, <1>8, <1>9, <1>10, Zenon
        DEF MissionNext, PlanningCycle

(***************************************************************************)
(* Theorems.                                                               *)
(***************************************************************************)

(* The inductive invariant holds in every behavior of a mission.           *)
THEOREM MissionInvariant == MissionSpec => [](MissionInv /\ OutsideTypeOK)
<1>1. MissionInit => MissionInv /\ OutsideTypeOK
  BY MissionAssumption, InitEstablishesInv
<1>2. MissionInv /\ OutsideTypeOK /\ [MissionNext]_missionVars
        => (MissionInv /\ OutsideTypeOK)'
  <2>1. SUFFICES ASSUME MissionInv, OutsideTypeOK, [MissionNext]_missionVars
                 PROVE  MissionInv' /\ OutsideTypeOK'
    OBVIOUS
  <2>2. ch8 \in Seq(Order) /\ scenario_active \in BOOLEAN
    BY <2>1 DEF OutsideTypeOK, MissionInv, PlanningTypeOK
  <2> QED BY <2>1, <2>2, MissionAssumption, NextKeepsInv, OutsideKeepsType
<1> QED BY <1>1, <1>2, PTL DEF MissionSpec

(* Type correctness of the mission: the index stays in the waypoint list,  *)
(* whatever commands, stops, restarts and losses come.                     *)
THEOREM MissionTyped == MissionSpec => []MissionTypeOK
<1>1. MissionInv /\ OutsideTypeOK => MissionTypeOK
  BY DEF MissionInv, PlanningTypeOK, OutsideTypeOK, MissionTypeOK
<1> QED BY <1>1, MissionInvariant, PTL

(* A status says "complete" only when the robot has been at every waypoint *)
(* of the scenario, and at no other.                                       *)
THEOREM CompleteAlwaysMeansAllReached == MissionSpec => []CompleteMeansAllReached
<1>1. MissionInv => CompleteMeansAllReached
  <2>1. SUFFICES ASSUME MissionInv, Complete
                 PROVE  reached = {scenario} \X (0 .. Length - 1)
    BY DEF CompleteMeansAllReached
  <2>2. Length \in Nat /\ Length > 0 /\ current_wp_index = Length
    BY <2>1, MissionAssumption, LengthIsNat DEF Complete, MissionInv, PlanningTypeOK
  <2>3. scenario \in Scenario \ Patrol
    BY <2>1, <2>2 DEF Length, MissionInv, PatrolIndex
  <2> QED BY <2>1, <2>2, <2>3 DEF MissionInv, ReachedSoFar
<1> QED BY <1>1, MissionInvariant, PTL

(* The behavior planner drives to the waypoint the index names, and to     *)
(* nothing once the mission is over.                                       *)
THEOREM GoalIsAlwaysCurrentWaypoint == MissionSpec => []GoalIsCurrentWaypoint
<1>1. MissionInv => GoalIsCurrentWaypoint
  BY DEF MissionInv
<1> QED BY <1>1, MissionInvariant, PTL

(* In a driving mode the planning loop has a goal to plan for.             *)
THEOREM AlwaysDrivesToGoal == MissionSpec => []DrivesOnlyToGoal
<1>1. MissionInv => DrivesOnlyToGoal
  BY DEF MissionInv
<1> QED BY <1>1, MissionInvariant, PTL
=============================================================================
