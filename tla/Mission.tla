-------------------------------- MODULE Mission --------------------------------
(***************************************************************************)
(* A mission: the scenario manager (crates/limo-scenario/src/main.rs)      *)
(* orders a scenario on CH8, the planning loop (planning/src/main.rs,      *)
(* steps 3, 5, 5a and 10) drives its waypoints through the behavior        *)
(* planner and reports on CH9.                                             *)
(*                                                                         *)
(* The manager is a process that is started anew for every scenario; it    *)
(* may be interrupted at any time and then sends nothing more.  One cycle  *)
(* of the planning loop is three steps, between which the manager runs:    *)
(* receive a command, update the behavior planner, advance and report.     *)
(* The behavior planner is module DrivingModes, which module Behavior is   *)
(* shown to implement.  Messages of CH8 may be lost; planning may be       *)
(* restarted.  Every waypoint has a pose: to_command always sends one.     *)
(* A waypoint is the pair of a scenario and its index.                     *)
(***************************************************************************)
EXTENDS Naturals, Sequences

CONSTANTS
  Scenario,       \* scenarios that can be ordered
  Waypoints,      \* number of waypoints of a scenario
  Patrol,         \* the scenarios of type ScenarioPatrol
  Sessions,       \* managers started one after the other (bound)
  MaxSends,       \* a manager sends its command at most this often
  QueueCap        \* messages a subscriber keeps

ASSUME MissionAssumption ==
  /\ Waypoints \in [Scenario -> Nat]
  /\ Patrol \subseteq Scenario
  /\ Sessions \in Nat /\ MaxSends \in Nat \ {0} /\ QueueCap \in Nat

VARIABLES
  (* planning *)
  step,              \* "receive", "update" or "advance"
  mode, goal,        \* the behavior planner: its mode, the waypoint it drives to
  scenario,          \* the scenario of scenario_waypoints, "none" at first
  current_wp_index,
  scenario_active,
  reached,           \* history: the waypoints reached since the mission started
  (* the manager and the links *)
  manager,           \* [phase, scenario, sends]
  session,           \* managers started so far
  ch8,               \* commands on their way: a scenario to start, or "stop"
  ch9                \* statuses on their way to the manager: scenario_complete

planning == <<step, mode, goal, scenario, current_wp_index, scenario_active, reached>>
outside  == <<manager, session, ch8, ch9>>
missionVars == <<planning, outside>>

mission  == <<mode, goal, scenario, current_wp_index, scenario_active, reached>>

NoGoal == <<>>

Modes == INSTANCE DrivingModes WITH hasGoal <- (goal # NoGoal)

Length == IF scenario \in Scenario THEN Waypoints[scenario] ELSE 0

Order == Scenario \cup {"stop"}
Phase == {"off", "running", "done"}
Waypoint == Scenario \X Nat

MissionTypeOK ==
  /\ step \in {"receive", "update", "advance"}
  /\ scenario \in Scenario \cup {"none"}
  /\ current_wp_index \in 0 .. Length
  /\ scenario_active \in BOOLEAN /\ (scenario_active => current_wp_index < Length)
  /\ mode \in Modes!Driving \cup {"idle", "stopped"}
  /\ goal \in Waypoint \cup {NoGoal} /\ reached \subseteq Waypoint
  /\ manager \in [phase : Phase, scenario : Scenario, sends : 0 .. MaxSends]
  /\ session \in 0 .. Sessions
  /\ ch8 \in Seq(Order) /\ ch9 \in Seq(BOOLEAN)
  /\ Len(ch8) <= QueueCap /\ Len(ch9) <= QueueCap

MissionInit ==
  /\ step = "receive" /\ goal = NoGoal /\ mode = "idle"
  /\ scenario = "none" /\ current_wp_index = 0 /\ scenario_active = FALSE /\ reached = {}
  /\ manager \in [phase : {"off"}, scenario : Scenario, sends : {0}]
  /\ session = 0 /\ ch8 = <<>> /\ ch9 = <<>>

(* A message joins a queue or, at the high water mark, is dropped. *)
Enqueue(queue, message) == IF Len(queue) < QueueCap THEN Append(queue, message) ELSE queue

(***************************************************************************)
(* The planning loop.                                                      *)
(***************************************************************************)

(* "Skip duplicate start commands (re-sends from scenario manager)". *)
IsDuplicate(s) == scenario_active /\ Waypoints[s] = Length

DriveTo(waypoint) == goal' = waypoint /\ Modes!SetGoal
GiveUpGoal        == goal' = NoGoal /\ Modes!ClearGoal

(* Mutant: the index is not reset. *)
StartScenarioKeepingIndex(s) ==
  /\ scenario' = s
  /\ reached' = {}
  /\ scenario_active' = (Waypoints[s] > 0)
  /\ IF Waypoints[s] > 0
     THEN DriveTo(<<s, 0>>) /\ UNCHANGED current_wp_index
     ELSE current_wp_index' = 0 /\ UNCHANGED <<mode, goal>>

(* A start command replaces the mission; a scenario without waypoints      *)
(* leaves the behavior planner as it is.                                   *)
StartScenario(s) ==
  /\ scenario' = s
  /\ current_wp_index' = 0 /\ reached' = {}
  /\ scenario_active' = (Waypoints[s] > 0)
  /\ IF Waypoints[s] > 0 THEN DriveTo(<<s, 0>>) ELSE UNCHANGED <<mode, goal>>

(* Mutant: a stop ends the mission but not the drive. *)
StopScenarioDriving ==
  /\ scenario_active' = FALSE
  /\ UNCHANGED <<mode, goal, scenario, current_wp_index, reached>>

(* The mission is kept, and its index, but not driven any more. *)
StopScenario ==
  /\ scenario_active' = FALSE /\ GiveUpGoal
  /\ UNCHANGED <<scenario, current_wp_index, reached>>

Obey(order) ==
  \/ order = "stop" /\ StopScenario
  \/ order \in Scenario /\ IsDuplicate(order) /\ UNCHANGED mission
  \/ order \in Scenario /\ ~IsDuplicate(order) /\ StartScenario(order)

(* Step 3: at most one command; one on its way may not be there yet. *)
Receive ==
  /\ step = "receive" /\ step' = "update"
  /\ \/ ch8 # <<>> /\ ch8' = Tail(ch8) /\ Obey(Head(ch8))
     \/ UNCHANGED <<ch8, mission>>
  /\ UNCHANGED <<manager, session, ch9>>

(* Step 5: the behavior planner goes on. *)
UpdateBehavior ==
  /\ step = "update" /\ step' = "advance"
  /\ UNCHANGED goal
  /\ \/ Modes!Stop \/ Modes!Resume \/ Modes!Proceed \/ Modes!Climb
     \/ UNCHANGED mode
  /\ UNCHANGED <<scenario, current_wp_index, scenario_active, reached, outside>>

(* Mutant: every scenario goes back to its first waypoint. *)
AdvanceWaypointAlwaysWrapping ==
  /\ reached' = reached \cup {goal}
  /\ current_wp_index' = (IF current_wp_index + 1 < Length THEN current_wp_index + 1 ELSE 0)
  /\ DriveTo(<<scenario, current_wp_index'>>)
  /\ UNCHANGED scenario_active

(* Step 5a: the next waypoint, the first one again on a patrol, or the end.*)
AdvanceWaypoint ==
  LET next == current_wp_index + 1 IN
  /\ reached' = reached \cup {goal}
  /\ \/ /\ next < Length \/ scenario \in Patrol
        /\ current_wp_index' = (IF next < Length THEN next ELSE 0)
        /\ DriveTo(<<scenario, current_wp_index'>>)
        /\ UNCHANGED scenario_active
     \/ /\ next >= Length /\ scenario \notin Patrol
        /\ current_wp_index' = next
        /\ scenario_active' = FALSE
        /\ GiveUpGoal

(* Step 10: scenario_complete of the status, if one is sent. *)
Complete == ~scenario_active /\ Length > 0 /\ current_wp_index >= Length

Report == ch9' = IF Length' > 0 /\ manager.phase = "running" THEN Enqueue(ch9, Complete') ELSE ch9

Advance ==
  /\ step = "advance" /\ step' = "receive"
  /\ IF scenario_active /\ mode = "reached" THEN AdvanceWaypoint
     ELSE UNCHANGED <<mode, goal, current_wp_index, scenario_active, reached>>
  /\ UNCHANGED <<scenario, manager, session, ch8>>
  /\ Report

(* The process dies and is started again. *)
PlanningRestart ==
  /\ step' = "receive" /\ GiveUpGoal
  /\ scenario' = "none" /\ current_wp_index' = 0 /\ scenario_active' = FALSE /\ reached' = {}
  /\ ch8' = <<>>
  /\ UNCHANGED <<manager, session, ch9>>

(***************************************************************************)
(* The scenario manager.                                                   *)
(***************************************************************************)

(* It is started: statuses flow to it from now on. *)
StartManager ==
  /\ manager.phase # "running" /\ session < Sessions
  /\ \E s \in Scenario : manager' = [phase |-> "running", scenario |-> s, sends |-> 0]
  /\ session' = session + 1
  /\ ch9' = <<>>
  /\ UNCHANGED <<planning, ch8>>

(* The command, or one of its re-sends, goes out or is lost. *)
SendCommand ==
  /\ manager.phase = "running" /\ manager.sends < MaxSends
  /\ manager' = [manager EXCEPT !.sends = @ + 1]
  /\ ch8' \in {ch8, Enqueue(ch8, manager.scenario)}
  /\ UNCHANGED <<planning, session, ch9>>

(* It waits for scenario_complete once its command has been sent. *)
ReceiveStatus ==
  /\ manager.phase = "running" /\ manager.sends > 0 /\ ch9 # <<>>
  /\ ch9' = Tail(ch9)
  /\ manager' = IF Head(ch9) THEN [manager EXCEPT !.phase = "done"] ELSE manager
  /\ UNCHANGED <<planning, session, ch8>>

(* Ctrl+C or a kill: it leaves without a word to planning. *)
Interrupt ==
  /\ manager.phase = "running" /\ manager' = [manager EXCEPT !.phase = "off"]
  /\ UNCHANGED <<planning, session, ch8, ch9>>

(* The protocol has a stop command (start = FALSE), which no program of    *)
(* the repository sends: an operator's own sender, in place of a manager.  *)
SendStop ==
  /\ manager.phase # "running" /\ session < Sessions
  /\ session' = session + 1
  /\ ch8' = Enqueue(ch8, "stop")
  /\ UNCHANGED <<planning, manager, ch9>>

PlanningCycle == Receive \/ UpdateBehavior \/ Advance

MissionNext ==
  \/ PlanningCycle \/ PlanningRestart
  \/ StartManager \/ SendCommand \/ ReceiveStatus \/ Interrupt \/ SendStop

(* The planning loop never waits. *)
MissionSpec == MissionInit /\ [][MissionNext]_missionVars /\ WF_missionVars(PlanningCycle)
-----------------------------------------------------------------------------
(***************************************************************************)
(* Properties.                                                             *)
(***************************************************************************)

(* A status says "complete" only when the robot has driven to every        *)
(* waypoint of the scenario since it was started, and was at no other,     *)
(* whatever commands, stops and recoveries came in between (steps 3, 5a    *)
(* and 10 of the loop share the index and the behavior planner's goal).    *)
CompleteMeansAllReached ==
  Complete => reached = {scenario} \X (0 .. Length - 1)

(* The behavior planner drives to the waypoint the loop's index names, and *)
(* to nothing once the mission is over: the two are set in different       *)
(* places of the loop.  Only a scenario without waypoints leaves an old    *)
(* goal behind (main.rs, step 3: no clear_goal on that path).              *)
GoalIsCurrentWaypoint ==
  /\ scenario_active => goal = <<scenario, current_wp_index>>
  /\ ~scenario_active /\ goal # NoGoal => scenario \in Scenario /\ Length = 0

(* A mission that is no patrol ends, or is replaced, if the robot reaches  *)
(* some goal again and again while it runs: the index never goes round.    *)
MissionEnds ==
  []<>(~scenario_active \/ mode = "reached")
    => []<>(~scenario_active \/ scenario \in Patrol)

(* While the planner is in a driving mode the planning loop has a goal to  *)
(* plan for: set_goal and clear_goal come between its updates.             *)
DrivesOnlyToGoal == Modes!GoalBacksDriving
=============================================================================
