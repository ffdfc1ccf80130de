CONSTANTS
  Scenario <- MCScenario
  Waypoints <- MCWaypoints
  Patrol <- MCPatrol
  Sessions = 2
  MaxSends = 2
  QueueCap = 2
SPECIFICATION MissionSpec
INVARIANTS CompleteMeansAllReached GoalIsCurrentWaypoint
PROPERTIES MissionEnds
