CONSTANTS
  CommandTimeout = 1
  HeartbeatDead = 2
  StoppedSpeed = 1
  DecelStep = 1
  Horizon = 6
  MaxCommandAge = 1
  HeartbeatDegraded = 2
  MaxSpeed = 1
  MaxStall = 1
  QueueCap = 2
  RequestedSpeeds <- MCRequestedSpeeds
  WheelSpeeds <- MCWheelSpeeds
SPECIFICATION Spec
INVARIANTS PlannedMotionIsFresh DrivesOnlyWithPlanningAlive ActuationMatchesLatch
PROPERTIES LatchedNeverAccelerates ReleaseIsEarned KeepsContract
