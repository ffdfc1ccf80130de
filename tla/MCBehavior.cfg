CONSTANTS
  Track <- MCTrack
  Goals <- MCGoals
  Inputs <- MCInputs
  GoalTolerance = 1
  ApproachDistance = 2
  StuckCycles = 2
  RetryTime = 2
  ReverseMin = 1
  ReverseMax = 2
  ReverseFloor = 2
  ReverseSlack = 0
  MaxAttempts = 2
  ExitCycles = 2
  ExitDistance = 1
  ProgressReset = 1
  FollowingClear = 2
  HoldRetry = 2
  AttemptCap = 2
SPECIFICATION BehaviorSpec
INVARIANTS BehaviorTypeOK DebtIsRemembered
PROPERTIES ExitIsEarned HoldIsNotTerminal StuckRobotIsNoticed FreeRobotLeavesRecovery KeepsModes
