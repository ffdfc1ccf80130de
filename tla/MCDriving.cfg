CONSTANTS
  MaxSpeed = 3
  MaxAccel = 1
  MaxDecel = 2
  MaxAngular = 3
  MaxCurvature = 1
  DegradedCap = 1
  RecoveryCycles = 2
  NearZeroSpeed = 1
  CrawlSpeed = 0
  Modes <- MCModes
  Speeds <- MCSpeeds
  Turns <- MCTurns
  DwaSpeed = 3
  DwaAccel = 1
  DwaDecel = 2
  Footprint = 3
  RobotRadius = 5
  LowScale = 5
  Crawl = 1
  FullMarginSpeed = 2
  HighSpeed = 3
  HighGain = 1
  Horizon = 3
  Pad = 1
  Window = 2
  ReactTime = 1
  Slack = 1
  Floor = 3
  MpcSteps = 3
  MpcPhase = 1
  Comfort = 1
  Delay = 1
  ReverseCap = 1
  CuspArrive = 2
  CuspShort = 1
  MinChord = 1
  Finish = 2
  RecoveryScale = 5
  ReverseSpeed = 1
  ReverseDistance = 3
  RearRadius = 5
  Start = 2
  Goals <- MCGoals
  Cusps <- MCCusps
  DesiredSpeeds <- MCDesiredSpeeds
  Worlds <- MCWorlds
  LateObstacles <- MCLateObstacles
  Depth = 2
  StaleCycles = 1
  EscapeRadius = 3
  TrueFootprint = 3
  DirectApproach = 4
  Pull = 1
  BehindDrop = 2
  BlockedDrop = 2
  BlockedDropLength = 3
  FollowDrift = FALSE
SPECIFICATION DrivingSpec
INVARIANTS StopsClear PathIsCurrent EnvelopeHolds DegradedSlowsDown
PROPERTIES CapLiftsAfterGoodRun
