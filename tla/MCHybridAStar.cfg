SPECIFICATION Spec
CHECK_DEADLOCK FALSE
CONSTANTS
  Problems <- MCProblems
  Width = 4
  Height = 4
  EscapeRadius = 2
  HardBound = 1
  ReentryMargin = 0
  Reverse = TRUE
  Travel = 5
  ReverseFactor = 2
  SteerCost = 6
  SwitchCost = 15
  ProximityCost = 10
  Decay = 4
  CorridorCost = 3
  MaxIterations = 80
  HeadingWeight = 4
  GoalRadius = 1
  RsRadius = 3
  RsAttemptStride = 2
  RsStraight = 4
  Spacing = 2
INVARIANT SettledAtCheapest
INVARIANT FailsOnlyForCause
INVARIANT FoundPathIsDrivable
INVARIANT SmoothingKeepsTheManeuver
