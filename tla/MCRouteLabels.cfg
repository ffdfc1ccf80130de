CONSTANTS
  At <- MCAt
  Links <- MCLinks
  Places <- MCPlaces
  Goals <- MCGoals
  BlockedTimeout = 3
  LegMin = 1
  LegMax = 2
  Deviation = 1
  ReplanEvery = 2
  BlameFails = 2
  BlockAfter = 2
  FollowDirectly = FALSE
SPECIFICATION RouteSpec
INVARIANTS LegsCarryTheirLink
