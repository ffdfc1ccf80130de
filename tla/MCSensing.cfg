CONSTANTS
  Platforms = {"sim", "hw"}
  HistoryLen = 2
  LidarCapacity = 2
  Ch3Capacity = 2
  CyclePeriod = 2
  FallbackAge = 2
  SlamYield = 1
  SlamStall = 3
  AgeMax = 6
SPECIFICATION Spec
INVARIANTS NewestScanReachesSlam NewScanReachesPlanning HistoryIsOrdered LagIsBounded
