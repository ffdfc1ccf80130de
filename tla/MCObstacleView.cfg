SPECIFICATION Spec
CONSTANTS
  LastPlace = 6
  Seam = 2
  Unit = 1
  Far = {}
  Flat = {4, 5, 6}
  Eps = 1
  MinPts = 2
  MinMajorLen = 1
  MaxTrackExtent = 1
  Gate = 2
  AlphaOf10 = 5
  ConfirmHits = 2
  MaxMisses = 1
  StaticSpeed = 1
  MaxSpeed = 2
  Worlds <- MCWorlds
  WalkerSize = 2
  Walks <- MCWalks
  Strides = {0, 1}
  Dropouts <- MCDropouts
  SectorOf <- MCSectorOf
  RangeOf <- MCRangeOf
  MaxRepeat = 1
  Depth = 2
  Hold = 2
  GhostMinSpeed = 1
  GhostSlack = 1
INVARIANT NearestIsCovered
INVARIANT PostsAreRemembered
INVARIANT MoversLeaveNoFence
INVARIANT PhantomsFade
