SPECIFICATION MFairSpec
CONSTANTS
  Producers = {p1, p2}
  KMax = 3
  TextArenaBytes = 4
  TextSizes = {1, 2}
  Modulus = 9
  StoreFence = FALSE
  Stale = Stale
  LastFrame = 2
  MaxClaims = 3
  MaxTextOfs = 8
  Steady = p1
  p1 = p1
  p2 = p2
INVARIANTS
  TypeOK
  PublishedComplete
  TextIntact
PROPERTIES
  AppendOnlyLog
  PushReturns
  MendsLostPushes
CHECK_DEADLOCK FALSE
