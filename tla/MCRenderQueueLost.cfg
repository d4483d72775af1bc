SPECIFICATION MSpec
CONSTANTS
  Producers = {p1, p2}
  KMax = 2
  TextArenaBytes = 4
  TextSizes = {}
  Modulus = 9
  StoreFence = FALSE
  Stale = Stale
  LastFrame = 1
  MaxClaims = 3
  MaxTextOfs = 8
  Steady = p1
  p1 = p1
  p2 = p2
SYMMETRY ProducerSymmetry
INVARIANTS
  AllPublishedAtRest
CHECK_DEADLOCK FALSE
