SPECIFICATION Spec
CONSTANTS
  Keys = {k1, k2}
  Capacity = 2
  Policies = {"DropNewest", "DropOldest", "CoalesceMouseMove"}
  Sources = {"terminal", "full"}
  MaxEvents = 0
  Sizes <- MCSizes
  Frames <- MCFrames
  Pixels <- MCPixels
  k1 = k1
  k2 = k2
INVARIANTS
  EveryCellDrawn
CHECK_DEADLOCK FALSE
