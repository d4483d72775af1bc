SPECIFICATION Spec
CONSTANTS
  Keys = {k1, k2}
  Capacity = 2
  Policies = {"DropNewest", "DropOldest", "CoalesceMouseMove"}
  Sources = {"terminal", "full"}
  MaxEvents = 3
  Sizes <- MCSizes
  Frames <- MCFrames
  Pixels <- MCPixels
  k1 = k1
  k2 = k2
SYMMETRY KeySymmetry
INVARIANTS
  TypeOK
  QueueKeepsOrder
  EdgesTellChanges
  StateFollowsKeyboard
  ScreenShowsFrame
CHECK_DEADLOCK FALSE
