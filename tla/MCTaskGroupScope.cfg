SPECIFICATION Spec
CONSTANTS
  WorkerCounts = {1}
  Main = Main
  None = None
  Tasks <- FlatTasks
  Groups <- FlatGroups
  GroupOf <- FlatGroupOf
  OwnerOf <- FlatOwnerOf
  LaneOf <- MCLaneOf
  prep = prep
  read = read
  rect1 = rect1
  rect2 = rect2
  text1 = text1
  phase = phase
  rects = rects
  texts = texts
INVARIANTS
  NoUseAfterScope
CHECK_DEADLOCK FALSE
