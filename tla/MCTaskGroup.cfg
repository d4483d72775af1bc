SPECIFICATION FairSpec
CONSTANTS
  WorkerCounts = {0, 2}
  Main = Main
  None = None
  Tasks <- TickTasks
  Groups <- TickGroups
  GroupOf <- TickGroupOf
  OwnerOf <- TickOwnerOf
  LaneOf <- MCLaneOf
  prep = prep
  read = read
  rect1 = rect1
  rect2 = rect2
  text1 = text1
  phase = phase
  rects = rects
  texts = texts
INVARIANTS
  TypeOK
  JoinIsComplete
PROPERTIES
  WaitReturns
CHECK_DEADLOCK FALSE
