SPECIFICATION FairSpec
CONSTANTS
  WorkerCounts = {1}
  Main = Main
  None = None
  Tasks <- PrepTasks
  Groups <- PrepGroups
  GroupOf <- PrepGroupOf
  OwnerOf <- PrepOwnerOf
  LaneOf <- MCLaneOf
  prep = prep
  read = read
  rect1 = rect1
  rect2 = rect2
  text1 = text1
  phase = phase
  rects = rects
  texts = texts
PROPERTIES
  WaitReturns
CHECK_DEADLOCK FALSE
