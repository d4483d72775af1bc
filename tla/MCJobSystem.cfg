SPECIFICATION FairSpec
CONSTANTS
  Configs <- SmpConfigs
  Clients = {main, other}
  EngineJobs = {e1, e2}
  UserJobs = {u1}
  Owner = main
  None = None
  Jobs <- MCJobs
  LaneOf <- MCLaneOf
  main = main
  other = other
  e1 = e1
  e2 = e2
  u1 = u1
INVARIANTS
  TypeOK
  WorkConserving
PROPERTIES
  ImplementsJobPool
  EveryJobFinishes
  WaitIdleReturns
  DestructorReturns
CHECK_DEADLOCK FALSE
