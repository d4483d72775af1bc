SPECIFICATION Spec
CONSTANTS
  Configs <- AnyConfigs
  Clients = {main}
  EngineJobs = {e1}
  UserJobs = {u1}
  Owner = main
  None = None
  Jobs <- MCJobs
  LaneOf <- MCLaneOf
  main = main
  e1 = e1
  u1 = u1
INVARIANTS
  NoWorkersWithoutSmp
CHECK_DEADLOCK FALSE
