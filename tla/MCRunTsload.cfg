CONSTANTS
  NWorkloads = 2
  Files <- SomeFiles
  Faults = {"reject", "fail", "fail_then_success", "silent", "steps"}
  QSIZE = 2
SPECIFICATION FairSpec
INVARIANTS
  NoStepLost
  StartsConfigured
  FinishesAll
PROPERTIES
  RunCountReachesZero
