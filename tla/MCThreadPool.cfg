CONSTANTS
  w1 = w1
  w2 = w2
  NThreads = 2
  Workloads <- TwoWorkloads
  Rejected <- OnlyW2
  Reporting <- OneWorkload
  Unconfigured = {}
  Counts = {3}
  MaxSteps <- TwoSteps
  QSIZE = 2
  Destroys = TRUE
SPECIFICATION Spec
INVARIANTS
  TypeOK
  DealtUnderLocks
  EachRequestOnce
  InOrder
CHECK_DEADLOCK FALSE
