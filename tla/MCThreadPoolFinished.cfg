CONSTANTS
  w1 = w1
  w2 = w2
  NThreads = 1
  Workloads <- OneWorkload
  Rejected = {}
  Reporting = {}
  Unconfigured = {}
  Counts = {1}
  MaxSteps <- OneStep
  QSIZE = 1
  Destroys = FALSE
SPECIFICATION Spec
INVARIANT
  FinishedIsComplete
