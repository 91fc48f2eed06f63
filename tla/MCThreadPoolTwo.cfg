CONSTANTS
  w1 = w1
  w2 = w2
  NThreads = 1
  Workloads <- TwoWorkloads
  Rejected = {}
  Reporting <- OnlyW2
  Unconfigured <- OnlyW2
  Counts = {2}
  MaxSteps <- StepForW2
  QSIZE = 1
  Destroys = FALSE
SPECIFICATION FairSpec
INVARIANTS
  StepArrayFresh
PROPERTIES
  ControlKeepsPace
  ProvidedIsBegun
  ImplementsDelivery
