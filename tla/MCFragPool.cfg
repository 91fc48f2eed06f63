CONSTANTS
  t1 = t1
  t2 = t2
  t3 = t3
  Threads <- ThreeThreads
  NBits = 2
  NFrags = 6
  Sizes = {1, 2, 3}
  MaxRetries = 1
  WholeMasks = {"ones", "zero"}
SPECIFICATION Spec
INVARIANTS
  EachFragmentOnce
  DescriptorsMatch
SYMMETRY AnyThread
CHECK_DEADLOCK FALSE
