CONSTANTS
  t1 = t1
  t2 = t2
  p1 = p1
  p2 = p2
  Threads <- TwoThreads
  Pages <- TwoPages
  Units = 7
  Requests = {1, 3}
  MinUnits = 1
  DefragFree = 2
  DefragPeriod = 2
  MaxLive = 3
SPECIFICATION Spec
INVARIANTS
  BlocksTilePage
  SearchFindsBestFit
  ListedWhileUsed
SYMMETRY AnyName
