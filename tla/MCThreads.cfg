CONSTANTS
  NObjects = 2
  NBuckets = 1
  Own <- TwoCreators
  Renewed = {2}
  Waiting = {1}
  MaxStarts = 3
SPECIFICATION FairSpec
INVARIANTS
  InTable
  DestroyedAfterBody
PROPERTIES
  StartReleases
CHECK_DEADLOCK FALSE
