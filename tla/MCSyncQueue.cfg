CONSTANTS
  NULL = NULL
  i1 = i1
  i2 = i2
  i3 = i3
  i4 = i4
  c1 = c1
  c2 = c2
  Items <- Elements
  Consumers <- TwoConsumers
SPECIFICATION FairSpec
INVARIANTS
  TypeOK
  Shape
  NoFreedInQueue
  NoStrandedElement
PROPERTIES
  ImplementsFifo
  EventuallyPopped
CHECK_DEADLOCK FALSE
