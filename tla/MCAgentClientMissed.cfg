CONSTANTS
  i1 = i1
  Invokers <- OneInvoker
  NObjects = 2
  NBuckets = 1
  MaxCalls = 3
  MaxConns = 1
  MaxCommands = 0
  Mixes <- CallsOnly
  MaxDisconnects = 1
  Tears = FALSE
SPECIFICATION Spec
INVARIANTS
  NoAnswerMissed
CHECK_DEADLOCK FALSE
