CONSTANTS
  i1 = i1
  Invokers <- OneInvoker
  NObjects = 2
  NBuckets = 1
  MaxCalls = 2
  MaxConns = 2
  MaxCommands = 2
  Mixes <- CallsOrCommands
  MaxDisconnects = 1
  Tears = TRUE
SPECIFICATION FairSpec
INVARIANTS
  OneHandlerPerCall
  AnswersMatchCalls
  RepliesInOrder
PROPERTIES
  WaitersReleased
  Reconnects
CHECK_DEADLOCK FALSE
