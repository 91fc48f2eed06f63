CONSTANTS
  h1 = h1
  k1 = k1
  k2 = k2
  Hosts <- OneHost
  Callers <- TwoCallers
  MaxConns = 2
SPECIFICATION Spec
INVARIANTS
  MessagesWhole
  RegistryFollowsConnections
  ListedUnderOwnId
  OwnAnswer
  WaitIsAccountedFor
SYMMETRY AnyCaller
CHECK_DEADLOCK FALSE
