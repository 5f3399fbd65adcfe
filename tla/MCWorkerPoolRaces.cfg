CONSTANTS
  e = e
  m = m
  w1 = w1
  w2 = w2
  op = op
  NONE = NONE
  Jobs = {e, m}
  Workers = {w1, w2}
  Outsiders = {op}
  Clients <- MCClients
  MaxAttempts <- MCMaxAttempts
  Priority <- MCPriority
  Queues <- MCQueues
  ClaimLimit = 8
  Handled = {e}
  PoolBudget = 1
  KillBudget = 1
  ReapBudget = 1
  RequestBudget = 2
SPECIFICATION FairSpec
CHECK_DEADLOCK FALSE
INVARIANTS SucceededHasResult RepeatsAreOverlaps RunsAreCharged EachKillStrandsOne
PROPERTIES PoolEnds
