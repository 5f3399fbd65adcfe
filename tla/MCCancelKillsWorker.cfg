CONSTANTS
  j1 = j1
  j2 = j2
  k = k
  d1 = d1
  d2 = d2
  op = op
  Jobs = {j1}
  Daemons = {d1}
  Operators = {op}
  Clients <- MCClients
  MaxAttempts <- MCMaxAttempts
  Priority <- MCPriority
  Queues <- MCQueues
  ClaimLimit = 8
  Resource <- AllGpu
  Kind <- MCKind
  Slots <- OneSlotEach
  MaxConcurrent = 2
  Outcomes = {"ref", "error"}
  KillBudget = 0
  RequestBudget = 1
  HeartbeatTimely = TRUE
SPECIFICATION Spec
PROPERTY CancelIsBenign
