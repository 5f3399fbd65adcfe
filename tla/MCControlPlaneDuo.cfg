CONSTANTS
  j1 = j1
  j2 = j2
  k = k
  d1 = d1
  d2 = d2
  op = op
  Jobs = {j1}
  Daemons = {d1, d2}
  Operators = {op}
  Clients <- MCClients
  MaxAttempts <- MCMaxAttempts
  Priority <- MCPriority
  Queues <- MCQueues
  ClaimLimit = 8
  Resource <- J1OnCpu
  Kind <- MCKind
  Slots <- OneSlotEach
  MaxConcurrent = 2
  Outcomes = {"ref", "none", "error"}
  KillBudget = 1
  RequestBudget = 2
  HeartbeatTimely = FALSE
SPECIFICATION FairSpec
INVARIANTS OverlapIsAccounted SucceededWasExecuted NothingStranded
PROPERTIES ImplementsStore QueuedJobSettles
