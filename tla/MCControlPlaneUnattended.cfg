CONSTANTS
  j1 = j1
  j2 = j2
  k = k
  d1 = d1
  d2 = d2
  op = op
  Jobs = {j1, j2, k}
  Daemons = {d1}
  Operators = {}
  Clients <- MCClients
  MaxAttempts <- MCMaxAttempts
  Priority <- MCPriority
  Queues <- MCQueues
  ClaimLimit = 8
  Resource <- J1OnCpu
  Kind <- MCKind
  Slots <- OneSlotEach
  MaxConcurrent = 2
  Outcomes = {"ref", "error"}
  KillBudget = 2
  RequestBudget = 0
  HeartbeatTimely = FALSE
SPECIFICATION FairSpec
PROPERTIES UnattendedJobEnds
INVARIANTS SlotCapacity
