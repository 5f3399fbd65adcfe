CONSTANTS
  Jobs = {j1}
  Clients = {c1, c2, c3}
  MaxAttempts <- ThreeAttempts
  Priority <- SamePriority
  Queues <- MCQueues
  ClaimLimit = 8
SYMMETRY ClientSymmetry
SPECIFICATION StoreSpec
INVARIANTS TypeOK RetryBudget NoPhantomFailure
PROPERTIES TerminalIsFinal ImplementsLifecycle
CHECK_DEADLOCK FALSE
