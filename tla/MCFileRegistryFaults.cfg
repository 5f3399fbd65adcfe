CONSTANTS
  NONE = NONE
  a = a
  b = b
  c = c
  Ingests = {a, b, c}
  StateIngests = {b}
  NFiles = 2
  KeepLast = 1
  Protected = {a}
  Callers <- MCCallers
  KillBudget = 1
  RotBudget = 1
SPECIFICATION Spec
INVARIANTS VisibleIsWhole ReturnedIsVisible RetentionKeepsNewest LoadIsGenuine
PROPERTIES ImplementsPolicyLog
CHECK_DEADLOCK FALSE
