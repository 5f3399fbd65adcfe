CONSTANTS
  NONE = NONE
  Workers = {w1, w2}
  Runs = {r1, r2, r3}
  Prompts = 2
  Samples = 3
  MaxOomRetries = 4
  KillBudget = 1
SYMMETRY Symmetry
SPECIFICATION Spec
INVARIANTS RegistriesAgree
PROPERTIES RetryIsClean RetriesAreTrainable
CHECK_DEADLOCK FALSE
