CONSTANTS
  NONE = NONE
  Workers = {w1}
  Runs = {r1, r2, r3}
  Prompts = 2
  Samples = 4
  MaxOomRetries = 4
  KillBudget = 0
SYMMETRY Symmetry
SPECIFICATION Spec
PROPERTY ResumeIsVerified
CHECK_DEADLOCK FALSE
