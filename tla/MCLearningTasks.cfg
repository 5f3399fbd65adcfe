SPECIFICATION LearnSpec
CONSTANTS
  Skus = {"light", "cheap"}
  Product <- MCProduct
  Goals <- MCGoals
  Criteria <- MCCriteria
  max_turns = 4
  Unknown = {"invented"}
  SpecLines <- MCSpecLines
  Asks <- MCAsks
  MaxLines = 2
  NONE = NONE
  Unit = 120
  Launches <- MCLaunches
  steps = 3
  save_every = 2
  HeldOutLevels = {50, 53}
  Kl = {49, 100}
  Entropy = {4, 5}
  GradNorm = {4999, 5000}
  FaultBudget = 2
  NAN = NAN
INVARIANTS BudgetConserved RewardIsFair HonestyPays LieEscapesOnlyBehindAStatement
           NoSilentDivergence ClearedRunIsStable
