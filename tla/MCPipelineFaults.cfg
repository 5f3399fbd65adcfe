CONSTANTS
  NONE = NONE
  Jobs <- MCJobs
  Kind <- MCKind
  SimJobs <- MCSimJobs
  Main = main
  Visitor = visitor
  Reaper = reaper
  Controllers = {main, visitor}
  MaxAttempts = 2
  Enabled = TRUE
  Microbatch = 4
  FaultBudget = 2
  Runs = 2
  Steps = 1
  Prompts = {"p"}
  Samples = 2
  OomAt = 1
  Workers = {w1, w2}
  Rollout <- MCRollout
  Optimize <- MCOptimize
SPECIFICATION Spec
INVARIANTS RecordedIsComplete DuplicatesArePaid EffectiveBatchKept StrandedHasCulprit RaisesOnlyIfDisturbed
SYMMETRY Symmetry
CHECK_DEADLOCK FALSE
