CONSTANTS
  NONE = NONE
  Jobs <- MCJobs
  Kind <- MCKind
  SimJobs = {}
  Main = main
  Visitor = visitor
  Reaper = reaper
  Controllers = {main, visitor}
  MaxAttempts = 2
  Enabled = TRUE
  Microbatch = 2
  FaultBudget = 2
  Runs = 1
  Steps = 2
  Prompts = {"p"}
  Samples = 2
  OomAt = 1
  Workers = {w1, w2}
  Rollout <- MCRollout
  Optimize <- MCOptimize
SPECIFICATION FairSpec
PROPERTY PipelineEnds
CHECK_DEADLOCK FALSE
