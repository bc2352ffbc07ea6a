SPECIFICATION LogFairSpec
CONSTANTS
  num_process = 3
  Strategy = "SJF"
  RR_TIMES_OF_UNIT = 3
  MaxTime = 3
  MaxNeed = 2
  Workloads <- Inputs
  Collisions = FALSE
  ForkMayFail = FALSE
  CPUs = 1
  BILLION = 100
  Tick = 27
INVARIANTS RightJobRuns NoPreemption AbortsOnlyInGap LogComplete
PROPERTIES Halts SJFContract ShortestDispatched TimeCalcExact
CHECK_DEADLOCK FALSE
