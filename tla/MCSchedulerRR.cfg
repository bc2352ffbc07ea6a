SPECIFICATION FairSpec
CONSTANTS
  num_process = 3
  Strategy = "RR"
  RR_TIMES_OF_UNIT = 3
  MaxTime = 5
  MaxNeed = 1
  Workloads <- TieFreeInputs
  Collisions = FALSE
  ForkMayFail = FALSE
  CPUs = 1
INVARIANTS TypeOK RightJobRuns NoEventLost ReapsCurrent CleanExit
PROPERTIES Terminates TimersContract RRContract KeepsInterface
CHECK_DEADLOCK FALSE
