SPECIFICATION Spec
CONSTANTS
  num_process = 2
  Strategy = "SJF"
  RR_TIMES_OF_UNIT = 3
  MaxTime = 1
  MaxNeed = 1
  Workloads <- Inputs
  Collisions = FALSE
  ForkMayFail = FALSE
  CPUs = 1
INVARIANT NoAbnormalExit
CHECK_DEADLOCK FALSE
