SPECIFICATION Spec
CONSTANTS
  num_process = 2
  Strategy = "FIFO"
  RR_TIMES_OF_UNIT = 3
  MaxTime = 1
  MaxNeed = 1
  Workloads <- Inputs
  Collisions = TRUE
  ForkMayFail = FALSE
  CPUs = 1
INVARIANT NoEventLost
CHECK_DEADLOCK FALSE
