SPECIFICATION FairSpec
CONSTANTS
  num_process = 4
  Strategy = "FIFO"
  RR_TIMES_OF_UNIT = 3
  MaxTime = 3
  MaxNeed = 1
  Workloads <- Inputs
  Collisions = FALSE
  ForkMayFail = FALSE
  CPUs = 1
INVARIANTS RightJobRuns InArrivalOrder
PROPERTIES Terminates TimersContract
CHECK_DEADLOCK FALSE
