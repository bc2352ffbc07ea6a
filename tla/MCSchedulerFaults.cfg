SPECIFICATION Spec
CONSTANTS
  num_process = 3
  Strategy = "RR"
  RR_TIMES_OF_UNIT = 3
  MaxTime = 4
  MaxNeed = 1
  Workloads <- UncheckedInputs
  Collisions = TRUE
  ForkMayFail = TRUE
  CPUs = 2
INVARIANTS NoOrphans RRIndexSafe
CHECK_DEADLOCK FALSE
