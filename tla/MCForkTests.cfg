SPECIFICATION Spec
CONSTANTS
  num_process = 2
  CPUs = 1
  RunUnits = 5
  Seconds = {3, 7}
  MaxOverhead = 71
INVARIANT Passes
PROPERTIES ParentFirst Ends
CHECK_DEADLOCK FALSE
