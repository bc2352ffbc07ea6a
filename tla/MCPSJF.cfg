SPECIFICATION Spec
CONSTANTS
  num_process = 2
  ArrivalTimes <- SomeArrivals
  TimesNeeded <- SomeTimes
INVARIANT NeverCrashes
CHECK_DEADLOCK FALSE
