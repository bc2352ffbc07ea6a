SPECIFICATION Spec
CONSTANTS
  num_process = 2
  Strategy = "RR"
  BILLION = 5
  RR_TIMES_OF_UNIT = 3
  UNIT_MEASURE_REPEAT = 2
  MaxTime = 8
  MaxSec = 3
  ArrivalTimes <- TieFreeArrivals
  Measurements <- PositiveMeasurements
INVARIANTS WholeUnits DriftBounded
PROPERTY ImplementsTimers
CHECK_DEADLOCK FALSE
