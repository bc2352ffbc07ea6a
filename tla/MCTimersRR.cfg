SPECIFICATION FairSpec
CONSTANTS
  num_process = 3
  Strategy = "RR"
  RR_TIMES_OF_UNIT = 3
  MaxTime = 8
  ArrivalTimes <- TieFreeArrivals
INVARIANTS ArrivalsOnTime SlicesOnTime TimerAlive NoOverrun
PROPERTY EveryJobArrives
CHECK_DEADLOCK FALSE
