---------------------------- MODULE MCTimerInfo -----------------------------
(* The timers in seconds and nanoseconds, over all small inputs without     *)
(* ties and all measurements of at least one nanosecond for a unit.         *)
EXTENDS TimerInfo

CONSTANTS MaxTime,     \* latest arrival time tried
          MaxSec       \* latest second of the clock readings tried

Readings == [tv_sec : 0 .. MaxSec, tv_nsec : 0 .. BILLION - 1]

PositiveMeasurements ==
  {m \in [begin : {t \in Readings : t.tv_sec = 0}, end : Readings] :
     Ns(m.end) - Ns(m.begin) >= UNIT_MEASURE_REPEAT}

TieFreeArrivals ==
  {a \in [Child -> 0 .. MaxTime] : \A i \in Child : a[i] > 0 => a[i] % RR_TIMES_OF_UNIT # 0}
=============================================================================
