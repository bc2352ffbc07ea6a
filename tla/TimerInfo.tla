----------------------------- MODULE TimerInfo ------------------------------
(***************************************************************************)
(* The timers of main.c once more, now with the struct timespec they are   *)
(* really kept in: the time unit measured at the start, every remaining    *)
(* time a product of it, every comparison and subtraction done on seconds  *)
(* and nanoseconds.  Module Timers counts whole units instead; this module *)
(* implements it.  `elapsed` is a history variable: the nanoseconds the    *)
(* timer ran for, up to the last arrival.  `alarm` is as in Timers.        *)
(***************************************************************************)
EXTENDS SchedFifo, Timespec

CONSTANTS
  Strategy,               \* the policy read from the input
  RR_TIMES_OF_UNIT,       \* main.c: length of a time slice, in units
  UNIT_MEASURE_REPEAT,    \* main.c: how many units are measured together
  ArrivalTimes,           \* the arrival_time columns of the inputs considered
  Measurements            \* the readings [begin, end] of the clock considered

ASSUME PolicyAssumption ==
  Strategy \in {"FIFO", "RR", "SJF", "PSJF"} /\ RR_TIMES_OF_UNIT \in Nat \ {0}
ASSUME ArrivalsAssumption == ArrivalTimes \subseteq [Child -> Int]

(* A reading of the clock is normalised, and a unit, a loop of a million    *)
(* rounds, takes a nanosecond or more.                                      *)
ASSUME MeasureAssumption ==
  /\ UNIT_MEASURE_REPEAT \in Nat \ {0}
  /\ \A m \in Measurements :
       /\ m.begin \in [tv_sec : Int, tv_nsec : Int] /\ Normal(m.begin)
       /\ m.end \in [tv_sec : Int, tv_nsec : Int] /\ Normal(m.end)
       /\ Ns(m.end) - Ns(m.begin) >= UNIT_MEASURE_REPEAT

VARIABLES
  measured,               \* measure_time_unit: the two readings
  time_unit,              \* TimerInfo
  arrival_time,           \* ProcessInfo.arrival_time
  arrival_ptr,            \* index of the next job to arrive
  arrival_remaining,      \* TimerInfo
  timeslice_remaining,    \* TimerInfo
  it_value,               \* kernel: what the timer is armed with, 0 = disarmed
  elapsed,
  alarm

input == <<measured, time_unit, arrival_time>>
vars  == <<input, arrival_ptr, arrival_remaining, timeslice_remaining, it_value, elapsed, alarm>>

Zero == Timespec(0, 0)

-----------------------------------------------------------------------------
(* The functions of main.c *)

measure_time_unit(m) ==
  timespec_divide(timespec_subtract(m.end, m.begin), UNIT_MEASURE_REPEAT)

arrival_queue_empty == arrival_ptr = num_process

timeunits_until_next_arrival ==
  IF arrival_ptr = 0 THEN arrival_time[0]
  ELSE arrival_time[arrival_ptr] - arrival_time[arrival_ptr - 1]

set_timer(ptr, ar, ts) ==
  IF Strategy # "RR" THEN ar
  ELSE IF ptr # num_process /\ min_is_lhs(ar, ts) THEN ar ELSE ts

(* timer_settime: EINVAL unless it is given a normalised time, not negative. *)
settime_fails(v) == ~(v.tv_sec >= 0 /\ Normal(v))
settime(v)       == it_value' = IF settime_fails(v) THEN it_value ELSE v

TwoTimers == Strategy = "RR" /\ ~arrival_queue_empty

ArrivalIsMin == min_is_lhs(arrival_remaining, timeslice_remaining)

get_expire_reason ==
  IF Strategy # "RR" \/ (~arrival_queue_empty /\ ArrivalIsMin)
  THEN "PROCESS_ARRIVAL" ELSE "TIMESLICE_OVER"

(* subtract_time_passed: the pair of remaining times after it. *)
subtract_time_passed ==
  CASE ~TwoTimers                 -> <<arrival_remaining, timeslice_remaining>>
    [] TwoTimers /\ ArrivalIsMin  ->
         <<Zero, timespec_subtract(timeslice_remaining, arrival_remaining)>>
    [] TwoTimers /\ ~ArrivalIsMin ->
         <<timespec_subtract(arrival_remaining, timeslice_remaining), Zero>>

time_slice == timespec_multiply(time_unit, RR_TIMES_OF_UNIT)

-----------------------------------------------------------------------------
(* create_timer_and_init_timespec.  timeslice_remaining is not written, and *)
(* never read, unless the policy is RR.                                     *)
Init ==
  /\ arrival_time \in ArrivalTimes
  /\ measured \in Measurements
  /\ time_unit = measure_time_unit(measured)
  /\ arrival_ptr = 0
  /\ arrival_remaining = timespec_multiply(time_unit, timeunits_until_next_arrival)
  /\ timeslice_remaining = IF Strategy = "RR" THEN time_slice ELSE Zero
  /\ LET v == set_timer(0, arrival_remaining, timeslice_remaining) IN
       /\ it_value = IF settime_fails(v) THEN Zero ELSE v
       /\ alarm = IF arrival_time[0] = 0 THEN "expired"
                  ELSE IF settime_fails(v) THEN "failed" ELSE "armed"
  /\ elapsed = 0

(* The kernel's timer runs out and raises SIGALRM. *)
TimerExpires ==
  /\ alarm = "armed"
  /\ it_value # Zero
  /\ it_value' = Zero
  /\ elapsed' = IF arrival_queue_empty THEN elapsed ELSE elapsed + Ns(it_value)
  /\ alarm' = "expired"
  /\ UNCHANGED <<input, arrival_ptr, arrival_remaining, timeslice_remaining>>

(* update_timeslice_remaining and set_timer. *)
TimesliceOver ==
  LET passed == subtract_time_passed
      v      == set_timer(arrival_ptr, passed[1], time_slice)
  IN
  /\ alarm = "expired"
  /\ get_expire_reason = "TIMESLICE_OVER"
  /\ arrival_remaining' = passed[1]
  /\ timeslice_remaining' = time_slice
  /\ settime(v)
  /\ alarm' = IF nonnegative(passed[2]) /\ ~settime_fails(v) THEN "armed" ELSE "failed"
  /\ UNCHANGED <<input, arrival_ptr, elapsed>>

ProcessArrival ==
  /\ alarm = "expired"
  /\ get_expire_reason = "PROCESS_ARRIVAL"
  /\ arrival_remaining' = subtract_time_passed[1]
  /\ timeslice_remaining' = subtract_time_passed[2]
  /\ arrival_ptr' = arrival_ptr + 1
  /\ alarm' = "arriving"
  /\ UNCHANGED <<input, it_value, elapsed>>

another_arrival == ~arrival_queue_empty /\ timeunits_until_next_arrival = 0

AnotherArrival ==
  /\ alarm = "arriving"
  /\ another_arrival
  /\ arrival_ptr' = arrival_ptr + 1
  /\ UNCHANGED <<input, arrival_remaining, timeslice_remaining, it_value, elapsed, alarm>>

(* update_arrival_remaining (arrival_time is 0 when the loop found the queue *)
(* empty) and set_timer.                                                     *)
ArrivalsDone ==
  LET units == IF arrival_queue_empty THEN 0 ELSE timeunits_until_next_arrival
      next  == timespec_multiply(time_unit, units)
      v     == set_timer(arrival_ptr, next, timeslice_remaining)
  IN
  /\ alarm = "arriving"
  /\ ~another_arrival
  /\ arrival_remaining' = next
  /\ settime(v)
  /\ alarm' = IF nonnegative(arrival_remaining) /\ ~settime_fails(v)
              THEN "armed" ELSE "failed"
  /\ UNCHANGED <<input, arrival_ptr, timeslice_remaining, elapsed>>

Next == TimerExpires \/ TimesliceOver \/ ProcessArrival \/ AnotherArrival \/ ArrivalsDone

Spec == Init /\ [][Next]_vars

-----------------------------------------------------------------------------
(* Properties *)

Units(t) == Ns(t) \div Ns(time_unit)

T == INSTANCE Timers
       WITH arrival_remaining   <- Units(arrival_remaining),
            timeslice_remaining <- Units(timeslice_remaining),
            it_value            <- Units(it_value),
            clock               <- elapsed \div Ns(time_unit)

(* Whatever the measured unit, the carries and borrows of main.c:450-474    *)
(* and the comparison of min_timespecp never change an outcome: measured in *)
(* units the timers behave as module Timers, so its theorems hold of them.  *)
ImplementsTimers == T!Spec

(* No remainder of a unit accumulates, and timer_settime is never handed a  *)
(* time it refuses unless the input is unsorted: both remaining times stay  *)
(* whole multiples of time_unit through every subtraction, and normalised.  *)
WholeUnits ==
  alarm \in {"armed", "arriving"} =>
    \A t \in {arrival_remaining, timeslice_remaining, it_value} :
      Normal(t) /\ Ns(t) = Units(t) * Ns(time_unit)

(* report.md: "the program runs for 1000 time units to determine the actual *)
(* time for each time unit".  The unit is rounded down, so a job that is to *)
(* arrive after a units arrives early, by less than a nanoseconds.          *)
DriftBounded ==
  alarm = "arriving" =>
    LET a == arrival_time[arrival_ptr - 1]
        m == Ns(measured.end) - Ns(measured.begin)
    IN  /\ UNIT_MEASURE_REPEAT * elapsed <= a * m
        /\ a > 0 => a * m < UNIT_MEASURE_REPEAT * (elapsed + a)

-----------------------------------------------------------------------------
(* The inductive invariant *)

Unit == Ns(time_unit)

(* A time that timer_settime accepts, and a whole number of units. *)
Whole(t) ==
  /\ t \in [tv_sec : Nat, tv_nsec : Nat]
  /\ Normal(t)
  /\ \E k \in 0 .. Ns(t) : Ns(t) = k * Unit

UnitInv ==
  /\ measured \in Measurements
  /\ time_unit = measure_time_unit(measured)
  /\ arrival_time \in ArrivalTimes
  /\ arrival_ptr \in 0 .. num_process
  /\ alarm \in {"armed", "expired", "arriving", "failed"}
  /\ \E k \in 0 .. elapsed : elapsed = k * Unit

(* Every time main.c keeps is whole until timer_settime refuses one; and    *)
(* without RR an alarm is an arrival, so the arrival queue is not overrun.  *)
Inv ==
  /\ UnitInv
  /\ alarm # "failed" =>
       /\ Whole(arrival_remaining) /\ Whole(timeslice_remaining) /\ Whole(it_value)
       /\ alarm = "arriving" => arrival_ptr > 0
       /\ Strategy # "RR" /\ arrival_queue_empty => alarm # "expired"
       /\ Strategy # "RR" /\ arrival_queue_empty /\ alarm = "armed" => it_value = Zero
=============================================================================
