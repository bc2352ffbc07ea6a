------------------------------- MODULE Timers -------------------------------
(***************************************************************************)
(* The timer part of main.c: the arrival queue and the TimerInfo with which *)
(* one POSIX timer plays two, "next arrival" and "end of the time slice".  *)
(* Times are counted in time units: every timespec main.c keeps here is a  *)
(* whole multiple of time_unit, because timespec_multiply and              *)
(* timespec_subtract are exact.                                            *)
(*                                                                         *)
(* `clock` is a history variable: the sum of the intervals the timer ran   *)
(* for.  It stops with the last arrival, after which nothing in main.c     *)
(* depends on how much time has passed.  `alarm` says where main.c is:     *)
(*   "armed"     the timer is set (or disarmed, it_value = 0)              *)
(*   "expired"   SIGALRM has been raised and not yet handled               *)
(*   "arriving"  the handler is taking jobs from the arrival queue         *)
(*   "failed"    an assertion or timer_settime failed, main.c has exited   *)
(***************************************************************************)
EXTENDS SchedFifo

CONSTANTS
  Strategy,            \* the policy read from the input
  RR_TIMES_OF_UNIT,    \* main.c: length of a time slice, in units
  ArrivalTimes         \* the arrival_time columns of the inputs considered

Strategies == {"FIFO", "RR", "SJF", "PSJF"}

ASSUME StrategyAssumption == Strategy \in Strategies
ASSUME SliceAssumption    == RR_TIMES_OF_UNIT \in Nat \ {0}
ASSUME ArrivalAssumption  == ArrivalTimes \subseteq [Child -> Int]

VARIABLES
  arrival_time,          \* ProcessInfo.arrival_time, the input; never changes
  arrival_ptr,           \* index of the next job to arrive
  arrival_remaining,     \* TimerInfo
  timeslice_remaining,   \* TimerInfo
  it_value,              \* kernel: what the timer is armed with, 0 = disarmed
  clock,
  alarm

tivars == <<arrival_ptr, arrival_remaining, timeslice_remaining, it_value>>
vars   == <<arrival_time, tivars, clock, alarm>>

-----------------------------------------------------------------------------
(* The functions of main.c *)

arrival_queue_empty == arrival_ptr = num_process

timeunits_until_next_arrival ==
  IF arrival_ptr = 0 THEN arrival_time[0]
  ELSE arrival_time[arrival_ptr] - arrival_time[arrival_ptr - 1]

(* min_timespecp: on a tie it returns its second argument. *)
ArrivalIsMin(ar, ts) == ar < ts

(* The value set_timer passes to timer_settime. *)
set_timer(ptr, ar, ts) ==
  IF Strategy # "RR" THEN ar
  ELSE IF ptr = num_process \/ ~ArrivalIsMin(ar, ts) THEN ts ELSE ar

(* Mutant: the test for an empty arrival queue is missing. *)
get_expire_reason_unchecked ==
  IF Strategy # "RR" \/ ArrivalIsMin(arrival_remaining, timeslice_remaining)
  THEN "PROCESS_ARRIVAL" ELSE "TIMESLICE_OVER"

get_expire_reason ==
  IF Strategy # "RR" THEN "PROCESS_ARRIVAL"
  ELSE IF arrival_queue_empty
          \/ ~ArrivalIsMin(arrival_remaining, timeslice_remaining)
       THEN "TIMESLICE_OVER" ELSE "PROCESS_ARRIVAL"

(* subtract_time_passed: are the two timers being simulated? *)
TwoTimers == Strategy = "RR" /\ ~arrival_queue_empty

(* create_timer_and_init_timespec, up to the raise() of                     *)
(* init_arrival_remaining.  timeslice_remaining stays unused unless RR.     *)
create_timer_and_init_timespec ==
  /\ arrival_ptr = 0
  /\ arrival_remaining = arrival_time[0]
  /\ timeslice_remaining = IF Strategy = "RR" THEN RR_TIMES_OF_UNIT ELSE 0
  /\ it_value = LET v == set_timer(0, arrival_remaining, timeslice_remaining)
                IN  IF v < 0 THEN 0 ELSE v

(* timer_settime refuses a negative value; set_timer then exits.            *)
settime(v) == it_value' = IF v < 0 THEN it_value ELSE v

(* Mutant: the slice is not subtracted from arrival_remaining. *)
timeslice_expired_unsubtracted ==
  /\ timeslice_remaining' = RR_TIMES_OF_UNIT
  /\ settime(set_timer(arrival_ptr, arrival_remaining, timeslice_remaining'))
  /\ UNCHANGED <<arrival_ptr, arrival_remaining>>

(* SIGALRM, time slice over: subtract_time_passed,                          *)
(* update_timeslice_remaining, set_timer.  The assertion of main.c:320, that *)
(* the slice was used up, is an outcome of its own in TimerInfo.            *)
timeslice_expired ==
  /\ arrival_remaining' = IF TwoTimers THEN arrival_remaining - timeslice_remaining
                                       ELSE arrival_remaining
  /\ timeslice_remaining' = RR_TIMES_OF_UNIT
  /\ settime(set_timer(arrival_ptr, arrival_remaining', timeslice_remaining'))
  /\ UNCHANGED arrival_ptr

timeslice_expired_fails ==
  set_timer(arrival_ptr,
            IF TwoTimers THEN arrival_remaining - timeslice_remaining
                         ELSE arrival_remaining,
            RR_TIMES_OF_UNIT) < 0

(* Mutant: the time passed is not subtracted from timeslice_remaining. *)
arrival_expired_unsubtracted ==
  /\ arrival_remaining' = IF TwoTimers THEN 0 ELSE arrival_remaining
  /\ arrival_ptr' = arrival_ptr + 1
  /\ UNCHANGED <<timeslice_remaining, it_value>>

(* SIGALRM, arrival: subtract_time_passed and the first get_arrived_process. *)
arrival_expired ==
  /\ timeslice_remaining' = IF TwoTimers
                            THEN timeslice_remaining - arrival_remaining
                            ELSE timeslice_remaining
  /\ arrival_remaining' = IF TwoTimers THEN 0 ELSE arrival_remaining
  /\ arrival_ptr' = arrival_ptr + 1
  /\ UNCHANGED it_value

(* The condition and the body of the while loop over simultaneous arrivals. *)
another_arrival == ~arrival_queue_empty /\ timeunits_until_next_arrival = 0

get_arrived_process ==
  /\ arrival_ptr' = arrival_ptr + 1
  /\ UNCHANGED <<arrival_remaining, timeslice_remaining, it_value>>

(* After the loop: update_arrival_remaining and set_timer. *)
time_to_next == IF arrival_queue_empty THEN 0 ELSE timeunits_until_next_arrival

(* Mutant: set_timer is not called after arrivals. *)
arrivals_done_unset ==
  /\ arrival_remaining' = time_to_next
  /\ UNCHANGED <<arrival_ptr, timeslice_remaining, it_value>>

arrivals_done ==
  /\ arrival_remaining' = time_to_next
  /\ settime(set_timer(arrival_ptr, arrival_remaining', timeslice_remaining))
  /\ UNCHANGED <<arrival_ptr, timeslice_remaining>>

arrivals_done_fails ==
  \/ arrival_remaining < 0
  \/ set_timer(arrival_ptr, time_to_next, timeslice_remaining) < 0

-----------------------------------------------------------------------------
Init ==
  /\ arrival_time \in ArrivalTimes
  /\ create_timer_and_init_timespec
  /\ clock = 0
  /\ alarm = IF arrival_time[0] = 0 THEN "expired"
             ELSE IF arrival_time[0] < 0 THEN "failed" ELSE "armed"

(* The kernel's timer runs out and raises SIGALRM. *)
TimerExpires ==
  /\ alarm = "armed"
  /\ it_value > 0
  /\ it_value' = 0
  /\ clock' = IF arrival_queue_empty THEN clock ELSE clock + it_value
  /\ alarm' = "expired"
  /\ UNCHANGED <<arrival_time, arrival_ptr, arrival_remaining, timeslice_remaining>>

TimesliceOver ==
  /\ alarm = "expired"
  /\ get_expire_reason = "TIMESLICE_OVER"
  /\ timeslice_expired
  /\ alarm' = IF timeslice_expired_fails THEN "failed" ELSE "armed"
  /\ UNCHANGED <<arrival_time, clock>>

ProcessArrival ==
  /\ alarm = "expired"
  /\ get_expire_reason = "PROCESS_ARRIVAL"
  /\ arrival_expired
  /\ alarm' = "arriving"
  /\ UNCHANGED <<arrival_time, clock>>

AnotherArrival ==
  /\ alarm = "arriving"
  /\ another_arrival
  /\ get_arrived_process
  /\ UNCHANGED <<arrival_time, clock, alarm>>

ArrivalsDone ==
  /\ alarm = "arriving"
  /\ ~another_arrival
  /\ arrivals_done
  /\ alarm' = IF arrivals_done_fails THEN "failed" ELSE "armed"
  /\ UNCHANGED <<arrival_time, clock>>

Next == TimerExpires \/ TimesliceOver \/ ProcessArrival \/ AnotherArrival \/ ArrivalsDone

Spec == Init /\ [][Next]_vars

(* The kernel's timer does expire, and main.c does handle it. *)
FairSpec == Spec /\ WF_vars(Next)

-----------------------------------------------------------------------------
(* Properties *)

(* t is a multiple of the slice length. *)
Aligned(t) == \E m \in 0 .. t : t = m * RR_TIMES_OF_UNIT

(* report.md: "the ready time won't be a multiple of 500, and our code is   *)
(* written based on this assumption".  Arrivals at time 0 are harmless.     *)
TieFree(a) == \A i \in Child : a[i] > 0 => ~Aligned(a[i])

(* The input lists the jobs in the order of their arrival. *)
Sorted(a) == \A i, j \in Child : i <= j => 0 <= a[i] /\ a[i] <= a[j]

(* Every variable has its type. *)
TypeOK ==
  /\ arrival_time \in ArrivalTimes
  /\ arrival_ptr \in 0 .. num_process
  /\ arrival_remaining \in Int
  /\ timeslice_remaining \in Int
  /\ it_value \in Nat
  /\ clock \in Nat
  /\ alarm \in {"armed", "expired", "arriving", "failed"}

(* Every job is taken from the arrival queue exactly at its arrival_time,   *)
(* although for RR the one timer is re-armed at every end of a slice in     *)
(* between (main.c:242-247).                                                *)
ArrivalsOnTime ==
  alarm = "arriving" =>
    arrival_ptr \in 1 .. num_process /\ arrival_time[arrival_ptr - 1] = clock

(* Time slices end at the multiples of the slice length, although arrivals  *)
(* interrupt them: timeslice_remaining loses exactly the time that passed.  *)
SlicesOnTime ==
  alarm = "expired" /\ get_expire_reason = "TIMESLICE_OVER" /\ ~arrival_queue_empty
    => Aligned(clock)

(* The timer is never left disarmed while something is still to happen: a   *)
(* job to arrive or, for RR, the end of the next slice.                     *)
TimerAlive ==
  alarm = "armed" /\ (Strategy = "RR" \/ ~arrival_queue_empty) => it_value > 0

(* get_arrived_process never runs past the end of all_process_info: no      *)
(* SIGALRM is taken for an arrival when the arrival queue is empty.         *)
NoOverrun ==
  alarm = "expired" /\ get_expire_reason = "PROCESS_ARRIVAL" => ~arrival_queue_empty

(* If the input is sorted, every job arrives: the timer is set again after  *)
(* every alarm until the arrival queue is empty (main.c:360).               *)
EveryJobArrives == Sorted(arrival_time) ~> arrival_queue_empty

-----------------------------------------------------------------------------
(* The inductive invariant: what the two counters of TimerInfo and the      *)
(* timer stand for, measured by the clock.                                  *)

Armed == set_timer(arrival_ptr, arrival_remaining, timeslice_remaining)

(* While the timer runs: arrival_remaining and timeslice_remaining are the  *)
(* exact distances to the next arrival and to the next end of a slice, and  *)
(* the timer is set to the lesser one.                                      *)
ArmedInv ==
  /\ it_value = IF Strategy # "RR" /\ arrival_queue_empty THEN 0 ELSE Armed
  /\ Strategy = "RR" => timeslice_remaining > 0
  /\ ~arrival_queue_empty =>
       /\ arrival_remaining > 0
       /\ clock + arrival_remaining = arrival_time[arrival_ptr]
       /\ Strategy = "RR" => Aligned(clock + timeslice_remaining)

(* Between SIGALRM and its handling both counters are late by the interval  *)
(* the timer was set to.                                                    *)
ExpiredInv ==
  /\ it_value = 0
  /\ Strategy = "RR" => timeslice_remaining > 0
  /\ Strategy = "RR" \/ ~arrival_queue_empty
  /\ ~arrival_queue_empty =>
       /\ arrival_remaining >= 0
       /\ clock >= Armed
       /\ clock + arrival_remaining = arrival_time[arrival_ptr] + Armed
       /\ Strategy = "RR" => Aligned(clock + timeslice_remaining - Armed)

(* While jobs are taken from the arrival queue the clock shows the arrival  *)
(* time of the last one taken.                                              *)
ArrivingInv ==
  /\ it_value = 0
  /\ arrival_ptr > 0
  /\ clock = arrival_time[arrival_ptr - 1]
  /\ arrival_remaining >= 0
  /\ Strategy = "RR" => timeslice_remaining > 0 /\ Aligned(clock + timeslice_remaining)

Inv ==
  /\ TypeOK
  /\ Strategy = "RR" => TieFree(arrival_time)
  /\ alarm = "armed" => ArmedInv
  /\ alarm = "expired" => ExpiredInv
  /\ alarm = "arriving" => ArrivingInv

(* The timers on an input without ties. *)
TieFreeSpec == Spec /\ (Strategy = "RR" => TieFree(arrival_time))
=============================================================================
