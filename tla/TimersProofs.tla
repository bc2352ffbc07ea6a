---------------------------- MODULE TimersProofs ----------------------------
(***************************************************************************)
(* What module Timers checks on small inputs, proved for every number of   *)
(* jobs, every slice length and every input without ties: the one timer    *)
(* delivers every arrival and every end of a slice exactly on time, is     *)
(* never left disarmed, and the arrival queue is never overrun.            *)
(***************************************************************************)
EXTENDS Timers, TLAPS

(* The end of a slice that starts on a multiple of the slice length is one. *)
LEMMA AlignedNext ==
  ASSUME NEW t \in Nat, Aligned(t)
  PROVE  Aligned(t + RR_TIMES_OF_UNIT)
<1>1. PICK m \in 0 .. t : t = m * RR_TIMES_OF_UNIT
  BY DEF Aligned
<1>2. /\ m + 1 \in 0 .. (t + RR_TIMES_OF_UNIT)
      /\ t + RR_TIMES_OF_UNIT = (m + 1) * RR_TIMES_OF_UNIT
  BY <1>1, SliceAssumption
<1> QED
  BY <1>2 DEF Aligned

(* The first slice ends on a multiple of the slice length. *)
LEMMA AlignedFirst == Aligned(RR_TIMES_OF_UNIT)
<1>1. 1 \in 0 .. RR_TIMES_OF_UNIT /\ RR_TIMES_OF_UNIT = 1 * RR_TIMES_OF_UNIT
  BY SliceAssumption
<1> QED
  BY <1>1 DEF Aligned

(* The arrival times of an input, and the indices that may be used on it. *)
LEMMA InputType ==
  ASSUME TypeOK
  PROVE  /\ arrival_time \in [Child -> Int]
         /\ num_process \in Nat \ {0}
         /\ 0 \in Child
         /\ ~arrival_queue_empty => arrival_ptr \in Child
         /\ arrival_ptr > 0 => arrival_ptr - 1 \in Child
BY ArrivalAssumption, NumProcessAssumption DEF TypeOK, Child, arrival_queue_empty

-----------------------------------------------------------------------------
(* main.c reaches its loop in a state that satisfies the invariant. *)
LEMMA InitInv ==
  ASSUME Init, Strategy = "RR" => TieFree(arrival_time)
  PROVE  Inv
<1> USE NumProcessAssumption, SliceAssumption
<1>1. arrival_time \in [Child -> Int] /\ 0 \in Child /\ num_process # 0
  BY ArrivalAssumption DEF Init, Child
<1>2. arrival_time[0] \in Int
  BY <1>1
<1>3. TypeOK
  BY <1>1, <1>2
  DEF Init, TypeOK, create_timer_and_init_timespec, set_timer, ArrivalIsMin
<1>4. alarm = "armed" => ArmedInv
  <2> SUFFICES ASSUME alarm = "armed" PROVE ArmedInv
    OBVIOUS
  <2>1. arrival_time[0] > 0
    BY <1>2 DEF Init
  <2>2. Strategy = "RR" => Aligned(clock + timeslice_remaining)
    BY AlignedFirst DEF Init, create_timer_and_init_timespec
  <2> QED
    BY <1>1, <1>2, <2>1, <2>2
    DEF ArmedInv, Armed, Init, create_timer_and_init_timespec, set_timer,
        ArrivalIsMin, arrival_queue_empty
<1>5. alarm = "expired" => ExpiredInv
  <2> SUFFICES ASSUME alarm = "expired" PROVE ExpiredInv
    OBVIOUS
  <2>1. arrival_time[0] = 0
    BY <1>2 DEF Init
  <2>2. Armed = 0
    BY <2>1, <1>1 DEF Armed, Init, create_timer_and_init_timespec, set_timer, ArrivalIsMin
  <2>3. Strategy = "RR" => Aligned(clock + timeslice_remaining - Armed)
    BY AlignedFirst, <2>2 DEF Init, create_timer_and_init_timespec
  <2> QED
    BY <1>1, <2>1, <2>2, <2>3
    DEF ExpiredInv, Armed, Init, create_timer_and_init_timespec, set_timer,
        ArrivalIsMin, arrival_queue_empty
<1>6. alarm # "arriving"
  BY DEF Init
<1> QED
  BY <1>3, <1>4, <1>5, <1>6 DEF Inv

(* The kernel's timer: both counters are late from here on. *)
LEMMA TimerExpiresInv ==
  ASSUME Inv, TimerExpires
  PROVE  Inv'
<1>1. ArmedInv /\ TypeOK
  BY DEF Inv, TimerExpires
<1>2. TypeOK'
  BY <1>1 DEF TypeOK, TimerExpires
<1>3. Strategy = "RR" \/ ~arrival_queue_empty
  BY <1>1 DEF ArmedInv, TimerExpires
<1>4. it_value = Armed /\ Armed' = Armed
  BY <1>1, <1>3 DEF ArmedInv, TimerExpires, Armed, set_timer, ArrivalIsMin
<1>5. ~arrival_queue_empty =>
        /\ clock' = clock + Armed
        /\ clock' + timeslice_remaining' - Armed' = clock + timeslice_remaining
  BY <1>1, <1>4 DEF TimerExpires, TypeOK
<1>6. ASSUME ~arrival_queue_empty, Strategy = "RR"
      PROVE  Aligned(clock' + timeslice_remaining' - Armed')
  BY <1>1, <1>5, <1>6 DEF ArmedInv
<1>7. ExpiredInv'
  <2>1. arrival_queue_empty' = arrival_queue_empty
    BY DEF TimerExpires, arrival_queue_empty
  <2>2. /\ it_value' = 0
        /\ Strategy = "RR" => timeslice_remaining' > 0
    BY <1>1 DEF ArmedInv, TimerExpires
  <2>3. ASSUME ~arrival_queue_empty
        PROVE  /\ arrival_remaining' >= 0
               /\ clock' >= Armed'
               /\ clock' + arrival_remaining' = arrival_time'[arrival_ptr'] + Armed'
    BY <2>3, <1>1, <1>4, <1>5, InputType DEF ArmedInv, TimerExpires, TypeOK
  <2>4. (Aligned(clock + timeslice_remaining - Armed))'
          <=> Aligned(clock' + timeslice_remaining' - Armed')
    BY DEF Aligned
  <2> QED
    BY <1>3, <1>6, <2>1, <2>2, <2>3, <2>4 DEF ExpiredInv
<1>8. (Strategy = "RR" => TieFree(arrival_time))'
  BY DEF Inv, TimerExpires, TieFree, Aligned
<1> QED
  BY <1>2, <1>7, <1>8 DEF Inv, TimerExpires

(* The end of a slice: what is left until the next arrival is not zero, or  *)
(* the arrival would be at a multiple of the slice length.                  *)
LEMMA TimesliceOverInv ==
  ASSUME Inv, TimesliceOver
  PROVE  Inv'
<1> USE SliceAssumption
<1>1. /\ ExpiredInv /\ TypeOK /\ Strategy = "RR" /\ TieFree(arrival_time)
      /\ Armed = timeslice_remaining
  BY DEF Inv, TimesliceOver, get_expire_reason, Armed, set_timer, arrival_queue_empty
<1>2. /\ arrival_queue_empty' = arrival_queue_empty
      /\ arrival_ptr' = arrival_ptr /\ arrival_time' = arrival_time /\ clock' = clock
      /\ timeslice_remaining' = RR_TIMES_OF_UNIT
  BY DEF TimesliceOver, timeslice_expired, arrival_queue_empty
<1>3. ASSUME ~arrival_queue_empty
      PROVE  /\ arrival_remaining' = arrival_remaining - timeslice_remaining
             /\ arrival_remaining' >= 0
             /\ clock + arrival_remaining' = arrival_time[arrival_ptr]
             /\ Aligned(clock)
             /\ clock > 0
  <2>1. arrival_remaining' = arrival_remaining - timeslice_remaining
    BY <1>1, <1>3 DEF TimesliceOver, timeslice_expired, TwoTimers
  <2>2. ~(arrival_remaining < timeslice_remaining)
    BY <1>1, <1>3 DEF TimesliceOver, get_expire_reason, ArrivalIsMin
  <2>3. clock + timeslice_remaining - Armed = clock
    BY <1>1 DEF TypeOK
  <2>4. Aligned(clock)
    BY <1>1, <1>3, <2>3 DEF ExpiredInv
  <2>5. arrival_time[arrival_ptr] \in Int
    BY <1>1, <1>3, InputType
  <2> QED
    BY <1>1, <1>3, <2>1, <2>2, <2>4, <2>5 DEF ExpiredInv, TypeOK
<1>4. ASSUME ~arrival_queue_empty
      PROVE  arrival_remaining' > 0
  <2>1. arrival_ptr \in Child
    BY <1>1, <1>4, InputType
  <2>2. SUFFICES ASSUME arrival_remaining' = 0 PROVE FALSE
    BY <1>1, <1>3, <1>4 DEF TypeOK
  <2>3. arrival_time[arrival_ptr] = clock
    BY <2>2, <1>1, <1>3, <1>4 DEF TypeOK
  <2> QED
    BY <2>1, <2>3, <1>1, <1>3, <1>4 DEF TieFree
<1>5. /\ arrival_remaining' \in Int
      /\ arrival_queue_empty => arrival_remaining' = arrival_remaining
  BY <1>1 DEF TimesliceOver, timeslice_expired, TypeOK, TwoTimers
<1>6. /\ Armed' = set_timer(arrival_ptr, arrival_remaining', RR_TIMES_OF_UNIT)
      /\ Armed' \in Nat /\ Armed' > 0
  BY <1>1, <1>2, <1>4, <1>5
  DEF Armed, set_timer, ArrivalIsMin, TypeOK, arrival_queue_empty
<1>7. it_value' = Armed'
  BY <1>2, <1>6 DEF TimesliceOver, timeslice_expired, settime
<1>8. ~timeslice_expired_fails
  BY <1>1, <1>5, <1>6 DEF timeslice_expired_fails, TimesliceOver, timeslice_expired
<1>9. alarm' = "armed"
  BY <1>8 DEF TimesliceOver
<1>10. TypeOK'
  BY <1>1, <1>2, <1>5, <1>6, <1>7, <1>9 DEF TypeOK
<1>11. ArmedInv'
  <2>1. ~arrival_queue_empty => Aligned(clock + RR_TIMES_OF_UNIT)
    BY <1>1, <1>3, AlignedNext DEF TypeOK
  <2>2. (Aligned(clock + timeslice_remaining))' <=> Aligned(clock' + timeslice_remaining')
    BY DEF Aligned
  <2>3. ~arrival_queue_empty => (Aligned(clock + timeslice_remaining))'
    BY <2>1, <2>2, <1>2
  <2> QED
    BY <1>1, <1>2, <1>3, <1>4, <1>7, <2>3 DEF ArmedInv
<1>12. TieFree(arrival_time)'
  BY <1>1, <1>2 DEF TieFree, Aligned
<1> QED
  BY <1>9, <1>10, <1>11, <1>12 DEF Inv

(* An arrival: the clock shows the arrival time of the job that is taken.   *)
LEMMA ProcessArrivalInv ==
  ASSUME Inv, ProcessArrival
  PROVE  Inv'
<1>1. ExpiredInv /\ TypeOK /\ ~arrival_queue_empty /\ Armed = arrival_remaining
  BY DEF Inv, ProcessArrival, get_expire_reason, ExpiredInv, Armed, set_timer, arrival_queue_empty
<1>2. /\ arrival_ptr' = arrival_ptr + 1
      /\ arrival_time' = arrival_time /\ clock' = clock /\ it_value' = it_value
      /\ alarm' = "arriving"
  BY DEF ProcessArrival, arrival_expired
<1>3. clock = arrival_time[arrival_ptr] /\ arrival_ptr \in Child
  BY <1>1, InputType DEF ExpiredInv, TypeOK
<1>4. arrival_remaining' \in Int /\ arrival_remaining' >= 0 /\ timeslice_remaining' \in Int
  BY <1>1 DEF ProcessArrival, arrival_expired, ExpiredInv, TypeOK
<1>5. ASSUME Strategy = "RR"
      PROVE  timeslice_remaining' > 0 /\ Aligned(clock' + timeslice_remaining')
  <2>1. timeslice_remaining' = timeslice_remaining - arrival_remaining
    BY <1>1, <1>5 DEF ProcessArrival, arrival_expired, TwoTimers
  <2>2. arrival_remaining < timeslice_remaining
    BY <1>1, <1>5 DEF ProcessArrival, get_expire_reason, ArrivalIsMin
  <2>3. clock + timeslice_remaining - Armed = clock' + timeslice_remaining'
    BY <2>1, <1>1, <1>2 DEF TypeOK
  <2> QED
    BY <2>1, <2>2, <2>3, <1>1, <1>5 DEF ExpiredInv, TypeOK
<1>6. TypeOK'
  BY NumProcessAssumption, <1>1, <1>2, <1>4 DEF TypeOK, arrival_queue_empty
<1>7. ArrivingInv'
  <2>1. (Aligned(clock + timeslice_remaining))' <=> Aligned(clock' + timeslice_remaining')
    BY DEF Aligned
  <2>2. arrival_ptr' > 0 /\ clock' = arrival_time'[arrival_ptr' - 1]
    BY <1>1, <1>2, <1>3 DEF TypeOK
  <2> QED
    BY <1>1, <1>2, <1>4, <1>5, <2>1, <2>2 DEF ArrivingInv, ExpiredInv
<1>8. (Strategy = "RR" => TieFree(arrival_time))'
  BY <1>2 DEF Inv, TieFree, Aligned
<1> QED
  BY <1>2, <1>6, <1>7, <1>8 DEF Inv

(* Jobs that arrive together are taken at the same time. *)
LEMMA AnotherArrivalInv ==
  ASSUME Inv, AnotherArrival
  PROVE  Inv'
<1>1. ArrivingInv /\ TypeOK /\ ~arrival_queue_empty
  BY DEF Inv, AnotherArrival, another_arrival
<1>2. /\ arrival_ptr' = arrival_ptr + 1 /\ alarm' = "arriving"
      /\ UNCHANGED <<arrival_time, clock, it_value, arrival_remaining, timeslice_remaining>>
  BY DEF AnotherArrival, get_arrived_process, Inv
<1>3. clock = arrival_time[arrival_ptr]
  BY <1>1, InputType
  DEF AnotherArrival, another_arrival, timeunits_until_next_arrival, ArrivingInv, TypeOK
<1>4. TypeOK'
  BY NumProcessAssumption, <1>1, <1>2 DEF TypeOK, arrival_queue_empty
<1>5. ArrivingInv'
  <2>1. arrival_ptr' > 0 /\ clock' = arrival_time'[arrival_ptr' - 1]
    BY <1>1, <1>2, <1>3 DEF TypeOK
  <2> QED
    BY <1>1, <1>2, <2>1 DEF ArrivingInv, Aligned
<1>6. (Strategy = "RR" => TieFree(arrival_time))'
  BY <1>2 DEF Inv, TieFree, Aligned
<1> QED
  BY <1>2, <1>4, <1>5, <1>6 DEF Inv

(* After the arrivals the timer is set to the next event, or refused: an    *)
(* input that is not sorted ends the program here.                          *)
LEMMA ArrivalsDoneInv ==
  ASSUME Inv, ArrivalsDone
  PROVE  Inv'
<1>1. ArrivingInv /\ TypeOK /\ ~another_arrival
  BY DEF Inv, ArrivalsDone
<1>2. /\ arrival_remaining' = time_to_next
      /\ arrival_queue_empty' = arrival_queue_empty
      /\ UNCHANGED <<arrival_time, clock, arrival_ptr, timeslice_remaining>>
      /\ Armed' = set_timer(arrival_ptr, time_to_next, timeslice_remaining)
  BY DEF ArrivalsDone, arrivals_done, arrival_queue_empty, Armed
<1>3. /\ time_to_next \in Int
      /\ arrival_queue_empty => time_to_next = 0
      /\ ~arrival_queue_empty => /\ time_to_next # 0
                                 /\ clock + time_to_next = arrival_time[arrival_ptr]
  BY <1>1, InputType
  DEF time_to_next, another_arrival, timeunits_until_next_arrival, ArrivingInv, TypeOK
<1>4. Armed' \in Int
  BY <1>1, <1>2, <1>3 DEF set_timer, TypeOK
<1>5. it_value' = IF Armed' < 0 THEN it_value ELSE Armed'
  BY <1>2 DEF ArrivalsDone, arrivals_done, settime, Armed
<1>6. TypeOK'
  BY <1>1, <1>2, <1>3, <1>4, <1>5 DEF TypeOK, ArrivalsDone
<1>7. ASSUME alarm' = "armed"
      PROVE  ArmedInv'
  <2>1. ~(Armed' < 0)
    BY <1>7, <1>2 DEF ArrivalsDone, arrivals_done_fails
  <2>2. ~arrival_queue_empty => time_to_next > 0
    BY <2>1, <1>1, <1>2, <1>3 DEF set_timer, ArrivalIsMin, arrival_queue_empty, ArrivingInv, TypeOK
  <2>3. Strategy # "RR" /\ arrival_queue_empty => Armed' = 0
    BY <1>2, <1>3 DEF set_timer
  <2>4. (Aligned(clock + timeslice_remaining))' <=> Aligned(clock + timeslice_remaining)
    BY <1>2 DEF Aligned
  <2> QED
    BY <2>1, <2>2, <2>3, <2>4, <1>1, <1>2, <1>3, <1>5 DEF ArmedInv, ArrivingInv
<1>8. (Strategy = "RR" => TieFree(arrival_time))'
  BY <1>2 DEF Inv, TieFree, Aligned
<1>9. alarm' \in {"armed", "failed"}
  BY DEF ArrivalsDone
<1> QED
  BY <1>6, <1>7, <1>8, <1>9 DEF Inv

-----------------------------------------------------------------------------
(* Every step preserves the invariant. *)
LEMMA NextInv ==
  ASSUME Inv, [Next]_vars
  PROVE  Inv'
<1>1. CASE UNCHANGED vars
  BY <1>1
  DEF Inv, vars, tivars, TypeOK, TieFree, Aligned, ArmedInv, ExpiredInv, ArrivingInv,
      Armed, set_timer, arrival_queue_empty
<1> QED
  BY <1>1, TimerExpiresInv, TimesliceOverInv, ProcessArrivalInv, AnotherArrivalInv,
     ArrivalsDoneInv DEF Next

(* On an input without ties the two counters of TimerInfo always stand for  *)
(* the exact distances to the next arrival and to the next end of a slice.  *)
THEOREM Invariance == TieFreeSpec => []Inv
<1>1. Init /\ (Strategy = "RR" => TieFree(arrival_time)) => Inv
  BY InitInv
<1>2. Inv /\ [Next]_vars => Inv'
  BY NextInv
<1> QED
  BY <1>1, <1>2, PTL DEF TieFreeSpec, Spec

(* Every job is taken from the arrival queue exactly at its arrival_time,   *)
(* whatever ends of slices lie in between.                                  *)
THEOREM OnTime == TieFreeSpec => []ArrivalsOnTime
<1>1. Inv => ArrivalsOnTime
  BY DEF Inv, ArrivingInv, ArrivalsOnTime, TypeOK
<1> QED
  BY <1>1, Invariance, PTL

(* Every SIGALRM taken for the end of a slice comes at a multiple of the    *)
(* slice length, whatever arrivals interrupted the slice.                   *)
THEOREM SliceEnds == TieFreeSpec => []SlicesOnTime
<1>1. ASSUME Inv PROVE SlicesOnTime
  <2> SUFFICES ASSUME alarm = "expired", get_expire_reason = "TIMESLICE_OVER",
                      ~arrival_queue_empty
               PROVE  Aligned(clock)
    BY DEF SlicesOnTime
  <2>1. Strategy = "RR" /\ Armed = timeslice_remaining
    BY DEF get_expire_reason, Armed, set_timer, arrival_queue_empty
  <2>2. clock + timeslice_remaining - Armed = clock
    BY <1>1, <2>1 DEF Inv, TypeOK
  <2> QED
    BY <1>1, <2>1, <2>2 DEF Inv, ExpiredInv
<1> QED
  BY <1>1, Invariance, PTL

(* The timer is never left disarmed while an arrival or the end of a slice  *)
(* is due.                                                                  *)
THEOREM Alive == TieFreeSpec => []TimerAlive
<1>1. Inv => TimerAlive
  BY DEF Inv, ArmedInv, TimerAlive, Armed, set_timer, TypeOK, arrival_queue_empty
<1> QED
  BY <1>1, Invariance, PTL

(* get_arrived_process is never called with an empty arrival queue. *)
THEOREM QueueSafe == TieFreeSpec => []NoOverrun
<1>1. Inv => NoOverrun
  BY DEF Inv, ExpiredInv, NoOverrun, get_expire_reason
<1> QED
  BY <1>1, Invariance, PTL

-----------------------------------------------------------------------------
(* timer_settime is not refused at the end of a slice...                    *)
LEMMA SliceNeverFails ==
  ASSUME Inv, alarm = "expired", get_expire_reason = "TIMESLICE_OVER"
  PROVE  ~timeslice_expired_fails
<1>1. ExpiredInv /\ TypeOK /\ Strategy = "RR"
  BY DEF Inv, get_expire_reason
<1>2. ~arrival_queue_empty => arrival_remaining - timeslice_remaining >= 0
  BY <1>1 DEF get_expire_reason, ArrivalIsMin, TypeOK
<1> QED
  BY <1>1, <1>2, SliceAssumption
  DEF timeslice_expired_fails, set_timer, TwoTimers, ArrivalIsMin, arrival_queue_empty, TypeOK

(* ...nor after an arrival, if the input is sorted.                         *)
LEMMA ArrivalsNeverFail ==
  ASSUME Inv, Sorted(arrival_time), alarm = "arriving"
  PROVE  ~arrivals_done_fails
<1>1. ArrivingInv /\ TypeOK
  BY DEF Inv
<1>2. time_to_next \in Int /\ time_to_next >= 0
  <2>1. CASE arrival_queue_empty
    BY <2>1 DEF time_to_next
  <2>2. CASE ~arrival_queue_empty
    <3>1. arrival_ptr \in Child /\ arrival_ptr - 1 \in Child /\ arrival_ptr - 1 <= arrival_ptr
      BY <1>1, <2>2, InputType DEF ArrivingInv, TypeOK
    <3>2. arrival_time[arrival_ptr - 1] <= arrival_time[arrival_ptr]
      BY <3>1 DEF Sorted
    <3>3. arrival_time[arrival_ptr - 1] \in Int /\ arrival_time[arrival_ptr] \in Int
      BY <1>1, <3>1, InputType
    <3> QED
      BY <1>1, <2>2, <3>2, <3>3 DEF time_to_next, timeunits_until_next_arrival, ArrivingInv, TypeOK
  <2> QED BY <2>1, <2>2
<1> QED
  BY <1>1, <1>2 DEF arrivals_done_fails, set_timer, ArrivalIsMin, ArrivingInv, TypeOK

(* On a sorted input without ties no call of timer_settime is refused, so   *)
(* set_timer never ends the program (main.c:261-281).                       *)
THEOREM NeverRefused == TieFreeSpec /\ Sorted(arrival_time) => [](alarm # "failed")
<1> DEFINE Good == Sorted(arrival_time) /\ alarm # "failed"
<1>1. Init /\ Sorted(arrival_time) => Good
  <2> SUFFICES ASSUME Init, Sorted(arrival_time) PROVE alarm # "failed"
    OBVIOUS
  <2>1. 0 \in Child /\ arrival_time[0] \in Int
    BY ArrivalAssumption, NumProcessAssumption DEF Init, Child
  <2>2. 0 <= arrival_time[0]
    BY <2>1 DEF Sorted
  <2> QED BY <2>1, <2>2 DEF Init
<1>2. Inv /\ Good /\ [Next]_vars => Good'
  <2> SUFFICES ASSUME Inv, Good, [Next]_vars PROVE Good'
    OBVIOUS
  <2>1. arrival_time' = arrival_time
    BY DEF Next, vars, TimerExpires, TimesliceOver, ProcessArrival, AnotherArrival, ArrivalsDone
  <2>2. alarm' # "failed"
    BY SliceNeverFails, ArrivalsNeverFail
    DEF Next, vars, TimerExpires, TimesliceOver, ProcessArrival, AnotherArrival, ArrivalsDone
  <2> QED BY <2>1, <2>2 DEF Sorted
<1> QED
  BY <1>1, <1>2, Invariance, PTL DEF TieFreeSpec, Spec
=============================================================================
