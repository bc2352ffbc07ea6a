-------------------------------- MODULE PSJF --------------------------------
(***************************************************************************)
(* PSJF.c: the preemptive shortest-job-first job scheduler, on the heap of *)
(* heap.c, called by main.c in the order that `phase` records (see RR).    *)
(* "crashed": an assertion failed or a null pointer was dereferenced.      *)
(***************************************************************************)
EXTENDS Heap

CONSTANTS
  ArrivalTimes,             \* the arrival_time columns of the inputs considered
  TimesNeeded               \* the time_needed columns

VARIABLES
  pq,                       \* PSJF.c: Heap pq
  active_process,           \* PSJF.c: the job that has the CPU, or NULL
  last_context_switch_time, \* PSJF.c
  current_time,             \* PSJF.c
  arrival_time,             \* ProcessInfo.arrival_time
  remaining_time,           \* ProcessInfo.remaining_time
  sched,                    \* kernel: priorities and run list of the children
  arrival_ptr,              \* main.c: the next job to be added
  phase

psjfvars == <<pq, active_process, last_context_switch_time, current_time, remaining_time>>
vars     == <<psjfvars, arrival_time, sched, arrival_ptr, phase>>

-----------------------------------------------------------------------------
(* The functions of PSJF.c *)

(* heap_init leaves the array as malloc returned it: slot 0 may or may not  *)
(* look like the null pointer.                                              *)
set_strategy_PSJF ==
  /\ pq \in [pq : {[heap_init.pq EXCEPT ![0] = x] : x \in Child \cup {NULL}},
             heap_size : {0}]
  /\ active_process = NULL
  /\ last_context_switch_time = 0
  /\ current_time = 0

assert_active_is_top == active_process = heap_top(pq)

(* The assertion, then the write through active_process. *)
add_process_PSJF_crashes == ~assert_active_is_top \/ active_process = NULL

add_process_PSJF(p) ==
  /\ current_time' = arrival_time[p]
  /\ remaining_time' = [remaining_time EXCEPT
       ![active_process] = @ - (current_time' - last_context_switch_time)]
  /\ pq' = heap_insert(remaining_time', pq, p)
  /\ UNCHANGED <<active_process, last_context_switch_time>>

remove_current_process_PSJF ==
  /\ current_time' = current_time + remaining_time[active_process]
  /\ active_process' = NULL
  /\ pq' = heap_pop(remaining_time, pq)
  /\ UNCHANGED <<last_context_switch_time, remaining_time>>

context_switch_PSJF ==
  /\ IF ~heap_empty(pq) /\ active_process # heap_top(pq)
     THEN /\ active_process' = heap_top(pq)
          /\ sched' = resume_process(IF active_process = NULL THEN sched
                                     ELSE suspend_process(sched, active_process),
                                     heap_top(pq))
     ELSE UNCHANGED <<active_process, sched>>
  /\ last_context_switch_time' = current_time
  /\ UNCHANGED <<pq, current_time, remaining_time>>

scheduler_empty_PSJF == active_process = NULL /\ heap_empty(pq)

-----------------------------------------------------------------------------
Init ==
  /\ arrival_time \in ArrivalTimes
  /\ remaining_time \in TimesNeeded
  /\ set_strategy_PSJF
  /\ sched = NoChildren
  /\ arrival_ptr = 0
  /\ phase = "running"

Add ==
  /\ phase \in {"running", "arrived"}
  /\ arrival_ptr < num_process
  /\ sched' = suspend_process(fork(sched, arrival_ptr), arrival_ptr)
  /\ arrival_ptr' = arrival_ptr + 1
  /\ IF add_process_PSJF_crashes
     THEN phase' = "crashed" /\ UNCHANGED psjfvars
     ELSE phase' = "arrived" /\ add_process_PSJF(arrival_ptr)
  /\ UNCHANGED arrival_time

Remove ==
  /\ phase = "running"
  /\ active_process # NULL
  /\ IF assert_active_is_top
     THEN phase' = "switching" /\ remove_current_process_PSJF
     ELSE phase' = "crashed" /\ UNCHANGED psjfvars
  /\ UNCHANGED <<arrival_time, sched, arrival_ptr>>

Switch ==
  /\ phase \in {"arrived", "switching"}
  /\ ~(arrival_ptr = num_process /\ scheduler_empty_PSJF)
  /\ context_switch_PSJF
  /\ phase' = "running"
  /\ UNCHANGED <<arrival_time, arrival_ptr>>

Next == Add \/ Remove \/ Switch

Spec == Init /\ [][Next]_vars

-----------------------------------------------------------------------------
(* report.md and the tests: PSJF runs every input to its end.  No call of   *)
(* add_process_PSJF or remove_current_process_PSJF fails.                   *)
NeverCrashes == phase # "crashed"
=============================================================================
