-------------------------------- MODULE SJF ---------------------------------
(***************************************************************************)
(* SJF.c: the shortest-job-first job scheduler, on the heap of heap.c.     *)
(* The operators named after the C functions are the component; `phase`    *)
(* records where main.c is in its loop, as in module RR:                   *)
(*   "running"    nothing has happened since the last context_switch_SJF   *)
(*   "arrived"    one or more jobs were added, context_switch_SJF is owed  *)
(*   "switching"  the active job ended, context_switch_SJF is owed         *)
(***************************************************************************)
EXTENDS Heap

CONSTANT TimesNeeded    \* the time_needed columns of the inputs considered

ASSUME TimesNeededAssumption == TimesNeeded \subseteq [Child -> Nat]

VARIABLES
  remaining_time,       \* ProcessInfo.remaining_time: time_needed, unchanged
  inactive_heap,        \* SJF.c: Heap inactive_heap
  active_process,       \* SJF.c: the job that has the CPU, or NULL
  sched,                \* kernel: priorities and run list of the children
  arrival_ptr,          \* main.c: the next job to be added
  phase

sjfvars == <<inactive_heap, active_process>>
vars    == <<remaining_time, sjfvars, sched, arrival_ptr, phase>>

-----------------------------------------------------------------------------
(* The functions of SJF.c *)

set_strategy_SJF == inactive_heap = heap_init /\ active_process = NULL

add_process_SJF(p) ==
  /\ inactive_heap' = heap_insert(remaining_time, inactive_heap, p)
  /\ UNCHANGED active_process

(* Mutant: active_process is not reset. *)
remove_current_process_SJF_kept == UNCHANGED sjfvars

remove_current_process_SJF ==
  /\ active_process' = NULL
  /\ UNCHANGED inactive_heap

(* With nothing active and an empty heap, heap_top returns the job that was *)
(* dispatched last, which has ended and whose pid is no longer there.       *)
context_switch_SJF_stale == active_process = NULL /\ heap_empty(inactive_heap)

(* The job context_switch_SJF resumes. *)
to_dispatch == IF active_process = NULL THEN {heap_top(inactive_heap)} ELSE {}

(* Mutant: the job is dispatched and not resumed. *)
context_switch_SJF_asleep ==
  IF active_process # NULL
  THEN UNCHANGED <<sjfvars, sched>>
  ELSE /\ active_process' = heap_top(inactive_heap)
       /\ inactive_heap' = heap_pop(remaining_time, inactive_heap)
       /\ UNCHANGED sched

(* Mutant: a waiting job takes the CPU from the active one. *)
context_switch_SJF_preempts ==
  IF heap_empty(inactive_heap)
  THEN UNCHANGED <<sjfvars, sched>>
  ELSE /\ active_process' = heap_top(inactive_heap)
       /\ inactive_heap' = heap_pop(remaining_time, inactive_heap)
       /\ sched' = resume_process(IF active_process = NULL THEN sched
                                  ELSE suspend_process(sched, active_process),
                                  heap_top(inactive_heap))

context_switch_SJF ==
  IF active_process # NULL
  THEN UNCHANGED <<sjfvars, sched>>
  ELSE /\ active_process' = heap_top(inactive_heap)
       /\ inactive_heap' = heap_pop(remaining_time, inactive_heap)
       /\ sched' = resume_process(sched, heap_top(inactive_heap))

scheduler_empty_SJF == heap_empty(inactive_heap) /\ active_process = NULL

-----------------------------------------------------------------------------
(* The component under the contract: context_switch_SJF is not called with  *)
(* an empty job pool.                                                       *)

Init ==
  /\ remaining_time \in TimesNeeded
  /\ set_strategy_SJF
  /\ sched = NoChildren
  /\ arrival_ptr = 0
  /\ phase = "running"

Add ==
  /\ phase \in {"running", "arrived"}
  /\ arrival_ptr < num_process
  /\ sched' = suspend_process(fork(sched, arrival_ptr), arrival_ptr)
  /\ add_process_SJF(arrival_ptr)
  /\ arrival_ptr' = arrival_ptr + 1
  /\ phase' = "arrived"
  /\ UNCHANGED remaining_time

Remove ==
  /\ phase = "running"
  /\ active_process # NULL
  /\ remove_current_process_SJF
  /\ phase' = "switching"
  /\ UNCHANGED <<remaining_time, sched, arrival_ptr>>

Switch ==
  /\ phase \in {"arrived", "switching"}
  /\ ~context_switch_SJF_stale
  /\ context_switch_SJF
  /\ phase' = "running"
  /\ UNCHANGED <<remaining_time, arrival_ptr>>

(* The child that has the CPU exits. *)
Exit(p) ==
  /\ phase = "running"
  /\ p \in OnCPU(sched)
  /\ sched' = exit(sched, p)
  /\ UNCHANGED <<remaining_time, sjfvars, arrival_ptr, phase>>

Next == Add \/ Remove \/ Switch \/ (\E p \in Child : Exit(p))

Spec == Init /\ [][Next]_vars

-----------------------------------------------------------------------------
(* Properties *)

(* After any sequence of heap_insert and heap_pop the array is a heap that  *)
(* holds heap_size different jobs, all of them arrived, none of them the    *)
(* active one: no job is lost or duplicated by a swap (heap.c:36-77).       *)
HeapSafe ==
  /\ HeapOrdered(remaining_time, inactive_heap)
  /\ \A i, j \in Child :
       i < j /\ j < inactive_heap.heap_size => inactive_heap.pq[i] # inactive_heap.pq[j]
  /\ Contents(inactive_heap) \subseteq 0 .. arrival_ptr - 1
  /\ active_process \notin Contents(inactive_heap)

Active == IF active_process = NULL THEN {} ELSE {active_process}

SJ == INSTANCE ShortestJob
        WITH Job <- Child, waiting <- Contents(inactive_heap),
             active <- Active, need <- remaining_time

(* The heap and active_process together behave as a set from which the      *)
(* shortest job is taken whenever no job is active, and only then.          *)
ImplementsShortestJob == SJ!Spec

J == INSTANCE JobScheduler
       WITH Job <- Child, pool <- Contents(inactive_heap) \cup Active,
            resumed <- {p \in Contents(inactive_heap) \cup Active :
                          sched.prio[p] = PRIO_RUN},
            due <- phase # "running"

(* scheduler.h: SJF.c gives the CPU to a job when, and only when,           *)
(* context_switch_SJF is called, and to one job at a time.                  *)
KeepsInterface == J!Spec

-----------------------------------------------------------------------------
(* The inductive invariant *)

HeapTypes ==
  /\ remaining_time \in [Child -> Nat]
  /\ inactive_heap \in [pq : Array, heap_size : 0 .. num_process]
  /\ active_process \in Child \cup {NULL}
  /\ arrival_ptr \in 0 .. num_process

SchedTypes ==
  /\ sched.prio \in [Child -> PRIO_MIN .. PRIO_MAX]
  /\ phase \in {"running", "arrived", "switching"}

(* A slot in use has been written. *)
SlotsOK == \A i \in Child : i < inactive_heap.heap_size => inactive_heap.pq[i] \in Child

(* heap_insert finds a free slot: the jobs in the heap and the active one   *)
(* have all arrived.                                                        *)
Room ==
  /\ inactive_heap.heap_size + (IF active_process = NULL THEN 0 ELSE 1) <= arrival_ptr
  /\ active_process < arrival_ptr

(* What SJF.c keeps is sound, whatever the children do. *)
HeapSound == HeapTypes /\ SlotsOK /\ HeapSafe /\ Room

(* The active job has been resumed and no other. *)
ActiveResumed == \A p \in Contents(inactive_heap) \cup Active :
                   sched.prio[p] = PRIO_RUN <=> p \in Active

(* No job waits while none is active, unless a context switch is owed. *)
OwedSwitch == phase = "running" /\ active_process = NULL => heap_empty(inactive_heap)

Inv == HeapSound /\ SchedTypes /\ ActiveResumed /\ OwedSwitch
=============================================================================
