--------------------------------- MODULE RR ---------------------------------
(***************************************************************************)
(* RR.c: the round-robin job scheduler.  The jobs sit in an array pq; two  *)
(* indices into it say which job to resume and which to suspend at the     *)
(* next context switch.  The operators named after the C functions are the *)
(* component; main.c calls them in the order that `phase` records, the     *)
(* contract scheduler.h states for every job scheduler:                    *)
(*   "running"    nothing has happened since the last context_switch_RR    *)
(*   "arrived"    one or more jobs were added, context_switch_RR is owed   *)
(*   "switching"  a slice or a job ended, context_switch_RR is owed        *)
(***************************************************************************)
EXTENDS SchedFifo

VARIABLES
  pq,                   \* RR.c: ProcessInfo *pq[num_process]
  current_process_id,   \* RR.c: index of the job to resume, or -1
  previous_active_id,   \* RR.c: index of the job to suspend, or -1
  process_count,        \* RR.c: number of jobs in pq
  sched,                \* kernel: priorities and run list of the children
  arrival_ptr,          \* main.c: the next job to be added
  phase                 \* where main.c is in its event loop

rrvars == <<pq, current_process_id, previous_active_id, process_count>>
vars   == <<rrvars, sched, arrival_ptr, phase>>

-----------------------------------------------------------------------------
(* The functions of RR.c *)

(* Mutant: the index does not wrap. *)
advance_unwrapped(n) == IF n < 0 THEN n ELSE n + 1

advance(n) == IF n < 0 THEN n
              ELSE IF n + 1 = process_count THEN 0 ELSE n + 1

set_strategy_RR ==
  /\ pq = [i \in Child |-> NULL]
  /\ current_process_id = -1
  /\ previous_active_id = -1
  /\ process_count = 0

(* The assertion at the head of add_process_RR. *)
add_process_RR_assert == process_count = 0 => previous_active_id < 0

(* Mutant: the new job goes behind the current one, next in turn. *)
add_process_RR_behind(p) ==
  LET at == IF process_count = 0 THEN 0 ELSE current_process_id + 1 IN
  /\ pq' = [i \in Child |->
              IF i = at THEN p
              ELSE IF at < i /\ i <= process_count THEN pq[i - 1] ELSE pq[i]]
  /\ current_process_id' = IF process_count = 0 THEN 0 ELSE current_process_id
  /\ process_count' = process_count + 1
  /\ UNCHANGED previous_active_id

(* The loop moves the slots from current_process_id on one to the right. *)
add_process_RR(p) ==
  LET at == IF process_count = 0 THEN 0 ELSE current_process_id IN
  /\ pq' = [i \in Child |->
              IF i = at THEN p
              ELSE IF at < i /\ i <= process_count THEN pq[i - 1] ELSE pq[i]]
  /\ current_process_id' = IF process_count = 0 THEN 0
                                                ELSE current_process_id + 1
  /\ process_count' = process_count + 1
  /\ UNCHANGED previous_active_id

(* Mutant: the last job leaves current_process_id behind. *)
remove_current_process_RR_stale ==
  /\ pq' = [i \in Child |->
              IF current_process_id <= i /\ i + 1 < process_count
              THEN pq[i + 1] ELSE pq[i]]
  /\ previous_active_id' = -1
  /\ process_count' = process_count - 1
  /\ current_process_id' =
       IF current_process_id = process_count - 1 THEN 0 ELSE current_process_id

remove_current_process_RR ==
  /\ pq' = [i \in Child |->
              IF current_process_id <= i /\ i + 1 < process_count
              THEN pq[i + 1] ELSE pq[i]]
  /\ previous_active_id' = -1
  /\ process_count' = process_count - 1
  /\ current_process_id' =
       IF process_count = 1 THEN -1
       ELSE IF current_process_id = process_count - 1 THEN 0
       ELSE current_process_id

timeslice_over_RR ==
  /\ previous_active_id' = current_process_id
  /\ current_process_id' = advance(current_process_id)
  /\ UNCHANGED <<pq, process_count>>

(* The children context_switch_RR hands to sched_setscheduler, in order... *)
to_suspend == IF previous_active_id >= 0 THEN {pq[previous_active_id]} ELSE {}
to_resume  == IF current_process_id >= 0 THEN {pq[current_process_id]} ELSE {}

(* Mutant: the previous job is not suspended. *)
context_switch_RR_unsuspended(s) ==
  IF current_process_id >= 0 THEN resume_process(s, pq[current_process_id]) ELSE s

(* ...and what that makes of the kernel's state s. *)
context_switch_RR(s) ==
  LET s1 == IF previous_active_id >= 0
            THEN suspend_process(s, pq[previous_active_id]) ELSE s
  IN  IF current_process_id >= 0
      THEN resume_process(s1, pq[current_process_id]) ELSE s1

scheduler_empty_RR == process_count = 0 /\ current_process_id < 0

-----------------------------------------------------------------------------
(* The component under the contract. *)

Init ==
  /\ set_strategy_RR
  /\ sched = NoChildren
  /\ arrival_ptr = 0
  /\ phase = "running"

(* main.c add_process: fork, suspend, then hand the job to RR.c. *)
Add ==
  /\ phase \in {"running", "arrived"}
  /\ arrival_ptr < num_process
  /\ sched' = suspend_process(fork(sched, arrival_ptr), arrival_ptr)
  /\ add_process_RR(arrival_ptr)
  /\ arrival_ptr' = arrival_ptr + 1
  /\ phase' = "arrived"

Remove ==
  /\ phase = "running"
  /\ process_count > 0
  /\ remove_current_process_RR
  /\ phase' = "switching"
  /\ UNCHANGED <<sched, arrival_ptr>>

Timeslice ==
  /\ phase = "running"
  /\ timeslice_over_RR
  /\ phase' = "switching"
  /\ UNCHANGED <<sched, arrival_ptr>>

Switch ==
  /\ phase \in {"arrived", "switching"}
  /\ sched' = context_switch_RR(sched)
  /\ phase' = "running"
  /\ UNCHANGED <<rrvars, arrival_ptr>>

(* A child exits: the kernel takes it off the run list. *)
Exit(p) ==
  /\ phase = "running"
  /\ sched' = exit(sched, p)
  /\ UNCHANGED <<rrvars, arrival_ptr, phase>>

Next == Add \/ Remove \/ Timeslice \/ Switch \/ (\E p \in Child : Exit(p))

Spec == Init /\ [][Next]_vars

-----------------------------------------------------------------------------
(* Properties *)

(* The slots of pq that hold jobs. *)
Slots == {i \in Child : i < process_count}

(* Slot numbers may be -1, slots may be NULL. *)
SlotsOK ==
  /\ pq \in [Child -> Child \cup {NULL}]
  /\ current_process_id \in -1 .. num_process - 1
  /\ previous_active_id \in -1 .. num_process - 1
  /\ process_count \in 0 .. num_process
  /\ arrival_ptr \in 0 .. num_process

(* Every variable has its type. *)
TypeOK ==
  /\ SlotsOK
  /\ sched.prio \in [Child -> PRIO_MIN .. PRIO_MAX]
  /\ phase \in {"running", "arrived", "switching"}

(* No index of RR.c ever leaves the jobs of pq: the job to resume and the  *)
(* job to suspend are slots that hold jobs (-1 exactly when there is none), *)
(* pq holds every unfinished job once and never more jobs than main.c has  *)
(* malloc'ed slots for.  In particular the assertion of add_process_RR      *)
(* holds whenever the pool is empty.                                       *)
IndexSafe ==
  /\ process_count <= arrival_ptr
  /\ process_count = 0 => current_process_id = -1
  /\ process_count > 0 => current_process_id \in Slots
  /\ previous_active_id \in Slots \cup {-1}
  /\ \A i \in Slots : pq[i] \in 0 .. arrival_ptr - 1
  /\ \A i, j \in Slots : pq[i] = pq[j] => i = j

(* report.md: "there's always only one child ... as the second highest      *)
(* priority, and the other children are in the lowest priority", and it is  *)
(* the job at current_process_id: after every context_switch_RR, whatever   *)
(* previous_active_id (possibly stale after an insertion) pointed to.       *)
OneResumed ==
  phase = "running" =>
    \A i \in Slots : sched.prio[pq[i]] =
                       IF i = current_process_id THEN PRIO_RUN ELSE PRIO_MIN

(* While a context switch is owed, the job that still has the CPU is the    *)
(* one context_switch_RR is going to suspend, or the one it will resume.    *)
OwedSwitch ==
  \A i \in Slots :
    \/ sched.prio[pq[i]] = PRIO_MIN
    \/ phase = "arrived" /\ i = current_process_id /\ sched.prio[pq[i]] = PRIO_RUN
    \/ phase = "switching" /\ i = previous_active_id /\ sched.prio[pq[i]] = PRIO_RUN
    \/ phase = "running"

(* The inductive invariant. *)
Inv == TypeOK /\ IndexSafe /\ OneResumed /\ OwedSwitch

(* The order in which the jobs will be served: from current_process_id to   *)
(* the end of the array, then from its start.                               *)
RRQueue ==
  [k \in 1 .. process_count |->
     IF current_process_id + k - 1 < process_count
     THEN pq[current_process_id + k - 1]
     ELSE pq[current_process_id + k - 1 - process_count]]

(* The jobs of the pool that have the second highest priority. *)
Resumed == {pq[i] : i \in {j \in Slots : sched.prio[pq[j]] = PRIO_RUN}}

RQ == INSTANCE RunQueue WITH Job <- Child, queue <- RRQueue, running <- Resumed

(* RR.c with its array, its two indices and its circular advance() serves   *)
(* the jobs in the order of one plain queue (README.md: "the index of the   *)
(* active process is rotating circularly"): a new job is served after all   *)
(* the jobs present, the job whose slice ended too, and the CPU goes to the *)
(* head of the queue alone.                                                 *)
ImplementsRunQueue == RQ!Spec
=============================================================================
