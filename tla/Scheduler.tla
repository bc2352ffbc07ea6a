----------------------------- MODULE Scheduler ------------------------------
(***************************************************************************)
(* The whole program: the event loop of main.c (main.c:343-372), with the  *)
(* timers of module Timers, the job scheduler of the policy (modules FIFO, *)
(* RR, SJF), the children it forks, and the part of the kernel they share: *)
(* pending signals, the POSIX timer and the SCHED_FIFO run list.  main.c   *)
(* has the highest priority and blocks SIGALRM and SIGCHLD outside         *)
(* sigsuspend, so on one CPU children run only while it sleeps there with  *)
(* no signal pending; only the timer runs at any time.  On more CPUs they  *)
(* run beside it, between any two of its actions.                          *)
(*                                                                         *)
(* How long a child runs is left open: a child that has the CPU may exit   *)
(* at any moment.  `pc` says where main.c is:                              *)
(*   "sigsuspend"  blocked, or about to be (line 344)                      *)
(*   "dispatch"    event_type has been set by the handlers (345-364)       *)
(*   "arrival"     in the loop over simultaneous arrivals (355-358)        *)
(*   "switch"      at the end of the loop body (366-371)                   *)
(*   "exit"        main has returned                                       *)
(*   "aborted"     a failed assertion ended it                             *)
(*   "killed"      scheduler_exit ended it and every other process of its  *)
(*                 group                                                   *)
(***************************************************************************)
EXTENDS SchedFifo

CONSTANTS
  Strategy,            \* the policy read from the input
  RR_TIMES_OF_UNIT,    \* main.c: length of a time slice, in units
  Workloads,           \* the inputs: records of arrival_time and time_needed
  Collisions,          \* may SIGALRM come while SIGCHLD is pending?
  ForkMayFail,         \* may fork return -1?
  CPUs                 \* the number of CPUs

ASSUME VariantAssumption ==
  Collisions \in BOOLEAN /\ ForkMayFail \in BOOLEAN /\ CPUs \in Nat \ {0}
ASSUME PolicyAssumption ==
  Strategy \in {"FIFO", "RR", "SJF"} /\ RR_TIMES_OF_UNIT \in Nat \ {0}
ASSUME WorkloadAssumption ==
  Workloads \subseteq [arrival_time : [Child -> Int], time_needed : [Child -> Nat]]

VARIABLES
  arrival_time,          \* ProcessInfo.arrival_time
  remaining_time,        \* ProcessInfo.remaining_time
  arrival_ptr, arrival_remaining, timeslice_remaining, it_value, clock,  \* Timers
  pq, current_process_id, previous_active_id, process_count,             \* RR.c
  inactive_heap, active_process,                                         \* SJF.c
  count_process,                                                         \* FIFO.c
  sched,                 \* kernel: priorities and run list of the children
  state,                 \* kernel: where each child is in its life
  pending,               \* kernel: the signals pending for the scheduler
  event_type,            \* main.c: written by signal_handler and by main
  pc

(* Where main.c is, as modules Timers, RR and SJF see it. *)
Alarm ==
  IF pc = "arrival" THEN "arriving"
  ELSE IF "SIGALRM" \in pending \/ (pc = "dispatch" /\ event_type = "TIMER_EXPIRED")
  THEN "expired" ELSE "armed"

Phase ==
  IF pc \in {"sigsuspend", "dispatch"} THEN "running"
  ELSE IF event_type = "PROCESS_ARRIVAL" THEN "arrived" ELSE "switching"

T == INSTANCE Timers WITH ArrivalTimes <- {w.arrival_time : w \in Workloads},
                          alarm <- Alarm
F == INSTANCE FIFO
R == INSTANCE RR  WITH phase <- Phase
S == INSTANCE SJF WITH TimesNeeded <- {w.time_needed : w \in Workloads},
                       phase <- Phase

input == <<arrival_time, remaining_time>>
ti    == <<arrival_ptr, arrival_remaining, timeslice_remaining, it_value>>
rr    == <<pq, current_process_id, previous_active_id, process_count>>
sjf   == <<inactive_heap, active_process>>
jobs  == <<rr, sjf, count_process>>
vars  == <<input, ti, clock, jobs, sched, state, pending, event_type, pc>>

EventType == {"TIMER_EXPIRED", "CHILD_TERMINATED", "TIMESLICE_OVER", "PROCESS_ARRIVAL"}

-----------------------------------------------------------------------------
read_single_entry(w) == arrival_time = w.arrival_time /\ remaining_time = w.time_needed
read_process_info    == \E w \in Workloads : read_single_entry(w)

(* set_strategy: the statics of a policy that is not used keep these values *)
(* as well.                                                                 *)
set_strategy == F!set_strategy_FIFO /\ R!set_strategy_RR /\ S!set_strategy_SJF

(* kill(0, SIGINT) ends every process of the group.                         *)
Killed(st) ==
  [p \in Child |-> IF st[p] \in {"new", "running"} THEN "killed" ELSE st[p]]

(* Mutant: only the scheduler itself ends. *)
scheduler_exit_alone ==
  /\ pc' = "killed"
  /\ UNCHANGED <<state, sched>>

scheduler_exit ==
  /\ pc' = "killed"
  /\ state' = Killed(state)
  /\ sched' = [sched EXCEPT !.rq = <<>>]

(* The assertion of add_process_RR fails. *)
add_process_fails == Strategy = "RR" /\ ~R!add_process_RR_assert

(* add_process: fork, suspend, then the policy.  If fork fails, -1 is handed *)
(* to sched_setscheduler as a pid, and set_priority calls scheduler_exit.    *)
add_process(p) ==
  LET s == suspend_process(fork(sched, p), p) IN
  \/ /\ state' = [state EXCEPT ![p] = "new"]
     /\ pc' = IF add_process_fails THEN "aborted" ELSE "arrival"
     /\ \/ /\ Strategy = "FIFO"
           /\ F!add_process_FIFO
           /\ sched' = F!add_process_FIFO_sched(s, p)
           /\ UNCHANGED <<rr, sjf>>
        \/ /\ Strategy = "RR"
           /\ R!add_process_RR(p)
           /\ sched' = s
           /\ UNCHANGED <<sjf, count_process>>
        \/ /\ Strategy = "SJF"
           /\ S!add_process_SJF(p)
           /\ sched' = s
           /\ UNCHANGED <<rr, count_process>>
  \/ /\ ForkMayFail
     /\ scheduler_exit
     /\ UNCHANGED jobs

remove_current_process ==
  \/ /\ Strategy = "FIFO"
     /\ F!remove_current_process_FIFO
     /\ UNCHANGED <<rr, sjf>>
  \/ /\ Strategy = "RR"
     /\ R!remove_current_process_RR
     /\ UNCHANGED <<sjf, count_process>>
  \/ /\ Strategy = "SJF"
     /\ S!remove_current_process_SJF
     /\ UNCHANGED <<rr, count_process>>

(* timeslice_over, with its assertion. *)
timeslice_over == Strategy = "RR" /\ R!timeslice_over_RR

(* Mutant: the call of the policy is missing. *)
context_switch_skipped == UNCHANGED <<jobs, sched>>

context_switch ==
  \/ /\ Strategy = "FIFO"
     /\ UNCHANGED <<jobs, sched>>
  \/ /\ Strategy = "RR"
     /\ sched' = R!context_switch_RR(sched)
     /\ UNCHANGED jobs
  \/ /\ Strategy = "SJF"
     /\ S!context_switch_SJF
     /\ UNCHANGED <<rr, count_process>>

Reaped == {p \in Child : state[p] = "reaped"}

(* context_switch hands the pid of a reaped child to sched_setscheduler,    *)
(* which fails with ESRCH: set_priority calls scheduler_exit.               *)
context_switch_fails ==
  \/ Strategy = "RR" /\ (R!to_suspend \cup R!to_resume) \cap Reaped # {}
  \/ Strategy = "SJF" /\ (S!context_switch_SJF_stale \/ S!to_dispatch \cap Reaped # {})

scheduler_empty ==
  CASE Strategy = "FIFO" -> F!scheduler_empty_FIFO
    [] Strategy = "RR"   -> R!scheduler_empty_RR
    [] Strategy = "SJF"  -> S!scheduler_empty_SJF

-----------------------------------------------------------------------------
(* Mutant: SIGALRM is left out. *)
block_some_signals_chld == {"SIGCHLD"}

block_some_signals == {"SIGCHLD", "SIGALRM"}

(* The handlers costumize_signal_handlers installs. *)
signal_handler(signo) ==
  IF signo = "SIGCHLD" THEN "CHILD_TERMINATED" ELSE "TIMER_EXPIRED"

(* A signal is raised: it stays pending until sigsuspend if it is blocked;  *)
(* otherwise its handler runs at once, and sigsuspend will not see it.      *)
raise(signo) ==
  IF pc = "sigsuspend" \/ signo \in block_some_signals
  THEN pending' = pending \cup {signo} /\ UNCHANGED event_type
  ELSE event_type' = signal_handler(signo) /\ UNCHANGED pending

(* main: from its start to the first sigsuspend.  raise(SIGALRM) leaves a   *)
(* signal for that one if SIGALRM is blocked.                               *)
Init ==
  /\ read_process_info
  /\ T!create_timer_and_init_timespec
  /\ clock = 0
  /\ set_strategy
  /\ sched = NoChildren
  /\ state = [p \in Child |-> "unborn"]
  /\ pending = IF arrival_time[0] = 0 THEN {"SIGALRM"} \cap block_some_signals ELSE {}
  /\ event_type = "TIMER_EXPIRED"     \* the zero of EventType
  /\ pc = IF arrival_time[0] < 0 THEN "killed" ELSE "sigsuspend"

(* sigsuspend returns after the handlers of all pending signals have run;   *)
(* event_type is what the last of them wrote.                               *)
SigSuspend ==
  /\ pc = "sigsuspend"
  /\ \E signo \in pending : event_type' = signal_handler(signo)
  /\ pending' = {}
  /\ pc' = "dispatch"
  /\ UNCHANGED <<input, ti, clock, jobs, sched, state>>

(* An assertion fails, timer_settime fails (set_timer then calls            *)
(* scheduler_exit), or main goes on at `next`.                              *)
EndsIf(asserts, exits, next) ==
  /\ pc' = IF asserts THEN "aborted" ELSE IF exits THEN "killed" ELSE next
  /\ state' = IF exits /\ ~asserts THEN Killed(state) ELSE state
  /\ sched' = IF exits /\ ~asserts THEN [sched EXCEPT !.rq = <<>>] ELSE sched

(* Mutant: the end of a slice gives the CPU to the next job at once. *)
TimesliceOver_switches ==
  /\ pc = "dispatch"
  /\ event_type = "TIMER_EXPIRED"
  /\ T!get_expire_reason = "TIMESLICE_OVER"
  /\ T!timeslice_expired
  /\ timeslice_over
  /\ event_type' = "TIMESLICE_OVER"
  /\ pc' = "switch"
  /\ sched' = IF current_process_id < 0 THEN sched
              ELSE resume_process(suspend_process(sched, pq[current_process_id]),
                                  pq[current_process_id'])
  /\ UNCHANGED <<input, clock, sjf, count_process, state, pending>>

TimesliceOver ==
  /\ pc = "dispatch"
  /\ event_type = "TIMER_EXPIRED"
  /\ T!get_expire_reason = "TIMESLICE_OVER"
  /\ T!timeslice_expired
  /\ timeslice_over
  /\ event_type' = "TIMESLICE_OVER"
  /\ EndsIf(FALSE, T!timeslice_expired_fails, "switch")
  /\ UNCHANGED <<input, clock, sjf, count_process, pending>>

ProcessArrival ==
  /\ pc = "dispatch"
  /\ event_type = "TIMER_EXPIRED"
  /\ T!get_expire_reason = "PROCESS_ARRIVAL"
  /\ T!arrival_expired
  /\ add_process(arrival_ptr)
  /\ event_type' = "PROCESS_ARRIVAL"
  /\ UNCHANGED <<input, clock, pending>>

AnotherArrival ==
  /\ pc = "arrival"
  /\ T!another_arrival
  /\ T!get_arrived_process
  /\ add_process(arrival_ptr)
  /\ UNCHANGED <<input, clock, pending, event_type>>

ArrivalsDone ==
  /\ pc = "arrival"
  /\ ~T!another_arrival
  /\ T!arrivals_done
  /\ EndsIf(arrival_remaining < 0, T!arrivals_done_fails, "switch")
  /\ UNCHANGED <<input, clock, jobs, pending, event_type>>

(* Mutants: wait(NULL) is missing; set_timer is called for every event.     *)
ChildTerminated_unreaped ==
  /\ pc = "dispatch"
  /\ event_type = "CHILD_TERMINATED"
  /\ remove_current_process
  /\ pc' = "switch"
  /\ UNCHANGED <<input, ti, clock, sched, state, pending, event_type>>

ChildTerminated_rearms ==
  /\ pc = "dispatch"
  /\ event_type = "CHILD_TERMINATED"
  /\ \E p \in Child : /\ state[p] = "zombie"
                      /\ state' = [state EXCEPT ![p] = "reaped"]
  /\ remove_current_process
  /\ T!settime(T!set_timer(arrival_ptr, arrival_remaining, timeslice_remaining))
  /\ pc' = "switch"
  /\ UNCHANGED <<input, arrival_ptr, arrival_remaining, timeslice_remaining,
                 clock, sched, pending, event_type>>

(* wait(NULL) reaps one of the zombies, whichever the kernel finds first,   *)
(* and main.c takes it to be the current job.                               *)
ChildTerminated ==
  /\ pc = "dispatch"
  /\ event_type = "CHILD_TERMINATED"
  /\ \E p \in Child : /\ state[p] = "zombie"
                      /\ state' = [state EXCEPT ![p] = "reaped"]
  /\ remove_current_process
  /\ pc' = "switch"
  /\ UNCHANGED <<input, ti, clock, sched, pending, event_type>>

(* Mutant: the jobs still to arrive are forgotten. *)
Finished_early == scheduler_empty

Finished == T!arrival_queue_empty /\ scheduler_empty

ContextSwitch ==
  /\ pc = "switch"
  /\ ~Finished
  /\ ~context_switch_fails
  /\ context_switch
  /\ pc' = "sigsuspend"
  /\ UNCHANGED <<input, ti, clock, state, pending, event_type>>

ContextSwitchFails ==
  /\ pc = "switch"
  /\ ~Finished
  /\ context_switch_fails
  /\ scheduler_exit
  /\ UNCHANGED <<input, ti, clock, jobs, pending, event_type>>

Leave ==
  /\ pc = "switch"
  /\ Finished
  /\ pc' = "exit"
  /\ UNCHANGED <<input, ti, clock, jobs, sched, state, pending, event_type>>

Ended == pc \in {"exit", "aborted", "killed"}

(* The kernel's timer runs out, whatever main.c is doing. *)
TimerExpires ==
  /\ ~Ended
  /\ it_value > 0
  /\ Collisions \/ pending = {}
  /\ it_value' = 0
  /\ clock' = IF T!arrival_queue_empty THEN clock ELSE clock + it_value
  /\ raise("SIGALRM")
  /\ UNCHANGED <<input, arrival_ptr, arrival_remaining, timeslice_remaining,
                 jobs, sched, state, pc>>

(* main.c takes one CPU unless it is blocked in sigsuspend; a child that    *)
(* has one of the others...                                                 *)
Runs(p) ==
  /\ ~Ended
  /\ p \in OnCPUs(sched, IF pc = "sigsuspend" /\ pending = {} THEN CPUs ELSE CPUs - 1)

(* ...first gives itself the second highest priority (set_child_priority)   *)
ChildStart(p) ==
  /\ Runs(p)
  /\ state[p] = "new"
  /\ state' = [state EXCEPT ![p] = "running"]
  /\ sched' = set_priority(sched, p, PRIO_RUN)
  /\ UNCHANGED <<input, ti, clock, jobs, pending, event_type, pc>>

(* and, its units run, exits. *)
ChildExit(p) ==
  /\ Runs(p)
  /\ state[p] = "running"
  /\ state' = [state EXCEPT ![p] = "zombie"]
  /\ sched' = exit(sched, p)
  /\ raise("SIGCHLD")
  /\ UNCHANGED <<input, ti, clock, jobs, pc>>

Loop == \/ SigSuspend \/ TimesliceOver \/ ProcessArrival \/ AnotherArrival
        \/ ArrivalsDone \/ ChildTerminated \/ ContextSwitch \/ ContextSwitchFails \/ Leave

Next == \/ Loop
        \/ TimerExpires
        \/ \E p \in Child : ChildStart(p) \/ ChildExit(p)

Spec == Init /\ [][Next]_vars

(* main.c is never descheduled, the armed timer expires, a child that is    *)
(* given the CPU over and over runs its finite number of units, and a time  *)
(* slice is not for ever shorter than one pass of the loop.                 *)
Fairness ==
  /\ WF_vars(Loop)
  /\ WF_vars(TimerExpires)
  /\ SF_vars(ContextSwitch /\ pending = {})
  /\ \A p \in Child : SF_vars(ChildStart(p)) /\ SF_vars(ChildExit(p))

FairSpec == Spec /\ Fairness

-----------------------------------------------------------------------------
(* Properties *)

(* Every variable of the loop and of the children has its type. *)
TypeOK ==
  /\ sched.prio \in [Child -> PRIO_MIN .. PRIO_MAX]
  /\ Queued(sched) = {p \in Child : state[p] \in {"new", "running"}}
  /\ state \in [Child -> {"unborn", "new", "running", "zombie", "reaped", "killed"}]
  /\ pending \subseteq {"SIGALRM", "SIGCHLD"}
  /\ event_type \in EventType
  /\ pc \in {"sigsuspend", "dispatch", "arrival", "switch", "exit", "aborted", "killed"}

(* The jobs that have arrived and have not ended. *)
Live == {p \in Child : state[p] \in {"new", "running"}}

(* The job the policy means to run. *)
Current ==
  CASE Strategy = "FIFO" -> {p \in Live : \A q \in Live : p <= q}
    [] Strategy = "RR"   -> R!to_resume
    [] Strategy = "SJF"  -> S!Active

(* report.md: "When the scheduler blocks, the child with the highest        *)
(* priority gets the chance to run".  Whenever the scheduler sleeps, the    *)
(* CPU is with the job its policy chose and with no other, and the CPU is   *)
(* idle only if no job is there.                                            *)
RightJobRuns ==
  pc = "sigsuspend" /\ pending = {} =>
    OnCPU(sched) = Current /\ (Live # {} => Current # {})

(* report.md: "As SIGALRM and SIGCHLD are only unblocked in sigsuspend(),   *)
(* we make sure that there are no race conditions in the event handler".    *)
(* No event is lost between its signal and the loop: a child that has ended *)
(* is reaped before the scheduler sleeps again, and the timer is armed or   *)
(* its signal pending as long as a job is still to arrive.                  *)
NoEventLost ==
  pc = "sigsuspend" =>
    /\ \A p \in Child : state[p] = "zombie" => "SIGCHLD" \in pending
    /\ ~T!arrival_queue_empty => it_value > 0 \/ "SIGALRM" \in pending

(* wait(NULL) does not say which child ended, and remove_current_process    *)
(* is not told: the only zombie there can be is the job the policy is about *)
(* to remove.                                                               *)
ReapsCurrent ==
  pc = "dispatch" /\ event_type = "CHILD_TERMINATED" =>
    \E p \in Child : /\ {q \in Child : state[q] = "zombie"} = {p}
                     /\ Strategy \in {"RR", "SJF"} => Current = {p}

(* FIFO and SJF never preempt: between the first and the last step of a     *)
(* job no other job takes a step.                                           *)
NoPreemption ==
  \A p, q \in Child : state[p] = "running" /\ state[q] = "running" => p = q

(* FIFO: no job starts before all the jobs that arrived earlier have ended, *)
(* although FIFO.c keeps no queue and relies on where sched_setscheduler    *)
(* puts a child in the run list.                                            *)
InArrivalOrder ==
  \A p, q \in Child :
    p < q /\ state[q] \in {"running", "zombie", "reaped"} => state[p] \in {"zombie", "reaped"}

(* SJF: the job that is given the CPU is the shortest of those that have    *)
(* arrived and not started, the oldest one of equals.                       *)
ShortestDispatched ==
  [][\A p \in Child :
       sched.prio[p] = PRIO_MIN /\ sched'.prio[p] = PRIO_RUN =>
         \A q \in Live \ {p} : S!Shorter(remaining_time, p, q)]_vars

(* The loop is left (main.c:366) only when every job of the input has       *)
(* arrived, ended and been reaped: no child outlives the scheduler.         *)
CleanExit == pc = "exit" => state = [p \in Child |-> "reaped"]

(* error_test.sh runs the program over and over and expects that it never   *)
(* "ends abnormally": no assertion fails and set_priority and set_timer     *)
(* never reach scheduler_exit.                                              *)
NoAbnormalExit == pc \notin {"aborted", "killed"}

(* However the scheduler ends (the loop is left, fork or timer_settime      *)
(* fails, a pid is stale), it leaves no child behind that would go on with  *)
(* real-time priority and nobody to suspend it (main.c:635).                *)
NoOrphans == Ended => Live = {}

(* SJF: the only abnormal end is the call of context_switch_SJF in a gap,   *)
(* all jobs so far ended and another one still to arrive (SJF.c:26): no job *)
(* is killed by it.                                                         *)
AbortsOnlyInGap ==
  pc \in {"aborted", "killed"} =>
    /\ \A p \in Child : state[p] \in {"unborn", "reaped"}
    /\ ~T!arrival_queue_empty

(* Every input is run to its end: the loop of main.c neither sleeps for     *)
(* ever nor rotates the same jobs for ever.                                 *)
Terminates == <>(pc = "exit")

(* The same for SJF, which may end in AbortsOnlyInGap's way instead.        *)
Halts == <>Ended

(* The indices of RR.c stay inside pq (RR!IndexSafe) even when events are   *)
(* lost and RR.c takes another job for the one that ended.                  *)
RRIndexSafe == R!IndexSafe

(* main.c uses the TimerInfo as module Timers assumes: a CHILD_TERMINATED   *)
(* between two alarms, an alarm in the middle of a pass of the loop and the *)
(* jobs added on the way do not disturb it, so what is shown of Timers      *)
(* holds in the program.                                                    *)
TimersContract == T!Spec

(* main.c calls RR.c in the order module RR assumes (scheduler.h, "Perform  *)
(* a context switch when, and only when, this function is called"), so what *)
(* is shown of RR, its refinement of a plain queue included, holds here.    *)
RRContract == R!Spec

(* The same of SJF.c, up to the gap.                                        *)
SJFContract == S!Spec

Pool == {p \in Child : state[p] \in {"new", "running", "zombie"}}

J == INSTANCE JobScheduler
       WITH Job <- Child, pool <- Pool,
            resumed <- {p \in Pool : sched.prio[p] = PRIO_RUN},
            due <- pc \notin {"sigsuspend", "dispatch"}

(* scheduler.h: "Perform a context switch when, and only when, this         *)
(* function is called": neither an arrival (fork and set_child_priority     *)
(* included) nor a slice end nor a termination nor a child moves the CPU by *)
(* itself.  It moves only in the step from main.c:370 to the next           *)
(* sigsuspend, once per pass of the loop and only after an event, and the   *)
(* child main.c reaps is the only one that had it.                          *)
KeepsInterface == J!Spec

-----------------------------------------------------------------------------
(* The inductive invariants *)

(* The number of jobs the policy believes it has. *)
JobCount ==
  CASE Strategy = "FIFO" -> count_process
    [] Strategy = "RR"   -> process_count
    [] Strategy = "SJF"  -> inactive_heap.heap_size + (IF active_process = NULL THEN 0 ELSE 1)

(* The timer and the arrival queue have their types, and so have the loop   *)
(* and the lives of the children.                                           *)
LoopTypes ==
  /\ arrival_time \in [Child -> Int]
  /\ arrival_ptr \in 0 .. num_process
  /\ arrival_remaining \in Int
  /\ timeslice_remaining \in Int
  /\ it_value \in Nat
  /\ state \in [Child -> {"unborn", "new", "running", "zombie", "reaped", "killed"}]
  /\ pending \subseteq {"SIGALRM", "SIGCHLD"}
  /\ event_type \in EventType
  /\ pc \in {"sigsuspend", "dispatch", "arrival", "switch", "exit", "aborted", "killed"}

(* SIGALRM has been taken, and main.c is about to handle it. *)
TimerDispatched == pc = "dispatch" /\ event_type = "TIMER_EXPIRED"

(* One alarm at a time: the timer runs, or its signal is pending, or it is  *)
(* being handled.                                                           *)
OneAlarm ==
  /\ "SIGALRM" \in pending \/ TimerDispatched \/ pc = "arrival" => it_value = 0
  /\ TimerDispatched \/ pc = "arrival" => "SIGALRM" \notin pending

(* An alarm without RR is an arrival: a job is still to come.               *)
AlarmMeansArrival ==
  /\ Strategy # "RR" /\ (it_value > 0 \/ "SIGALRM" \in pending \/ TimerDispatched)
       => arrival_ptr < num_process
  /\ Strategy # "RR" \/ pc = "arrival" => arrival_remaining >= 0

(* The children of the jobs that have arrived, and no others, exist.        *)
BornInOrder ==
  \A p \in Child : /\ state[p] = "unborn" <=> p >= arrival_ptr
                   /\ state[p] # "killed"

(* What holds whatever goes wrong: signals that overwrite each other, a     *)
(* second CPU, failing forks, unsorted input.  The policy may take the      *)
(* wrong job for the one that ended, and yet it never loses count.          *)
FaultInv ==
  /\ LoopTypes
  /\ Strategy = "RR" => R!SlotsOK /\ R!IndexSafe
  /\ Strategy = "SJF" => S!HeapSound
  /\ ~Ended => /\ OneAlarm
               /\ AlarmMeansArrival
               /\ BornInOrder
               /\ JobCount = Cardinality(Pool)
               /\ Strategy = "SJF" => S!OwedSwitch
  /\ NoOrphans
  /\ CleanExit

(* The children that can run, and no others, are in the kernel's list, each *)
(* of them once.                                                            *)
RunListOK ==
  /\ sched \in Kernel
  /\ Distinct(sched.rq)
  /\ Queued(sched) = Live

(* FIFO: the kernel's list is the queue FIFO.c does not keep.               *)
FifoList ==
  /\ Increasing(sched.rq)
  /\ \A p \in Live : sched.prio[p] = PRIO_RUN

Zombies == {p \in Child : state[p] = "zombie"}

(* SIGCHLD has been raised, and main.c has not called wait(NULL) since.     *)
ChildDue == "SIGCHLD" \in pending \/ (pc = "dispatch" /\ event_type = "CHILD_TERMINATED")

(* On one CPU and without collisions: one signal at a time, and one zombie, *)
(* from its exit to wait(NULL).                                             *)
OneEvent ==
  /\ "SIGCHLD" \in pending => pc = "sigsuspend" /\ "SIGALRM" \notin pending
  /\ pc = "arrival" => event_type = "PROCESS_ARRIVAL"
  /\ IF ChildDue THEN \E p \in Child : Zombies = {p} ELSE Zombies = {}

(* RR: the array holds the pool, the zombie is the job at its current       *)
(* index, and what module RR needs holds.                                   *)
RRInStep ==
  /\ R!Inv
  /\ Pool = {pq[i] : i \in R!Slots}
  /\ ChildDue => Zombies = R!to_resume

(* SJF: the heap and active_process hold the pool, the zombie is the active *)
(* job, the jobs in the heap have neither begun nor been resumed, and what  *)
(* module SJF needs holds.                                                  *)
SJFInStep ==
  /\ S!Inv
  /\ Pool = S!Contents(inactive_heap) \cup S!Active
  /\ ChildDue => Zombies = S!Active
  /\ \A p \in S!Contents(inactive_heap) : state[p] = "new" /\ sched.prio[p] = PRIO_MIN

(* What holds as long as main.c runs, on one CPU and without collisions.    *)
QuietInv == ~Ended => /\ OneEvent
                      /\ Strategy = "RR" => RRInStep
                      /\ Strategy = "SJF" => SJFInStep

TimersInv == ~Ended => T!Inv
=============================================================================
