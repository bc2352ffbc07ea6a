# A TLA+ model of the user-space scheduler

The program reads a policy and a list of jobs, forks a child per job when the
job arrives, and decides which child runs by changing real-time priorities. It
runs on Linux under `SCHED_FIFO`; a "context switch" is a pair of calls of
`sched_setscheduler`. This project models the program, on one CPU unless it says
otherwise, checks the models with TLC and proves with TLAPS, for every number of
jobs and every input, the safety of the components and of the whole program under
FIFO, RR and SJF (the fourth policy, PSJF, crashes at its first call).

## The system

| Component | State | Operations | Interacts through |
|---|---|---|---|
| event loop (`main.c:324-376`) | `event_type`, blocked signals | `sigsuspend`, handling of `TIMER_EXPIRED` / `CHILD_TERMINATED`, `add_process`, `remove_current_process`, `context_switch`, exit | signals from the kernel, calls to the job schedulers |
| timers and arrival queue (`main.c:198-322`, `493-517`) | `TimerInfo` (two remaining times, one POSIX timer), `arrival_ptr` | `create_timer_and_init_timespec`, `get_expire_reason`, `subtract_time_passed`, `set_timer`, `update_*`, `get_arrived_process` | `SIGALRM` |
| RR (`RR.c`) | array `pq`, `process_count`, two indices | add, remove current, slice over, context switch, empty | called by the event loop |
| SJF (`SJF.c`) with the heap (`heap.c`) | `inactive_heap`, `active_process` | add, remove current, context switch, empty; insert, top, pop | called by the event loop |
| PSJF (`PSJF.c`) with the heap | heap, `active_process`, two times | the same | called by the event loop |
| FIFO (`FIFO.c`) | a counter | add (resumes at once), remove current, empty | relies on the kernel's run list |
| children (`main.c:138-162`) | a priority, a life cycle | start (`set_child_priority`), run, exit | `SIGCHLD`, `wait` |
| priorities (`scheduler.h:98-119`) | kernel: priority and run list | `set_priority`, `suspend_process`, `resume_process` | `sched_setscheduler` |
| timespec arithmetic (`main.c:198-206`, `450-485`) | none | multiply, divide, subtract, minimum, measuring a unit | used by the timers |
| interface of the job schedulers (`scheduler.h:42-84`) | a pool, who has the CPU | the functions every policy implements | called by the event loop |
| system calls (`proj1.c`) and `time_calc.py` | the kernel log, a start time per child | log start and end, compute differences | called by the children |
| manual tests (`main.c:519-630`) | a parent and a child | `fork_test` and four others | `SCHED_FIFO`, `SIGALRM` |

What is hard: two signals feed one variable; the timer runs while the loop
works; one timer plays two; `wait(NULL)` does not say who ended; array indices
are kept across insertions and removals; the order of service under FIFO is the
kernel's, not the program's; and everything the loop waits for must come. Each
hazard is listed at its line in `PROJECT.json` with the properties that cover it.

## Modules

| Module | Models | Uses |
|---|---|---|
| `SchedFifo` | priorities and run list of the children; `set_priority`, `fork`, `exit`, which child has the CPU | |
| `RR` | `RR.c`, every function, under the calling order of `scheduler.h` | `SchedFifo` |
| `RunQueue` | abstract: one round-robin queue, its head dispatched | |
| `Heap` | `heap.c`, operators on the array | `SchedFifo` |
| `SJF` | `SJF.c`, every function, under the same calling order | `Heap` |
| `ShortestJob` | abstract: a set from which the shortest job is taken when none is active | |
| `FIFO` | `FIFO.c` | `SchedFifo` |
| `PSJF` | `PSJF.c` | `Heap` |
| `Timers` | `TimerInfo`, the arrival queue and the POSIX timer | `SchedFifo` |
| `Timespec` | the arithmetic on `struct timespec`, with C's division | |
| `TimerInfo` | the timers again, in seconds and nanoseconds; implements `Timers` | `Timespec`, `SchedFifo` |
| `JobScheduler` | abstract: what `scheduler.h` demands of every policy: only a context switch, called after an event, moves the CPU | |
| `Scheduler` | the whole program: event loop, children, signals, composed with `Timers`, `FIFO`, `RR`, `SJF` | `INSTANCE` of each |
| `ProcessLog` | `Scheduler` with the two system calls of every child, the kernel log and `time_calc.py` | `Scheduler`, `Timespec` |
| `ForkTests` | the manual tests: two small programs under `SCHED_FIFO` | `SchedFifo` |
| `RRProofs`, `SJFProofs`, `ForkTestsProofs` | theorems about `RR`, `SJF` with `Heap`, and `ForkTests` | `SchedFifoProofs` |
| `TimersProofs` | theorems about `Timers` | |
| `SchedFifoProofs` | lemmas about the run list | |
| `TimerInfoProofs` | theorems about `Timespec`, `TimerInfo` and its refinement of `Timers` | `TimersProofs` |
| `SchedulerProofs` | theorems about `Scheduler` and `ProcessLog` under every fault | `SchedFifoProofs`, `RRProofs`, `SJFProofs` |
| `SchedulerContracts` | theorems about `Scheduler` without collisions, and the contracts it keeps | `SchedulerProofs`, `TimersProofs` |
| `MCRR`, `MCSJF`, `MCPSJF`, `MCTimers`, `MCTimerInfo`, `MCScheduler`, `MCProcessLog` | the inputs the runs enumerate | |

Variables and operators keep the names of the C code. An operator named after a
C function is that function: a relation between the old and the new variables of
its component, or, where it calls the kernel, a function from the kernel's state
to the kernel's state. `Scheduler` builds its actions from the same operators, so
the functions are translated once.

**Jobs and pids.** A job is its index in `all_process_info`. Forks happen in
that order, so the index orders the pids as well (heap ties are broken by pid);
a wrap-around of the kernel's pids is not modelled. `NULL` is -1.

**The kernel.** `sched_setscheduler` puts a child whose priority is lowered at the
head of the list of its new priority and one whose priority is raised at the tail
(sched(7) and Linux 5.0). The child that runs while the scheduler sleeps is the
first one of the highest priority; on `CPUs` of them, the first `CPUs` (one fewer
while the scheduler is awake). These definitions are external to the
repository and modelled from how the code uses them.

**The event loop.** The scheduler has the highest priority and both signals
blocked (`block_some_signals`, `raise`), so a pass of the loop is interrupted by
nothing; only the timer goes on.
The actions are the stretches of a pass between two moments at which the timer's
expiry makes a difference: `SigSuspend` (the handlers run), `TimesliceOver`,
`ProcessArrival` (with the first `add_process`), `AnotherArrival`, `ArrivalsDone`
(with `set_timer`), `ChildTerminated`, `ContextSwitch` and `ContextSwitchFails`,
`Leave`. On one CPU children take steps (`ChildStart`, `ChildExit`) only while the
scheduler is blocked with no signal pending. A failed assertion ends the scheduler
alone (`aborted`); `scheduler_exit` kills the process group (`killed`). A child that has
the CPU may exit at any moment, so every relation of run times and arrival times is
covered.

**Time** is counted in whole time units in `Timers`. `TimerInfo` keeps the same
state as `main.c` does, in seconds and nanoseconds, and `ImplementsTimers` shows that
counting in units loses nothing. `clock` is a history variable that adds
up the intervals the timer was set to; the time the loop itself takes is not
measured, so "on time" means: by the program's own timer arithmetic.

**The log.** A time in the log is two unpadded numerals, and `TimeInfo` is what
`time_calc.py` makes of them. `now` advances by `Tick` with every system call.

**The manual tests** are sequences of calls; each action of `ForkTests` is one call of
the program that has a CPU. Time is counted in ticks, one per `run_single_unit`; `Seconds` is the
set of speeds the machine may have. While a timer runs, any number of ticks up to
`MaxOverhead` may pass between two calls (`spent` adds them up), so `sleep(10)` and `alarm(1)`
may end at any point of either program. `Passes` compares the output with the one the
test's comment expects, message by message. For the two tests with a timer it speaks of
the behaviours of `InTime`: the calls of `fork_block_test` take less than ten seconds; those of
`fork_signal_test` less than one, and its loop a second or more. `priority_test` prints nothing:
`Passes` says only that, and `Ends` that it ends.

**Variants.** `ForkMayFail` lets `fork` return -1 at any arrival. `CPUs` is the number of
CPUs. `Collisions` says whether the timer may expire while `SIGCHLD` is pending. With
`FALSE` the runs show that the program is right otherwise; with `TRUE` they show what
is lost (`lost_event`) and what is not (`sched_faults`).

## Runs

| Run | Bounds | Shows |
|---|---|---|
| `rr_pool` | 4 jobs | `IndexSafe`, `OneResumed`, and that `RR` implements `RunQueue` |
| `sjf_pool` | 5 jobs, lengths 1..3 (all 243 inputs) | `HeapSafe`, and that `SJF` implements `ShortestJob` and `JobScheduler` |
| `timers_rr` | 3 jobs, slice 3, arrivals 0..8, all tie-free inputs, sorted or not | arrivals and slice ends on time, timer never dead, queue never overrun, every job arrives |
| `sched_fifo` | 4 jobs, arrivals 0..3 | the right job runs; the kernel's list serves the jobs in arrival order; termination; main.c keeps the contract of `Timers` |
| `sched_rr` | 3 jobs, slice 3, arrivals 0..5 without ties | the right job runs, no event is lost, clean exit, the reaped child is the current job, termination, and that main.c keeps the contracts of `RR` and `Timers` |
| `sched_sjf` | 3 jobs, arrivals 0..3, lengths 1..2 | shortest first, no preemption, abnormal end only in a gap, the contract of `SJF`; with the system calls of `ProcessLog` (a second of 100 ns, calls 27 ns apart): a complete log, and exact run times from `time_calc.py` |
| `sched_faults` | 3 jobs, RR, two CPUs, colliding signals, failing forks, unsorted and negative inputs | RR's indices stay inside the array although events are lost and the wrong jobs removed; however the scheduler ends, no child survives it |
| `timer_info` | 2 jobs, a second of 5 ns, all measurements up to 4 s of 2 units, arrivals 0..8 | `TimerInfo` implements `Timers`; remaining times stay whole, normalised multiples of the unit; the drift of an arrival is bounded |
| `fork_tests` | the five tests, loops of 5 units, a second of 3 or of 7 units, up to 71 ticks spent in other calls | the expected output in the expected order; every test ends; a child does nothing but lower itself while its parent can run |

The bounds are the smallest that let the interesting cases happen: a job that
arrives before, at and behind the wrap of RR's array needs three or more jobs in
the pool; a heap has an inner node with one child and one with two from five slots
on; three arrivals within three slices give every order of arrival and slice end,
equal arrivals included; gaps appear because children may exit at once. With a
second of 5 ns the products carry and the subtractions borrow all the time; with
calls 27 ns apart and a second of 100 ns, times with one and with two digits of
nanoseconds, in different seconds, are printed. In `fork_tests` the loop is longer than one of
the two seconds and shorter than the other, and 71 ticks are more than ten of the longer
one, so sleep and alarm end before, in and after every part of the child's program.

`sched_rr` also checks that the program implements `JobScheduler` (`KeepsInterface`), as
`sjf_pool` does for `SJF.c`. `JobScheduler` remembers whether a context switch is `due`: every
operation makes it so, and the CPU moves only in the step that ends it. In the program
that is the step from main.c:370 to the next `sigsuspend`, so neither a slice end that moves
the CPU nor a child that raises itself is taken for a context switch. Under RR the jobs need not even begin in the order of
arrival: a slice is not restarted when a job ends, so the next job may be given a
remainder too short for its first step. No document promises more, and no property
claims it.

Deadlock checking is off wherever the program really stops (`exit`, `aborted`,
`killed`, or the end of a component's input). That it stops nowhere else is `Terminates` and
`Halts`.

**Fairness** (`Scheduler!Fairness`): weak fairness of the loop (nothing has a higher
priority) and of the timer; strong fairness of each child's start and exit, because
a job has a finite number of units and every slice it is given uses some up; and
strong fairness of a context switch with no signal pending: a slice of 500 units is
not for ever shorter than one pass of the loop. Without the last one TLC finds the
behaviour in which the timer expires in every pass and no child ever runs. `Timers`
assumes weak fairness of its steps only, and so does `ForkTests`; `ProcessLog` adds strong
fairness of a child's second system call, for the reason given for its exit.

### Disagreements with the documents

Three runs expect a violation; `PROJECT.json` quotes the lines.

* `lost_event`: report.md claims that the event handler has no race. Both handlers
  write `event_type`; if the timer expires while `SIGCHLD` is pending, one event is
  lost: the timer is never set again, or a zombie is never reaped and the loop
  never ends.
* `sjf_gap`: when all jobs have ended and one is still to arrive,
  `context_switch_SJF` pops an empty heap and resumes a reaped pid.
* `psjf_first`: `add_process_PSJF` dereferences `active_process`, which is NULL at the
  first arrival, so no later operation of `PSJF.c` is ever reached.

### Outside the assumptions

The runs hold under assumptions the code does not check; a changed line in a
configuration shows what depends on them.

* Ties: an arrival at a multiple of the slice is taken for the end of the slice and
  `set_timer` then disarms the timer (`TimerAlive` fails with `ArrivalTimes <- AnyArrivals`
  in `MCTimersRR.cfg`). report.md names the assumption; the code does not check it.
* One CPU: nothing pins the program to one. On two, a suspended child runs on the
  free one, may end first, and the scheduler removes the current job instead of it
  (`ReapsCurrent` fails with `CPUs = 2` in `MCSchedulerRR.cfg`, and so does `Passes` in
  `MCForkTests.cfg`). `sched_faults` shows what still holds then.
* Slow calls: nothing bounds the time between `alarm(1)` and the child's first message, or
  between `fork` and the end of `sleep(10)`. `Passes` fails with any one of the bounds of `InTime`
  weakened by a tick: the parent is awoken before the child begins, the child finds its
  parent terminated, or the child's loop ends before the second does.
* Only `context_switch` moves the CPU (`scheduler.h:72`): `add_process_FIFO` gives every job
  the second highest priority at once and leaves the rest to the kernel's list
  (`KeepsInterface` fails when it is added to `MCSchedulerFIFO.cfg`). `sched_fifo` shows that the order of
  service is right all the same.

## Proofs

Everything below is proved for every value of the constants. The named assumptions
are those of the modules: at least one job, a slice of at least one unit, a second
of at least one nanosecond, integer arrival times, natural lengths, at least one
CPU, a strategy that the module knows, normalised clock readings, and a unit that
takes at least a nanosecond. What the code does not guarantee is never an assumption
on a constant but a hypothesis of the theorem that needs it.

### Components

* `RRProofs`: `Inv` is an invariant of `RR!Spec`. `IndexSafe` and `OneResumed` are not
  inductive alone: at a context switch one must know who still has the CPU, which
  `OwedSwitch` says. After an insertion `previous_active_id` may point to another job
  than the one it was set for; that is harmless because after an arrival the only
  resumed job is the one at `current_process_id`, and it is resumed last. From `Inv`
  follow `IndexSafety`, `SingleResumed` and `Refinement`: each action of `RR` is a step
  of `RunQueue` or a stutter under the mapping that reads the array circularly from
  `current_process_id`.
* `SJFProofs`: first `heap.c`, for arrays of any length. The loops of `upheap` and `downheap`
  are recursive functions. That these functions exist, and what they compute, is proved
  without an induction theorem: take the least slot (for `downheap` the greatest) at
  which the claim fails, which exists because the natural numbers are well founded
  (`Least`), and one iteration refutes it. The claims: the loop permutes the array
  (`Rearranged`) and, from an array with a heap's order everywhere but at one slot,
  makes a heap (`UpheapCorrect`, `DownheapCorrect`). So `heap_insert` adds its job, `heap_top`
  is the shortest one and `heap_pop` removes it (`InsertCorrect`, `TopIsShortest`,
  `PopCorrect`). Then `SJF.c`: `Inv` adds to `HeapSafe` that a free slot is left for the next
  arrival (`Room`), that exactly the active job has been resumed (`ActiveResumed`) and
  that no job waits while none is active unless a context switch is owed (`OwedSwitch`),
  which the proofs about the whole program use. From it follow
  `HeapStaysSafe`, `Refinement` (of `ShortestJob`) and `InterfaceKept` (`JobScheduler`).
* `TimersProofs`: `Inv` ties `TimerInfo` to the clock: armed, the two counters are the
  distances to the next arrival and to the next slice end; expired, both are late by
  the interval the timer was set to; arriving, the clock is the arrival time of the
  job just taken. The only place where the absence of ties is needed is
  `TimesliceOver`, where it keeps `arrival_remaining` from becoming 0. From it follow
  `OnTime`, `SliceEnds`, `Alive`, `QueueSafe` and, for sorted inputs, `NeverRefused`: no
  `timer_settime` and no assertion on a remaining time fails.
* `TimerInfoProofs`, first part: for every length of a second, `timespec_subtract`,
  `timespec_multiply` (by any number) and `timespec_divide` return the exact result, and
  `min_timespecp` compares exactly. A product with a negative number is not normalised,
  but all its parts are negative or 0, which is what the assertions look at.
* `TimerInfoProofs`, second part: the invariant says that every remaining time is a whole number of
  units (`Whole`), with one exception: after a failed assertion the time that made it
  fail is negative. Then `min_timespecp`, `timespec_subtract` and `timespec_multiply` act on
  the numbers of units as `Timers` does (`WholeMin`, `WholeSubtract`, `WholeMultiply`), so
  every step maps to a step of `Timers` (`Refinement`, for every input, ties included).
  `DriftIsBounded` combines it with `TimersProofs!OnTime`, and so needs tie-free inputs
  for RR.
* `ForkTestsProofs`: with one CPU, for every number of units a loop runs and every speed of
  the machine, the tests print what they should (`TestsPass`) and a child does nothing but
  lower itself while its parent can run (`ParentGoesFirst`, without a condition on time). `Inv`
  says that the parent is above the child once both have set their priorities, and that it
  cannot be asleep where the child expects it to have ended. `TimedInv` adds, per test, how
  much has been printed at each pair of calls: `PatientOutput` where no timer is set;
  `BlockInTime`, where until the child ends the timer is ten seconds less `spent`; and
  `SignalInTime`, where the alarm is a second less `spent` and the units of the loop done so
  far, and therefore comes in the loop.

### The whole program

The invariant of `Scheduler` comes in layers, and a theorem uses only the ones it
needs; the fewer hypotheses, the lower the layer. Where nothing else is said the
theorems are about every policy.

1. `FaultInv` (`Robust`) holds whatever goes wrong: colliding signals, any number of
   CPUs, failing forks, unsorted and negative inputs. A lost event makes the program
   remove the wrong job, so the policy and the children no longer agree on who is in the
   pool; but they agree on how many (`JobCount`), and that is what `scheduler_empty`, the
   indices of `RR.c` and the room in SJF's heap depend on. It gives `NoChildSurvives`,
   `LeavesClean`, `RRStaysInside` and `SJFHeapStaysSafe`. The heap needs `OwedSwitch` here
   too: the number of jobs SJF keeps goes down with `remove_current_process_SJF` only if a job
   is active then, and it is the context switch at the end of every pass that makes one.
2. `RunListOK` (`KernelInvariance`, `TypeCorrect`): the kernel's list is the set of the
   living children, each once. Under FIFO, `FifoList` adds that the list is ordered by
   arrival and every living child has the same priority: `add_process` lowers a new child
   and raises it again, which leaves it at the tail, and the priority a child gives
   itself in `set_child_priority` is the one it has already, which moves nothing. It
   gives `FifoRunsOldest` and, on one CPU, `FifoInOrder` and `FifoNeverPreempts`, under
   every other fault.
3. `QuietInv` (`Quiet`) assumes one CPU and no collisions: at most one event is due
   (`OneEvent`), and what the policy keeps is the very pool of jobs, with the invariant
   of its own module: for RR the array (`RRInStep`), for SJF the heap and the active job,
   those in the heap neither begun nor resumed (`SJFInStep`). It gives `ReapsTheRightJob`,
   `RRRunsCurrent`, and for SJF `SJFRunsActive`, `SJFNeverPreempts` and `DispatchesShortest`.
   That the invariants of `RRProofs` and `SJFProofs` are kept is not proved again: each
   action of `Scheduler` is shown to be a step of `RR` or of `SJF`, and their proofs do the
   rest.
4. `TimersInv` (`TimersInvariance`) assumes tie-free arrivals too and carries the invariant
   of `TimersProofs` over in the same way. It gives `LosesNoEvent`. (Only RR has ties: for
   the other policies the hypothesis holds of every input.)
5. `GoodInv` (`GoodInvariance`) assumes sorted inputs and forks that succeed. Then the
   program never ends abnormally under FIFO and RR (`NeverEndsAbnormally`), and under SJF
   only in the gap that the finding `sjf_gap` describes (`SJFAbortsOnlyInGap`). `main.c`
   keeps the contracts of `Timers`, `RR` and `SJF` (`KeepsTimersContract`, `KeepsRRContract`,
   `KeepsSJFContract`), so under RR it serves a plain round-robin queue (`ServesAQueue`) and
   under SJF takes the shortest job from a plain set (`ServesShortestFirst`), and under
   both it implements `JobScheduler` (`KeepsJobInterface`): the CPU moves only in a context
   switch that follows an event.

The log, at the end of `SchedulerProofs`: `RunTimesExact` says that `time_calc.py` computes the
time between the two system calls; it needs only that the log holds numerals of
normalised times. `LogIsComplete` (every fault) needs `LogInv`: a line per child past its
second call, no child twice, so the number of lines is the number of these children.

### Only model-checked

The liveness properties `Terminates`, `Halts`, `EveryJobArrives` and `Ends`: liveness under
fairness is out of the prover's reach. Every other property of a passing run is stated by
a theorem.

## Not modelled

* A failing `timer_create` or `malloc`, and a wrap-around of the kernel's pids.
* `scanf` and the syntax of the input; a workload is what was parsed.
* `_start_process_safe` and `_stop_process_safe` of `proj1.c`, `processinfo_ptr_cmp` and
  `timspec_is_zero` of `main.c`: nothing calls them.
* A step of the wall clock between the two system calls of a child.
* The scripts, which only start the program, and the kernel's tables, which are Linux
  files with a few declarations added.
* The mutual dependence of run times and slices: a child that has the CPU may
  end at any moment, which covers every duration but bounds none.

## Plan

Done, in this order: `SchedFifo`, `RR` with `RunQueue` and the proofs; `Timers` and the
proofs; `Heap`, `SJF` with `ShortestJob`; `PSJF`; `FIFO`; `Scheduler`; `Timespec` with its
proofs and `TimerInfo`; `JobScheduler`; failing forks, bad inputs and a second CPU in
`Scheduler`; `ForkTests`; `ProcessLog`.

Then the proofs: `TimerInfoProofs`; `SchedulerProofs` and `SchedulerContracts` for FIFO and RR,
the log among them; `SJFProofs`, with the heap's loops; `Scheduler` under SJF; `ForkTestsProofs`.

Left: nothing of the plan. A repaired `PSJF.c` would be a new component, with `Heap` and the
lemmas of `SJFProofs` about it ready for use.
