------------------------- MODULE SchedulerContracts --------------------------
(***************************************************************************)
(* What holds of the program on one CPU when no signal overwrites another, *)
(* under every policy, for every number of jobs and every length of a time *)
(* slice: main.c keeps the contracts of modules RR, SJF and Timers, so the *)
(* theorems about them hold in the program; it reaps the job its policy    *)
(* removes, loses no event, and gives the CPU to the job the policy chose. *)
(***************************************************************************)
EXTENDS SchedulerProofs

(* The kernel's calls, named in RR, in the theorems about RR or here.       *)
LEMMA SameCalls ==
  /\ \A s, p : R!suspend_process(s, p) = suspend_process(s, p)
  /\ \A s, p : RP!suspend_process(s, p) = suspend_process(s, p)
  /\ \A s, p : R!resume_process(s, p) = resume_process(s, p)
  /\ \A s, p : RP!resume_process(s, p) = resume_process(s, p)
  /\ \A s, p : R!fork(s, p) = fork(s, p)
  /\ \A s, p : RP!fork(s, p) = fork(s, p)
  /\ \A s, p : R!exit(s, p) = exit(s, p)
  /\ \A s, p : RP!exit(s, p) = exit(s, p)
BY DEF R!suspend_process, R!resume_process, R!set_priority, R!Queued, R!Without, R!PRIO_MIN, R!PRIO_MAX,
       R!PRIO_RUN, R!fork, R!exit,
       RP!suspend_process, RP!resume_process, RP!set_priority, RP!Queued, RP!Without, RP!PRIO_MIN,
       RP!PRIO_MAX, RP!PRIO_RUN, RP!fork, RP!exit,
       suspend_process, resume_process, set_priority, Queued, Without, PRIO_MIN, PRIO_MAX, PRIO_RUN,
       fork, exit

(* The invariant and the steps of RR. *)
LEMMA SameRRInv ==
  /\ R!Inv <=> RP!Inv
  /\ R!Inv' <=> RP!Inv'
BY DEF R!Inv, RP!Inv, R!TypeOK, RP!TypeOK, R!SlotsOK, RP!SlotsOK, R!IndexSafe, RP!IndexSafe,
       R!OneResumed, RP!OneResumed, R!OwedSwitch, RP!OwedSwitch, R!Slots, RP!Slots, R!Child, RP!Child,
       R!NULL, RP!NULL, R!PRIO_MIN, R!PRIO_MAX, R!PRIO_RUN, RP!PRIO_MIN, RP!PRIO_MAX, RP!PRIO_RUN

(* A step of RR as Scheduler instantiates it is one of the RR the theorems  *)
(* of RRProofs are about.                                                   *)
LEMMA SameRRNext ==
  ASSUME [R!Next]_(R!vars)
  PROVE  [RP!Next]_(RP!vars)
<1>1. R!Add => RP!Add
  BY SameCalls, SameRR DEF R!Add, RP!Add
<1>2. R!Remove => RP!Remove
  BY SameRR DEF R!Remove, RP!Remove
<1>3. R!Timeslice => RP!Timeslice
  BY SameRR DEF R!Timeslice, RP!Timeslice
<1>4. R!Switch => RP!Switch
  BY SameCalls DEF R!Switch, RP!Switch, R!context_switch_RR, RP!context_switch_RR, R!rrvars, RP!rrvars
<1>5. (\E p \in R!Child : R!Exit(p)) => \E p \in RP!Child : RP!Exit(p)
  BY SameCalls DEF R!Exit, RP!Exit, R!rrvars, RP!rrvars, R!Child, RP!Child
<1>6. UNCHANGED R!vars => UNCHANGED RP!vars
  BY DEF R!vars, RP!vars, R!rrvars, RP!rrvars
<1> QED
  BY <1>1, <1>2, <1>3, <1>4, <1>5, <1>6 DEF R!Next, RP!Next

(* What module RR shows holds after every such step. *)
LEMMA RRInvNext ==
  ASSUME R!Inv, [R!Next]_(R!vars)
  PROVE  R!Inv'
BY SameRRInv, SameRRNext, RP!NextInv, NumProcessAssumption

-----------------------------------------------------------------------------
(* The CPU is idle without living children.                                 *)
LEMMA IdleCPU ==
  ASSUME RunListOK, Live = {}
  PROVE  sched.rq = <<>> /\ OnCPU(sched) = {}
<1>1. sched.rq \in Seq(Child) /\ \A i \in DOMAIN sched.rq : sched.rq[i] \in Live
  BY DEF RunListOK, Queued, Kernel
<1>2. Len(sched.rq) \in Nat /\ DOMAIN sched.rq = 1 .. Len(sched.rq)
  BY <1>1
<1>3. Len(sched.rq) = 0
  <2>1. Len(sched.rq) # 0 => 1 \in DOMAIN sched.rq
    BY <1>2
  <2> QED BY <1>1, <2>1
<1>4. sched.rq = <<>>
  BY <1>1, <1>3
<1> QED
  BY <1>4 DEF OnCPU, OnCPUs

(* RR: the job at the current index has the CPU whenever the scheduler      *)
(* sleeps.                                                                  *)
LEMMA RRHead ==
  ASSUME Strategy = "RR", RunListOK, QuietInv, pc = "sigsuspend", pending = {}
  PROVE  /\ OnCPU(sched) = R!to_resume
         /\ Live = Pool /\ (Live # {} => R!to_resume # {})
         /\ \A p \in R!to_resume : sched.prio[p] = PRIO_RUN
<1>1. R!Inv /\ Pool = {pq[i] : i \in R!Slots} /\ Zombies = {} /\ Phase = "running"
  BY DEF QuietInv, Ended, OneEvent, RRInStep, ChildDue, Phase
<1>2. Live = Pool
  BY <1>1 DEF Zombies, Live, Pool
<1>3. /\ process_count \in Nat /\ current_process_id \in Int
      /\ process_count = 0 => current_process_id = -1
      /\ process_count > 0 => current_process_id \in R!Slots
      /\ R!Slots = {i \in Child : i < process_count}
      /\ \A i \in R!Slots : pq[i] \in Child
      /\ \A i, j \in R!Slots : pq[i] = pq[j] => i = j
      /\ \A i \in R!Slots : sched.prio[pq[i]] = IF i = current_process_id THEN PRIO_RUN ELSE PRIO_MIN
  BY <1>1, NumProcessAssumption
  DEF R!Inv, R!TypeOK, R!SlotsOK, R!IndexSafe, R!OneResumed, R!Slots, R!Child, Child,
      R!PRIO_RUN, R!PRIO_MIN, R!PRIO_MAX, PRIO_RUN, PRIO_MIN, PRIO_MAX
<1>4. CASE process_count = 0
  <2>1. R!to_resume = {} /\ R!Slots = {} /\ Live = {}
    BY <1>1, <1>2, <1>3, <1>4, NumProcessAssumption DEF R!to_resume, Child
  <2>2. OnCPU(sched) = {}
    BY <2>1, IdleCPU
  <2> QED BY <1>2, <2>1, <2>2
<1>5. CASE process_count > 0
  <2> DEFINE c == pq[current_process_id]
  <2>1. R!to_resume = {c} /\ c \in Live /\ sched.prio[c] = PRIO_RUN
    BY <1>1, <1>2, <1>3, <1>5 DEF R!to_resume, R!Slots, R!Child
  <2>2. \A p \in Live \ {c} : sched.prio[p] = PRIO_MIN
    BY <1>1, <1>2, <1>3
  <2> HIDE DEF c
  <2>3. \A p \in Queued(sched) \ {c} : sched.prio[p] < sched.prio[c]
    BY <2>1, <2>2 DEF RunListOK, PRIO_MIN, PRIO_RUN, PRIO_MAX
  <2>4. OnCPU(sched) = {c}
    BY <2>1, <2>3, HighestRuns DEF RunListOK
  <2> QED BY <1>2, <2>1, <2>4
<1> QED BY <1>3, <1>4, <1>5

(* On one CPU the child that runs is the current job, and its own           *)
(* set_child_priority changes nothing.                                      *)
LEMMA RRChildRuns ==
  ASSUME Strategy = "RR", CPUs = 1, RunListOK, QuietInv, NEW p \in Child, Runs(p)
  PROVE  /\ pc = "sigsuspend" /\ pending = {}
         /\ R!to_resume = {p}
         /\ set_priority(sched, p, PRIO_RUN) = sched
<1>1. pc = "sigsuspend" /\ pending = {} /\ p \in OnCPU(sched)
  BY OneCPU
<1>2. p \in R!to_resume /\ sched.prio[p] = PRIO_RUN
  BY <1>1, RRHead
<1>3. set_priority(sched, p, PRIO_RUN) = sched
  BY <1>2, SamePriority DEF RunListOK
<1> QED
  BY <1>1, <1>2, <1>3 DEF R!to_resume

(* RR never hands the pid of a reaped child to sched_setscheduler.          *)
LEMMA RRPidsFresh ==
  ASSUME Strategy = "RR", QuietInv, ~Ended
  PROVE  ~context_switch_fails
<1>1. R!to_suspend \cup R!to_resume \subseteq Pool
  BY NumProcessAssumption
  DEF QuietInv, RRInStep, R!Inv, R!TypeOK, R!SlotsOK, R!IndexSafe, R!to_suspend, R!to_resume, R!Slots, R!Child
<1>2. Pool \cap Reaped = {}
  BY DEF Pool, Reaped
<1> QED
  BY <1>1, <1>2 DEF context_switch_fails

(* Every step of the program is a step of module RR, or RR does not see it. *)
LEMMA RRStep ==
  ASSUME Strategy = "RR", CPUs = 1, FaultInv, RunListOK, QuietInv, ~Ended, Next,
         pc' \notin {"aborted", "killed"}
  PROVE  [R!Next]_(R!vars)
<1> USE DEF R!vars, R!rrvars
<1>0. /\ OneEvent /\ RRInStep /\ LoopTypes
      /\ process_count = Cardinality(Pool)
  BY DEF QuietInv, FaultInv, JobCount
<1>1. CASE SigSuspend
  BY <1>1 DEF SigSuspend, Phase, ti, jobs, rr
<1>2. CASE TimesliceOver
  <2>1. pc = "dispatch" /\ pc' = "switch" /\ event_type' = "TIMESLICE_OVER"
    BY <1>2 DEF TimesliceOver, EndsIf
  <2>2. Phase = "running" /\ Phase' = "switching"
    BY <2>1 DEF Phase
  <2>3. R!timeslice_over_RR /\ UNCHANGED <<sched, arrival_ptr>>
    BY <1>2, <2>1 DEF TimesliceOver, timeslice_over, EndsIf, T!timeslice_expired
  <2> QED BY <2>2, <2>3 DEF R!Next, R!Timeslice
<1>3. CASE ProcessArrival \/ AnotherArrival
  <2>1. arrival_ptr < num_process
    BY <1>0, <1>3, NumProcessAssumption
    DEF ProcessArrival, AnotherArrival, T!get_expire_reason, T!another_arrival, T!arrival_queue_empty, LoopTypes
  <2>2. add_process(arrival_ptr) /\ arrival_ptr' = arrival_ptr + 1
    BY <1>3 DEF ProcessArrival, AnotherArrival, T!arrival_expired, T!get_arrived_process
  <2>3. /\ sched' = suspend_process(fork(sched, arrival_ptr), arrival_ptr)
        /\ R!add_process_RR(arrival_ptr) /\ pc' = "arrival"
    BY <2>2 DEF add_process, scheduler_exit
  <2>4. Phase \in {"running", "arrived"} /\ Phase' = "arrived"
    BY <1>0, <1>3, <2>3 DEF ProcessArrival, AnotherArrival, Phase, OneEvent
  <2> QED BY <2>1, <2>2, <2>3, <2>4, SameCalls DEF R!Next, R!Add
<1>4. CASE ArrivalsDone
  <2>1. pc = "arrival" /\ pc' = "switch" /\ UNCHANGED <<sched, arrival_ptr, event_type, jobs>>
    BY <1>4 DEF ArrivalsDone, EndsIf, T!arrivals_done
  <2> QED BY <2>1 DEF Phase, jobs, rr
<1>5. CASE ChildTerminated
  <2>1. process_count > 0
    <3>1. PICK p \in Child : state[p] = "zombie"
      BY <1>5 DEF ChildTerminated
    <3>2. Pool # {}
      BY <3>1 DEF Pool
    <3> QED BY <1>0, <3>2, PoolFinite
  <2>2. Phase = "running" /\ Phase' = "switching"
    BY <1>5 DEF ChildTerminated, Phase
  <2>3. R!remove_current_process_RR /\ UNCHANGED <<sched, arrival_ptr>>
    BY <1>5 DEF ChildTerminated, remove_current_process, ti
  <2> QED BY <2>1, <2>2, <2>3 DEF R!Next, R!Remove
<1>6. CASE ContextSwitch
  <2>1. Phase \in {"arrived", "switching"} /\ Phase' = "running"
    BY <1>6 DEF ContextSwitch, Phase
  <2>2. sched' = R!context_switch_RR(sched) /\ UNCHANGED <<jobs, arrival_ptr>>
    BY <1>6 DEF ContextSwitch, context_switch, ti
  <2> QED BY <2>1, <2>2 DEF R!Next, R!Switch, jobs, rr
<1>7. CASE Leave
  BY <1>7 DEF Leave, Phase, ti, jobs, rr
<1>8. CASE TimerExpires
  BY <1>8 DEF TimerExpires, raise, block_some_signals, Phase, jobs, rr
<1>9. ASSUME NEW p \in Child, ChildStart(p) PROVE UNCHANGED R!vars
  BY <1>9, RRChildRuns DEF ChildStart, Phase, ti, jobs, rr
<1>10. ASSUME NEW p \in Child, ChildExit(p) PROVE R!Exit(p)
  <2>1. pc = "sigsuspend" /\ Phase = "running" /\ Phase' = Phase
    BY <1>10, RRChildRuns DEF ChildExit, Phase
  <2> QED BY <1>10, <2>1, SameCalls DEF ChildExit, R!Exit, ti, jobs, rr
<1>11. R!Child = Child
  BY DEF R!Child, Child
<1>12. ~ContextSwitchFails
  BY RRPidsFresh DEF ContextSwitchFails
<1> QED
  BY <1>1, <1>2, <1>3, <1>4, <1>5, <1>6, <1>7, <1>8, <1>9, <1>10, <1>11, <1>12 DEF Next, Loop, R!Next

-----------------------------------------------------------------------------
(* One event at a time. *)
LEMMA OneEventNext ==
  ASSUME CPUs = 1, ~Collisions, FaultInv, RunListOK, OneEvent, ~Ended, ~Ended', Next
  PROVE  OneEvent'
<1> USE DEF OneEvent
<1>0. LoopTypes /\ BornInOrder /\ OneAlarm
  BY DEF FaultInv
<1>1. CASE SigSuspend
  <2>1. PICK signo \in pending : event_type' = signal_handler(signo)
    BY <1>1 DEF SigSuspend
  <2>2. /\ pc = "sigsuspend" /\ pc' = "dispatch" /\ pending' = {} /\ state' = state
    BY <1>1 DEF SigSuspend
  <2>3. signo = "SIGCHLD" <=> "SIGCHLD" \in pending
    BY <1>0, <2>1 DEF LoopTypes
  <2>4. ChildDue' <=> ChildDue
    BY <1>0, <2>1, <2>2, <2>3 DEF ChildDue, signal_handler, LoopTypes
  <2> QED BY <2>2, <2>4 DEF Zombies
<1>2. CASE TimesliceOver \/ ArrivalsDone
  <2>1. /\ pc \in {"dispatch", "arrival"} /\ pc' = "switch" /\ pending' = pending /\ state' = state
        /\ pc = "dispatch" => event_type = "TIMER_EXPIRED"
    BY <1>2 DEF TimesliceOver, ArrivalsDone, EndsIf, Ended
  <2> QED BY <2>1 DEF Zombies, ChildDue
<1>3. CASE ProcessArrival \/ AnotherArrival
  <2>1. /\ pc \in {"dispatch", "arrival"} /\ pc' = "arrival" /\ pending' = pending
        /\ pc = "dispatch" => event_type = "TIMER_EXPIRED" /\ event_type' = "PROCESS_ARRIVAL"
        /\ pc = "arrival" => event_type' = event_type
        /\ state' = [state EXCEPT ![arrival_ptr] = "new"]
    BY <1>3 DEF ProcessArrival, AnotherArrival, add_process, scheduler_exit, Ended
  <2>2. arrival_ptr < num_process
    BY <1>0, <1>3, NumProcessAssumption
    DEF ProcessArrival, AnotherArrival, T!get_expire_reason, T!another_arrival, T!arrival_queue_empty,
        AlarmMeansArrival, TimerDispatched, FaultInv, LoopTypes
  <2>3. arrival_ptr \in Child /\ state[arrival_ptr] = "unborn"
    BY <1>0, <2>2, NumProcessAssumption DEF LoopTypes, BornInOrder, Child
  <2>4. Zombies' = Zombies
    BY <1>0, <2>1, <2>3 DEF Zombies, LoopTypes
  <2> QED BY <2>1, <2>4 DEF ChildDue
<1>4. CASE ChildTerminated
  <2>1. /\ pc = "dispatch" /\ event_type = "CHILD_TERMINATED" /\ pc' = "switch" /\ pending' = pending
        /\ \E p \in Child : state[p] = "zombie" /\ state' = [state EXCEPT ![p] = "reaped"]
    BY <1>4 DEF ChildTerminated
  <2>2. Zombies' = {}
    BY <1>0, <2>1 DEF Zombies, ChildDue, LoopTypes
  <2> QED BY <2>1, <2>2 DEF ChildDue
<1>5. CASE ContextSwitch
  BY <1>5 DEF ContextSwitch, Zombies, ChildDue
<1>6. CASE ContextSwitchFails \/ Leave
  BY <1>6 DEF ContextSwitchFails, Leave, scheduler_exit, Ended
<1>7. CASE TimerExpires
  <2>1. pending = {} /\ pending' = {"SIGALRM"} /\ UNCHANGED <<event_type, pc, state>>
    BY <1>7 DEF TimerExpires, raise, block_some_signals
  <2> QED BY <2>1 DEF Zombies, ChildDue
<1>8. ASSUME NEW p \in Child, ChildStart(p) PROVE OneEvent'
  <2>1. UNCHANGED <<event_type, pc, pending>> /\ Zombies' = Zombies
    BY <1>0, <1>8 DEF ChildStart, Zombies, LoopTypes
  <2> QED BY <2>1 DEF ChildDue
<1>9. ASSUME NEW p \in Child, ChildExit(p) PROVE OneEvent'
  <2>1. pc = "sigsuspend" /\ pending = {}
    BY <1>9, OneCPU DEF ChildExit
  <2>2. pending' = {"SIGCHLD"} /\ UNCHANGED <<event_type, pc>>
    BY <1>9, <2>1 DEF ChildExit, raise
  <2>3. Zombies' = {p}
    BY <1>0, <1>9, <2>1 DEF ChildExit, Zombies, ChildDue, LoopTypes
  <2> QED BY <2>1, <2>2, <2>3 DEF ChildDue
<1> QED
  BY <1>1, <1>2, <1>3, <1>4, <1>5, <1>6, <1>7, <1>8, <1>9 DEF Next, Loop

-----------------------------------------------------------------------------
(* The jobs RR.c holds. *)
RRJobs == {pq[i] : i \in R!Slots}

(* What RR.c may rely on about its array: the slots are the first           *)
(* process_count ones, the current one is among them, and no job is in two. *)
LEMMA SlotFacts ==
  ASSUME R!SlotsOK, R!IndexSafe
  PROVE  /\ process_count \in Nat /\ process_count <= num_process
         /\ R!Slots = 0 .. process_count - 1
         /\ process_count = 0 => current_process_id = -1
         /\ process_count > 0 => current_process_id \in 0 .. process_count - 1
         /\ \A i, j \in R!Slots : pq[i] = pq[j] => i = j
BY NumProcessAssumption DEF R!SlotsOK, R!IndexSafe, R!Slots, R!Child

(* add_process_RR moves slots and loses none (RR.c:27-40).                  *)
LEMMA RRJobsAdd ==
  ASSUME R!SlotsOK, R!IndexSafe, arrival_ptr < num_process, arrival_ptr' = arrival_ptr + 1,
         R!add_process_RR(arrival_ptr), (R!SlotsOK /\ R!IndexSafe)'
  PROVE  RRJobs' = RRJobs \cup {arrival_ptr}
<1> DEFINE at == IF process_count = 0 THEN 0 ELSE current_process_id
           n  == process_count
<1>1. /\ n \in Nat /\ n < num_process /\ at \in 0 .. n /\ process_count' = n + 1
      /\ R!Slots = 0 .. n - 1 /\ R!Slots' = 0 .. n
  <2>1. process_count' = n + 1
    BY DEF R!add_process_RR
  <2>2. R!Slots = 0 .. n - 1 /\ n \in Nat /\ n <= arrival_ptr /\ arrival_ptr \in Int
    BY SlotFacts DEF R!IndexSafe, R!SlotsOK
  <2>3. R!Slots' = 0 .. n
    BY <2>1, <2>2, NumProcessAssumption DEF R!Slots, R!Child
  <2> QED BY <2>1, <2>2, <2>3, SlotFacts, NumProcessAssumption
<1>2. \A i \in 0 .. n : pq'[i] = IF i = at THEN arrival_ptr
                               ELSE IF at < i THEN pq[i - 1] ELSE pq[i]
  BY <1>1, NumProcessAssumption DEF R!add_process_RR, R!Child
<1> HIDE DEF at, n
<1>3. ASSUME NEW x \in RRJobs' PROVE x \in RRJobs \cup {arrival_ptr}
  <2>1. PICK i \in 0 .. n : x = pq'[i]
    BY <1>1 DEF RRJobs
  <2>2. CASE i = at
    BY <1>2, <2>1, <2>2
  <2>3. CASE at < i
    <3>1. i - 1 \in R!Slots /\ x = pq[i - 1]
      BY <1>1, <1>2, <2>1, <2>3
    <3> QED BY <3>1 DEF RRJobs
  <2>4. CASE i < at
    <3>1. i \in R!Slots /\ x = pq[i]
      BY <1>1, <1>2, <2>1, <2>4
    <3> QED BY <3>1 DEF RRJobs
  <2> QED BY <1>1, <2>2, <2>3, <2>4
<1>4. ASSUME NEW x \in RRJobs PROVE x \in RRJobs'
  <2>1. PICK i \in R!Slots : x = pq[i]
    BY DEF RRJobs
  <2>2. CASE i < at
    <3>1. i \in R!Slots' /\ pq'[i] = x
      BY <1>1, <1>2, <2>1, <2>2
    <3> QED BY <3>1 DEF RRJobs
  <2>3. CASE i >= at
    <3>1. i + 1 \in 0 .. n /\ at < i + 1 /\ (i + 1) - 1 = i /\ i + 1 # at
      BY <1>1, <2>1, <2>3
    <3>2. i + 1 \in R!Slots' /\ pq'[i + 1] = x
      BY <1>1, <1>2, <2>1, <3>1
    <3> QED BY <3>2 DEF RRJobs
  <2> QED BY <1>1, <2>1, <2>2, <2>3
<1>5. arrival_ptr \in RRJobs'
  <2>1. at \in R!Slots' /\ pq'[at] = arrival_ptr
    BY <1>1, <1>2
  <2> QED BY <2>1 DEF RRJobs
<1> QED BY <1>3, <1>4, <1>5

(* remove_current_process_RR takes out the current job and no other         *)
(* (RR.c:42-53).                                                            *)
LEMMA RRJobsRemove ==
  ASSUME R!SlotsOK, R!IndexSafe, process_count > 0, R!remove_current_process_RR
  PROVE  RRJobs' = RRJobs \ {pq[current_process_id]}
<1> DEFINE c == current_process_id
           n == process_count
<1>1. /\ n \in Nat /\ n <= num_process /\ n > 0 /\ c \in 0 .. n - 1 /\ process_count' = n - 1
      /\ R!Slots = 0 .. n - 1 /\ R!Slots' = 0 .. n - 2
      /\ \A i, j \in 0 .. n - 1 : pq[i] = pq[j] => i = j
  <2>1. process_count' = n - 1 /\ n \in Nat /\ n > 0
    BY SlotFacts DEF R!remove_current_process_RR
  <2>2. R!Slots' = 0 .. n - 2
    BY <2>1, SlotFacts, NumProcessAssumption DEF R!Slots, R!Child
  <2> QED BY <2>1, <2>2, SlotFacts
<1>2. \A i \in 0 .. n - 2 : pq'[i] = IF c <= i THEN pq[i + 1] ELSE pq[i]
  BY <1>1, NumProcessAssumption DEF R!remove_current_process_RR, R!Child
<1> HIDE DEF c, n
<1>3. ASSUME NEW x \in RRJobs' PROVE x \in RRJobs \ {pq[c]}
  <2>1. PICK i \in 0 .. n - 2 : x = pq'[i]
    BY <1>1 DEF RRJobs
  <2> DEFINE j == IF c <= i THEN i + 1 ELSE i
  <2>2. j \in 0 .. n - 1 /\ j # c /\ x = pq[j]
    BY <1>1, <1>2, <2>1
  <2> HIDE DEF j
  <2> QED BY <1>1, <2>2 DEF RRJobs
<1>4. ASSUME NEW x \in RRJobs \ {pq[c]} PROVE x \in RRJobs'
  <2>1. PICK i \in 0 .. n - 1 : x = pq[i]
    BY <1>1 DEF RRJobs
  <2>2. i # c
    BY <2>1
  <2>3. CASE i < c
    <3>1. i \in 0 .. n - 2 /\ pq'[i] = x
      BY <1>1, <1>2, <2>1, <2>3
    <3> QED BY <1>1, <3>1 DEF RRJobs
  <2>4. CASE c < i
    <3>1. i - 1 \in 0 .. n - 2 /\ c <= i - 1 /\ (i - 1) + 1 = i
      BY <1>1, <2>1, <2>4
    <3>2. pq'[i - 1] = x
      BY <1>2, <2>1, <3>1
    <3> QED BY <1>1, <3>1, <3>2 DEF RRJobs
  <2> QED BY <1>1, <2>2, <2>3, <2>4
<1> QED BY <1>3, <1>4 DEF c

(* RR.c and the loop stay in step. *)
LEMMA RRInStepNext ==
  ASSUME Strategy = "RR", CPUs = 1, ~Collisions, FaultInv, FaultInv', RunListOK, QuietInv,
         ~Ended, ~Ended', Next, OneEvent'
  PROVE  RRInStep'
<1>0. /\ OneEvent /\ RRInStep /\ LoopTypes /\ BornInOrder
      /\ R!SlotsOK /\ R!IndexSafe /\ (R!SlotsOK /\ R!IndexSafe)'
      /\ Pool = RRJobs /\ process_count = Cardinality(Pool)
  BY DEF QuietInv, FaultInv, RRInStep, RRJobs, JobCount
<1>1. R!Inv'
  <2>1. pc' \notin {"aborted", "killed"}
    BY DEF Ended
  <2> QED BY <1>0, <2>1, RRStep, RRInvNext DEF RRInStep
<1> SUFFICES Pool' = RRJobs' /\ (ChildDue' => Zombies' = R!to_resume')
  BY <1>1 DEF RRInStep, RRJobs
<1>2. ASSUME UNCHANGED <<pq, process_count, current_process_id, previous_active_id>>
      PROVE  RRJobs' = RRJobs /\ R!to_resume' = R!to_resume
  BY <1>2 DEF RRJobs, R!Slots, R!to_resume
<1>3. CASE SigSuspend
  <2>1. UNCHANGED <<pq, process_count, current_process_id, previous_active_id, state>>
    BY <1>3 DEF SigSuspend, jobs, rr
  <2>2. ChildDue' => ChildDue
    <3>1. PICK signo \in pending : event_type' = signal_handler(signo)
      BY <1>3 DEF SigSuspend
    <3>2. pending' = {}
      BY <1>3 DEF SigSuspend
    <3> QED BY <1>0, <3>1, <3>2 DEF ChildDue, signal_handler, LoopTypes
  <2> QED BY <1>0, <1>2, <2>1, <2>2 DEF RRInStep, Pool, Zombies
<1>4. CASE TimesliceOver \/ ArrivalsDone
  <2>1. UNCHANGED <<pq, process_count, state, pending>> /\ pc # "sigsuspend" /\ pc' = "switch"
    BY <1>4 DEF TimesliceOver, ArrivalsDone, EndsIf, Ended, timeslice_over, R!timeslice_over_RR, jobs, rr
  <2>2. ~ChildDue'
    BY <1>0, <2>1 DEF ChildDue, OneEvent
  <2> QED BY <1>0, <2>1, <2>2 DEF Pool, RRJobs, R!Slots
<1>5. CASE ProcessArrival \/ AnotherArrival
  <2>1. arrival_ptr < num_process
    BY <1>0, <1>5, NumProcessAssumption
    DEF ProcessArrival, AnotherArrival, T!get_expire_reason, T!another_arrival, T!arrival_queue_empty, LoopTypes
  <2>2. arrival_ptr \in Child /\ state[arrival_ptr] = "unborn"
    BY <1>0, <2>1, NumProcessAssumption DEF LoopTypes, BornInOrder, Child
  <2>3. /\ state' = [state EXCEPT ![arrival_ptr] = "new"] /\ R!add_process_RR(arrival_ptr)
        /\ pc' = "arrival" /\ pc # "sigsuspend" /\ pending' = pending /\ arrival_ptr' = arrival_ptr + 1
    BY <1>5 DEF ProcessArrival, AnotherArrival, add_process, scheduler_exit, Ended,
                T!arrival_expired, T!get_arrived_process
  <2>4. Pool' = Pool \cup {arrival_ptr}
    BY <1>0, <2>2, <2>3 DEF Pool, LoopTypes
  <2>5. RRJobs' = RRJobs \cup {arrival_ptr}
    BY <1>0, <2>1, <2>3, RRJobsAdd
  <2>6. ~ChildDue'
    BY <1>0, <2>3 DEF ChildDue, OneEvent
  <2> QED BY <1>0, <2>4, <2>5, <2>6
<1>6. CASE ChildTerminated
  <2>1. PICK p \in Child : state[p] = "zombie" /\ state' = [state EXCEPT ![p] = "reaped"]
    BY <1>6 DEF ChildTerminated
  <2>2. pc = "dispatch" /\ pc' = "switch" /\ pending' = pending /\ R!remove_current_process_RR /\ ChildDue
    BY <1>6 DEF ChildTerminated, remove_current_process, ChildDue
  <2>3. R!to_resume = {p}
    BY <1>0, <2>1, <2>2 DEF OneEvent, RRInStep, Zombies
  <2>4. p = pq[current_process_id]
    BY <2>3 DEF R!to_resume
  <2>5. Pool' = Pool \ {p}
    BY <1>0, <2>1 DEF Pool, LoopTypes
  <2>6. process_count > 0
    <3>1. Pool # {}
      BY <2>1 DEF Pool
    <3> QED BY <1>0, <3>1, PoolFinite
  <2>7. RRJobs' = RRJobs \ {p}
    BY <1>0, <2>2, <2>4, <2>6, RRJobsRemove
  <2>8. ~ChildDue'
    BY <1>0, <2>2 DEF ChildDue, OneEvent
  <2> QED BY <1>0, <2>5, <2>7, <2>8
<1>7. CASE ContextSwitch
  <2>1. UNCHANGED <<pq, process_count, state, pending>> /\ pc = "switch" /\ pc' = "sigsuspend"
    BY <1>7 DEF ContextSwitch, context_switch, jobs, rr
  <2>2. ~ChildDue'
    BY <1>0, <2>1 DEF ChildDue, OneEvent
  <2> QED BY <1>0, <2>1, <2>2 DEF Pool, RRJobs, R!Slots
<1>8. CASE ContextSwitchFails \/ Leave
  BY <1>8 DEF ContextSwitchFails, Leave, scheduler_exit, Ended
<1>9. CASE TimerExpires
  <2>1. /\ UNCHANGED <<pq, process_count, current_process_id, previous_active_id, state, event_type, pc>>
        /\ pending = {} /\ pending' = {"SIGALRM"}
    BY <1>9 DEF TimerExpires, raise, block_some_signals, jobs, rr
  <2> QED BY <1>0, <1>2, <2>1 DEF RRInStep, Pool, Zombies, ChildDue
<1>10. ASSUME NEW p \in Child, ChildStart(p)
       PROVE  Pool' = RRJobs' /\ (ChildDue' => Zombies' = R!to_resume')
  <2>1. UNCHANGED <<pq, process_count, current_process_id, previous_active_id, event_type, pc, pending>>
    BY <1>10 DEF ChildStart, jobs, rr
  <2>2. Pool' = Pool /\ Zombies' = Zombies
    BY <1>0, <1>10 DEF ChildStart, Pool, Zombies, LoopTypes
  <2> QED BY <1>0, <1>2, <2>1, <2>2 DEF RRInStep, ChildDue
<1>11. ASSUME NEW p \in Child, ChildExit(p)
       PROVE  Pool' = RRJobs' /\ (ChildDue' => Zombies' = R!to_resume')
  <2>1. UNCHANGED <<pq, process_count, current_process_id, previous_active_id, pc>>
    BY <1>11 DEF ChildExit, jobs, rr
  <2>2. R!to_resume = {p} /\ pc = "sigsuspend" /\ pending = {}
    BY <1>11, RRChildRuns DEF ChildExit
  <2>3. Pool' = Pool
    BY <1>0, <1>11 DEF ChildExit, Pool, LoopTypes
  <2>4. Zombies' = {p}
    BY <1>0, <1>11, <2>2 DEF ChildExit, Zombies, ChildDue, OneEvent, LoopTypes
  <2> QED BY <1>0, <1>2, <2>1, <2>2, <2>3, <2>4
<1> QED
  BY <1>3, <1>4, <1>5, <1>6, <1>7, <1>8, <1>9, <1>10, <1>11 DEF Next, Loop

-----------------------------------------------------------------------------
(* SJF: the kernel's calls, named in SJF, in the theorems about SJF or      *)
(* here.                                                                    *)
LEMMA SJFCalls ==
  /\ \A s, p : S!suspend_process(s, p) = suspend_process(s, p)
  /\ \A s, p : SP!suspend_process(s, p) = suspend_process(s, p)
  /\ \A s, p : S!fork(s, p) = fork(s, p)
  /\ \A s, p : SP!fork(s, p) = fork(s, p)
  /\ \A s, p : S!exit(s, p) = exit(s, p)
  /\ \A s, p : SP!exit(s, p) = exit(s, p)
  /\ \A s : S!OnCPU(s) = OnCPU(s) /\ SP!OnCPU(s) = OnCPU(s)
  /\ S!Child = Child /\ SP!Child = Child
<1>1. \A s, p : S!suspend_process(s, p) = suspend_process(s, p) /\ SP!suspend_process(s, p) = suspend_process(s, p)
  BY DEF S!suspend_process, S!set_priority, S!Queued, S!Without, S!PRIO_MIN,
         SP!suspend_process, SP!set_priority, SP!Queued, SP!Without, SP!PRIO_MIN,
         suspend_process, set_priority, Queued, Without, PRIO_MIN
<1>2. /\ \A s, p : S!fork(s, p) = fork(s, p) /\ SP!fork(s, p) = fork(s, p)
      /\ \A s, p : S!exit(s, p) = exit(s, p) /\ SP!exit(s, p) = exit(s, p)
  BY DEF S!fork, S!exit, S!Without, S!PRIO_MAX, SP!fork, SP!exit, SP!Without, SP!PRIO_MAX,
         fork, exit, Without, PRIO_MAX
<1>3. \A s : S!OnCPU(s) = OnCPU(s) /\ SP!OnCPU(s) = OnCPU(s)
  BY Zenon DEF S!Cardinality, SP!Cardinality, Cardinality, S!OnCPU, S!OnCPUs, S!Ahead, SP!OnCPU, SP!OnCPUs, SP!Ahead, OnCPU, OnCPUs, Ahead
<1>4. S!Child = Child /\ SP!Child = Child
  BY DEF S!Child, SP!Child, Child
<1> QED BY <1>1, <1>2, <1>3, <1>4

(* The invariant of SJF is the one SJFProofs proves.                        *)
LEMMA SameSJFInv == S!Inv <=> SP!Inv
BY SameHeap
DEF S!Inv, SP!Inv, S!HeapSound, SP!HeapSound, S!HeapTypes, SP!HeapTypes, S!SlotsOK, SP!SlotsOK,
    S!HeapSafe, SP!HeapSafe, S!Room, SP!Room, S!SchedTypes, SP!SchedTypes, S!ActiveResumed,
    SP!ActiveResumed, S!OwedSwitch, SP!OwedSwitch, S!Active, SP!Active,
    S!PRIO_MIN, SP!PRIO_MIN, S!PRIO_MAX, SP!PRIO_MAX, S!PRIO_RUN, SP!PRIO_RUN

(* The same of the state after a step.                                      *)
LEMMA SameSJFInvAfter == S!Inv' <=> SP!Inv'
BY SameSJFInv, PTL

(* A step of SJF as Scheduler instantiates it is one of the SJF the         *)
(* theorems of SJFProofs are about.                                         *)
LEMMA SameSJFNext ==
  ASSUME [S!Next]_(S!vars)
  PROVE  [SP!Next]_(SP!vars)
<1>1. S!Add => SP!Add
  BY SJFCalls, SameSJF DEF S!Add, SP!Add
<1>2. S!Remove => SP!Remove
  BY SameHeap, SameSJF DEF S!Remove, SP!Remove
<1>3. S!Switch => SP!Switch
  BY SameSJF DEF S!Switch, SP!Switch
<1>4. (\E p \in S!Child : S!Exit(p)) => \E p \in SP!Child : SP!Exit(p)
  BY SJFCalls DEF S!Exit, SP!Exit, S!sjfvars, SP!sjfvars
<1>5. UNCHANGED S!vars => UNCHANGED SP!vars
  BY DEF S!vars, SP!vars, S!sjfvars, SP!sjfvars
<1> QED
  BY <1>1, <1>2, <1>3, <1>4, <1>5 DEF S!Next, SP!Next

(* What module SJF shows holds after every such step. *)
LEMMA SJFInvNext ==
  ASSUME S!Inv, [S!Next]_(S!vars)
  PROVE  S!Inv'
BY SameSJFInv, SameSJFInvAfter, SameSJFNext, SP!NextInv, NumProcessAssumption, TimesOK

(* What the invariant says of the heap and of the active job.               *)
LEMMA SJFPool ==
  ASSUME SJFInStep
  PROVE  /\ S!HeapSound
         /\ active_process = NULL => S!Active = {}
         /\ active_process # NULL => S!Active = {active_process} /\ active_process \in Child
         /\ \A p \in S!Active : p \notin S!Contents(inactive_heap) /\ sched.prio[p] = PRIO_RUN
         /\ S!Contents(inactive_heap) \subseteq Pool /\ S!Active \subseteq Pool
         /\ active_process = NULL /\ Phase = "running" => Pool = {}
         /\ S!heap_empty(inactive_heap) => S!Contents(inactive_heap) = {}
         /\ ~S!heap_empty(inactive_heap) => S!heap_top(inactive_heap) \in S!Contents(inactive_heap)
<1>1. S!HeapSound /\ S!ActiveResumed /\ S!OwedSwitch
  BY DEF SJFInStep, S!Inv
<1>2. S!NULL = NULL /\ S!Child = Child /\ S!PRIO_RUN = PRIO_RUN
  BY SJFCalls DEF S!NULL, NULL, S!PRIO_RUN, S!PRIO_MAX, PRIO_RUN, PRIO_MAX
<1>3. /\ active_process = NULL => S!Active = {}
      /\ active_process # NULL => S!Active = {active_process}
      /\ \A p \in S!Active : p = active_process
  BY <1>2 DEF S!Active
<1>4. /\ active_process \in Child \cup {NULL}
      /\ active_process \notin S!Contents(inactive_heap)
      /\ inactive_heap.heap_size \in Nat /\ inactive_heap.heap_size <= num_process
  BY <1>1, <1>2, NumProcessAssumption DEF S!HeapSound, S!HeapTypes, S!HeapSafe
<1>5. \A p \in S!Active : sched.prio[p] = PRIO_RUN
  BY <1>1, <1>2 DEF S!ActiveResumed
<1>6. S!heap_empty(inactive_heap) => S!Contents(inactive_heap) = {}
  BY <1>2 DEF S!heap_empty, S!Contents, Child
<1>7. ~S!heap_empty(inactive_heap) => S!heap_top(inactive_heap) \in S!Contents(inactive_heap)
  <2>1. ~S!heap_empty(inactive_heap) => 0 \in {j \in Child : j < inactive_heap.heap_size}
    BY <1>4, NumProcessAssumption DEF S!heap_empty, Child
  <2> QED BY <1>2, <2>1 DEF S!heap_top, S!Contents
<1>8. active_process = NULL /\ Phase = "running" => S!heap_empty(inactive_heap)
  BY <1>1, <1>2 DEF S!OwedSwitch
<1> QED
  BY <1>1, <1>3, <1>4, <1>5, <1>6, <1>7, <1>8 DEF SJFInStep

(* The active job has the CPU whenever the scheduler sleeps.                *)
LEMMA SJFHead ==
  ASSUME Strategy = "SJF", RunListOK, QuietInv, pc = "sigsuspend", pending = {}
  PROVE  /\ OnCPU(sched) = S!Active
         /\ Live = Pool /\ (Live # {} => S!Active # {})
         /\ \A p \in S!Active : sched.prio[p] = PRIO_RUN
<1>1. SJFInStep /\ Zombies = {} /\ Phase = "running"
  BY DEF QuietInv, Ended, OneEvent, ChildDue, Phase
<1>2. Live = Pool
  BY <1>1 DEF Zombies, Live, Pool
<1>3. CASE active_process = NULL
  <2>1. S!Active = {} /\ Live = {}
    BY <1>1, <1>2, <1>3, SJFPool
  <2>2. OnCPU(sched) = {}
    BY <2>1, IdleCPU
  <2> QED BY <1>2, <2>1, <2>2
<1>4. CASE active_process # NULL
  <2>1. S!Active = {active_process} /\ active_process \in Live /\ sched.prio[active_process] = PRIO_RUN
    BY <1>1, <1>2, <1>4, SJFPool
  <2>2. \A p \in Live \ {active_process} : sched.prio[p] = PRIO_MIN
    BY <1>1, <1>2, <2>1 DEF SJFInStep
  <2>3. \A p \in Queued(sched) \ {active_process} : sched.prio[p] < sched.prio[active_process]
    BY <2>1, <2>2 DEF RunListOK, PRIO_MIN, PRIO_RUN, PRIO_MAX
  <2>4. OnCPU(sched) = {active_process}
    BY <2>1, <2>3, HighestRuns DEF RunListOK
  <2> QED BY <1>2, <2>1, <2>4
<1> QED BY <1>3, <1>4

(* On one CPU the child that runs is the active job, and its own            *)
(* set_child_priority changes nothing.                                      *)
LEMMA SJFChildRuns ==
  ASSUME Strategy = "SJF", CPUs = 1, RunListOK, QuietInv, NEW p \in Child, Runs(p)
  PROVE  /\ pc = "sigsuspend" /\ pending = {}
         /\ S!Active = {p}
         /\ set_priority(sched, p, PRIO_RUN) = sched
<1>1. pc = "sigsuspend" /\ pending = {} /\ p \in OnCPU(sched)
  BY OneCPU
<1>2. p \in S!Active /\ sched.prio[p] = PRIO_RUN
  BY <1>1, SJFHead
<1>3. set_priority(sched, p, PRIO_RUN) = sched
  BY <1>2, SamePriority DEF RunListOK
<1> QED
  BY <1>1, <1>2, <1>3 DEF S!Active

(* Every step of the program is a step of module SJF, or SJF does not see   *)
(* it.                                                                      *)
LEMMA SJFStep ==
  ASSUME Strategy = "SJF", CPUs = 1, FaultInv, RunListOK, QuietInv, ~Ended, Next,
         pc' \notin {"aborted", "killed"}
  PROVE  [S!Next]_(S!vars)
<1> USE DEF S!vars, S!sjfvars
<1>0. OneEvent /\ SJFInStep /\ LoopTypes
  BY DEF QuietInv, FaultInv
<1>1. CASE SigSuspend \/ Leave
  BY <1>1 DEF SigSuspend, Leave, Phase, input, ti, jobs, sjf
<1>2. ~TimesliceOver
  BY DEF TimesliceOver, timeslice_over
<1>3. CASE ProcessArrival \/ AnotherArrival
  <2>1. arrival_ptr < num_process
    BY <1>0, <1>3, NumProcessAssumption
    DEF ProcessArrival, AnotherArrival, T!get_expire_reason, T!another_arrival, T!arrival_queue_empty,
        AlarmMeansArrival, TimerDispatched, FaultInv, LoopTypes
  <2>2. add_process(arrival_ptr) /\ arrival_ptr' = arrival_ptr + 1 /\ remaining_time' = remaining_time
    BY <1>3 DEF ProcessArrival, AnotherArrival, T!arrival_expired, T!get_arrived_process, input
  <2>3. /\ sched' = suspend_process(fork(sched, arrival_ptr), arrival_ptr)
        /\ S!add_process_SJF(arrival_ptr) /\ pc' = "arrival"
    BY <2>2 DEF add_process, scheduler_exit, add_process_fails
  <2>4. Phase \in {"running", "arrived"} /\ Phase' = "arrived"
    BY <1>0, <1>3, <2>3 DEF ProcessArrival, AnotherArrival, Phase, OneEvent
  <2> QED BY <2>1, <2>2, <2>3, <2>4, SJFCalls DEF S!Next, S!Add
<1>4. CASE ArrivalsDone
  <2>1. /\ pc = "arrival" /\ pc' = "switch"
        /\ UNCHANGED <<sched, arrival_ptr, event_type, jobs, input>>
    BY <1>4 DEF ArrivalsDone, EndsIf, T!arrivals_done
  <2> QED BY <2>1 DEF Phase, jobs, sjf, input
<1>5. CASE ChildTerminated
  <2>1. PICK p \in Child : state[p] = "zombie"
    BY <1>5 DEF ChildTerminated
  <2>2. ChildDue /\ Phase = "running" /\ Phase' = "switching"
    BY <1>5 DEF ChildTerminated, ChildDue, Phase
  <2>3. active_process # S!NULL
    BY <1>0, <2>1, <2>2, SJFPool DEF SJFInStep, Zombies, S!NULL, NULL
  <2>4. S!remove_current_process_SJF /\ UNCHANGED <<sched, arrival_ptr, remaining_time>>
    BY <1>5 DEF ChildTerminated, remove_current_process, ti, input
  <2> QED BY <2>2, <2>3, <2>4 DEF S!Next, S!Remove
<1>6. CASE ContextSwitch
  <2>1. Phase \in {"arrived", "switching"} /\ Phase' = "running"
    BY <1>6 DEF ContextSwitch, Phase
  <2>2. S!context_switch_SJF /\ ~S!context_switch_SJF_stale /\ UNCHANGED <<arrival_ptr, remaining_time>>
    BY <1>6 DEF ContextSwitch, context_switch, context_switch_fails, ti, input
  <2> QED BY <2>1, <2>2 DEF S!Next, S!Switch
<1>7. CASE TimerExpires
  BY <1>7 DEF TimerExpires, raise, block_some_signals, Phase, jobs, sjf, input
<1>8. ASSUME NEW p \in Child, ChildStart(p) PROVE UNCHANGED S!vars
  BY <1>8, SJFChildRuns DEF ChildStart, Phase, input, ti, jobs, sjf
<1>9. ASSUME NEW p \in Child, ChildExit(p) PROVE S!Exit(p)
  <2>1. pc = "sigsuspend" /\ Phase = "running" /\ Phase' = Phase /\ p \in OnCPU(sched)
    BY <1>9, OneCPU DEF ChildExit, Phase
  <2> QED BY <1>9, <2>1, SJFCalls DEF ChildExit, S!Exit, ti, input, jobs, sjf
<1>10. ~ContextSwitchFails
  BY DEF ContextSwitchFails, scheduler_exit
<1> QED
  BY <1>1, <1>2, <1>3, <1>4, <1>5, <1>6, <1>7, <1>8, <1>9, <1>10, SJFCalls DEF Next, Loop, S!Next

(* SJF.c and the loop stay in step. *)
LEMMA SJFInStepNext ==
  ASSUME Strategy = "SJF", CPUs = 1, ~Collisions, FaultInv, RunListOK, QuietInv,
         ~Ended, ~Ended', Next
  PROVE  SJFInStep'
<1> DEFINE C == S!Contents(inactive_heap)
<1>0. /\ OneEvent /\ SJFInStep /\ LoopTypes /\ BornInOrder /\ S!HeapSound
      /\ sched.prio \in [Child -> PRIO_MIN .. PRIO_MAX]
  BY DEF QuietInv, FaultInv, RunListOK, Kernel
<1>1. S!Inv'
  <2>1. pc' \notin {"aborted", "killed"}
    BY DEF Ended
  <2> QED BY <1>0, <2>1, SJFStep, SJFInvNext DEF SJFInStep
<1> SUFFICES /\ Pool' = C' \cup S!Active' /\ (ChildDue' => Zombies' = S!Active')
             /\ \A p \in C' : state'[p] = "new" /\ sched'.prio[p] = PRIO_MIN
  BY <1>1 DEF SJFInStep
<1>2. /\ Pool = C \cup S!Active /\ (ChildDue => Zombies = S!Active)
      /\ \A p \in C : state[p] = "new" /\ sched.prio[p] = PRIO_MIN
      /\ \A p \in S!Active : p \notin C
      /\ C \subseteq Child
  BY <1>0, SJFPool DEF SJFInStep, Pool
<1>3. ASSUME UNCHANGED <<inactive_heap, active_process>>
      PROVE  C' = C /\ S!Active' = S!Active
  BY <1>3 DEF S!Contents, S!Active
<1> HIDE DEF C
<1>4. CASE SigSuspend
  <2>1. UNCHANGED <<inactive_heap, active_process, state, sched>>
    BY <1>4 DEF SigSuspend, jobs, sjf
  <2>2. ChildDue' => ChildDue
    <3>1. PICK signo \in pending : event_type' = signal_handler(signo)
      BY <1>4 DEF SigSuspend
    <3>2. pending' = {}
      BY <1>4 DEF SigSuspend
    <3> QED BY <1>0, <3>1, <3>2 DEF ChildDue, signal_handler, LoopTypes
  <2> QED BY <1>2, <1>3, <2>1, <2>2 DEF Pool, Zombies
<1>5. CASE ArrivalsDone
  <2>1. /\ UNCHANGED <<inactive_heap, active_process, state, sched, pending>>
        /\ pc # "sigsuspend" /\ pc' = "switch"
    BY <1>5 DEF ArrivalsDone, EndsIf, Ended, jobs, sjf
  <2>2. ~ChildDue'
    BY <1>0, <2>1 DEF ChildDue, OneEvent
  <2> QED BY <1>2, <1>3, <2>1, <2>2 DEF Pool
<1>6. CASE ProcessArrival \/ AnotherArrival
  <2>1. arrival_ptr < num_process
    BY <1>0, <1>6, NumProcessAssumption
    DEF ProcessArrival, AnotherArrival, T!get_expire_reason, T!another_arrival, T!arrival_queue_empty,
        AlarmMeansArrival, TimerDispatched, FaultInv, LoopTypes
  <2>2. arrival_ptr \in Child /\ state[arrival_ptr] = "unborn"
    BY <1>0, <2>1, NumProcessAssumption DEF LoopTypes, BornInOrder, Child
  <2>3. /\ state' = [state EXCEPT ![arrival_ptr] = "new"] /\ S!add_process_SJF(arrival_ptr)
        /\ sched' = suspend_process(fork(sched, arrival_ptr), arrival_ptr)
        /\ pc' = "arrival" /\ pc # "sigsuspend" /\ pending' = pending
        /\ arrival_ptr' = arrival_ptr + 1 /\ remaining_time' = remaining_time
    BY <1>6 DEF ProcessArrival, AnotherArrival, add_process, scheduler_exit, Ended,
                T!arrival_expired, T!get_arrived_process, input
  <2>4. Pool' = Pool \cup {arrival_ptr}
    BY <1>0, <2>2, <2>3 DEF Pool, LoopTypes
  <2>5. C' = C \cup {arrival_ptr} /\ active_process' = active_process /\ arrival_ptr \notin C
    BY <1>0, <2>1, <2>3, HeapAdds DEF C
  <2>6. S!Active' = S!Active
    BY <2>5 DEF S!Active
  <2>7. ~ChildDue'
    BY <1>0, <2>3 DEF ChildDue, OneEvent
  <2>8. sched'.prio = [sched.prio EXCEPT ![arrival_ptr] = PRIO_MIN]
    <3>1. /\ sched'.prio = [fork(sched, arrival_ptr).prio EXCEPT ![arrival_ptr] = PRIO_MIN]
          /\ fork(sched, arrival_ptr).prio = [sched.prio EXCEPT ![arrival_ptr] = PRIO_MAX]
      BY <2>3, PriorityOfCalls
    <3> QED BY <1>0, <2>2, <3>1
  <2>9. \A p \in C' : state'[p] = "new" /\ sched'.prio[p] = PRIO_MIN
    BY <1>0, <1>2, <2>2, <2>3, <2>5, <2>8 DEF LoopTypes
  <2> QED BY <1>2, <2>4, <2>5, <2>6, <2>7, <2>9
<1>7. CASE ChildTerminated
  <2>1. PICK p \in Child : state[p] = "zombie" /\ state' = [state EXCEPT ![p] = "reaped"]
    BY <1>7 DEF ChildTerminated
  <2>2. /\ pc = "dispatch" /\ pc' = "switch" /\ pending' = pending /\ sched' = sched /\ ChildDue
        /\ S!remove_current_process_SJF /\ UNCHANGED <<remaining_time, arrival_ptr>>
    BY <1>7 DEF ChildTerminated, remove_current_process, ChildDue, input, ti
  <2>3. S!Active = {p}
    BY <1>0, <1>2, <2>1, <2>2 DEF OneEvent, Zombies
  <2>4. Pool' = Pool \ {p}
    BY <1>0, <2>1 DEF Pool, LoopTypes
  <2>5. C' = C /\ S!Active' = {}
    BY <2>2 DEF S!remove_current_process_SJF, S!Active, S!Contents, C
  <2>6. ~ChildDue'
    BY <1>0, <2>2 DEF ChildDue, OneEvent
  <2>7. \A q \in C' : state'[q] = "new" /\ sched'.prio[q] = PRIO_MIN
    BY <1>0, <1>2, <2>1, <2>2, <2>3, <2>5 DEF LoopTypes
  <2> QED BY <1>2, <2>3, <2>4, <2>5, <2>6, <2>7
<1>8. CASE ContextSwitch
  <2>1. /\ UNCHANGED <<state, pending, remaining_time, arrival_ptr>> /\ pc = "switch" /\ pc' = "sigsuspend"
        /\ ~S!context_switch_SJF_stale /\ S!context_switch_SJF
    BY <1>8 DEF ContextSwitch, context_switch, context_switch_fails, input, ti
  <2>2. ~ChildDue' /\ Pool' = Pool
    BY <1>0, <2>1 DEF ChildDue, OneEvent, Pool
  <2>3. CASE active_process # NULL
    <3>1. UNCHANGED <<inactive_heap, active_process, sched>>
      BY <1>0, <2>1, <2>3, HeapSwitches
    <3> QED BY <1>2, <1>3, <2>1, <2>2, <3>1
  <2>4. CASE active_process = NULL
    <3> DEFINE a == active_process'
    <3>1. a # NULL /\ a \in C /\ C' = C \ {a} /\ sched' = resume_process(sched, a)
      BY <1>0, <2>1, <2>4, HeapSwitches DEF C
    <3>2. S!Active = {} /\ S!Active' = {a}
      BY <2>4, <3>1 DEF S!Active, S!NULL, NULL
    <3>3. sched'.prio = [sched.prio EXCEPT ![a] = PRIO_RUN]
      BY <3>1, PriorityOfCalls
    <3> HIDE DEF a
    <3>4. \A q \in C' : state'[q] = "new" /\ sched'.prio[q] = PRIO_MIN
      BY <1>0, <1>2, <2>1, <3>1, <3>3
    <3> QED BY <1>2, <2>2, <3>1, <3>2, <3>4
  <2> QED BY <2>3, <2>4
<1>9. CASE TimesliceOver \/ ContextSwitchFails \/ Leave
  BY <1>9 DEF TimesliceOver, timeslice_over, ContextSwitchFails, Leave, scheduler_exit, Ended
<1>10. CASE TimerExpires
  <2>1. /\ UNCHANGED <<inactive_heap, active_process, state, sched, event_type, pc>>
        /\ pending = {} /\ pending' = {"SIGALRM"}
    BY <1>10 DEF TimerExpires, raise, block_some_signals, jobs, sjf
  <2> QED BY <1>2, <1>3, <2>1 DEF Pool, Zombies, ChildDue
<1>11. ASSUME NEW p \in Child, ChildStart(p)
       PROVE  /\ Pool' = C' \cup S!Active' /\ (ChildDue' => Zombies' = S!Active')
              /\ \A q \in C' : state'[q] = "new" /\ sched'.prio[q] = PRIO_MIN
  <2>1. UNCHANGED <<inactive_heap, active_process, event_type, pc, pending>>
    BY <1>11 DEF ChildStart, jobs, sjf
  <2>2. S!Active = {p} /\ sched' = sched
    BY <1>11, SJFChildRuns DEF ChildStart
  <2>3. Pool' = Pool /\ Zombies' = Zombies /\ state' = [state EXCEPT ![p] = "running"]
    BY <1>0, <1>11 DEF ChildStart, Pool, Zombies, LoopTypes
  <2>4. \A q \in C : state'[q] = state[q]
    BY <1>0, <1>2, <2>2, <2>3 DEF LoopTypes
  <2> QED BY <1>2, <1>3, <2>1, <2>2, <2>3, <2>4 DEF ChildDue
<1>12. ASSUME NEW p \in Child, ChildExit(p)
       PROVE  /\ Pool' = C' \cup S!Active' /\ (ChildDue' => Zombies' = S!Active')
              /\ \A q \in C' : state'[q] = "new" /\ sched'.prio[q] = PRIO_MIN
  <2>1. UNCHANGED <<inactive_heap, active_process, pc>>
    BY <1>12 DEF ChildExit, jobs, sjf
  <2>2. S!Active = {p} /\ pc = "sigsuspend" /\ pending = {}
    BY <1>12, SJFChildRuns DEF ChildExit
  <2>3. Pool' = Pool /\ state' = [state EXCEPT ![p] = "zombie"]
    BY <1>0, <1>12 DEF ChildExit, Pool, LoopTypes
  <2>4. Zombies' = {p}
    BY <1>0, <2>2, <2>3 DEF Zombies, ChildDue, OneEvent, LoopTypes
  <2>5. sched'.prio = sched.prio
    BY <1>12, PriorityOfCalls DEF ChildExit
  <2>6. \A q \in C : state'[q] = state[q]
    BY <1>0, <1>2, <2>2, <2>3 DEF LoopTypes
  <2> QED BY <1>2, <1>3, <2>1, <2>2, <2>3, <2>4, <2>5, <2>6
<1> QED
  BY <1>4, <1>5, <1>6, <1>7, <1>8, <1>9, <1>10, <1>11, <1>12 DEF Next, Loop

-----------------------------------------------------------------------------
(* What main() does before its first sigsuspend is the start of SJF.        *)
LEMMA SJFStarts ==
  ASSUME Init, pc = "sigsuspend"
  PROVE  S!Init /\ SP!Init
<1>1. /\ S!set_strategy_SJF /\ sched = NoChildren /\ arrival_ptr = 0 /\ Phase = "running"
      /\ remaining_time \in {w.time_needed : w \in Workloads}
  BY DEF Init, set_strategy, T!create_timer_and_init_timespec, read_process_info, read_single_entry, Phase
<1>2. /\ S!NoChildren = NoChildren /\ SP!NoChildren = NoChildren
      /\ S!set_strategy_SJF <=> SP!set_strategy_SJF
  BY DEF S!NoChildren, SP!NoChildren, NoChildren, S!Child, SP!Child, Child, S!PRIO_MIN, SP!PRIO_MIN,
         PRIO_MIN, S!set_strategy_SJF, SP!set_strategy_SJF, S!heap_init, SP!heap_init, S!NULL, SP!NULL
<1> QED BY <1>1, <1>2 DEF S!Init, SP!Init

(* main() begins with no child, no child due and an empty pool.             *)
LEMMA QuietInit ==
  ASSUME Init
  PROVE  QuietInv
<1>1. /\ state = [p \in Child |-> "unborn"] /\ event_type = "TIMER_EXPIRED"
      /\ "SIGCHLD" \notin pending /\ pc \in {"sigsuspend", "killed"}
  BY DEF Init, block_some_signals
<1>2. Zombies = {} /\ Pool = {} /\ ~ChildDue
  BY <1>1 DEF Zombies, Pool, ChildDue
<1>3. ASSUME Strategy = "RR", pc = "sigsuspend" PROVE RRInStep
  <2>1. RP!Init
    BY <1>3 DEF Init, set_strategy, R!set_strategy_RR, RP!Init, RP!set_strategy_RR, R!Child, RP!Child,
                R!NULL, RP!NULL, NoChildren, RP!NoChildren, Child, PRIO_MIN, RP!PRIO_MIN, Phase,
                T!create_timer_and_init_timespec
  <2>2. R!Inv
    BY <2>1, RP!InitInv, SameRRInv, NumProcessAssumption
  <2>3. RRJobs = {}
    BY NumProcessAssumption DEF Init, set_strategy, R!set_strategy_RR, RRJobs, R!Slots, R!Child
  <2> QED BY <1>2, <2>2, <2>3 DEF RRInStep, RRJobs
<1>4. ASSUME Strategy = "SJF", pc = "sigsuspend" PROVE SJFInStep
  <2>1. SP!Init
    BY <1>4, SJFStarts
  <2>2. S!Inv
    BY <2>1, SP!InitInv, SameSJFInv, NumProcessAssumption, TimesOK
  <2>3. S!Contents(inactive_heap) = {} /\ S!Active = {}
    BY DEF Init, set_strategy, S!set_strategy_SJF, S!heap_init, S!Contents, S!Active, S!Child
  <2> QED BY <1>2, <2>2, <2>3 DEF SJFInStep
<1> QED
  BY <1>1, <1>2, <1>3, <1>4 DEF QuietInv, OneEvent, Ended

(* Without collisions on one CPU every step keeps at most one event due and *)
(* the policy in step with the children.                                    *)
LEMMA QuietNext ==
  ASSUME CPUs = 1, ~Collisions, FaultInv, FaultInv', RunListOK, QuietInv, [Next]_vars
  PROVE  QuietInv'
<1> SUFFICES ASSUME ~Ended'
             PROVE  OneEvent' /\ (Strategy = "RR" => RRInStep') /\ (Strategy = "SJF" => SJFInStep')
  BY DEF QuietInv
<1>1. CASE UNCHANGED vars
  <2>1. /\ UNCHANGED <<pq, process_count, current_process_id, previous_active_id, sched, arrival_ptr>>
        /\ UNCHANGED <<state, pending, event_type, pc, remaining_time, inactive_heap, active_process>>
    BY <1>1 DEF vars, input, ti, jobs, rr, sjf
  <2>2. ~Ended
    BY <2>1 DEF Ended
  <2>3. OneEvent'
    BY <2>1, <2>2 DEF QuietInv, OneEvent, ChildDue, Zombies
  <2>4. Strategy = "RR" => R!Inv'
    <3>1. UNCHANGED R!vars
      BY <2>1 DEF R!vars, R!rrvars, Phase
    <3> QED BY <2>2, <3>1, RRInvNext DEF QuietInv, RRInStep
  <2>5. Strategy = "RR" => RRInStep'
    BY <2>1, <2>2, <2>4 DEF QuietInv, RRInStep, ChildDue, Zombies, Pool, R!Slots, R!to_resume
  <2>6. Strategy = "SJF" => S!Inv'
    <3>1. UNCHANGED S!vars
      BY <2>1 DEF S!vars, S!sjfvars, Phase
    <3> QED BY <2>2, <3>1, SJFInvNext DEF QuietInv, SJFInStep
  <2>7. Strategy = "SJF" => SJFInStep'
    <3>1. /\ S!Contents(inactive_heap)' = S!Contents(inactive_heap) /\ S!Active' = S!Active
          /\ Pool' = Pool /\ Zombies' = Zombies /\ ChildDue' = ChildDue
      BY <2>1 DEF S!Contents, S!Active, Pool, Zombies, ChildDue
    <3> QED BY <2>1, <2>2, <2>6, <3>1 DEF QuietInv, SJFInStep
  <2> QED BY <2>3, <2>5, <2>7
<1>2. CASE Next
  <2>1. ~Ended
    BY <1>2 DEF Next, Loop, SigSuspend, TimesliceOver, ProcessArrival, AnotherArrival, ArrivalsDone,
      ChildTerminated, ContextSwitch, ContextSwitchFails, Leave, TimerExpires, ChildStart, ChildExit,
      Runs, Ended
  <2>2. OneEvent'
    BY <1>2, <2>1, OneEventNext DEF QuietInv
  <2> QED
    BY <1>2, <2>1, <2>2, RRInStepNext, SJFInStepNext
<1> QED
  BY <1>1, <1>2

(* On one CPU and without collisions the inductive invariant holds, for     *)
(* every input, failing forks included.                                     *)
THEOREM Quiet ==
  ASSUME CPUs = 1, ~Collisions
  PROVE  Spec => [](FaultInv /\ RunListOK /\ QuietInv)
<1>1. Init => QuietInv
  BY QuietInit
<1>2. FaultInv /\ FaultInv' /\ RunListOK /\ QuietInv /\ [Next]_vars => QuietInv'
  BY QuietNext
<1>3. Spec => [](FaultInv /\ RunListOK)
  BY KernelInvariance
<1> QED
  BY <1>1, <1>2, <1>3, PTL DEF Spec

(* RR: whenever the scheduler sleeps the CPU is with the job at             *)
(* current_process_id and with no other, and idle only without jobs         *)
(* (RR.c:60-67, report.md: "the child with the highest priority gets the    *)
(* chance to run").                                                         *)
THEOREM RRRunsCurrent ==
  ASSUME Strategy = "RR", CPUs = 1, ~Collisions
  PROVE  Spec => []RightJobRuns
<1>1. RunListOK /\ QuietInv => RightJobRuns
  BY RRHead DEF RightJobRuns, Current
<1>2. Spec => [](FaultInv /\ RunListOK /\ QuietInv)
  BY Quiet
<1> QED
  BY <1>1, <1>2, PTL

(* The child wait(NULL) reaps is the job remove_current_process removes     *)
(* (main.c:362): it is the only zombie, and for RR the one at               *)
(* current_process_id, for SJF the active one.                              *)
THEOREM ReapsTheRightJob ==
  ASSUME CPUs = 1, ~Collisions
  PROVE  Spec => []ReapsCurrent
<1>1. ASSUME QuietInv PROVE ReapsCurrent
  <2> SUFFICES ASSUME pc = "dispatch", event_type = "CHILD_TERMINATED"
               PROVE  \E p \in Child : /\ Zombies = {p}
                                       /\ Strategy \in {"RR", "SJF"} => Current = {p}
    BY DEF ReapsCurrent, Zombies
  <2>1. ~Ended /\ ChildDue
    BY DEF Ended, ChildDue
  <2>2. PICK p \in Child : Zombies = {p}
    BY <1>1, <2>1 DEF QuietInv, OneEvent
  <2>3. Strategy = "RR" => Current = {p}
    BY <1>1, <2>1, <2>2 DEF QuietInv, RRInStep, Current
  <2>4. Strategy = "SJF" => Current = {p}
    BY <1>1, <2>1, <2>2 DEF QuietInv, SJFInStep, Current
  <2> QED BY <2>2, <2>3, <2>4
<1>2. Spec => [](FaultInv /\ RunListOK /\ QuietInv)
  BY Quiet
<1> QED
  BY <1>1, <1>2, PTL

(* SJF: whenever the scheduler sleeps the CPU is with active_process and    *)
(* with no other job, and idle only without jobs (SJF.c:22-28, report.md:   *)
(* "the child with the highest priority gets the chance to run").           *)
THEOREM SJFRunsActive ==
  ASSUME Strategy = "SJF", CPUs = 1, ~Collisions
  PROVE  Spec => []RightJobRuns
<1>1. RunListOK /\ QuietInv => RightJobRuns
  BY SJFHead DEF RightJobRuns, Current
<1>2. Spec => [](FaultInv /\ RunListOK /\ QuietInv)
  BY Quiet
<1> QED
  BY <1>1, <1>2, PTL

(* SJF never preempts a job that has taken a step (SJF.c:24, "No preemption *)
(* in SJF"), whatever arrives while it runs.                                *)
THEOREM SJFNeverPreempts ==
  ASSUME Strategy = "SJF", CPUs = 1, ~Collisions
  PROVE  Spec => []NoPreemption
<1>1. ASSUME FaultInv, QuietInv PROVE NoPreemption
  <2>1. CASE Ended
    BY <1>1, <2>1 DEF FaultInv, NoOrphans, Live, NoPreemption
  <2>2. CASE ~Ended
    <3>1. SJFInStep
      BY <1>1, <2>2 DEF QuietInv
    <3>2. \A p \in Child : state[p] = "running" => p \in S!Active
      BY <3>1 DEF SJFInStep, Pool
    <3>3. \A p, q \in S!Active : p = q
      BY DEF S!Active
    <3> QED BY <3>2, <3>3 DEF NoPreemption
  <2> QED BY <2>1, <2>2
<1>2. Spec => [](FaultInv /\ RunListOK /\ QuietInv)
  BY Quiet
<1> QED
  BY <1>1, <1>2, PTL

(* The only step that resumes a child is the context switch of SJF.c, and   *)
(* the child is the top of a heap that holds all the jobs there are.        *)
LEMMA ResumesShortest ==
  ASSUME Strategy = "SJF", CPUs = 1, FaultInv, RunListOK, QuietInv, Next,
         NEW p \in Child, sched.prio[p] = PRIO_MIN, sched'.prio[p] = PRIO_RUN
  PROVE  \A q \in Live \ {p} : S!Shorter(remaining_time, p, q)
<1>0. sched.prio \in [Child -> PRIO_MIN .. PRIO_MAX] /\ PRIO_MIN # PRIO_RUN
  BY DEF RunListOK, Kernel, PRIO_MIN, PRIO_RUN, PRIO_MAX
<1>1. CASE SigSuspend \/ TimesliceOver \/ ArrivalsDone \/ ChildTerminated \/ ContextSwitchFails \/ Leave
           \/ TimerExpires
  <2>1. sched'.prio = sched.prio
    <3>1. sched' = sched \/ sched' = [sched EXCEPT !.rq = <<>>]
      BY <1>1 DEF SigSuspend, TimesliceOver, ArrivalsDone, ChildTerminated, ContextSwitchFails, Leave,
                  TimerExpires, EndsIf, scheduler_exit
    <3>2. sched \in [prio : [Child -> PRIO_MIN .. PRIO_MAX], rq : Seq(Child)]
      BY DEF RunListOK, Kernel
    <3> QED BY <3>1, <3>2
  <2> QED BY <1>0, <2>1
<1>2. CASE ProcessArrival \/ AnotherArrival
  <2>1. CASE sched' = [sched EXCEPT !.rq = <<>>]
    <3>1. sched \in [prio : [Child -> PRIO_MIN .. PRIO_MAX], rq : Seq(Child)]
      BY DEF RunListOK, Kernel
    <3> QED BY <1>0, <2>1, <3>1
  <2>2. CASE sched' = suspend_process(fork(sched, arrival_ptr), arrival_ptr)
    <3>1. /\ sched'.prio = [fork(sched, arrival_ptr).prio EXCEPT ![arrival_ptr] = PRIO_MIN]
          /\ fork(sched, arrival_ptr).prio = [sched.prio EXCEPT ![arrival_ptr] = PRIO_MAX]
      BY <2>2, PriorityOfCalls
    <3> QED BY <1>0, <3>1
  <2> QED BY <1>2, <2>1, <2>2 DEF ProcessArrival, AnotherArrival, add_process, scheduler_exit
<1>3. CASE ContextSwitch
  <2>1. /\ SJFInStep /\ S!HeapSound
        /\ ~S!context_switch_SJF_stale /\ S!context_switch_SJF /\ UNCHANGED <<remaining_time, arrival_ptr>>
    BY <1>3 DEF ContextSwitch, context_switch, context_switch_fails, input, ti, QuietInv, Ended, FaultInv
  <2>2. active_process = NULL
    BY <1>0, <2>1, HeapSwitches
  <2>3. /\ active_process' \in Child /\ sched' = resume_process(sched, active_process')
        /\ \A q \in S!Contents(inactive_heap) \ {active_process'} :
             S!Shorter(remaining_time, active_process', q)
    BY <2>1, <2>2, HeapSwitches
  <2>4. sched'.prio = [sched.prio EXCEPT ![active_process'] = PRIO_RUN]
    BY <2>3, PriorityOfCalls
  <2>5. p = active_process'
    BY <1>0, <2>3, <2>4
  <2>6. Live \subseteq S!Contents(inactive_heap)
    BY <2>1, <2>2, SJFPool DEF SJFInStep, Live, Pool
  <2> QED BY <2>3, <2>5, <2>6
<1>4. ASSUME NEW r \in Child, ChildStart(r) PROVE FALSE
  <2>1. sched' = sched
    BY <1>4, SJFChildRuns DEF ChildStart
  <2> QED BY <1>0, <2>1
<1>5. ASSUME NEW r \in Child, ChildExit(r) PROVE FALSE
  <2>1. sched'.prio = sched.prio
    BY <1>5, PriorityOfCalls DEF ChildExit
  <2> QED BY <1>0, <2>1
<1> QED
  BY <1>1, <1>2, <1>3, <1>4, <1>5 DEF Next, Loop

(* SJF: the job that is given the CPU is the shortest of those that have    *)
(* arrived and not ended, the older one of two equals (SJF.c:22-28,         *)
(* heap.c:9-16), for every number of jobs and whatever time they need.      *)
THEOREM DispatchesShortest ==
  ASSUME Strategy = "SJF", CPUs = 1, ~Collisions
  PROVE  Spec => ShortestDispatched
<1>1. ASSUME FaultInv, RunListOK, QuietInv, Next
      PROVE  \A p \in Child : sched.prio[p] = PRIO_MIN /\ sched'.prio[p] = PRIO_RUN =>
               \A q \in Live \ {p} : S!Shorter(remaining_time, p, q)
  BY <1>1, ResumesShortest
<1>2. Spec => [](FaultInv /\ RunListOK /\ QuietInv)
  BY Quiet
<1> QED
  BY <1>1, <1>2, PTL DEF Spec, ShortestDispatched

-----------------------------------------------------------------------------
(* The timers in the program. *)
TP == INSTANCE TimersProofs WITH ArrivalTimes <- {w.arrival_time : w \in Workloads},
                                 alarm <- Alarm

(* The assumptions of module Timers hold in the program.                    *)
LEMMA TimersAssumptions ==
  /\ Strategy \in TP!Strategies
  /\ RR_TIMES_OF_UNIT \in Nat \ {0}
  /\ {w.arrival_time : w \in Workloads} \subseteq [TP!Child -> Int]
BY PolicyAssumption, WorkloadAssumption DEF TP!Strategies, TP!Child, Child

(* The invariant of Timers is the one TimersProofs proves.                  *)
LEMMA SameTimersInv ==
  /\ T!Inv <=> TP!Inv
  /\ T!Inv' <=> TP!Inv'
BY DEF T!Inv, TP!Inv, T!TypeOK, TP!TypeOK, T!TieFree, TP!TieFree, T!Aligned, TP!Aligned,
       T!ArmedInv, TP!ArmedInv, T!ExpiredInv, TP!ExpiredInv, T!ArrivingInv, TP!ArrivingInv,
       T!Armed, TP!Armed, T!set_timer, TP!set_timer, T!ArrivalIsMin, TP!ArrivalIsMin,
       T!arrival_queue_empty, TP!arrival_queue_empty, T!Child, TP!Child

(* A step of Timers as Scheduler instantiates it is one of those            *)
(* TimersProofs is about.                                                   *)
LEMMA SameTimersNext ==
  ASSUME [T!Next]_(T!vars)
  PROVE  [TP!Next]_(TP!vars)
<1> USE DEF T!arrival_queue_empty, TP!arrival_queue_empty, T!ArrivalIsMin, TP!ArrivalIsMin,
        T!set_timer, TP!set_timer, T!settime, TP!settime, T!TwoTimers, TP!TwoTimers,
        T!get_expire_reason, TP!get_expire_reason,
        T!timeunits_until_next_arrival, TP!timeunits_until_next_arrival
<1>1. T!TimerExpires => TP!TimerExpires
  BY DEF T!TimerExpires, TP!TimerExpires
<1>2. T!TimesliceOver => TP!TimesliceOver
  BY DEF T!TimesliceOver, TP!TimesliceOver, T!timeslice_expired, TP!timeslice_expired,
         T!timeslice_expired_fails, TP!timeslice_expired_fails
<1>3. T!ProcessArrival => TP!ProcessArrival
  BY DEF T!ProcessArrival, TP!ProcessArrival, T!arrival_expired, TP!arrival_expired
<1>4. T!AnotherArrival => TP!AnotherArrival
  BY DEF T!AnotherArrival, TP!AnotherArrival, T!another_arrival, TP!another_arrival,
         T!get_arrived_process, TP!get_arrived_process
<1>5. T!ArrivalsDone => TP!ArrivalsDone
  BY DEF T!ArrivalsDone, TP!ArrivalsDone, T!another_arrival, TP!another_arrival,
         T!arrivals_done, TP!arrivals_done, T!arrivals_done_fails, TP!arrivals_done_fails,
         T!time_to_next, TP!time_to_next
<1>6. UNCHANGED T!vars => UNCHANGED TP!vars
  BY DEF T!vars, TP!vars, T!tivars, TP!tivars
<1> QED
  BY <1>1, <1>2, <1>3, <1>4, <1>5, <1>6 DEF T!Next, TP!Next

(* What module Timers shows holds after every such step. *)
LEMMA TimersInvNext ==
  ASSUME T!Inv, [T!Next]_(T!vars)
  PROVE  T!Inv'
BY SameTimersInv, SameTimersNext, TP!NextInv, TimersAssumptions, NumProcessAssumption

(* Every step of the program is a step of module Timers, or Timers does not *)
(* see it.                                                                  *)
LEMMA TimersStep ==
  ASSUME CPUs = 1, ~Collisions, FaultInv, RunListOK, QuietInv,
         ~Ended, Next, pc' \notin {"aborted", "killed"}
  PROVE  [T!Next]_(T!vars)
<1> USE DEF T!vars, T!tivars
<1>0. OneEvent /\ LoopTypes /\ OneAlarm
  BY DEF QuietInv, FaultInv
<1>1. CASE SigSuspend
  <2>1. PICK signo \in pending : event_type' = signal_handler(signo)
    BY <1>1 DEF SigSuspend
  <2>2. pc = "sigsuspend" /\ pc' = "dispatch" /\ pending' = {} /\ UNCHANGED <<input, ti, clock>>
    BY <1>1 DEF SigSuspend
  <2>3. signo \in {"SIGALRM", "SIGCHLD"} /\ (signo = "SIGALRM" <=> "SIGALRM" \in pending)
    BY <1>0, <2>1 DEF LoopTypes, OneEvent
  <2>4. Alarm' = Alarm
    BY <2>1, <2>2, <2>3 DEF Alarm, signal_handler
  <2> QED BY <2>2, <2>4 DEF input, ti
<1>2. CASE TimesliceOver
  <2>1. /\ TimerDispatched /\ pc' = "switch" /\ pending' = pending /\ UNCHANGED <<input, clock>>
        /\ ~T!timeslice_expired_fails /\ T!timeslice_expired
        /\ T!get_expire_reason = "TIMESLICE_OVER"
    BY <1>2 DEF TimesliceOver, EndsIf, TimerDispatched
  <2>2. Alarm = "expired" /\ Alarm' = "armed"
    BY <1>0, <2>1 DEF Alarm, OneAlarm, TimerDispatched
  <2> QED BY <2>1, <2>2 DEF T!Next, T!TimesliceOver, input
<1>3. CASE ProcessArrival
  <2>1. /\ TimerDispatched /\ UNCHANGED <<input, clock>> /\ T!arrival_expired
        /\ T!get_expire_reason = "PROCESS_ARRIVAL" /\ pc' = "arrival"
    BY <1>3 DEF ProcessArrival, TimerDispatched, add_process, scheduler_exit
  <2>2. Alarm = "expired" /\ Alarm' = "arriving"
    BY <2>1 DEF Alarm, TimerDispatched
  <2> QED BY <2>1, <2>2 DEF T!Next, T!ProcessArrival, input
<1>4. CASE AnotherArrival
  <2>1. /\ pc = "arrival" /\ pc' = "arrival" /\ UNCHANGED <<input, clock>>
        /\ T!another_arrival /\ T!get_arrived_process
    BY <1>4 DEF AnotherArrival, add_process, scheduler_exit
  <2>2. Alarm = "arriving" /\ Alarm' = "arriving"
    BY <2>1 DEF Alarm
  <2> QED BY <2>1, <2>2 DEF T!Next, T!AnotherArrival, input
<1>5. CASE ArrivalsDone
  <2>1. /\ pc = "arrival" /\ pc' = "switch" /\ pending' = pending /\ UNCHANGED <<input, clock>>
        /\ ~T!another_arrival /\ T!arrivals_done /\ ~T!arrivals_done_fails
    BY <1>5 DEF ArrivalsDone, EndsIf
  <2>2. Alarm = "arriving" /\ Alarm' = "armed"
    BY <1>0, <2>1 DEF Alarm, OneAlarm
  <2> QED BY <2>1, <2>2 DEF T!Next, T!ArrivalsDone, input
<1>6. CASE ChildTerminated \/ ContextSwitch \/ Leave
  <2>1. /\ UNCHANGED <<input, ti, clock, pending, event_type>> /\ pc # "arrival"
        /\ pc' \notin {"dispatch", "arrival"} /\ ~TimerDispatched
    BY <1>6 DEF ChildTerminated, ContextSwitch, Leave, TimerDispatched
  <2>2. Alarm' = Alarm
    BY <2>1 DEF Alarm, TimerDispatched
  <2> QED BY <2>1, <2>2 DEF input, ti
<1>7. CASE ContextSwitchFails
  BY <1>7 DEF ContextSwitchFails, scheduler_exit
<1>8. CASE TimerExpires
  <2>1. it_value > 0 /\ pending' = pending \cup {"SIGALRM"} /\ pc' = pc
    BY <1>8 DEF TimerExpires, raise, block_some_signals
  <2>2. Alarm = "armed" /\ Alarm' = "expired"
    BY <1>0, <2>1 DEF Alarm, OneAlarm, TimerDispatched
  <2> QED BY <1>8, <2>2 DEF TimerExpires, T!Next, T!TimerExpires, input
<1>9. ASSUME NEW p \in Child, ChildStart(p) PROVE UNCHANGED T!vars
  BY <1>9 DEF ChildStart, Alarm, input, ti
<1>10. ASSUME NEW p \in Child, ChildExit(p) PROVE UNCHANGED T!vars
  <2>1. pending' \in {pending, pending \cup {"SIGCHLD"}} /\ UNCHANGED <<event_type, pc, input, ti, clock>>
    BY <1>10 DEF ChildExit, raise, block_some_signals
  <2>2. Alarm' = Alarm
    BY <2>1 DEF Alarm
  <2> QED BY <2>1, <2>2 DEF input, ti
<1> QED
  BY <1>1, <1>2, <1>3, <1>4, <1>5, <1>6, <1>7, <1>8, <1>9, <1>10 DEF Next, Loop, T!Next

-----------------------------------------------------------------------------
(* report.md's assumption on the input of RR: no job arrives at a multiple  *)
(* of the slice length, except at 0.                                        *)
TieFreeInput == Strategy = "RR" => \A w \in Workloads : T!TieFree(w.arrival_time)

(* The input lists the jobs in the order of their arrival.                  *)
SortedInput == \A w \in Workloads : T!Sorted(w.arrival_time)

(* What main.c does before the first sigsuspend is the start of Timers.     *)
LEMMA TimersInit ==
  ASSUME Init, pc # "killed"
  PROVE  T!Init
<1>1. 0 \in Child
  BY NumProcessAssumption DEF Child
<1>2. PICK w \in Workloads : arrival_time = w.arrival_time
  BY DEF Init, read_process_info, read_single_entry
<1>3. arrival_time \in {v.arrival_time : v \in Workloads} /\ arrival_time[0] \in Int
  BY <1>1, <1>2, WorkloadAssumption
<1>4. pc = "sigsuspend" /\ ~(arrival_time[0] < 0)
      /\ pending = IF arrival_time[0] = 0 THEN {"SIGALRM"} ELSE {}
  BY DEF Init, block_some_signals
<1>5. Alarm = IF arrival_time[0] = 0 THEN "expired" ELSE "armed"
  BY <1>4 DEF Alarm
<1> QED
  BY <1>3, <1>4, <1>5 DEF Init, T!Init

(* create_timer_and_init_timespec makes the invariant of Timers true.       *)
LEMMA TimersInvInit ==
  ASSUME Init, TieFreeInput
  PROVE  TimersInv
<1> SUFFICES ASSUME ~Ended PROVE T!Inv
  BY DEF TimersInv
<1>1. T!Init
  BY TimersInit DEF Ended
<1>2. Strategy = "RR" => T!TieFree(arrival_time)
  BY DEF Init, read_process_info, read_single_entry, TieFreeInput
<1>3. TP!Init
  BY <1>1 DEF T!Init, TP!Init, T!create_timer_and_init_timespec, TP!create_timer_and_init_timespec,
              T!set_timer, TP!set_timer, T!ArrivalIsMin, TP!ArrivalIsMin
<1>4. Strategy = "RR" => TP!TieFree(arrival_time)
  BY <1>2 DEF T!TieFree, TP!TieFree, T!Aligned, TP!Aligned, T!Child, TP!Child
<1> QED
  BY <1>3, <1>4, TP!InitInv, SameTimersInv, TimersAssumptions, NumProcessAssumption

(* Every step starts from a state in which main.c has not ended.            *)
LEMMA StepsAlive == Next => ~Ended
BY DEF Next, Loop, SigSuspend, TimesliceOver, ProcessArrival, AnotherArrival, ArrivalsDone,
       ChildTerminated, ContextSwitch, ContextSwitchFails, Leave, TimerExpires, ChildStart, ChildExit,
       Runs, Ended

(* A step that changes nothing changes nothing Timers and RR see.           *)
LEMMA Stutters ==
  ASSUME UNCHANGED vars
  PROVE  /\ UNCHANGED T!vars /\ UNCHANGED R!vars /\ UNCHANGED J!vars
         /\ pc' = pc /\ (Ended' <=> Ended)
BY DEF vars, input, ti, jobs, rr, T!vars, T!tivars, R!vars, R!rrvars, J!vars, Pool, Alarm, Phase, Ended

(* Every step of main.c that does not end it keeps the invariant of Timers, *)
(* because to Timers it is a step of its own or a stutter.                  *)
LEMMA TimersNext ==
  ASSUME CPUs = 1, ~Collisions, FaultInv, RunListOK, QuietInv, TimersInv, [Next]_vars
  PROVE  TimersInv'
<1> SUFFICES ASSUME ~Ended' PROVE T!Inv'
  BY DEF TimersInv
<1>1. CASE UNCHANGED vars
  BY <1>1, Stutters, TimersInvNext DEF TimersInv
<1>2. CASE Next
  <2>1. ~Ended /\ pc' \notin {"aborted", "killed"}
    BY <1>2, StepsAlive DEF Ended
  <2>2. [T!Next]_(T!vars)
    BY <1>2, <2>1, TimersStep
  <2> QED BY <2>1, <2>2, TimersInvNext DEF TimersInv
<1> QED
  BY <1>1, <1>2

(* The counters of TimerInfo stand for the exact distances to the next      *)
(* arrival and to the next end of a slice (Timers!Inv) in the program too,  *)
(* whatever the children do in between.                                     *)
THEOREM TimersInvariance ==
  ASSUME CPUs = 1, ~Collisions, TieFreeInput
  PROVE  Spec => [](FaultInv /\ RunListOK /\ QuietInv /\ TimersInv)
<1>1. Init => TimersInv
  BY TimersInvInit
<1>2. FaultInv /\ RunListOK /\ QuietInv /\ TimersInv /\ [Next]_vars => TimersInv'
  BY TimersNext
<1>3. Spec => [](FaultInv /\ RunListOK /\ QuietInv)
  BY Quiet
<1> QED
  BY <1>1, <1>2, <1>3, PTL DEF Spec

(* No event is lost between its signal and the loop (main.c:343-364): the   *)
(* scheduler never sleeps over a zombie, nor with the timer disarmed while  *)
(* a job is still to arrive.                                                *)
THEOREM LosesNoEvent ==
  ASSUME CPUs = 1, ~Collisions, TieFreeInput
  PROVE  Spec => []NoEventLost
<1>1. ASSUME FaultInv, QuietInv, TimersInv PROVE NoEventLost
  <2> SUFFICES ASSUME pc = "sigsuspend"
               PROVE  /\ \A p \in Child : state[p] = "zombie" => "SIGCHLD" \in pending
                      /\ ~T!arrival_queue_empty /\ "SIGALRM" \notin pending => it_value > 0
    BY DEF NoEventLost
  <2>1. OneEvent /\ T!Inv
    BY <1>1 DEF QuietInv, TimersInv, Ended
  <2>2. \A p \in Child : state[p] = "zombie" => "SIGCHLD" \in pending
    BY <2>1 DEF OneEvent, ChildDue, Zombies
  <2>3. ASSUME ~T!arrival_queue_empty, "SIGALRM" \notin pending PROVE it_value > 0
    <3>1. Alarm = "armed"
      BY <2>3 DEF Alarm
    <3>2. T!ArmedInv /\ T!TypeOK
      BY <2>1, <3>1 DEF T!Inv
    <3> QED
      BY <2>3, <3>2 DEF T!ArmedInv, T!TypeOK, T!Armed, T!set_timer, T!arrival_queue_empty
  <2> QED BY <2>2, <2>3
<1>2. Spec => [](FaultInv /\ RunListOK /\ QuietInv /\ TimersInv)
  BY TimersInvariance
<1> QED
  BY <1>1, <1>2, PTL

-----------------------------------------------------------------------------
(* SJF: context_switch_SJF fails when no job is there and one is still to   *)
(* arrive (SJF.c:26), and then scheduler_exit finds nobody to kill.         *)
LEMMA GapFails ==
  ASSUME Strategy = "SJF", FaultInv, RunListOK, QuietInv, ContextSwitchFails
  PROVE  /\ \A p \in Child : state[p] \in {"unborn", "reaped"}
         /\ ~T!arrival_queue_empty
         /\ pc = "switch" /\ pc' = "killed"
         /\ UNCHANGED <<input, ti, clock, jobs, sched, state, pending, event_type>>
<1>1. /\ pc = "switch" /\ pc' = "killed" /\ ~Finished /\ context_switch_fails
      /\ state' = Killed(state) /\ sched' = [sched EXCEPT !.rq = <<>>]
      /\ UNCHANGED <<input, ti, clock, jobs, pending, event_type>>
  BY DEF ContextSwitchFails, scheduler_exit
<1>2. SJFInStep /\ LoopTypes /\ BornInOrder
  BY <1>1 DEF QuietInv, FaultInv, Ended
<1>3. S!context_switch_SJF_stale
  <2>1. S!to_dispatch \cap Reaped # {} => active_process = S!NULL /\ S!heap_top(inactive_heap) \in Reaped
    BY DEF S!to_dispatch
  <2>2. Pool \cap Reaped = {}
    BY DEF Pool, Reaped
  <2>3. ~S!heap_empty(inactive_heap) => S!heap_top(inactive_heap) \in Pool
    BY <1>2, SJFPool
  <2> QED BY <1>1, <2>1, <2>2, <2>3 DEF context_switch_fails, S!context_switch_SJF_stale
<1>4. active_process = NULL /\ S!heap_empty(inactive_heap) /\ S!NULL = NULL
  BY <1>3 DEF S!context_switch_SJF_stale, S!NULL, NULL
<1>5. Pool = {}
  BY <1>2, <1>4, SJFPool DEF SJFInStep
<1>6. \A p \in Child : state[p] \in {"unborn", "reaped"}
  BY <1>2, <1>5 DEF Pool, LoopTypes, BornInOrder
<1>7. scheduler_empty
  BY <1>4 DEF scheduler_empty, S!scheduler_empty_SJF
<1>8. ~T!arrival_queue_empty
  BY <1>1, <1>7 DEF Finished
<1>9. state' = state
  BY <1>1, <1>2, <1>6 DEF Killed, LoopTypes
<1>10. sched' = sched
  <2>1. Live = {}
    BY <1>6 DEF Live
  <2>2. sched.rq = <<>> /\ sched \in [prio : [Child -> PRIO_MIN .. PRIO_MAX], rq : Seq(Child)]
    BY <2>1, IdleCPU DEF RunListOK, Kernel
  <2> QED BY <1>1, <2>2
<1> QED BY <1>1, <1>6, <1>8, <1>9, <1>10

(* No step from such a state ends the program abnormally, if fork does not  *)
(* fail and the input is sorted, except for that one.                       *)
LEMMA NeverAborts ==
  ASSUME ~ForkMayFail, SortedInput, FaultInv, QuietInv, TimersInv, ~Ended, Next
  PROVE  pc' \notin {"aborted", "killed"} \/ (Strategy = "SJF" /\ ContextSwitchFails)
<1>0. /\ T!Inv /\ TP!Inv /\ LoopTypes /\ OneAlarm /\ T!TypeOK
      /\ Strategy = "RR" => R!SlotsOK /\ R!IndexSafe
  BY SameTimersInv DEF TimersInv, FaultInv, T!Inv
<1>1. ASSUME TimesliceOver PROVE pc' = "switch"
  <2>1. Alarm = "expired" /\ T!get_expire_reason = "TIMESLICE_OVER"
    BY <1>1 DEF TimesliceOver, Alarm
  <2>2. TP!get_expire_reason = "TIMESLICE_OVER"
    BY <2>1 DEF T!get_expire_reason, TP!get_expire_reason, T!arrival_queue_empty, TP!arrival_queue_empty,
                T!ArrivalIsMin, TP!ArrivalIsMin
  <2>3. ~TP!timeslice_expired_fails
    BY <1>0, <2>1, <2>2, TP!SliceNeverFails, TimersAssumptions, NumProcessAssumption
  <2>4. ~T!timeslice_expired_fails
    BY <2>3 DEF T!timeslice_expired_fails, TP!timeslice_expired_fails, T!set_timer, TP!set_timer,
                T!ArrivalIsMin, TP!ArrivalIsMin, T!TwoTimers, TP!TwoTimers,
                T!arrival_queue_empty, TP!arrival_queue_empty
  <2> QED BY <1>1, <2>4 DEF TimesliceOver, EndsIf
<1>2. ASSUME ProcessArrival \/ AnotherArrival PROVE pc' = "arrival"
  <2>1. ~add_process_fails
    BY <1>0 DEF add_process_fails, R!add_process_RR_assert, R!SlotsOK, R!IndexSafe, R!Slots, R!Child
  <2> QED BY <1>2, <2>1 DEF ProcessArrival, AnotherArrival, add_process
<1>3. ASSUME ArrivalsDone PROVE pc' = "switch"
  <2>1. Alarm = "arriving"
    BY <1>3 DEF ArrivalsDone, Alarm
  <2>2. TP!Sorted(arrival_time)
    <3>1. arrival_time \in {w.arrival_time : w \in Workloads}
      BY <1>0 DEF T!TypeOK
    <3>2. T!Sorted(arrival_time)
      BY <3>1 DEF SortedInput
    <3> QED BY <3>2 DEF T!Sorted, TP!Sorted, T!Child, TP!Child
  <2>3. ~TP!arrivals_done_fails
    BY <1>0, <2>1, <2>2, TP!ArrivalsNeverFail, TimersAssumptions, NumProcessAssumption
  <2>4. ~T!arrivals_done_fails
    BY <2>3 DEF T!arrivals_done_fails, TP!arrivals_done_fails, T!set_timer, TP!set_timer,
                T!ArrivalIsMin, TP!ArrivalIsMin, T!time_to_next, TP!time_to_next,
                T!arrival_queue_empty, TP!arrival_queue_empty,
                T!timeunits_until_next_arrival, TP!timeunits_until_next_arrival
  <2>5. ~(arrival_remaining < 0)
    BY <2>4 DEF T!arrivals_done_fails
  <2> QED BY <1>3, <2>4, <2>5 DEF ArrivalsDone, EndsIf
<1>4. Strategy # "SJF" => ~ContextSwitchFails
  BY RRPidsFresh DEF ContextSwitchFails, context_switch_fails
<1>5. ASSUME SigSuspend \/ ChildTerminated \/ ContextSwitch \/ Leave PROVE pc' \notin {"aborted", "killed"}
  BY <1>5 DEF SigSuspend, ChildTerminated, ContextSwitch, Leave
<1>6. ASSUME TimerExpires \/ \E p \in Child : ChildStart(p) \/ ChildExit(p) PROVE pc' = pc
  BY <1>6 DEF TimerExpires, ChildStart, ChildExit
<1> QED
  BY <1>1, <1>2, <1>3, <1>4, <1>5, <1>6 DEF Next, Loop, Ended

(* The state of a program that has not ended abnormally, or only in the     *)
(* gap of SJF.                                                              *)
GoodInv ==
  /\ FaultInv /\ RunListOK /\ QuietInv /\ TimersInv
  /\ AbortsOnlyInGap
  /\ Strategy # "SJF" => NoAbnormalExit

(* A step from such a state goes on, or is the gap of SJF.                  *)
LEMMA GoodStep ==
  ASSUME ~ForkMayFail, SortedInput, GoodInv, Next
  PROVE  /\ ~Ended
         /\ pc' \notin {"aborted", "killed"} \/ (Strategy = "SJF" /\ ContextSwitchFails)
BY StepsAlive, NeverAborts DEF GoodInv

(* A sorted input begins with no negative time, so main.c reaches its loop. *)
LEMMA StartsAlive ==
  ASSUME SortedInput, Init
  PROVE  pc = "sigsuspend"
<1>1. 0 \in Child
  BY NumProcessAssumption DEF Child
<1>2. PICK w \in Workloads : arrival_time = w.arrival_time
  BY DEF Init, read_process_info, read_single_entry
<1>3. arrival_time[0] \in Int
  BY <1>1, <1>2, WorkloadAssumption
<1>4. 0 <= arrival_time[0]
  BY <1>1, <1>2, <1>3 DEF SortedInput, T!Sorted, T!Child, Child
<1> QED BY <1>3, <1>4 DEF Init

(* On a sorted input, without ties for RR, and as long as fork does not     *)
(* fail, every state is of that kind.                                       *)
THEOREM GoodInvariance ==
  ASSUME CPUs = 1, ~Collisions, ~ForkMayFail, TieFreeInput, SortedInput
  PROVE  Spec => []GoodInv
<1>1. Init => NoAbnormalExit
  BY StartsAlive DEF NoAbnormalExit
<1>2. ASSUME GoodInv, [Next]_vars PROVE AbortsOnlyInGap' /\ (Strategy # "SJF" => NoAbnormalExit)'
  <2>1. CASE UNCHANGED vars
    <3>1. UNCHANGED <<pc, state, arrival_ptr>>
      BY <2>1 DEF vars, ti
    <3> QED BY <1>2, <3>1 DEF GoodInv, NoAbnormalExit, AbortsOnlyInGap, T!arrival_queue_empty
  <2>2. CASE Next /\ pc' \notin {"aborted", "killed"}
    BY <2>2 DEF NoAbnormalExit, AbortsOnlyInGap
  <2>3. CASE Strategy = "SJF" /\ ContextSwitchFails
    BY <1>2, <2>3, GapFails DEF GoodInv, AbortsOnlyInGap, T!arrival_queue_empty, ti
  <2> QED BY <1>2, <2>1, <2>2, <2>3, GoodStep
<1>3. NoAbnormalExit => AbortsOnlyInGap
  BY DEF NoAbnormalExit, AbortsOnlyInGap
<1>4. Spec => [](FaultInv /\ RunListOK /\ QuietInv /\ TimersInv)
  BY TimersInvariance
<1> QED
  BY <1>1, <1>2, <1>3, <1>4, PTL DEF Spec, GoodInv

(* No assertion fails, and no call of set_priority or set_timer reaches     *)
(* scheduler_exit (main.c:278-281, error_test.sh: "ends abnormally").       *)
THEOREM NeverEndsAbnormally ==
  ASSUME Strategy \in {"FIFO", "RR"}, CPUs = 1, ~Collisions, ~ForkMayFail, TieFreeInput, SortedInput
  PROVE  Spec => []NoAbnormalExit
<1>1. GoodInv => NoAbnormalExit
  BY DEF GoodInv
<1>2. Spec => []GoodInv
  BY GoodInvariance
<1> QED
  BY <1>1, <1>2, PTL

(* SJF ends abnormally in one way only: context_switch_SJF is called with   *)
(* an empty heap, between the end of all the jobs so far and the arrival of *)
(* the next one (SJF.c:26), and no job is killed by it.                     *)
THEOREM SJFAbortsOnlyInGap ==
  ASSUME Strategy = "SJF", CPUs = 1, ~Collisions, ~ForkMayFail, SortedInput
  PROVE  Spec => []AbortsOnlyInGap
<1>1. GoodInv => AbortsOnlyInGap
  BY DEF GoodInv
<1>2. TieFreeInput
  BY DEF TieFreeInput
<1>3. Spec => []GoodInv
  BY <1>2, GoodInvariance
<1> QED
  BY <1>1, <1>3, PTL

(* main.c uses the TimerInfo as module Timers assumes: every theorem about  *)
(* Timers, the arrivals on time and the slices on time, holds in the        *)
(* program.                                                                 *)
THEOREM KeepsTimersContract ==
  ASSUME CPUs = 1, ~Collisions, ~ForkMayFail, TieFreeInput, SortedInput
  PROVE  Spec => TimersContract
<1>1. ASSUME Init, GoodInv PROVE T!Init
  <2>1. pc # "killed"
    BY <1>1, StartsAlive
  <2> QED BY <1>1, <2>1, TimersInit
<1>2. ASSUME GoodInv, [Next]_vars PROVE [T!Next]_(T!vars)
  <2>1. CASE UNCHANGED vars
    BY <2>1, Stutters
  <2>2. CASE Next /\ pc' \notin {"aborted", "killed"}
    BY <1>2, <2>2, StepsAlive, TimersStep DEF GoodInv
  <2>3. CASE Strategy = "SJF" /\ ContextSwitchFails
    BY <1>2, <2>3, GapFails DEF GoodInv, T!vars, T!tivars, Alarm, input, ti
  <2> QED BY <1>2, <2>1, <2>2, <2>3, GoodStep
<1>3. Spec => []GoodInv
  BY GoodInvariance
<1> QED
  BY <1>1, <1>2, <1>3, PTL DEF Spec, TimersContract, T!Spec

(* main.c calls RR.c in the order module RR assumes (scheduler.h): every    *)
(* theorem about RR holds in the program.                                   *)
THEOREM KeepsRRContract ==
  ASSUME Strategy = "RR", CPUs = 1, ~Collisions, ~ForkMayFail, TieFreeInput, SortedInput
  PROVE  Spec => RRContract
<1>1. ASSUME Init, GoodInv PROVE R!Init
  <2>1. pc = "sigsuspend"
    BY <1>1 DEF Init, GoodInv, NoAbnormalExit
  <2> QED
    BY <1>1, <2>1
    DEF Init, set_strategy, R!Init, NoChildren, R!NoChildren, Child, R!Child, PRIO_MIN, R!PRIO_MIN, Phase,
        T!create_timer_and_init_timespec
<1>2. ASSUME GoodInv, GoodInv', [Next]_vars PROVE [R!Next]_(R!vars)
  <2>1. CASE UNCHANGED vars
    BY <2>1, Stutters
  <2>2. CASE Next
    BY <1>2, <2>2, StepsAlive, RRStep DEF GoodInv, NoAbnormalExit
  <2> QED BY <1>2, <2>1, <2>2
<1>3. Spec => []GoodInv
  BY GoodInvariance
<1> QED
  BY <1>1, <1>2, <1>3, PTL DEF Spec, RRContract, R!Spec

(* main.c calls SJF.c in the order module SJF assumes, up to the gap, which *)
(* SJF.c does not survive and does not see: every theorem about SJF holds   *)
(* in the program.                                                          *)
THEOREM KeepsSJFContract ==
  ASSUME Strategy = "SJF", CPUs = 1, ~Collisions, ~ForkMayFail, SortedInput
  PROVE  Spec => SJFContract
<1>0. TieFreeInput
  BY DEF TieFreeInput
<1>1. Init => S!Init
  BY StartsAlive, SJFStarts
<1>2. ASSUME GoodInv, [Next]_vars PROVE [S!Next]_(S!vars)
  <2>1. CASE UNCHANGED vars
    BY <2>1 DEF vars, input, ti, jobs, sjf, S!vars, S!sjfvars, Phase
  <2>2. CASE Next /\ pc' \notin {"aborted", "killed"}
    BY <1>2, <2>2, StepsAlive, SJFStep DEF GoodInv
  <2>3. CASE ContextSwitchFails
    BY <1>2, <2>3, GapFails DEF GoodInv, S!vars, S!sjfvars, Phase, input, ti, jobs, sjf
  <2> QED BY <1>2, <2>1, <2>2, <2>3, GoodStep
<1>3. Spec => []GoodInv
  BY <1>0, GoodInvariance
<1> QED
  BY <1>1, <1>2, <1>3, PTL DEF Spec, SJFContract, S!Spec

(* SJF.c takes the shortest job from a plain set in the program itself: the *)
(* refinement shown of SJF carries over.                                    *)
THEOREM ServesShortestFirst ==
  ASSUME Strategy = "SJF", CPUs = 1, ~Collisions, ~ForkMayFail, SortedInput
  PROVE  Spec => SP!ImplementsShortestJob
<1>1. Init => SP!Init
  BY StartsAlive, SJFStarts
<1>2. [S!Next]_(S!vars) => [SP!Next]_(SP!vars)
  BY SameSJFNext
<1>3. Spec => SJFContract
  BY KeepsSJFContract
<1>4. Spec => SP!Spec
  BY <1>1, <1>2, <1>3, PTL DEF Spec, SJFContract, S!Spec, SP!Spec
<1>5. SP!Spec => SP!ImplementsShortestJob
  BY SP!Refinement, NumProcessAssumption, TimesOK
<1> QED
  BY <1>4, <1>5, PTL

(* RR.c serves the jobs in the order of one plain queue in the program      *)
(* itself: the refinement shown of RR carries over.                         *)
THEOREM ServesAQueue ==
  ASSUME Strategy = "RR", CPUs = 1, ~Collisions, ~ForkMayFail, TieFreeInput, SortedInput
  PROVE  Spec => RP!ImplementsRunQueue
<1>1. R!Init => RP!Init
  BY DEF R!Init, RP!Init, R!set_strategy_RR, RP!set_strategy_RR, R!NoChildren, RP!NoChildren,
         R!Child, RP!Child, R!NULL, RP!NULL, R!PRIO_MIN, RP!PRIO_MIN
<1>2. [R!Next]_(R!vars) => [RP!Next]_(RP!vars)
  BY SameRRNext
<1>3. RRContract => RP!Spec
  BY <1>1, <1>2, PTL DEF RRContract, R!Spec, RP!Spec
<1>4. RP!Spec => RP!ImplementsRunQueue
  BY RP!Refinement, NumProcessAssumption
<1>5. Spec => RRContract
  BY KeepsRRContract
<1> QED
  BY <1>3, <1>4, <1>5, PTL

-----------------------------------------------------------------------------
(* The jobs of the pool that have been given the CPU.                       *)
ResumedJobs == {p \in Pool : sched.prio[p] = PRIO_RUN}

(* RR: between two passes of the loop it is the job at the current index.   *)
LEMMA RRResumed ==
  ASSUME RRInStep, Phase = "running"
  PROVE  /\ ResumedJobs = R!to_resume
         /\ ResumedJobs \in IF Pool = {} THEN {{}} ELSE {{p} : p \in Pool}
<1>1. /\ Pool = {pq[i] : i \in R!Slots}
      /\ process_count \in Nat /\ R!Slots = 0 .. process_count - 1
      /\ process_count = 0 => current_process_id = -1
      /\ process_count > 0 => current_process_id \in R!Slots
      /\ \A i, j \in R!Slots : pq[i] = pq[j] => i = j
  BY SlotFacts DEF RRInStep, R!Inv, R!TypeOK
<1>2. \A i \in R!Slots : sched.prio[pq[i]] = IF i = current_process_id THEN PRIO_RUN ELSE PRIO_MIN
  BY DEF RRInStep, R!Inv, R!OneResumed, R!PRIO_RUN, R!PRIO_MIN, R!PRIO_MAX, PRIO_RUN, PRIO_MIN, PRIO_MAX
<1>3. PRIO_MIN # PRIO_RUN
  BY DEF PRIO_RUN, PRIO_MIN, PRIO_MAX
<1>4. CASE process_count = 0
  BY <1>1, <1>4 DEF ResumedJobs, R!to_resume
<1>5. CASE process_count > 0
  <2>1. R!to_resume = {pq[current_process_id]} /\ pq[current_process_id] \in Pool
    BY <1>1, <1>5 DEF R!to_resume
  <2>2. ResumedJobs = {pq[current_process_id]}
    BY <1>1, <1>2, <1>3, <1>5 DEF ResumedJobs
  <2> QED BY <2>1, <2>2
<1>6. process_count = 0 \/ process_count > 0
  BY <1>1
<1> QED
  BY <1>4, <1>5, <1>6

(* SJF: at any time it is the active job.                                   *)
LEMMA SJFResumed ==
  ASSUME SJFInStep
  PROVE  /\ ResumedJobs = S!Active
         /\ Phase = "running" => ResumedJobs \in IF Pool = {} THEN {{}} ELSE {{p} : p \in Pool}
<1>1. Pool = S!Contents(inactive_heap) \cup S!Active
  BY DEF SJFInStep
<1>2. \A p \in S!Contents(inactive_heap) : sched.prio[p] = PRIO_MIN /\ PRIO_MIN # PRIO_RUN
  BY DEF SJFInStep, PRIO_MIN, PRIO_RUN, PRIO_MAX
<1>3. ResumedJobs = S!Active
  BY <1>1, <1>2, SJFPool DEF ResumedJobs
<1>4. CASE active_process = NULL
  BY <1>3, <1>4, SJFPool
<1>5. CASE active_process # NULL
  <2>1. S!Active = {active_process} /\ active_process \in Pool
    BY <1>5, SJFPool
  <2> QED BY <1>3, <2>1
<1> QED BY <1>3, <1>4, <1>5

(* The policy is in step with the children.                                 *)
InStep == (Strategy = "RR" /\ RRInStep) \/ (Strategy = "SJF" /\ SJFInStep)

(* One job of the pool has been resumed when the scheduler sleeps, in the   *)
(* state after a step too.                                                  *)
LEMMA ResumedAfter ==
  (InStep /\ Phase = "running")' =>
     (ResumedJobs \in IF Pool = {} THEN {{}} ELSE {{p} : p \in Pool})'
<1>1. InStep /\ Phase = "running" => ResumedJobs \in IF Pool = {} THEN {{}} ELSE {{p} : p \in Pool}
  BY RRResumed, SJFResumed DEF InStep
<1> QED
  BY <1>1, PTL

(* Every step of the program is a call of the interface, or the interface   *)
(* does not see it.                                                         *)
LEMMA InterfaceStep ==
  ASSUME Strategy \in {"RR", "SJF"}, CPUs = 1, FaultInv, RunListOK, QuietInv, ~Ended, Next,
         QuietInv', pc' \notin {"aborted", "killed"}
  PROVE  [J!Next]_(J!vars)
<1> USE DEF ResumedJobs
<1>0. OneEvent /\ InStep /\ LoopTypes /\ BornInOrder
  BY DEF QuietInv, FaultInv, InStep
<1>1. CASE SigSuspend \/ Leave \/ TimerExpires
  BY <1>1 DEF SigSuspend, Leave, TimerExpires, J!vars, Pool
<1>2. CASE TimesliceOver \/ ArrivalsDone
  <2>1. /\ UNCHANGED <<state, sched>> /\ pc' = "switch"
        /\ TimesliceOver => pc = "dispatch"
        /\ ArrivalsDone => pc = "arrival"
    BY <1>2 DEF TimesliceOver, ArrivalsDone, EndsIf
  <2>2. Pool' = Pool /\ ResumedJobs' = ResumedJobs
    BY <2>1 DEF Pool
  <2>3. CASE TimesliceOver
    BY <2>1, <2>2, <2>3 DEF J!Next, J!timeslice_over
  <2>4. CASE ArrivalsDone
    BY <2>1, <2>2, <2>4 DEF J!vars
  <2> QED BY <1>2, <2>3, <2>4
<1>3. CASE ProcessArrival \/ AnotherArrival
  <2>1. arrival_ptr < num_process
    BY <1>0, <1>3, NumProcessAssumption
    DEF ProcessArrival, AnotherArrival, T!get_expire_reason, T!another_arrival, T!arrival_queue_empty,
        AlarmMeansArrival, TimerDispatched, FaultInv, LoopTypes
  <2>2. /\ state' = [state EXCEPT ![arrival_ptr] = "new"]
        /\ sched' = suspend_process(fork(sched, arrival_ptr), arrival_ptr)
    BY <1>3 DEF ProcessArrival, AnotherArrival, add_process, scheduler_exit
  <2>3. arrival_ptr \in Child /\ state[arrival_ptr] = "unborn"
    BY <1>0, <2>1, NumProcessAssumption DEF LoopTypes, BornInOrder, Child
  <2>4. arrival_ptr \notin Pool /\ Pool' = Pool \cup {arrival_ptr}
    BY <1>0, <2>2, <2>3 DEF Pool, LoopTypes
  <2>5. sched'.prio = [sched.prio EXCEPT ![arrival_ptr] = PRIO_MIN]
    <3>1. arrival_ptr \notin Queued(sched) /\ sched \in Kernel /\ Distinct(sched.rq)
      BY <2>3 DEF RunListOK, Live
    <3>2. sched' = [prio |-> [sched.prio EXCEPT ![arrival_ptr] = PRIO_MIN], rq |-> <<arrival_ptr>> \o sched.rq]
      BY <2>2, <2>3, <3>1, ForkSuspend
    <3> QED BY <3>2
  <2>6. ResumedJobs' = ResumedJobs
    <3>1. Pool \subseteq Child /\ sched.prio \in [Child -> PRIO_MIN .. PRIO_MAX] /\ PRIO_MIN # PRIO_RUN
      BY DEF Pool, RunListOK, Kernel, PRIO_MIN, PRIO_RUN, PRIO_MAX
    <3> QED BY <2>3, <2>4, <2>5, <3>1
  <2>7. pc' = "arrival"
    BY <1>3 DEF ProcessArrival, AnotherArrival, add_process, scheduler_exit
  <2>8. J!add_process(arrival_ptr)
    BY <2>4, <2>6, <2>7 DEF J!add_process
  <2> QED BY <2>3, <2>8 DEF J!Next
<1>4. CASE ChildTerminated
  <2>1. PICK p \in Child : state[p] = "zombie" /\ state' = [state EXCEPT ![p] = "reaped"]
    BY <1>4 DEF ChildTerminated
  <2>2. ChildDue /\ Phase = "running" /\ sched' = sched
    BY <1>4 DEF ChildTerminated, ChildDue, Phase
  <2>3. ResumedJobs = {p}
    <3>1. Zombies = {p}
      BY <1>0, <2>1, <2>2 DEF OneEvent, Zombies
    <3>2. CASE RRInStep
      BY <2>2, <3>1, <3>2, RRResumed DEF RRInStep
    <3>3. CASE SJFInStep
      BY <2>2, <3>1, <3>3, SJFResumed DEF SJFInStep
    <3> QED BY <1>0, <3>2, <3>3 DEF InStep
  <2>4. p \in Pool /\ Pool' = Pool \ {p}
    BY <1>0, <2>1 DEF Pool, LoopTypes
  <2>5. ResumedJobs' = {}
    BY <2>2, <2>3, <2>4
  <2>6. pc = "dispatch" /\ pc' = "switch"
    BY <1>4 DEF ChildTerminated
  <2> QED BY <2>3, <2>4, <2>5, <2>6 DEF J!Next, J!remove_current_process
<1>5. CASE ContextSwitch
  <2>1. pc = "switch" /\ pc' = "sigsuspend" /\ state' = state
    BY <1>5 DEF ContextSwitch
  <2>2. InStep' /\ Phase' = "running" /\ Pool' = Pool
    BY <2>1 DEF QuietInv, Ended, Phase, Pool, InStep
  <2>3. ResumedJobs' \in IF Pool' = {} THEN {{}} ELSE {{p} : p \in Pool'}
    BY <2>2, ResumedAfter
  <2> QED BY <2>1, <2>2, <2>3 DEF J!Next, J!context_switch
<1>6. CASE ContextSwitchFails
  BY <1>6 DEF ContextSwitchFails, scheduler_exit
<1>7. ASSUME NEW p \in Child, ChildStart(p) PROVE UNCHANGED J!vars
  <2>1. sched' = sched
    BY <1>7, RRChildRuns, SJFChildRuns DEF ChildStart
  <2>2. Pool' = Pool /\ pc' = pc
    BY <1>0, <1>7 DEF ChildStart, Pool, LoopTypes
  <2> QED BY <2>1, <2>2 DEF J!vars
<1>8. ASSUME NEW p \in Child, ChildExit(p) PROVE UNCHANGED J!vars
  <2>1. sched'.prio = sched.prio
    BY <1>8 DEF ChildExit, exit
  <2>2. Pool' = Pool /\ pc' = pc
    BY <1>0, <1>8 DEF ChildExit, Pool, LoopTypes
  <2> QED BY <2>1, <2>2 DEF J!vars
<1> QED
  BY <1>1, <1>2, <1>3, <1>4, <1>5, <1>6, <1>7, <1>8 DEF Next, Loop

(* scheduler.h, "when, and only when": the CPU moves in the step in which   *)
(* main.c:370 calls context_switch and in no other, an event has been       *)
(* handed over before every such call, and the child main.c reaps is the    *)
(* only one that had the CPU.                                               *)
THEOREM KeepsJobInterface ==
  ASSUME Strategy \in {"RR", "SJF"}, CPUs = 1, ~Collisions, ~ForkMayFail, TieFreeInput, SortedInput
  PROVE  Spec => KeepsInterface
<1>1. ASSUME Init PROVE J!Init
  <2>1. Pool = {}
    BY <1>1 DEF Init, Pool
  <2>2. pc = "sigsuspend"
    BY <1>1, StartsAlive DEF Init
  <2> QED BY <2>1, <2>2 DEF J!Init
<1>2. ASSUME GoodInv, GoodInv', [Next]_vars PROVE [J!Next]_(J!vars)
  <2>1. CASE UNCHANGED vars
    BY <2>1, Stutters
  <2>2. CASE Next /\ pc' \notin {"aborted", "killed"}
    BY <1>2, <2>2, StepsAlive, InterfaceStep DEF GoodInv
  <2>3. CASE Strategy = "SJF" /\ ContextSwitchFails
    BY <1>2, <2>3, GapFails DEF GoodInv, J!vars, Pool
  <2> QED BY <1>2, <2>1, <2>2, <2>3, GoodStep
<1>3. Spec => []GoodInv
  BY GoodInvariance
<1> QED
  BY <1>1, <1>2, <1>3, PTL DEF Spec, KeepsInterface, J!Spec
==============================================================================
