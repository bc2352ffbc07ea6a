--------------------------- MODULE SchedulerProofs ---------------------------
(***************************************************************************)
(* What holds of the whole program whatever goes wrong (signals that       *)
(* overwrite each other, more than one CPU, failing forks, inputs nobody   *)
(* has checked), for every policy, every number of jobs and every input:   *)
(* the scheduler leaves no child behind, it leaves its loop only when all  *)
(* jobs have been reaped, the indices of RR.c stay inside its array, the   *)
(* array of SJF.c stays a heap, and the kernel's log is exact and has one  *)
(* line of every job.                                                      *)
(***************************************************************************)
EXTENDS ProcessLog, SchedFifoProofs

RP == INSTANCE RRProofs WITH phase <- Phase
SP == INSTANCE SJFProofs WITH TimesNeeded <- {w.time_needed : w \in Workloads}, phase <- Phase

(* The lemmas about RR.c, read in the program. *)
LEMMA SameRR ==
  /\ R!SlotsOK <=> RP!SlotsOK
  /\ R!IndexSafe <=> RP!IndexSafe
  /\ R!SlotsOK' <=> RP!SlotsOK'
  /\ R!IndexSafe' <=> RP!IndexSafe'
  /\ R!remove_current_process_RR <=> RP!remove_current_process_RR
  /\ R!timeslice_over_RR <=> RP!timeslice_over_RR
  /\ \A p : R!add_process_RR(p) <=> RP!add_process_RR(p)
BY DEF R!SlotsOK, RP!SlotsOK, R!IndexSafe, RP!IndexSafe, R!Slots, RP!Slots, R!Child, RP!Child,
       R!NULL, RP!NULL, R!remove_current_process_RR, RP!remove_current_process_RR,
       R!timeslice_over_RR, RP!timeslice_over_RR, R!advance, RP!advance,
       R!add_process_RR, RP!add_process_RR

(* The same for SJF.c and its heap: the times the jobs need are what module *)
(* SJF assumes,                                                             *)
LEMMA TimesOK == {w.time_needed : w \in Workloads} \subseteq [SP!Child -> Nat]
BY WorkloadAssumption DEF SP!Child, Child

(* the functions of heap.c,                                                 *)
LEMMA SameHeap ==
  /\ S!Array = SP!Array /\ S!Child = SP!Child /\ S!NULL = SP!NULL
  /\ \A h : /\ S!Contents(h) = SP!Contents(h)
            /\ S!heap_top(h) = SP!heap_top(h)
            /\ S!heap_empty(h) <=> SP!heap_empty(h)
  /\ \A rem, h : S!HeapOrdered(rem, h) <=> SP!HeapOrdered(rem, h)
  /\ \A rem, h, p : S!heap_insert(rem, h, p) = SP!heap_insert(rem, h, p)
  /\ \A rem, h : S!heap_pop(rem, h) = SP!heap_pop(rem, h)
<1>1. \A rem, h, p : S!heap_insert(rem, h, p) = SP!heap_insert(rem, h, p)
  BY DEF S!heap_insert, SP!heap_insert, S!upheap, SP!upheap, S!Array, SP!Array, S!Child, SP!Child,
         S!NULL, SP!NULL, S!heap_element_lt, SP!heap_element_lt, S!Shorter, SP!Shorter,
         S!parent, SP!parent, S!heap_swap, SP!heap_swap
<1>2. \A rem, h : S!heap_pop(rem, h) = SP!heap_pop(rem, h)
  BY DEF S!heap_pop, SP!heap_pop, S!downheap, SP!downheap, S!Array, SP!Array, S!Child, SP!Child,
         S!NULL, SP!NULL, S!heap_element_lt, SP!heap_element_lt, S!Shorter, SP!Shorter,
         S!minIdx, SP!minIdx, S!lchild, SP!lchild, S!rchild, SP!rchild, S!heap_swap, SP!heap_swap
<1> QED
  BY <1>1, <1>2 DEF S!Array, SP!Array, S!Contents, SP!Contents, S!heap_top, SP!heap_top,
         S!heap_empty, SP!heap_empty, S!Child, SP!Child, S!NULL, SP!NULL, S!Shorter, SP!Shorter,
         S!HeapOrdered, SP!HeapOrdered, S!heap_element_lt, SP!heap_element_lt, S!parent, SP!parent

(* the functions of SJF.c,                                                  *)
LEMMA SameSJF ==
  /\ \A p : S!add_process_SJF(p) <=> SP!add_process_SJF(p)
  /\ S!remove_current_process_SJF <=> SP!remove_current_process_SJF
  /\ S!context_switch_SJF_stale <=> SP!context_switch_SJF_stale
  /\ S!context_switch_SJF <=> SP!context_switch_SJF
  /\ S!Active = SP!Active
<1>1. \A s, p : S!resume_process(s, p) = SP!resume_process(s, p)
  BY DEF S!resume_process, SP!resume_process, S!set_priority, SP!set_priority, S!Queued, SP!Queued,
         S!Without, SP!Without, S!PRIO_RUN, SP!PRIO_RUN, S!PRIO_MAX, SP!PRIO_MAX
<1> QED
  BY <1>1, SameHeap DEF S!add_process_SJF, SP!add_process_SJF, S!remove_current_process_SJF,
         SP!remove_current_process_SJF, S!context_switch_SJF_stale, SP!context_switch_SJF_stale,
         S!context_switch_SJF, SP!context_switch_SJF, S!sjfvars, SP!sjfvars, S!Active, SP!Active

(* and what makes its data sound,                                           *)
LEMMA HeapRead == S!HeapSound <=> SP!HeapFacts
<1>1. S!HeapSound <=> SP!HeapSound
  BY SameHeap
  DEF S!HeapSound, SP!HeapSound, S!HeapTypes, SP!HeapTypes, S!SlotsOK, SP!SlotsOK,
      S!HeapSafe, SP!HeapSafe, S!Room, SP!Room
<1> QED
  BY <1>1, SP!HeapInv, NumProcessAssumption, TimesOK

(* before a step and after it.                                              *)
LEMMA HeapReadAfter == S!HeapSound' <=> SP!HeapFacts'
BY HeapRead, PTL

(* What add_process_SJF does to the jobs in the heap.                       *)
LEMMA HeapAdds ==
  ASSUME S!HeapSound, arrival_ptr < num_process, S!add_process_SJF(arrival_ptr),
         arrival_ptr' = arrival_ptr + 1, UNCHANGED remaining_time
  PROVE  /\ S!HeapSound'
         /\ S!Contents(inactive_heap)' = S!Contents(inactive_heap) \cup {arrival_ptr}
         /\ inactive_heap'.heap_size = inactive_heap.heap_size + 1
         /\ active_process' = active_process
         /\ arrival_ptr \notin S!Contents(inactive_heap) \cup S!Active
<1>1. SP!HeapFacts /\ SP!add_process_SJF(arrival_ptr)
  BY HeapRead, SameSJF
<1>2. /\ SP!HeapFacts'
      /\ SP!Contents(inactive_heap)' = SP!Contents(inactive_heap) \cup {arrival_ptr}
      /\ inactive_heap'.heap_size = inactive_heap.heap_size + 1
      /\ arrival_ptr \notin SP!Contents(inactive_heap) \cup SP!Active
  BY <1>1, SP!AddHeap, NumProcessAssumption, TimesOK
<1>3. active_process' = active_process
  BY DEF S!add_process_SJF
<1> QED
  BY <1>2, <1>3, HeapReadAfter, SameHeap, SameSJF

(* What remove_current_process_SJF does.                                    *)
LEMMA HeapRemoves ==
  ASSUME S!HeapSound, S!remove_current_process_SJF, UNCHANGED <<remaining_time, arrival_ptr>>
  PROVE  S!HeapSound' /\ active_process' = NULL /\ inactive_heap' = inactive_heap
<1>1. SP!HeapFacts /\ SP!remove_current_process_SJF
  BY HeapRead, SameSJF
<1>2. SP!HeapFacts'
  BY <1>1, SP!RemoveHeap, NumProcessAssumption, TimesOK
<1> QED
  BY <1>2, HeapReadAfter DEF S!remove_current_process_SJF, S!NULL, NULL

(* What context_switch_SJF does: with no job active, it takes the shortest. *)
LEMMA HeapSwitches ==
  ASSUME S!HeapSound, ~S!context_switch_SJF_stale, S!context_switch_SJF,
         UNCHANGED <<remaining_time, arrival_ptr>>
  PROVE  /\ S!HeapSound'
         /\ active_process' # NULL
         /\ active_process # NULL => UNCHANGED <<inactive_heap, active_process, sched>>
         /\ active_process = NULL =>
              /\ active_process' = S!heap_top(inactive_heap)
              /\ active_process' \in S!Contents(inactive_heap)
              /\ active_process' \in Child
              /\ \A q \in S!Contents(inactive_heap) \ {active_process'} :
                   S!Shorter(remaining_time, active_process', q)
              /\ S!Contents(inactive_heap)' = S!Contents(inactive_heap) \ {active_process'}
              /\ inactive_heap'.heap_size = inactive_heap.heap_size - 1
              /\ inactive_heap.heap_size > 0
              /\ sched' = resume_process(sched, active_process')
<1>1. SP!HeapFacts /\ ~SP!context_switch_SJF_stale /\ SP!context_switch_SJF
  BY HeapRead, SameSJF
<1>2. /\ NULL = SP!NULL /\ Child = SP!Child
      /\ \A q : S!Shorter(remaining_time, active_process', q) <=>
               SP!Shorter(remaining_time, active_process', q)
      /\ SP!resume_process(sched, active_process') = resume_process(sched, active_process')
  BY DEF NULL, SP!NULL, Child, SP!Child, S!Shorter, SP!Shorter, SP!resume_process, resume_process,
         SP!set_priority, set_priority, SP!Queued, Queued, SP!Without, Without, SP!PRIO_RUN, PRIO_RUN,
         SP!PRIO_MAX, PRIO_MAX
<1>3. /\ SP!HeapFacts'
      /\ active_process' # SP!NULL
      /\ active_process # SP!NULL => UNCHANGED <<inactive_heap, active_process, sched>>
  BY <1>1, SP!SwitchHeap, NumProcessAssumption, TimesOK
<1>4. active_process = SP!NULL =>
        /\ active_process' = SP!heap_top(inactive_heap)
        /\ active_process' \in SP!Contents(inactive_heap)
        /\ active_process' \in SP!Child
        /\ \A q \in SP!Contents(inactive_heap) \ {active_process'} :
             SP!Shorter(remaining_time, active_process', q)
        /\ SP!Contents(inactive_heap)' = SP!Contents(inactive_heap) \ {active_process'}
        /\ inactive_heap'.heap_size = inactive_heap.heap_size - 1
        /\ inactive_heap.heap_size > 0
        /\ sched' = SP!resume_process(sched, active_process')
  BY <1>1, SP!SwitchHeap, NumProcessAssumption, TimesOK
<1>5. /\ S!heap_top(inactive_heap) = SP!heap_top(inactive_heap)
      /\ S!Contents(inactive_heap) = SP!Contents(inactive_heap)
      /\ S!Contents(inactive_heap)' = SP!Contents(inactive_heap)'
  BY SameHeap
<1>6. CASE active_process # NULL
  BY <1>2, <1>3, <1>6, HeapReadAfter
<1>7. CASE active_process = NULL
  <2>1. active_process = SP!NULL
    BY <1>2, <1>7
  <2>2. /\ active_process' = S!heap_top(inactive_heap)
        /\ active_process' \in S!Contents(inactive_heap)
        /\ active_process' \in Child
        /\ S!Contents(inactive_heap)' = S!Contents(inactive_heap) \ {active_process'}
        /\ inactive_heap'.heap_size = inactive_heap.heap_size - 1
        /\ inactive_heap.heap_size > 0
    BY <1>2, <1>4, <1>5, <2>1
  <2>3. \A q \in S!Contents(inactive_heap) \ {active_process'} :
          S!Shorter(remaining_time, active_process', q)
    BY <1>2, <1>4, <1>5, <2>1
  <2>4. sched' = resume_process(sched, active_process')
    BY <1>2, <1>4, <2>1, Zenon
  <2> QED BY <1>2, <1>3, <1>7, <2>2, <2>3, <2>4, HeapReadAfter
<1> QED
  BY <1>6, <1>7

(* The types of SJF.c's data.                                               *)
LEMMA HeapNumbers ==
  ASSUME S!HeapSound
  PROVE  /\ inactive_heap.heap_size \in Nat
         /\ S!heap_empty(inactive_heap) <=> inactive_heap.heap_size = 0
         /\ active_process \in Child \cup {NULL}
BY NumProcessAssumption DEF S!HeapSound, S!HeapTypes, S!heap_empty, S!Child, Child, S!NULL, NULL

(* The pool is finite, so it can be counted. *)
LEMMA PoolFinite ==
  /\ IsFiniteSet(Pool)
  /\ Cardinality(Pool) \in Nat
  /\ Cardinality(Pool) = 0 <=> Pool = {}
<1>1. IsFiniteSet(Child) /\ Pool \in SUBSET Child
  BY NumProcessAssumption, FS_Interval DEF Child, Pool
<1>2. IsFiniteSet(Pool)
  BY <1>1, FS_Subset
<1> QED
  BY <1>2, FS_CardinalityType, FS_EmptySet

(* The pool after fork, after wait(NULL) and after a step of a child.       *)
LEMMA PoolSteps ==
  ASSUME NEW p \in Child, NEW v,
         state \in [Child -> {"unborn", "new", "running", "zombie", "reaped", "killed"}],
         state' = [state EXCEPT ![p] = v]
  PROVE  /\ p \notin Pool /\ v = "new" => Cardinality(Pool') = Cardinality(Pool) + 1
         /\ p \in Pool /\ v = "reaped" => /\ Cardinality(Pool') = Cardinality(Pool) - 1
                                          /\ Cardinality(Pool) > 0
         /\ p \in Pool /\ v \in {"running", "zombie"} => Pool' = Pool
<1>1. p \notin Pool /\ v = "new" => Pool' = Pool \cup {p}
  BY DEF Pool
<1>2. p \in Pool /\ v = "reaped" => Pool' = Pool \ {p}
  BY DEF Pool
<1>3. p \in Pool /\ v \in {"running", "zombie"} => Pool' = Pool
  BY DEF Pool
<1>4. p \in Pool => Pool # {}
  OBVIOUS
<1> QED
  BY <1>1, <1>2, <1>3, <1>4, PoolFinite, FS_AddElement, FS_RemoveElement

-----------------------------------------------------------------------------
(* main.c reaches its first sigsuspend, or ends, in such a state. *)
LEMMA FaultInit ==
  ASSUME Init
  PROVE  FaultInv
<1> USE NumProcessAssumption, PolicyAssumption
<1>1. arrival_time \in [Child -> Int] /\ 0 \in Child /\ arrival_time[0] \in Int
  BY WorkloadAssumption DEF Init, read_process_info, read_single_entry, Child
<1>2. /\ arrival_ptr = 0 /\ arrival_remaining = arrival_time[0]
      /\ timeslice_remaining \in Int
      /\ Strategy = "RR" => timeslice_remaining > 0
      /\ it_value \in Nat
      /\ arrival_time[0] = 0 => it_value = 0
  BY <1>1 DEF Init, T!create_timer_and_init_timespec, T!set_timer, T!ArrivalIsMin
<1>3. LoopTypes
  BY <1>1, <1>2 DEF Init, LoopTypes, EventType, block_some_signals
<1>4. /\ state = [p \in Child |-> "unborn"]
      /\ Pool = {} /\ Live = {}
  BY DEF Init, Pool, Live
<1>5. Strategy = "RR" => R!SlotsOK /\ R!IndexSafe
  BY <1>2 DEF Init, set_strategy, R!set_strategy_RR, R!SlotsOK, R!IndexSafe, R!Slots, R!Child, R!NULL
<1>h. S!HeapSound /\ inactive_heap.heap_size = 0 /\ active_process = NULL
  <2>1. /\ S!set_strategy_SJF /\ S!Child = Child /\ S!NULL = NULL
        /\ remaining_time \in [Child -> Nat]
    BY WorkloadAssumption DEF Init, set_strategy, read_process_info, read_single_entry,
       S!Child, Child, S!NULL, NULL
  <2>2. /\ inactive_heap.heap_size = 0 /\ active_process = NULL
        /\ inactive_heap \in [pq : S!Array, heap_size : 0 .. num_process]
    BY <2>1 DEF S!set_strategy_SJF, S!heap_init, S!Array
  <2>3. S!Contents(inactive_heap) = {} /\ NULL < 0
    BY <2>1, <2>2 DEF S!Contents, Child, NULL
  <2>4. S!HeapTypes /\ S!SlotsOK /\ S!Room
    BY <1>2, <2>1, <2>2, <2>3 DEF S!HeapTypes, S!SlotsOK, S!Room, Child
  <2>5. S!HeapSafe
    BY <2>1, <2>2, <2>3 DEF S!HeapSafe, S!HeapOrdered, Child
  <2> QED BY <2>2, <2>4, <2>5 DEF S!HeapSound
<1>6. JobCount = 0 /\ Cardinality(Pool) = 0 /\ S!OwedSwitch
  BY <1>h, <1>4, FS_EmptySet
  DEF Init, set_strategy, R!set_strategy_RR, F!set_strategy_FIFO, JobCount, S!OwedSwitch, S!heap_empty
<1>7. ASSUME ~Ended PROVE OneAlarm /\ AlarmMeansArrival /\ BornInOrder
  <2>1. pc = "sigsuspend" /\ arrival_time[0] >= 0
    BY <1>7, <1>1 DEF Init, Ended
  <2>2. "SIGALRM" \in pending => it_value = 0
    BY <1>2 DEF Init
  <2> QED
    BY <2>1, <2>2, <1>2, <1>4
    DEF OneAlarm, AlarmMeansArrival, BornInOrder, TimerDispatched, Child
<1>8. NoOrphans /\ CleanExit
  BY <1>4 DEF NoOrphans, CleanExit, Init
<1> QED
  BY <1>3, <1>5, <1>h, <1>6, <1>7, <1>8 DEF FaultInv

(* The statuses of scheduler_exit: every child ends with the scheduler. *)
LEMMA KilledFacts ==
  ASSUME state \in [Child -> {"unborn", "new", "running", "zombie", "reaped", "killed"}],
         state' = Killed(state)
  PROVE  /\ state' \in [Child -> {"unborn", "new", "running", "zombie", "reaped", "killed"}]
         /\ Live' = {}
BY DEF Killed, Live

(* Nothing changes what a policy keeps but its own functions. *)
LEMMA FramePolicy ==
  ASSUME UNCHANGED <<pq, current_process_id, previous_active_id, process_count, count_process>>,
         UNCHANGED <<remaining_time, inactive_heap, active_process, arrival_ptr>>
  PROVE  /\ (R!SlotsOK /\ R!IndexSafe)' <=> R!SlotsOK /\ R!IndexSafe
         /\ S!HeapSound' <=> S!HeapSound
         /\ JobCount' = JobCount
         /\ S!OwedSwitch /\ (Phase' = "running" => Phase = "running") => S!OwedSwitch'
<1>1. (R!SlotsOK /\ R!IndexSafe)' <=> R!SlotsOK /\ R!IndexSafe
  BY DEF R!SlotsOK, R!IndexSafe, R!Slots, R!Child
<1>2. S!HeapSound' <=> S!HeapSound
  BY DEF S!HeapSound, S!HeapTypes, S!SlotsOK, S!HeapSafe, S!Room
<1>3. JobCount' = JobCount
  BY DEF JobCount
<1>4. S!OwedSwitch /\ (Phase' = "running" => Phase = "running") => S!OwedSwitch'
  BY DEF S!OwedSwitch, S!heap_empty
<1> QED
  BY <1>1, <1>2, <1>3, <1>4

(* sigsuspend returns. *)
LEMMA SigSuspendFault ==
  ASSUME FaultInv, SigSuspend
  PROVE  FaultInv'
<1> USE DEF FaultInv
<1>1. PICK signo \in pending : event_type' = signal_handler(signo)
  BY DEF SigSuspend
<1>2. /\ pc = "sigsuspend" /\ pc' = "dispatch" /\ pending' = {} /\ ~Ended /\ ~Ended'
      /\ UNCHANGED <<arrival_time, arrival_ptr, arrival_remaining, timeslice_remaining, it_value>>
      /\ UNCHANGED <<pq, current_process_id, previous_active_id, process_count, count_process>>
      /\ UNCHANGED <<state, remaining_time, inactive_heap, active_process>>
  BY DEF SigSuspend, input, ti, jobs, rr, sjf, Ended
<1>3. event_type' = "TIMER_EXPIRED" => signo = "SIGALRM"
  BY <1>1, <1>2 DEF signal_handler, LoopTypes
<1>4. LoopTypes'
  BY <1>1, <1>2 DEF LoopTypes, signal_handler, EventType
<1>5. /\ (R!SlotsOK /\ R!IndexSafe)' <=> R!SlotsOK /\ R!IndexSafe
      /\ S!HeapSound' <=> S!HeapSound
      /\ JobCount' = JobCount
      /\ S!OwedSwitch => S!OwedSwitch'
  BY <1>2, FramePolicy DEF Phase
<1>6. OneAlarm' /\ AlarmMeansArrival'
  BY <1>2, <1>3 DEF OneAlarm, AlarmMeansArrival, TimerDispatched
<1>7. BornInOrder' /\ Pool' = Pool
  BY <1>2 DEF BornInOrder, Pool
<1> QED
  BY <1>2, <1>4, <1>5, <1>6, <1>7 DEF NoOrphans, CleanExit, Ended

(* The end of a slice: RR only. *)
LEMMA TimesliceOverFault ==
  ASSUME FaultInv, TimesliceOver
  PROVE  FaultInv'
<1> USE NumProcessAssumption, PolicyAssumption DEF FaultInv
<1>1. /\ Strategy = "RR" /\ pc = "dispatch" /\ TimerDispatched /\ ~Ended
      /\ R!timeslice_over_RR
      /\ pc' \in {"switch", "killed"}
      /\ state' = IF pc' = "killed" THEN Killed(state) ELSE state
      /\ event_type' = "TIMESLICE_OVER"
      /\ UNCHANGED <<arrival_time, arrival_ptr, pending, process_count, count_process>>
      /\ arrival_remaining' \in Int /\ timeslice_remaining' \in Int /\ it_value' \in Nat
  BY DEF TimesliceOver, timeslice_over, EndsIf, input, Ended, TimerDispatched, T!timeslice_expired,
         T!settime, T!set_timer, R!timeslice_over_RR, LoopTypes
<1>2. LoopTypes'
  BY <1>1, KilledFacts DEF LoopTypes, EventType
<1>3. (R!SlotsOK /\ R!IndexSafe)'
  BY <1>1, SameRR, RP!AdvanceSafe
<1>4. OneAlarm' /\ AlarmMeansArrival'
  BY <1>1 DEF OneAlarm, AlarmMeansArrival, TimerDispatched
<1>5. ~Ended' => BornInOrder' /\ JobCount' = JobCount /\ Pool' = Pool
  BY <1>1 DEF BornInOrder, JobCount, Pool, Ended
<1>6. NoOrphans' /\ CleanExit'
  BY <1>1, KilledFacts DEF NoOrphans, CleanExit, Ended, LoopTypes
<1> QED
  BY <1>1, <1>2, <1>3, <1>4, <1>5, <1>6

(* add_process, called for the next job of the arrival queue: the policy    *)
(* counts it, or fork fails and the scheduler ends with all its children.   *)
LEMMA AddProcessFault ==
  ASSUME FaultInv, ~Ended, arrival_ptr < num_process,
         add_process(arrival_ptr), arrival_ptr' = arrival_ptr + 1, UNCHANGED remaining_time
  PROVE  /\ pc' \in {"arrival", "killed"}
         /\ state' \in [Child -> {"unborn", "new", "running", "zombie", "reaped", "killed"}]
         /\ Strategy = "RR" => (R!SlotsOK /\ R!IndexSafe)'
         /\ Strategy = "SJF" => S!HeapSound'
         /\ pc' = "arrival" => BornInOrder' /\ JobCount' = Cardinality(Pool')
         /\ NoOrphans' /\ CleanExit'
<1> USE NumProcessAssumption DEF FaultInv
<1>1. arrival_ptr \in Child /\ state[arrival_ptr] = "unborn" /\ arrival_ptr \notin Pool
  BY DEF Child, LoopTypes, BornInOrder, Pool
<1>2. Strategy = "RR" => ~add_process_fails
  BY DEF add_process_fails, R!add_process_RR_assert, R!IndexSafe, R!SlotsOK, R!Slots
<1>3. CASE ForkMayFail /\ scheduler_exit /\ UNCHANGED jobs
  <2>1. pc' = "killed" /\ state' = Killed(state)
    BY <1>3 DEF scheduler_exit
  <2>2. Strategy = "RR" => (R!SlotsOK /\ R!IndexSafe)'
    BY <1>3 DEF jobs, rr, R!SlotsOK, R!IndexSafe, R!Slots, R!Child
  <2>3. Strategy = "SJF" => S!HeapSound'
    <3> SUFFICES ASSUME Strategy = "SJF" PROVE S!HeapSound'
      OBVIOUS
    <3>1. S!HeapTypes' /\ S!SlotsOK' /\ S!Room' /\ S!HeapSafe'
      <4>1. inactive_heap' = inactive_heap /\ active_process' = active_process
        BY <1>3 DEF jobs, sjf
      <4>2. S!HeapTypes' /\ S!SlotsOK'
        BY <4>1 DEF S!HeapSound, S!HeapTypes, S!SlotsOK
      <4>3. S!HeapSafe'
        BY <4>1 DEF S!HeapSound, S!HeapTypes, S!HeapSafe
      <4>4. S!Room'
        <5> DEFINE n == inactive_heap.heap_size + (IF active_process = S!NULL THEN 0 ELSE 1)
        <5>1. n \in Int /\ active_process \in Int /\ arrival_ptr \in Int
          BY DEF S!HeapSound, S!HeapTypes, S!Child, S!NULL
        <5>2. n <= arrival_ptr /\ active_process < arrival_ptr
          BY DEF S!HeapSound, S!Room
        <5> HIDE DEF n
        <5>3. n <= arrival_ptr + 1 /\ active_process < arrival_ptr + 1
          BY <5>1, <5>2
        <5> QED BY <4>1, <5>3 DEF S!Room, n
      <4> QED BY <4>2, <4>3, <4>4
    <3> QED BY <3>1 DEF S!HeapSound
  <2> QED
    BY <2>1, <2>2, <2>3, KilledFacts DEF NoOrphans, CleanExit, LoopTypes
<1>4. CASE /\ state' = [state EXCEPT ![arrival_ptr] = "new"]
           /\ pc' = IF add_process_fails THEN "aborted" ELSE "arrival"
           /\ \/ Strategy = "FIFO" /\ F!add_process_FIFO
              \/ Strategy = "RR" /\ R!add_process_RR(arrival_ptr)
              \/ Strategy = "SJF" /\ S!add_process_SJF(arrival_ptr)
  <2>1. pc' = "arrival"
    BY <1>2, <1>4 DEF add_process_fails
  <2>2. state' \in [Child -> {"unborn", "new", "running", "zombie", "reaped", "killed"}]
    BY <1>1, <1>4 DEF LoopTypes
  <2>3. Strategy = "RR" => (R!SlotsOK /\ R!IndexSafe)'
    BY <1>4, SameRR, RP!InsertSafe
  <2>4. BornInOrder'
    BY <1>1, <1>4 DEF BornInOrder, LoopTypes, Child
  <2>5. Cardinality(Pool') = Cardinality(Pool) + 1
    BY <1>1, <1>4, PoolSteps DEF LoopTypes
  <2>h. ASSUME Strategy = "SJF"
        PROVE  /\ S!HeapSound' /\ inactive_heap'.heap_size = inactive_heap.heap_size + 1
               /\ active_process' = active_process /\ inactive_heap.heap_size \in Nat
    BY <1>4, <2>h, HeapAdds, HeapNumbers
  <2>6. JobCount' = JobCount + 1
    BY <1>4, <2>h DEF JobCount, F!add_process_FIFO, R!add_process_RR
  <2>7. NoOrphans' /\ CleanExit'
    BY <2>1 DEF NoOrphans, CleanExit, Ended
  <2> QED
    BY <2>1, <2>2, <2>3, <2>4, <2>5, <2>6, <2>7, <2>h
<1> QED
  BY <1>3, <1>4 DEF add_process

(* An alarm is taken for an arrival: there is a job to take. *)
LEMMA ProcessArrivalFault ==
  ASSUME FaultInv, ProcessArrival
  PROVE  FaultInv'
<1> USE NumProcessAssumption DEF FaultInv
<1>1. /\ pc = "dispatch" /\ TimerDispatched /\ ~Ended
      /\ add_process(arrival_ptr) /\ arrival_ptr' = arrival_ptr + 1
      /\ event_type' = "PROCESS_ARRIVAL"
      /\ UNCHANGED <<arrival_time, remaining_time, pending, it_value>>
  BY DEF ProcessArrival, T!arrival_expired, input, Ended, TimerDispatched
<1>2. arrival_ptr < num_process
  BY <1>1 DEF ProcessArrival, T!get_expire_reason, T!arrival_queue_empty, AlarmMeansArrival, LoopTypes
<1>3. arrival_remaining' \in Int /\ timeslice_remaining' \in Int /\ arrival_remaining' >= 0
  BY <1>1, <1>2 DEF ProcessArrival, T!arrival_expired, T!TwoTimers, T!arrival_queue_empty,
                    AlarmMeansArrival, LoopTypes
<1>4. LoopTypes'
  BY <1>1, <1>2, <1>3, AddProcessFault DEF LoopTypes, EventType
<1>5. OneAlarm' /\ AlarmMeansArrival'
  BY <1>1, <1>2, <1>3, AddProcessFault DEF OneAlarm, AlarmMeansArrival, TimerDispatched
<1>6. S!OwedSwitch' \/ Ended'
  BY <1>1, <1>2, AddProcessFault DEF S!OwedSwitch, Phase, Ended
<1> QED
  BY <1>1, <1>2, <1>4, <1>5, <1>6, AddProcessFault DEF Ended

(* Another job arrives at the same time. *)
LEMMA AnotherArrivalFault ==
  ASSUME FaultInv, AnotherArrival
  PROVE  FaultInv'
<1> USE NumProcessAssumption DEF FaultInv
<1>1. /\ pc = "arrival" /\ ~Ended
      /\ add_process(arrival_ptr) /\ arrival_ptr' = arrival_ptr + 1
      /\ UNCHANGED <<arrival_time, pending, it_value, arrival_remaining, timeslice_remaining, event_type>>
      /\ UNCHANGED remaining_time
  BY DEF AnotherArrival, T!get_arrived_process, input, Ended
<1>2. arrival_ptr < num_process
  BY DEF AnotherArrival, T!another_arrival, T!arrival_queue_empty, LoopTypes
<1>4. LoopTypes'
  BY <1>1, <1>2, AddProcessFault DEF LoopTypes, EventType
<1>5. OneAlarm' /\ AlarmMeansArrival'
  BY <1>1, <1>2, AddProcessFault DEF OneAlarm, AlarmMeansArrival, TimerDispatched, LoopTypes
<1>6. S!OwedSwitch' \/ Ended'
  BY <1>1, <1>2, AddProcessFault DEF S!OwedSwitch, Phase, Ended
<1> QED
  BY <1>1, <1>2, <1>4, <1>5, <1>6, AddProcessFault DEF Ended

(* The last arrival of this alarm has been handled: the timer is set, or    *)
(* refused because the input is not sorted.                                 *)
LEMMA ArrivalsDoneFault ==
  ASSUME FaultInv, ArrivalsDone
  PROVE  FaultInv'
<1> USE NumProcessAssumption DEF FaultInv
<1>1. /\ pc = "arrival" /\ ~Ended
      /\ UNCHANGED <<arrival_time, arrival_ptr, timeslice_remaining, pending, event_type>>
      /\ UNCHANGED <<pq, current_process_id, previous_active_id, process_count, count_process>>
      /\ UNCHANGED <<remaining_time, inactive_heap, active_process>>
      /\ arrival_remaining' = T!time_to_next
      /\ it_value = 0 /\ "SIGALRM" \notin pending /\ arrival_remaining >= 0
  BY DEF ArrivalsDone, T!arrivals_done, input, jobs, rr, sjf, Ended, OneAlarm, AlarmMeansArrival
<1>2. /\ T!time_to_next \in Int
      /\ arrival_ptr = num_process => T!time_to_next = 0
  <2>1. /\ 0 \in Child
        /\ arrival_ptr # num_process => arrival_ptr \in Child
        /\ arrival_ptr # num_process /\ arrival_ptr # 0 => arrival_ptr - 1 \in Child
    BY DEF Child, LoopTypes
  <2> QED
    BY <2>1 DEF T!time_to_next, T!arrival_queue_empty, T!timeunits_until_next_arrival, LoopTypes
<1> DEFINE v == T!set_timer(arrival_ptr, T!time_to_next, timeslice_remaining)
<1>3. v \in Int /\ (Strategy # "RR" => v = T!time_to_next)
  BY <1>2 DEF T!set_timer, LoopTypes
<1>4. /\ it_value' = IF v < 0 THEN it_value ELSE v
      /\ pc' = IF v < 0 THEN "killed" ELSE "switch"
      /\ state' = IF v < 0 THEN Killed(state) ELSE state
  BY <1>1 DEF ArrivalsDone, T!arrivals_done, T!settime, T!arrivals_done_fails, EndsIf, LoopTypes
<1> HIDE DEF v
<1>5. LoopTypes'
  BY <1>1, <1>2, <1>3, <1>4, KilledFacts DEF LoopTypes
<1>6. /\ (R!SlotsOK /\ R!IndexSafe)' <=> R!SlotsOK /\ R!IndexSafe
      /\ S!HeapSound' <=> S!HeapSound
      /\ JobCount' = JobCount
      /\ ~Ended' => S!OwedSwitch'
  <2>1. ~Ended' => Phase' # "running"
    BY <1>4 DEF Ended, Phase
  <2> QED BY <1>1, <2>1, FramePolicy DEF S!OwedSwitch
<1>7. ~Ended' => OneAlarm' /\ AlarmMeansArrival'
  <2> SUFFICES ASSUME ~(v < 0) PROVE OneAlarm' /\ AlarmMeansArrival'
    BY <1>4 DEF Ended
  <2> QED
    BY <1>1, <1>2, <1>3, <1>4 DEF OneAlarm, AlarmMeansArrival, TimerDispatched, LoopTypes
<1>8. ~Ended' => BornInOrder' /\ Pool' = Pool
  BY <1>1, <1>4 DEF BornInOrder, Pool, Ended
<1>9. NoOrphans' /\ CleanExit'
  BY <1>4, KilledFacts DEF NoOrphans, CleanExit, Ended, LoopTypes
<1> QED
  BY <1>1, <1>5, <1>6, <1>7, <1>8, <1>9

(* wait(NULL) reaps a child, and the policy forgets a job, not necessarily  *)
(* the same one.                                                            *)
LEMMA ChildTerminatedFault ==
  ASSUME FaultInv, ChildTerminated
  PROVE  FaultInv'
<1> USE NumProcessAssumption DEF FaultInv
<1>1. PICK p \in Child : state[p] = "zombie" /\ state' = [state EXCEPT ![p] = "reaped"]
  BY DEF ChildTerminated
<1>2. /\ pc = "dispatch" /\ pc' = "switch" /\ ~Ended /\ ~Ended'
      /\ event_type = "CHILD_TERMINATED"
      /\ UNCHANGED <<arrival_time, arrival_ptr, arrival_remaining, timeslice_remaining, it_value>>
      /\ UNCHANGED <<pending, event_type, remaining_time>>
      /\ remove_current_process
  BY DEF ChildTerminated, input, ti, Ended
<1>3. /\ Cardinality(Pool') = Cardinality(Pool) - 1
      /\ Cardinality(Pool) > 0
  BY <1>1, PoolSteps DEF LoopTypes, Pool
<1>h. ASSUME Strategy = "SJF"
      PROVE  /\ S!HeapSound' /\ inactive_heap' = inactive_heap /\ inactive_heap.heap_size \in Nat
             /\ active_process # NULL /\ active_process' = NULL
  <2>1. S!remove_current_process_SJF
    BY <1>2, <1>h DEF remove_current_process
  <2>2. S!HeapSound' /\ inactive_heap' = inactive_heap /\ active_process' = NULL
    BY <1>2, <1>h, <2>1, HeapRemoves
  <2>3. JobCount = inactive_heap.heap_size + (IF active_process = NULL THEN 0 ELSE 1) /\ JobCount > 0
    BY <1>2, <1>3, <1>h DEF JobCount
  <2>4. S!OwedSwitch /\ Phase = "running"
    BY <1>2, <1>h DEF Phase
  <2>5. /\ inactive_heap.heap_size \in Nat
        /\ S!heap_empty(inactive_heap) <=> inactive_heap.heap_size = 0
    BY <1>h, HeapNumbers
  <2>6. active_process # NULL
    BY <2>3, <2>4, <2>5 DEF S!OwedSwitch, S!NULL, NULL
  <2> QED BY <2>2, <2>5, <2>6
<1>4. JobCount' = JobCount - 1 /\ JobCount > 0
  <2>1. CASE Strategy = "SJF"
    BY <1>h, <2>1 DEF JobCount
  <2>2. CASE Strategy # "SJF"
    BY <1>2, <1>3, <2>2, PolicyAssumption
    DEF JobCount, remove_current_process, F!remove_current_process_FIFO, R!remove_current_process_RR
  <2> QED BY <2>1, <2>2
<1>5. Strategy = "RR" => (R!SlotsOK /\ R!IndexSafe)'
  <2> SUFFICES ASSUME Strategy = "RR" PROVE (R!SlotsOK /\ R!IndexSafe)'
    OBVIOUS
  <2>1. R!remove_current_process_RR /\ process_count > 0
    BY <1>2, <1>4 DEF remove_current_process, JobCount
  <2> QED
    BY <1>2, <2>1, SameRR, RP!RemoveSafe
<1>6. LoopTypes'
  BY <1>1, <1>2 DEF LoopTypes
<1>7. OneAlarm' /\ AlarmMeansArrival' /\ BornInOrder'
  BY <1>1, <1>2 DEF OneAlarm, AlarmMeansArrival, BornInOrder, TimerDispatched, LoopTypes
<1>8. S!OwedSwitch'
  BY <1>2 DEF S!OwedSwitch, Phase
<1> QED
  BY <1>2, <1>3, <1>4, <1>5, <1>h, <1>6, <1>7, <1>8 DEF NoOrphans, CleanExit, Ended

(* The end of a pass: back to sigsuspend, out of the loop, or killed.       *)
LEMMA EndOfPassFault ==
  ASSUME FaultInv, ContextSwitch \/ ContextSwitchFails \/ Leave
  PROVE  FaultInv'
<1> USE NumProcessAssumption DEF FaultInv
<1>1. /\ pc = "switch" /\ ~Ended
      /\ UNCHANGED <<arrival_time, arrival_ptr, arrival_remaining, timeslice_remaining, it_value>>
      /\ UNCHANGED <<pq, current_process_id, previous_active_id, process_count, count_process>>
      /\ UNCHANGED <<pending, event_type, remaining_time>>
      /\ \/ pc' = "sigsuspend" /\ state' = state
         \/ pc' = "killed" /\ state' = Killed(state)
         \/ pc' = "exit" /\ state' = state /\ Finished
  BY DEF ContextSwitch, ContextSwitchFails, Leave, input, ti, jobs, rr, Ended, scheduler_exit, context_switch
<1>2. LoopTypes'
  BY <1>1, KilledFacts DEF LoopTypes
<1>3. Strategy = "RR" => (R!SlotsOK /\ R!IndexSafe)'
  BY <1>1 DEF R!SlotsOK, R!IndexSafe, R!Slots, R!Child
<1>h. ASSUME Strategy = "SJF"
      PROVE  S!HeapSound' /\ JobCount' = JobCount /\ (~Ended' => S!OwedSwitch')
  <2>1. CASE ContextSwitchFails \/ Leave
    <3>1. UNCHANGED <<inactive_heap, active_process>> /\ Ended'
      BY <2>1 DEF ContextSwitchFails, Leave, scheduler_exit, jobs, sjf, Ended
    <3> QED BY <1>1, <1>h, <3>1, FramePolicy
  <2>2. CASE ContextSwitch
    <3>1. S!context_switch_SJF /\ ~S!context_switch_SJF_stale
      BY <1>h, <2>2 DEF ContextSwitch, context_switch, context_switch_fails
    <3>2. /\ S!HeapSound' /\ active_process' # NULL
          /\ active_process # NULL => UNCHANGED <<inactive_heap, active_process>>
          /\ active_process = NULL => inactive_heap'.heap_size = inactive_heap.heap_size - 1
      BY <1>1, <1>h, <3>1, HeapSwitches
    <3>3. inactive_heap.heap_size \in Nat
      BY <1>h, HeapNumbers
    <3>4. JobCount' = JobCount
      BY <1>h, <3>2, <3>3 DEF JobCount
    <3>5. S!OwedSwitch'
      BY <3>2 DEF S!OwedSwitch, S!NULL, NULL
    <3> QED BY <3>2, <3>4, <3>5
  <2> QED BY <2>1, <2>2
<1>4. OneAlarm' /\ AlarmMeansArrival'
  BY <1>1 DEF OneAlarm, AlarmMeansArrival, TimerDispatched
<1>5. ~Ended' => BornInOrder' /\ JobCount' = JobCount /\ Pool' = Pool
  BY <1>1, <1>h, PolicyAssumption DEF BornInOrder, JobCount, Pool, Ended
<1>6. Finished => state = [p \in Child |-> "reaped"] /\ Live = {}
  <2> SUFFICES ASSUME Finished PROVE state = [p \in Child |-> "reaped"] /\ Live = {}
    OBVIOUS
  <2>0. T!arrival_queue_empty /\ scheduler_empty
    BY DEF Finished
  <2>1. arrival_ptr = num_process /\ JobCount = 0
    <3>1. CASE Strategy = "FIFO"
      BY <2>0, <3>1 DEF T!arrival_queue_empty, scheduler_empty, F!scheduler_empty_FIFO, JobCount
    <3>2. CASE Strategy = "RR"
      BY <2>0, <3>2 DEF T!arrival_queue_empty, scheduler_empty, R!scheduler_empty_RR, JobCount
    <3>3. CASE Strategy = "SJF"
      <4>1. S!scheduler_empty_SJF
        BY <2>0, <3>3 DEF scheduler_empty
      <4> QED
        BY <2>0, <3>3, <4>1
        DEF T!arrival_queue_empty, S!scheduler_empty_SJF, S!heap_empty, S!NULL, NULL, JobCount
    <3> QED BY <3>1, <3>2, <3>3, PolicyAssumption
  <2>2. Pool = {}
    BY <1>1, <2>1, PoolFinite
  <2>3. \A p \in Child : state[p] = "reaped"
    BY <1>1, <2>1, <2>2 DEF LoopTypes, BornInOrder, Pool, Child
  <2> QED
    BY <2>3 DEF LoopTypes, Live
<1>7. NoOrphans' /\ CleanExit'
  BY <1>1, <1>6, KilledFacts DEF NoOrphans, CleanExit, Ended, LoopTypes, Live
<1> QED
  BY <1>1, <1>2, <1>3, <1>h, <1>4, <1>5, <1>7

(* The timer and the children do not touch what the scheduler keeps.        *)
LEMMA OutsideFault ==
  ASSUME FaultInv,
         TimerExpires \/ \E p \in Child : ChildStart(p) \/ ChildExit(p)
  PROVE  FaultInv'
<1> USE NumProcessAssumption DEF FaultInv
<1>1. /\ ~Ended /\ pc' = pc
      /\ UNCHANGED <<arrival_time, arrival_ptr, arrival_remaining, timeslice_remaining>>
      /\ UNCHANGED <<pq, current_process_id, previous_active_id, process_count, count_process>>
      /\ UNCHANGED <<remaining_time, inactive_heap, active_process>>
      /\ event_type' = event_type
      /\ pending' \subseteq {"SIGALRM", "SIGCHLD"}
      /\ "SIGALRM" \in pending' /\ "SIGALRM" \notin pending => it_value > 0 /\ it_value' = 0
      /\ it_value' \in {it_value, 0}
  <2>1. pending \subseteq {"SIGALRM", "SIGCHLD"}
    BY DEF LoopTypes
  <2>2. CASE TimerExpires
    BY <2>1, <2>2 DEF TimerExpires, raise, block_some_signals, input, jobs, rr, sjf
  <2>3. ASSUME NEW p \in Child, ChildStart(p)
        PROVE  ~Ended /\ UNCHANGED <<pc, input, ti, jobs, pending, event_type>>
    BY <2>3 DEF ChildStart, Runs
  <2>4. ASSUME NEW p \in Child, ChildExit(p)
        PROVE  ~Ended /\ UNCHANGED <<pc, input, ti, jobs, event_type>> /\ pending' = pending \cup {"SIGCHLD"}
    BY <2>4 DEF ChildExit, Runs, raise, block_some_signals
  <2>5. CASE \E p \in Child : ChildStart(p)
    BY <2>1, <2>3, <2>5 DEF input, ti, jobs, rr, sjf
  <2>6. CASE \E p \in Child : ChildExit(p)
    <3>1. ~Ended /\ UNCHANGED <<pc, input, ti, jobs, event_type>> /\ pending' = pending \cup {"SIGCHLD"}
      BY <2>4, <2>6, Zenon
    <3>2. pending' \subseteq {"SIGALRM", "SIGCHLD"} /\ ("SIGALRM" \in pending' => "SIGALRM" \in pending)
      BY <2>1, <3>1
    <3> QED BY <3>1, <3>2, Zenon DEF input, ti, jobs, rr, sjf
  <2>7. TimerExpires \/ (\E p \in Child : ChildStart(p)) \/ (\E p \in Child : ChildExit(p))
    OBVIOUS
  <2> QED BY <2>2, <2>5, <2>6, <2>7
<1>2. \/ state' = state
      \/ \E p \in Child : /\ state[p] \in {"new", "running"}
                          /\ \/ state' = [state EXCEPT ![p] = "running"]
                             \/ state' = [state EXCEPT ![p] = "zombie"]
  BY DEF TimerExpires, ChildStart, ChildExit
<1>3. LoopTypes'
  BY <1>1, <1>2 DEF LoopTypes
<1>4. /\ (R!SlotsOK /\ R!IndexSafe)' <=> R!SlotsOK /\ R!IndexSafe
      /\ S!HeapSound' <=> S!HeapSound
      /\ JobCount' = JobCount
      /\ S!OwedSwitch => S!OwedSwitch'
  BY <1>1, FramePolicy DEF Phase
<1>5. OneAlarm' /\ AlarmMeansArrival'
  BY <1>1 DEF OneAlarm, AlarmMeansArrival, TimerDispatched, LoopTypes
<1>6. BornInOrder'
  BY <1>1, <1>2 DEF BornInOrder, LoopTypes
<1>7. Pool' = Pool
  <2>1. CASE state' = state
    BY <2>1 DEF Pool
  <2>2. CASE state' # state
    BY <2>2, <1>2, PoolSteps DEF LoopTypes, Pool
  <2> QED BY <2>1, <2>2
<1>8. ~Ended'
  BY <1>1 DEF Ended
<1> QED
  BY <1>1, <1>3, <1>4, <1>5, <1>6, <1>7, <1>8 DEF NoOrphans, CleanExit, Ended

(* Every step preserves the invariant. *)
LEMMA FaultNext ==
  ASSUME FaultInv, [Next]_vars
  PROVE  FaultInv'
<1>1. CASE UNCHANGED vars
  <2>1. /\ UNCHANGED <<arrival_time, arrival_ptr, arrival_remaining, timeslice_remaining, it_value>>
        /\ UNCHANGED <<pq, current_process_id, previous_active_id, process_count, count_process>>
        /\ UNCHANGED <<remaining_time, inactive_heap, active_process>>
        /\ UNCHANGED <<state, pending, event_type, pc>>
    BY <1>1 DEF vars, input, ti, jobs, rr, sjf
  <2>2. /\ (R!SlotsOK /\ R!IndexSafe)' <=> R!SlotsOK /\ R!IndexSafe
        /\ S!HeapSound' <=> S!HeapSound
        /\ JobCount' = JobCount
        /\ S!OwedSwitch => S!OwedSwitch'
    BY <2>1, FramePolicy DEF Phase
  <2> QED
    BY <2>1, <2>2
    DEF FaultInv, LoopTypes, OneAlarm, AlarmMeansArrival, BornInOrder, TimerDispatched,
        Pool, Ended, NoOrphans, CleanExit, Live
<1> QED
  BY <1>1, SigSuspendFault, TimesliceOverFault, ProcessArrivalFault, AnotherArrivalFault,
     ArrivalsDoneFault, ChildTerminatedFault, EndOfPassFault, OutsideFault DEF Next, Loop

-----------------------------------------------------------------------------
(* Under every policy the program keeps FaultInv, for every number of CPUs, *)
(* every input, whatever signals collide and whatever forks fail.           *)
THEOREM Robust ==
  Spec => []FaultInv
<1>1. Init => FaultInv
  BY FaultInit
<1>2. FaultInv /\ [Next]_vars => FaultInv'
  BY FaultNext
<1> QED
  BY <1>1, <1>2, PTL DEF Spec

(* However the scheduler ends, by leaving its loop or through               *)
(* scheduler_exit (main.c:635), none of its children survives it.           *)
THEOREM NoChildSurvives ==
  Spec => []NoOrphans
<1>1. FaultInv => NoOrphans
  BY DEF FaultInv
<1> QED
  BY <1>1, Robust, PTL

(* The loop of main.c is left (main.c:366) only when every job of the input *)
(* has arrived, ended and been reaped, lost events or not.                  *)
THEOREM LeavesClean ==
  Spec => []CleanExit
<1>1. FaultInv => CleanExit
  BY DEF FaultInv
<1> QED
  BY <1>1, Robust, PTL

(* No index of RR.c leaves the jobs of its array although RR.c may take     *)
(* another job for the one that ended (RR.c:42-53, main.c:362).             *)
THEOREM RRStaysInside ==
  ASSUME Strategy = "RR"
  PROVE  Spec => []RRIndexSafe
<1>1. FaultInv => RRIndexSafe
  BY DEF FaultInv, RRIndexSafe
<1>2. Spec => []FaultInv
  BY Robust
<1> QED
  BY <1>1, <1>2, PTL

(* The array of heap.c stays a heap of different jobs that have arrived,    *)
(* the active one not among them (heap.c:36-77), although SJF.c may take    *)
(* another job for the one that ended (SJF.c:17-20, main.c:362).            *)
THEOREM SJFHeapStaysSafe ==
  ASSUME Strategy = "SJF"
  PROVE  Spec => []S!HeapSafe
<1>1. FaultInv => S!HeapSafe
  BY DEF FaultInv, S!HeapSound
<1>2. Spec => []FaultInv
  BY Robust
<1> QED
  BY <1>1, <1>2, PTL

-----------------------------------------------------------------------------
(* The run list.  The operators of module SchedFifo are the same whether    *)
(* they are named in RR, in FIFO, in SJF or here.                           *)
LEMMA SameKernel ==
  /\ \A s, p : R!suspend_process(s, p) = suspend_process(s, p)
  /\ \A s, p : R!resume_process(s, p) = resume_process(s, p)
  /\ \A s, p : F!resume_process(s, p) = resume_process(s, p)
  /\ \A s, p : S!resume_process(s, p) = resume_process(s, p)
BY DEF S!resume_process, S!set_priority, S!Queued, S!Without, S!PRIO_MAX, S!PRIO_RUN,
       R!suspend_process, R!resume_process, R!set_priority, R!Queued, R!Without, R!PRIO_MIN, R!PRIO_MAX,
       R!PRIO_RUN, F!resume_process, F!set_priority, F!Queued, F!Without, F!PRIO_MIN, F!PRIO_MAX, F!PRIO_RUN,
       suspend_process, resume_process, set_priority, Queued, Without, PRIO_MIN, PRIO_MAX, PRIO_RUN

(* What a step may do to the run list and to the living children.           *)
KilledStep == sched' = [sched EXCEPT !.rq = <<>>] /\ Live' = {}

AddStep(p) ==
  /\ p = arrival_ptr
  /\ p \notin Live /\ Live' = Live \cup {p}
  /\ \A q \in Live : q < p
  /\ LET s == suspend_process(fork(sched, p), p)
     IN  \/ Strategy = "FIFO" /\ sched' = F!add_process_FIFO_sched(s, p)
         \/ Strategy \in {"RR", "SJF"} /\ sched' = s

SwitchStep ==
  /\ \/ Strategy = "RR" /\ sched' = R!context_switch_RR(sched)
     \/ Strategy = "SJF" /\ \E p \in Child : sched' = resume_process(sched, p)
  /\ Live' = Live

StartStep(p) ==
  /\ p \in Live /\ Live' = Live
  /\ sched' = set_priority(sched, p, PRIO_RUN)

ExitStep(p) == sched' = exit(sched, p) /\ Live' = Live \ {p}

(* add_process either adds the next job or ends everything.                 *)
LEMMA AddIsAddStep ==
  ASSUME FaultInv, ~Ended, arrival_ptr < num_process,
         add_process(arrival_ptr)
  PROVE  arrival_ptr \in Child /\ (KilledStep \/ AddStep(arrival_ptr))
<1>1. arrival_ptr \in Child /\ arrival_ptr \notin Live /\ \A q \in Live : q < arrival_ptr
  BY NumProcessAssumption DEF FaultInv, LoopTypes, BornInOrder, Child, Live
<1>2. CASE ForkMayFail /\ scheduler_exit /\ UNCHANGED jobs
  BY <1>1, <1>2, KilledFacts DEF scheduler_exit, KilledStep, FaultInv, LoopTypes
<1> DEFINE s == suspend_process(fork(sched, arrival_ptr), arrival_ptr)
<1>3. CASE /\ state' = [state EXCEPT ![arrival_ptr] = "new"]
           /\ \/ Strategy = "FIFO" /\ sched' = F!add_process_FIFO_sched(s, arrival_ptr)
              \/ Strategy \in {"RR", "SJF"} /\ sched' = s
  <2>1. Live' = Live \cup {arrival_ptr}
    BY <1>1, <1>3 DEF Live, FaultInv, LoopTypes
  <2> QED BY <1>1, <1>3, <2>1 DEF AddStep
<1> QED BY <1>2, <1>3 DEF add_process

(* What a step of the program does to the kernel's list: nothing, the death *)
(* of all, a context switch, or the arrival, start or exit of a child.      *)
LEMMA KernelStep ==
  ASSUME FaultInv, [Next]_vars
  PROVE  \/ sched' = sched /\ Live' = Live
         \/ KilledStep
         \/ SwitchStep
         \/ \E p \in Child : AddStep(p) \/ StartStep(p) \/ ExitStep(p)
<1>1. CASE UNCHANGED vars
  BY <1>1 DEF vars, Live
<1>2. CASE SigSuspend \/ TimerExpires \/ Leave
  BY <1>2 DEF SigSuspend, TimerExpires, Leave, Live
<1>3. CASE TimesliceOver \/ ArrivalsDone
  BY <1>3, KilledFacts DEF TimesliceOver, ArrivalsDone, EndsIf, Live, KilledStep, FaultInv, LoopTypes
<1>4. CASE ProcessArrival \/ AnotherArrival
  <2>1. ~Ended /\ arrival_ptr < num_process
    BY <1>4, NumProcessAssumption
    DEF ProcessArrival, AnotherArrival, T!get_expire_reason, T!another_arrival, T!arrival_queue_empty,
        AlarmMeansArrival, TimerDispatched, FaultInv, LoopTypes, Ended
  <2> QED
    BY <1>4, <2>1, AddIsAddStep DEF ProcessArrival, AnotherArrival
<1>5. CASE ChildTerminated
  BY <1>5 DEF ChildTerminated, Live, FaultInv, LoopTypes
<1>6. CASE ContextSwitch
  <2>1. Live' = Live
    BY <1>6 DEF ContextSwitch, Live
  <2>2. CASE Strategy # "SJF"
    BY <1>6, <2>1, <2>2 DEF ContextSwitch, context_switch, SwitchStep
  <2>3. CASE Strategy = "SJF"
    <3>1. /\ S!HeapSound /\ ~S!context_switch_SJF_stale /\ S!context_switch_SJF
          /\ UNCHANGED <<remaining_time, arrival_ptr>>
      BY <1>6, <2>3 DEF FaultInv, ContextSwitch, context_switch, context_switch_fails, input, ti
    <3>2. CASE active_process # NULL
      BY <2>1, <3>1, <3>2, HeapSwitches
    <3>3. CASE active_process = NULL
      <4>1. active_process' \in Child /\ active_process' = S!heap_top(inactive_heap)
        BY <3>1, <3>3, HeapSwitches
      <4>2. sched' = resume_process(sched, active_process')
        BY <3>1, <3>3, <4>1, SameKernel DEF S!context_switch_SJF, S!NULL, NULL
      <4> QED BY <2>1, <2>3, <4>1, <4>2 DEF SwitchStep
    <3> QED BY <3>2, <3>3
  <2> QED BY <2>2, <2>3
<1>7. CASE ContextSwitchFails
  BY <1>7, KilledFacts DEF ContextSwitchFails, scheduler_exit, KilledStep, FaultInv, LoopTypes
<1>8. ASSUME NEW p \in Child, ChildStart(p) PROVE StartStep(p)
  BY <1>8 DEF ChildStart, StartStep, Live, FaultInv, LoopTypes
<1>9. ASSUME NEW p \in Child, ChildExit(p) PROVE ExitStep(p)
  BY <1>9 DEF ChildExit, ExitStep, Live, FaultInv, LoopTypes
<1> QED
  BY <1>1, <1>2, <1>3, <1>4, <1>5, <1>6, <1>7, <1>8, <1>9 DEF Next, Loop

(* A context switch changes priorities, of children the policy holds.       *)
LEMMA SwitchList ==
  ASSUME FaultInv, RunListOK, SwitchStep
  PROVE  RunListOK'
<1>h. CASE Strategy = "SJF"
  <2>1. PICK p \in Child : sched' = resume_process(sched, p)
    BY <1>h DEF SwitchStep
  <2>2. sched' \in Kernel /\ Distinct(sched'.rq) /\ Queued(sched') = Queued(sched)
    BY <2>1, SetPriorityFacts DEF RunListOK, resume_process
  <2> QED
    BY <2>2 DEF RunListOK, SwitchStep, Queued
<1> SUFFICES ASSUME Strategy = "RR" PROVE RunListOK'
  BY <1>h DEF SwitchStep
<1> DEFINE s1 == IF previous_active_id >= 0
                 THEN suspend_process(sched, pq[previous_active_id]) ELSE sched
<1>1. /\ previous_active_id >= 0 => pq[previous_active_id] \in Child
      /\ current_process_id >= 0 => pq[current_process_id] \in Child
  BY NumProcessAssumption DEF FaultInv, R!SlotsOK, R!IndexSafe, R!Slots, R!Child, Child
<1>2. sched' = IF current_process_id >= 0 THEN resume_process(s1, pq[current_process_id]) ELSE s1
  BY SameKernel DEF SwitchStep, R!context_switch_RR
<1>3. s1 \in Kernel /\ Distinct(s1.rq) /\ Queued(s1) = Queued(sched)
  BY <1>1, SetPriorityFacts DEF RunListOK, suspend_process
<1> HIDE DEF s1
<1>4. sched' \in Kernel /\ Distinct(sched'.rq) /\ Queued(sched') = Queued(s1)
  BY <1>1, <1>2, <1>3, SetPriorityFacts DEF resume_process
<1> QED
  BY <1>3, <1>4 DEF RunListOK, SwitchStep, Queued

(* add_process puts the child into the list.                                *)
LEMMA AddList ==
  ASSUME RunListOK, NEW p \in Child, AddStep(p)
  PROVE  /\ RunListOK'
         /\ Strategy = "FIFO" => /\ sched'.rq = Append(sched.rq, p)
                                 /\ sched'.prio = [sched.prio EXCEPT ![p] = PRIO_RUN]
         /\ Strategy # "FIFO" => sched'.prio = [sched.prio EXCEPT ![p] = PRIO_MIN]
<1>1. /\ sched.prio \in [Child -> PRIO_MIN .. PRIO_MAX] /\ sched.rq \in Seq(Child)
      /\ Distinct(sched.rq) /\ p \notin Queued(sched) /\ Queued(sched) = Elements(sched.rq)
  BY DEF RunListOK, AddStep, Kernel, Queued, Elements
<1>2. Strategy = "FIFO" =>
        sched' = [prio |-> [sched.prio EXCEPT ![p] = PRIO_RUN], rq |-> Append(sched.rq, p)]
  BY <1>1, SameKernel, ForkResume DEF AddStep, F!add_process_FIFO_sched, RunListOK
<1>3. Strategy # "FIFO" =>
        sched' = [prio |-> [sched.prio EXCEPT ![p] = PRIO_MIN], rq |-> <<p>> \o sched.rq]
  BY <1>1, ForkSuspend DEF AddStep, RunListOK
<1>4. sched' \in Kernel /\ Distinct(sched'.rq) /\ Queued(sched') = Queued(sched) \cup {p}
  <2>1. PRIO_MIN \in {PRIO_MIN, PRIO_RUN, PRIO_MAX} /\ PRIO_RUN \in {PRIO_MIN, PRIO_RUN, PRIO_MAX}
    OBVIOUS
  <2> QED BY <1>1, <1>2, <1>3, <2>1, EnterKernel DEF RunListOK
<1>5. RunListOK'
  BY <1>4 DEF RunListOK, AddStep, Queued
<1> QED
  BY <1>2, <1>3, <1>5

(* Each of these keeps the list free of duplicates and equal to the set of  *)
(* the living children.                                                     *)
LEMMA RunListNext ==
  ASSUME FaultInv, RunListOK, [Next]_vars
  PROVE  RunListOK'
<1>1. CASE sched' = sched /\ Live' = Live
  BY <1>1 DEF RunListOK
<1>2. CASE KilledStep
  <2>1. sched' \in Kernel /\ Distinct(sched'.rq) /\ Queued(sched') = {}
    BY <1>2, EmptyKernel DEF KilledStep, RunListOK
  <2> QED BY <1>2, <2>1 DEF KilledStep, RunListOK, Queued
<1>3. CASE SwitchStep
  BY <1>3, SwitchList
<1>4. ASSUME NEW p \in Child, AddStep(p) PROVE RunListOK'
  BY <1>4, AddList
<1>5. ASSUME NEW p \in Child, StartStep(p) PROVE RunListOK'
  <2>1. sched' \in Kernel /\ Distinct(sched'.rq) /\ Queued(sched') = Queued(sched)
    BY <1>5, SetPriorityFacts DEF RunListOK, StartStep
  <2> QED BY <1>5, <2>1 DEF RunListOK, StartStep, Queued
<1>6. ASSUME NEW p \in Child, ExitStep(p) PROVE RunListOK'
  <2>1. sched' \in Kernel /\ Distinct(sched'.rq) /\ Queued(sched') = Queued(sched) \ {p}
    BY <1>6, ExitFacts DEF RunListOK, ExitStep
  <2> QED BY <1>6, <2>1 DEF RunListOK, ExitStep, Queued
<1> QED
  BY <1>1, <1>2, <1>3, <1>4, <1>5, <1>6, KernelStep

(* Under every policy, whatever goes wrong, the kernel's list and the       *)
(* states of the children fit together.                                     *)
THEOREM KernelInvariance ==
  Spec => [](FaultInv /\ RunListOK)
<1>1. Init => RunListOK
  <2> SUFFICES ASSUME Init PROVE RunListOK
    OBVIOUS
  <2>1. sched = [prio |-> [p \in Child |-> PRIO_MIN], rq |-> <<>>] /\ Live = {}
    BY DEF Init, NoChildren, Live
  <2>2. sched \in Kernel
    BY <2>1 DEF Kernel, PRIO_MIN, PRIO_MAX
  <2> QED
    BY <2>1, <2>2 DEF RunListOK, Distinct, Queued
<1>2. FaultInv /\ RunListOK /\ [Next]_vars => RunListOK'
  BY RunListNext
<1> QED
  BY <1>1, <1>2, Robust, PTL DEF Spec

(* Every variable of the loop and of the children keeps its type.           *)
THEOREM TypeCorrect ==
  Spec => []TypeOK
<1>1. FaultInv /\ RunListOK => TypeOK
  BY DEF FaultInv, LoopTypes, RunListOK, TypeOK, Kernel, Live
<1> QED
  BY <1>1, KernelInvariance, PTL

-----------------------------------------------------------------------------
(* FIFO: the kernel's list as the queue of the jobs. *)
LEMMA FifoNext ==
  ASSUME Strategy = "FIFO", FaultInv, RunListOK, FifoList, [Next]_vars
  PROVE  FifoList'
<1>1. CASE sched' = sched /\ Live' = Live
  BY <1>1 DEF FifoList
<1>2. CASE KilledStep
  <2>1. Increasing(sched'.rq)
    BY <1>2, EmptyKernel DEF KilledStep, RunListOK
  <2> QED BY <1>2, <2>1 DEF KilledStep, FifoList
<1>3. ASSUME NEW p \in Child, AddStep(p) PROVE FifoList'
  <2>1. sched'.rq = Append(sched.rq, p) /\ sched'.prio = [sched.prio EXCEPT ![p] = PRIO_RUN]
    BY <1>3, AddList
  <2>2. sched.rq \in Seq(Child) /\ sched.prio \in [Child -> PRIO_MIN .. PRIO_MAX]
    BY DEF RunListOK, Kernel
  <2>3. \A x \in Elements(sched.rq) : x < p
    BY <1>3 DEF AddStep, RunListOK, Queued, Elements
  <2>4. p \notin Elements(sched.rq)
    BY <1>3 DEF AddStep, RunListOK, Queued, Elements
  <2>5. Increasing(Append(sched.rq, p))
    BY <2>2, <2>3, <2>4, EnterFacts, Zenon DEF RunListOK, FifoList
  <2>6. \A q \in Live' : sched'.prio[q] = PRIO_RUN
    <3>1. Live \subseteq Child
      BY DEF Live
    <3> QED BY <1>3, <2>1, <2>2, <3>1 DEF AddStep, FifoList
  <2> QED BY <2>1, <2>5, <2>6 DEF FifoList
<1>4. ASSUME NEW p \in Child, StartStep(p) PROVE FifoList'
  <2>1. sched' = sched
    BY <1>4, SamePriority DEF StartStep, RunListOK, FifoList
  <2> QED BY <1>4, <2>1 DEF StartStep, FifoList
<1>5. ASSUME NEW p \in Child, ExitStep(p) PROVE FifoList'
  <2>1. sched'.prio = sched.prio /\ Increasing(sched'.rq)
    BY <1>5, ExitFacts DEF RunListOK, ExitStep, FifoList
  <2> QED BY <1>5, <2>1 DEF ExitStep, FifoList
<1> QED
  BY <1>1, <1>2, <1>3, <1>4, <1>5, KernelStep DEF SwitchStep

(* The oldest job that has not ended has the CPU.                           *)
LEMMA FifoHead ==
  ASSUME RunListOK, FifoList
  PROVE  /\ OnCPU(sched) = {p \in Live : \A q \in Live : p <= q}
         /\ Live # {} => OnCPU(sched) # {}
<1>1. sched.rq \in Seq(Child) /\ sched \in Kernel /\ \A p \in Queued(sched) : sched.prio[p] = PRIO_RUN
  BY DEF RunListOK, Kernel, FifoList
<1>2. PRIO_RUN \in Int
  BY DEF PRIO_RUN, PRIO_MAX
<1>3. OnCPU(sched) = IF sched.rq = <<>> THEN {} ELSE {sched.rq[1]}
  BY <1>1, <1>2, HeadRuns
<1>4. Live = {sched.rq[i] : i \in 1 .. Len(sched.rq)} /\ Len(sched.rq) \in Nat
  BY <1>1 DEF RunListOK, Queued
<1>5. Live \subseteq Int
  BY NumProcessAssumption DEF Live, Child
<1>6. CASE sched.rq = <<>>
  BY <1>3, <1>4, <1>6
<1>7. CASE sched.rq # <<>>
  <2>1. 1 \in 1 .. Len(sched.rq) /\ sched.rq[1] \in Live
    BY <1>1, <1>4, <1>7
  <2>2. \A i \in 1 .. Len(sched.rq) : 1 < i => sched.rq[1] < sched.rq[i]
    BY <1>1, <2>1 DEF FifoList, Increasing
  <2>3. ASSUME NEW q \in Live PROVE sched.rq[1] <= q
    <3>1. PICK i \in 1 .. Len(sched.rq) : q = sched.rq[i]
      BY <1>4
    <3>2. sched.rq[1] \in Int /\ q \in Int
      BY <1>5, <2>1
    <3>3. CASE i = 1
      BY <3>1, <3>2, <3>3
    <3>4. CASE i # 1
      BY <3>1, <3>2, <3>4, <2>2, <1>4
    <3> QED BY <3>3, <3>4
  <2>4. {p \in Live : \A q \in Live : p <= q} = {sched.rq[1]}
    <3> DEFINE h == sched.rq[1]
    <3>1. h \in Live /\ \A q \in Live : h <= q
      BY <2>1, <2>3
    <3> HIDE DEF h
    <3>2. ASSUME NEW p \in Live, \A q \in Live : p <= q PROVE p = h
      <4>1. p <= h /\ h <= p /\ p \in Int /\ h \in Int
        BY <1>5, <3>1, <3>2
      <4> QED BY <4>1
    <3>3. {p \in Live : \A q \in Live : p <= q} = {h}
      BY <3>1, <3>2
    <3> QED BY <3>3 DEF h
  <2> QED BY <1>3, <1>7, <2>4
<1> QED BY <1>6, <1>7

(* The inductive invariant of FIFO holds of every run.                      *)
THEOREM FifoInvariance ==
  ASSUME Strategy = "FIFO"
  PROVE  Spec => [](FaultInv /\ RunListOK /\ FifoList)
<1>1. Init => FifoList
  <2> SUFFICES ASSUME Init PROVE FifoList
    OBVIOUS
  <2>1. sched.rq = <<>> /\ Live = {}
    BY DEF Init, NoChildren, Live
  <2> QED BY <2>1 DEF FifoList, Increasing
<1>2. FaultInv /\ RunListOK /\ FifoList /\ [Next]_vars => FifoList'
  BY FifoNext
<1>3. Spec => [](FaultInv /\ RunListOK)
  BY KernelInvariance
<1> QED
  BY <1>1, <1>2, <1>3, PTL DEF Spec

(* FIFO: whenever the scheduler sleeps the CPU is with the oldest job that  *)
(* has not ended, although FIFO.c keeps no queue and every job has the same *)
(* priority: lost events, failing forks and other CPUs do not change that.  *)
THEOREM FifoRunsOldest ==
  ASSUME Strategy = "FIFO"
  PROVE  Spec => []RightJobRuns
<1>1. RunListOK /\ FifoList => RightJobRuns
  BY FifoHead DEF RightJobRuns, Current
<1> QED
  BY <1>1, FifoInvariance, PTL

(* What a step may do to the lives of the children.                         *)
LEMMA LifeStep ==
  ASSUME FaultInv, [Next]_vars
  PROVE  \/ state' = state
         \/ state' = Killed(state)
         \/ \E p \in Child :
              \/ /\ state[p] = "unborn" /\ p = arrival_ptr
                 /\ state' = [state EXCEPT ![p] = "new"]
              \/ state[p] = "zombie" /\ state' = [state EXCEPT ![p] = "reaped"]
              \/ ChildStart(p)
              \/ ChildExit(p)
<1>1. CASE UNCHANGED vars
  BY <1>1 DEF vars
<1>2. CASE SigSuspend \/ TimerExpires \/ Leave \/ ContextSwitch
  BY <1>2 DEF SigSuspend, TimerExpires, Leave, ContextSwitch
<1>3. CASE TimesliceOver \/ ArrivalsDone
  BY <1>3 DEF TimesliceOver, ArrivalsDone, EndsIf
<1>4. CASE ProcessArrival \/ AnotherArrival
  <2>1. ~Ended /\ arrival_ptr < num_process
    BY <1>4, NumProcessAssumption
    DEF ProcessArrival, AnotherArrival, T!get_expire_reason, T!another_arrival, T!arrival_queue_empty,
        AlarmMeansArrival, TimerDispatched, FaultInv, LoopTypes, Ended
  <2>2. arrival_ptr \in Child /\ state[arrival_ptr] = "unborn"
    BY <2>1, NumProcessAssumption DEF FaultInv, LoopTypes, BornInOrder, Child
  <2>3. add_process(arrival_ptr)
    BY <1>4 DEF ProcessArrival, AnotherArrival
  <2> QED
    BY <2>2, <2>3 DEF add_process, scheduler_exit
<1>5. CASE ChildTerminated
  BY <1>5 DEF ChildTerminated
<1>6. CASE ContextSwitchFails
  BY <1>6 DEF ContextSwitchFails, scheduler_exit
<1> QED
  BY <1>1, <1>2, <1>3, <1>4, <1>5, <1>6 DEF Next, Loop

(* On one CPU a child runs only while the scheduler sleeps.                 *)
LEMMA OneCPU ==
  ASSUME CPUs = 1, RunListOK, NEW p \in Child, Runs(p)
  PROVE  /\ pc = "sigsuspend" /\ pending = {}
         /\ OnCPU(sched) # {} /\ p \in OnCPU(sched)
BY OnCPUFacts DEF RunListOK, Runs, OnCPU

(* FIFO: the step of a child does not overtake an older job.                *)
LEMMA OrderNext ==
  ASSUME Strategy = "FIFO", CPUs = 1, FaultInv, RunListOK, FifoList, InArrivalOrder, [Next]_vars
  PROVE  InArrivalOrder'
<1> USE DEF FaultInv, LoopTypes
<1>1. CASE state' = state
  BY <1>1 DEF InArrivalOrder
<1>2. CASE state' = Killed(state)
  BY <1>2 DEF InArrivalOrder, Killed
<1>3. ASSUME NEW r \in Child, state[r] = "unborn", state' = [state EXCEPT ![r] = "new"]
      PROVE  InArrivalOrder'
  BY <1>3 DEF InArrivalOrder
<1>4. ASSUME NEW r \in Child, state[r] = "zombie", state' = [state EXCEPT ![r] = "reaped"]
      PROVE  InArrivalOrder'
  BY <1>4 DEF InArrivalOrder
<1>5. ASSUME NEW r \in Child, ChildStart(r) PROVE InArrivalOrder'
  <2>1. r \in Live /\ \A q \in Live : r <= q
    BY <1>5, OneCPU, FifoHead DEF ChildStart
  <2>2. state' = [state EXCEPT ![r] = "running"] /\ state[r] = "new" /\ ~Ended
    BY <1>5 DEF ChildStart, Runs
  <2>3. ASSUME NEW p \in Child, p < r PROVE state[p] \in {"zombie", "reaped"}
    <3>1. p \in Int /\ r \in Int /\ arrival_ptr \in Int
      BY NumProcessAssumption DEF Child
    <3>2. p \notin Live
      BY <2>1, <2>3, <3>1
    <3>3. r < arrival_ptr /\ p < arrival_ptr
      BY <2>2, <2>3, <3>1 DEF BornInOrder
    <3>4. state[p] # "unborn" /\ state[p] # "killed"
      BY <2>2, <3>1, <3>3 DEF BornInOrder
    <3> QED BY <3>2, <3>4 DEF Live
  <2> QED BY <2>2, <2>3 DEF InArrivalOrder
<1>6. ASSUME NEW r \in Child, ChildExit(r) PROVE InArrivalOrder'
  BY <1>6 DEF ChildExit, InArrivalOrder
<1> QED
  BY <1>1, <1>2, <1>3, <1>4, <1>5, <1>6, LifeStep

(* FIFO on one CPU: no job starts before all the jobs that arrived earlier  *)
(* have ended (FIFO.c, which has no queue; the kernel's list is it).        *)
THEOREM FifoInOrder ==
  ASSUME Strategy = "FIFO", CPUs = 1
  PROVE  Spec => []InArrivalOrder
<1>1. Init => InArrivalOrder
  BY DEF Init, InArrivalOrder
<1>2. FaultInv /\ RunListOK /\ FifoList /\ InArrivalOrder /\ [Next]_vars => InArrivalOrder'
  BY OrderNext
<1>3. Spec => [](FaultInv /\ RunListOK /\ FifoList)
  BY FifoInvariance
<1> QED
  BY <1>1, <1>2, <1>3, PTL DEF Spec

(* FIFO on one CPU never preempts a job that has taken a step.              *)
THEOREM FifoNeverPreempts ==
  ASSUME Strategy = "FIFO", CPUs = 1
  PROVE  Spec => []NoPreemption
<1>1. ASSUME InArrivalOrder PROVE NoPreemption
  <2> SUFFICES ASSUME NEW p \in Child, NEW q \in Child, p < q
               PROVE  ~(state[p] = "running" /\ state[q] = "running")
    BY NumProcessAssumption DEF NoPreemption, Child
  <2> QED BY <1>1 DEF InArrivalOrder
<1>2. Spec => []InArrivalOrder
  BY FifoInOrder
<1> QED
  BY <1>1, <1>2, PTL

-----------------------------------------------------------------------------
(* The log of the kernel (module ProcessLog): exact and complete under      *)
(* every policy, on any number of CPUs, whatever is lost or fails.          *)

(* The seconds and the nanoseconds of the time of day, put together again.  *)
LEMMA SplitTime ==
  ASSUME NEW n \in Nat
  PROVE  /\ n \div BILLION \in Int /\ n % BILLION \in Int
         /\ (n \div BILLION) * BILLION + (n % BILLION) = n
<1> DEFINE b == BILLION
<1>1. b \in Nat \ {0}
  BY BillionAssumption
<1> HIDE DEF b
<1>2. n \div b \in Int /\ n % b \in Int
  BY <1>1, Z3
<1>3. b * (n \div b) + (n % b) = n
  BY <1>1, Z3
<1>4. b * (n \div b) = (n \div b) * b
  BY <1>1, <1>2, Z3
<1> QED
  BY <1>2, <1>3, <1>4 DEF b

(* The step that writes the line of a job. *)
LEMMA WritesLine ==
  ASSUME LogTypes, NEW p \in Child, _stop_process_unsafe(p)
  PROVE  \E line \in LogLine :
           /\ dmesg' = Append(dmesg, line)
           /\ line.pid = p
           /\ run_time(line) = now - Ns(start_time[p])
<1> DEFINE start == start_time[p]
           stop  == getnstimeofday
           line  == [pid |-> p, begin |-> <<start.tv_sec, start.tv_nsec>>,
                                end   |-> <<stop.tv_sec, stop.tv_nsec>>]
<1>1. /\ stop.tv_sec = now \div BILLION /\ stop.tv_nsec = now % BILLION
      /\ stop.tv_sec \in Int /\ stop.tv_nsec \in Int
  BY SplitTime DEF getnstimeofday, Timespec, LogTypes
<1>2. start.tv_sec \in Int /\ start.tv_nsec \in Int
  BY DEF LogTypes
<1> HIDE DEF start, stop
<1>3. line \in LogLine
  BY <1>1, <1>2 DEF LogLine
<1>4. TimeInfo(line.end) = now
  <2>1. TimeInfo(line.end) = stop.tv_sec * BILLION + stop.tv_nsec
    BY DEF TimeInfo
  <2>2. (now \div BILLION) * BILLION + (now % BILLION) = now
    BY SplitTime DEF LogTypes
  <2> QED BY <1>1, <2>1, <2>2
<1>5. TimeInfo(line.begin) = Ns(start)
  BY DEF TimeInfo, Ns
<1>6. run_time(line) = now - Ns(start)
  BY <1>4, <1>5 DEF run_time
<1>7. dmesg' = Append(dmesg, line)
  BY DEF _stop_process_unsafe, _print_process_info, start, stop
<1>8. line.pid = p
  OBVIOUS
<1> HIDE DEF line
<1> QED
  BY <1>3, <1>6, <1>7, <1>8 DEF start

(* What a step does to the log. *)
LEMMA LogStep ==
  ASSUME LogTypes, [LogNext]_<<vars, log>>
  PROVE  \/ UNCHANGED log
         \/ \E p \in Child : LoggedStart(p) /\ now' \in Nat /\ dmesg' = dmesg
                             /\ start_time' \in [Child -> [tv_sec : Int, tv_nsec : Int]]
         \/ \E p \in Child : LoggedEnd(p) /\ now' \in Nat /\ start_time' = start_time
<1> USE TickAssumption
<1>1. ASSUME NEW p \in Child, LoggedStart(p)
      PROVE  now' \in Nat /\ dmesg' = dmesg /\ start_time' \in [Child -> [tv_sec : Int, tv_nsec : Int]]
  <2>1. getnstimeofday \in [tv_sec : Int, tv_nsec : Int]
    BY SplitTime DEF getnstimeofday, Timespec, LogTypes
  <2> QED
    BY <1>1, <2>1 DEF LoggedStart, sys_log_process_start, proj1_start_process, _start_process_unsafe, LogTypes
<1>2. ASSUME NEW p \in Child, LoggedEnd(p) PROVE now' \in Nat /\ start_time' = start_time
  BY <1>2 DEF LoggedEnd, sys_log_process_end, proj1_stop_process, _stop_process_unsafe, LogTypes
<1> QED
  BY <1>1, <1>2 DEF LogNext, LoggedExit

(* The log has its type after every step. *)
LEMMA LogTypesNext ==
  ASSUME LogTypes, [LogNext]_<<vars, log>>
  PROVE  LogTypes'
<1>1. CASE UNCHANGED log
  BY <1>1 DEF log, LogTypes
<1>2. ASSUME NEW p \in Child, LoggedEnd(p) PROVE dmesg' \in Seq(LogLine)
  <2>1. PICK line \in LogLine : dmesg' = Append(dmesg, line)
    BY <1>2, WritesLine DEF LoggedEnd, sys_log_process_end, proj1_stop_process
  <2> QED BY <2>1 DEF LogTypes
<1> QED
  BY <1>1, <1>2, LogStep DEF LogTypes

(* What time_calc.py computes from a line is the time since the first step  *)
(* of that job (proj1.c:38-57, time_calc.py), for every policy.             *)
THEOREM RunTimesExact == LogSpec => TimeCalcExact
<1>1. LogInit => LogTypes
  BY DEF LogInit, LogTypes, Timespec
<1>2. LogTypes /\ [LogNext]_<<vars, log>> => LogTypes'
  BY LogTypesNext
<1>3. ASSUME LogTypes, NEW p \in Child, LoggedEnd(p)
      PROVE  run_time(dmesg'[Len(dmesg')]) = now - Ns(start_time[p])
  <2>1. PICK line \in LogLine : dmesg' = Append(dmesg, line) /\ run_time(line) = now - Ns(start_time[p])
    BY <1>3, WritesLine DEF LoggedEnd, sys_log_process_end, proj1_stop_process
  <2>2. dmesg'[Len(dmesg')] = line
    BY <1>3, <2>1 DEF LogTypes
  <2> QED BY <2>1, <2>2
<1>4. LogTypes => \A p \in Child : LoggedEnd(p) => run_time(dmesg'[Len(dmesg')]) = now - Ns(start_time[p])
  BY <1>3
<1> QED
  BY <1>1, <1>2, <1>4, PTL DEF LogSpec, TimeCalcExact

-----------------------------------------------------------------------------
(* The lives of the children go on as without the log. *)
LEMMA LogIsAStep == [LogNext]_<<vars, log>> => [Next]_vars
BY DEF LogNext, LoggedStart, LoggedEnd, LoggedExit, Next

(* The line of a job is appended; the others stay. *)
LEMMA AppendLine ==
  ASSUME dmesg \in Seq(LogLine), NEW line \in LogLine, dmesg' = Append(dmesg, line)
  PROVE  /\ \A p \in Child : Logged(p)' <=> Logged(p) \/ line.pid = p
         /\ /\ \A i, j \in DOMAIN dmesg : dmesg[i].pid = dmesg[j].pid => i = j
            /\ ~Logged(line.pid)
            => \A i, j \in DOMAIN dmesg' : dmesg'[i].pid = dmesg'[j].pid => i = j
<1> DEFINE n == Len(dmesg)
<1>1. /\ n \in Nat /\ DOMAIN dmesg = 1 .. n /\ DOMAIN dmesg' = 1 .. n + 1
      /\ \A i \in 1 .. n : dmesg'[i] = dmesg[i]
      /\ dmesg'[n + 1] = line
  OBVIOUS
<1> HIDE DEF n
<1>2. \A i \in 1 .. n + 1 : i \in 1 .. n \/ i = n + 1
  BY <1>1
<1>3. 1 .. n \subseteq 1 .. n + 1 /\ n + 1 \in 1 .. n + 1
  BY <1>1
<1>4. \A p \in Child : Logged(p)' <=> Logged(p) \/ line.pid = p
  BY <1>1, <1>2, <1>3 DEF Logged
<1>5. ASSUME \A i, j \in DOMAIN dmesg : dmesg[i].pid = dmesg[j].pid => i = j, ~Logged(line.pid),
             NEW i \in DOMAIN dmesg', NEW j \in DOMAIN dmesg', dmesg'[i].pid = dmesg'[j].pid
      PROVE  i = j
  <2>1. CASE i \in 1 .. n /\ j \in 1 .. n
    BY <1>1, <1>5, <2>1
  <2>2. CASE i = n + 1 /\ j \in 1 .. n
    BY <1>1, <1>5, <2>2 DEF Logged
  <2>3. CASE i \in 1 .. n /\ j = n + 1
    BY <1>1, <1>5, <2>3 DEF Logged
  <2> QED BY <1>1, <1>2, <2>1, <2>2, <2>3
<1> QED
  BY <1>4, <1>5

(* No other step is the exit of a child. *)
LEMMA NotAnExit ==
  ASSUME LoopTypes, NEW p \in Child, Loop \/ TimerExpires \/ ChildStart(p) \/ UNCHANGED vars
  PROVE  ~\E q \in Child : ChildExit(q)
<1>1. ASSUME NEW q \in Child, ChildExit(q)
      PROVE  /\ UNCHANGED <<pc, arrival_ptr, it_value>>
             /\ state[q] = "running" /\ state' = [state EXCEPT ![q] = "zombie"]
  BY <1>1 DEF ChildExit, ti
<1>2. Loop => pc' # pc \/ arrival_ptr' = arrival_ptr + 1
  BY DEF Loop, SigSuspend, TimesliceOver, ProcessArrival, AnotherArrival, ArrivalsDone, ChildTerminated,
         ContextSwitch, ContextSwitchFails, Leave, EndsIf, scheduler_exit,
         T!get_arrived_process, T!arrival_expired
<1>3. TimerExpires => it_value > 0 /\ it_value' = 0
  BY DEF TimerExpires
<1>4. UNCHANGED vars => state' = state
  BY DEF vars
<1>5. ChildStart(p) => state[p] = "new" /\ state' = [state EXCEPT ![p] = "running"]
  BY DEF ChildStart
<1> QED
  BY <1>1, <1>2, <1>3, <1>4, <1>5 DEF LoopTypes

(* One line of a job, written between its first unit and its exit. *)
LEMMA LogInvNext ==
  ASSUME FaultInv, LogInv, [LogNext]_<<vars, log>>
  PROVE  LogInv'
<1>0. /\ LogTypes /\ LogTypes'
      /\ state \in [Child -> {"unborn", "new", "running", "zombie", "reaped", "killed"}]
  BY LogTypesNext DEF LogInv, FaultInv, LoopTypes
<1>1. ASSUME NEW p \in Child, LoggedEnd(p) PROVE LogInv'
  <2>1. state' = state /\ state[p] = "running" /\ ~Logged(p)
    BY <1>1 DEF LoggedEnd, vars
  <2>2. PICK line \in LogLine : dmesg' = Append(dmesg, line) /\ line.pid = p
    BY <1>0, <1>1, WritesLine DEF LoggedEnd, sys_log_process_end, proj1_stop_process
  <2>3. /\ \A q \in Child : Logged(q)' <=> Logged(q) \/ q = p
        /\ \A i, j \in DOMAIN dmesg' : dmesg'[i].pid = dmesg'[j].pid => i = j
    BY <1>0, <2>1, <2>2, AppendLine DEF LogTypes, LogInv
  <2> QED BY <1>0, <2>1, <2>3 DEF LogInv
<1>2. CASE dmesg' = dmesg /\ ~\E p \in Child : ChildExit(p) /\ ~Logged(p)
  <2>1. \A p \in Child : Logged(p)' <=> Logged(p)
    BY <1>2 DEF Logged
  <2>2. \A p \in Child :
          \/ state'[p] = state[p]
          \/ state[p] \in {"new", "running"} /\ state'[p] = "killed"
          \/ state[p] = "unborn" /\ state'[p] = "new"
          \/ state[p] = "zombie" /\ state'[p] = "reaped"
          \/ state[p] = "new" /\ state'[p] = "running"
          \/ state[p] = "running" /\ state'[p] = "zombie" /\ Logged(p)
    <3>1. \/ state' = state
          \/ state' = Killed(state)
          \/ \E p \in Child :
               \/ state[p] = "unborn" /\ state' = [state EXCEPT ![p] = "new"]
               \/ state[p] = "zombie" /\ state' = [state EXCEPT ![p] = "reaped"]
               \/ state[p] = "new" /\ state' = [state EXCEPT ![p] = "running"]
               \/ state[p] = "running" /\ state' = [state EXCEPT ![p] = "zombie"] /\ Logged(p)
      BY <1>2, LogIsAStep, LifeStep DEF ChildStart, ChildExit
    <3> QED BY <1>0, <3>1 DEF Killed
  <2> QED BY <1>0, <1>2, <2>1, <2>2 DEF LogInv
<1>3. ASSUME dmesg' = dmesg, NEW p \in Child, Loop \/ TimerExpires \/ ChildStart(p) \/ UNCHANGED vars
      PROVE  LogInv'
  BY <1>2, <1>3, NotAnExit DEF FaultInv
<1>4. ASSUME NEW p \in Child, LoggedExit(p) PROVE LogInv'
  <2>1. ChildExit(p) /\ Logged(p) /\ dmesg' = dmesg
    BY <1>4 DEF LoggedExit, log
  <2>2. \A q \in Child : ChildExit(q) => q = p
    BY <1>0, <2>1 DEF ChildExit
  <2> QED BY <1>2, <2>1, <2>2
<1>5. 0 \in Child
  BY NumProcessAssumption DEF Child
<1>6. ASSUME NEW p \in Child, LoggedStart(p) PROVE dmesg' = dmesg /\ ChildStart(p)
  BY <1>6 DEF LoggedStart, sys_log_process_start, proj1_start_process, _start_process_unsafe
<1> QED
  BY <1>1, <1>3, <1>4, <1>5, <1>6 DEF LogNext, log

(* Whatever is lost or fails, the log has one line of a job that has ended. *)
THEOREM LogInvariance ==
  LogSpec => [](FaultInv /\ LogInv)
<1>1. ASSUME LogInit PROVE FaultInv /\ LogInv
  <2>1. FaultInv
    BY <1>1, FaultInit DEF LogInit
  <2>2. dmesg = <<>> /\ LogTypes /\ state = [p \in Child |-> "unborn"]
    BY <1>1 DEF LogInit, Init, LogTypes, Timespec
  <2> QED BY <2>1, <2>2 DEF LogInv, Logged
<1>2. FaultInv /\ LogInv /\ [LogNext]_<<vars, log>> => (FaultInv /\ LogInv)'
  BY LogIsAStep, FaultNext, LogInvNext
<1> QED
  BY <1>1, <1>2, PTL DEF LogSpec

(* When the scheduler leaves, the log has exactly one line of every job     *)
(* (proj1.c:38-57, main.c:366): what report.md evaluates is the whole run.  *)
THEOREM LogIsComplete ==
  LogSpec => []LogComplete
<1>1. ASSUME FaultInv, LogInv PROVE LogComplete
  <2> SUFFICES ASSUME pc = "exit"
               PROVE  Len(dmesg) = num_process /\ \A p \in Child : Logged(p)
    BY DEF LogComplete
  <2>1. \A p \in Child : Logged(p)
    BY <1>1 DEF FaultInv, CleanExit, LogInv
  <2> DEFINE n == Len(dmesg)
             f == [i \in 1 .. n |-> dmesg[i].pid]
  <2>2. n \in Nat /\ DOMAIN dmesg = 1 .. n /\ \A i \in 1 .. n : dmesg[i].pid \in Child
    <3>1. dmesg \in Seq(LogLine)
      BY <1>1 DEF LogInv, LogTypes
    <3>2. n \in Nat /\ DOMAIN dmesg = 1 .. n /\ \A i \in 1 .. n : dmesg[i] \in LogLine
      BY <3>1
    <3> QED BY <3>2 DEF LogLine
  <2>3. \A i, j \in 1 .. n : dmesg[i].pid = dmesg[j].pid => i = j
    BY <1>1, <2>2 DEF LogInv
  <2>4. \A p \in Child : \E i \in 1 .. n : dmesg[i].pid = p
    BY <2>1, <2>2 DEF Logged
  <2> HIDE DEF n
  <2>5. f \in Bijection(1 .. n, Child)
    <3>1. f \in [1 .. n -> Child] /\ DOMAIN f = 1 .. n /\ \A i \in 1 .. n : f[i] = dmesg[i].pid
      BY <2>2
    <3> HIDE DEF f
    <3>2. f \in Injection(1 .. n, Child)
      BY <2>3, <3>1 DEF Injection, IsInjective
    <3>3. f \in Surjection(1 .. n, Child)
      BY <2>4, <3>1 DEF Surjection
    <3> QED BY <3>2, <3>3 DEF Bijection
  <2>6. Cardinality(Child) = n
    BY <2>2, <2>5, FS_CountingElements DEF ExistsBijection
  <2>7. Cardinality(Child) = num_process
    BY NumProcessAssumption, FS_Interval DEF Child
  <2> QED BY <2>1, <2>6, <2>7 DEF n
<1> QED
  BY <1>1, LogInvariance, PTL
==============================================================================
