------------------------------ MODULE RRProofs ------------------------------
(***************************************************************************)
(* Proofs about RR.c for every number of processes.                        *)
(***************************************************************************)
EXTENDS RR, SchedFifoProofs, SequenceTheorems

-----------------------------------------------------------------------------
(* What the functions of RR.c do to the array and its indices, whatever the *)
(* priorities of the children are at the time.                             *)

(* RR.c:27-40: an insertion before the current job. *)
LEMMA InsertSafe ==
  ASSUME SlotsOK, IndexSafe, arrival_ptr < num_process,
         add_process_RR(arrival_ptr), arrival_ptr' = arrival_ptr + 1
  PROVE  SlotsOK' /\ IndexSafe'
<1> USE NumProcessAssumption DEF SlotsOK, IndexSafe, Slots, Child, NULL
<1> DEFINE at == IF process_count = 0 THEN 0 ELSE current_process_id
<1>1. /\ pq' = [i \in Child |->
                 IF i = at THEN arrival_ptr
                 ELSE IF at < i /\ i <= process_count THEN pq[i - 1] ELSE pq[i]]
      /\ at \in 0 .. process_count
      /\ current_process_id' \in 0 .. process_count
      /\ process_count' = process_count + 1
      /\ previous_active_id' = previous_active_id
      /\ arrival_ptr \in Child /\ arrival_ptr' = arrival_ptr + 1
  BY DEF add_process_RR
<1> HIDE DEF at
<1>2. \A i \in Slots' : \/ i = at /\ pq'[i] = arrival_ptr
                        \/ i < at /\ i \in Slots /\ pq'[i] = pq[i]
                        \/ at < i /\ i - 1 \in Slots /\ pq'[i] = pq[i - 1]
  BY <1>1
<1>3. SlotsOK'
  <2>1. pq' \in [Child -> Child \cup {NULL}]
    BY <1>1
  <2> QED BY <1>1, <2>1
<1>4. /\ \A i \in Slots' : pq'[i] \in 0 .. arrival_ptr' - 1
      /\ \A i, j \in Slots' : pq'[i] = pq'[j] => i = j
  BY <1>1, <1>2
<1>5. Slots' = 0 .. process_count
  BY <1>1
<1> QED BY <1>1, <1>3, <1>4, <1>5

(* RR.c:42-53: the slots behind the current job move up. *)
LEMMA RemoveSafe ==
  ASSUME SlotsOK, IndexSafe, process_count > 0,
         remove_current_process_RR, UNCHANGED arrival_ptr
  PROVE  SlotsOK' /\ IndexSafe'
<1> USE NumProcessAssumption DEF SlotsOK, IndexSafe, Slots, Child, NULL
<1>1. /\ pq' = [i \in Child |->
                 IF current_process_id <= i /\ i + 1 < process_count
                 THEN pq[i + 1] ELSE pq[i]]
      /\ process_count' = process_count - 1
      /\ previous_active_id' = -1
      /\ current_process_id' = IF process_count = 1 THEN -1
           ELSE IF current_process_id = process_count - 1 THEN 0
           ELSE current_process_id
  BY DEF remove_current_process_RR
<1>2. \A i \in Slots' :
        \/ i < current_process_id /\ i \in Slots /\ pq'[i] = pq[i]
        \/ current_process_id <= i /\ i + 1 \in Slots /\ pq'[i] = pq[i + 1]
  BY <1>1
<1>3. pq' \in [Child -> Child \cup {NULL}]
  BY <1>1
<1>4. /\ \A i \in Slots' : pq'[i] \in 0 .. arrival_ptr' - 1
      /\ \A i, j \in Slots' : pq'[i] = pq'[j] => i = j
  BY <1>1, <1>2
<1> QED BY <1>1, <1>3, <1>4

(* RR.c:55-58: the next slot, circularly. *)
LEMMA AdvanceSafe ==
  ASSUME SlotsOK, IndexSafe, timeslice_over_RR, UNCHANGED arrival_ptr
  PROVE  SlotsOK' /\ IndexSafe'
BY NumProcessAssumption
DEF SlotsOK, IndexSafe, Slots, Child, NULL, timeslice_over_RR, advance

-----------------------------------------------------------------------------
(* set_strategy_RR, with no child forked, satisfies the invariant.         *)
LEMMA InitInv == Init => Inv
  BY NumProcessAssumption
     DEF Init, set_strategy_RR, NoChildren, Inv, TypeOK, SlotsOK, IndexSafe, OneResumed,
         OwedSwitch, Slots, Child, NULL, PRIO_MIN, PRIO_RUN, PRIO_MAX

(* main.c:61-78 with RR.c:27-40. *)
LEMMA AddInv == Inv /\ Add => Inv'
  <1> SUFFICES ASSUME Inv, Add PROVE Inv'
    OBVIOUS
  <1> USE NumProcessAssumption DEF Inv, TypeOK, SlotsOK, IndexSafe, Slots, Child, NULL,
          PRIO_MIN, PRIO_RUN, PRIO_MAX
  <1>1. sched'.prio = [sched.prio EXCEPT ![arrival_ptr] = PRIO_MIN]
    <2>1. sched'.prio = [fork(sched, arrival_ptr).prio EXCEPT ![arrival_ptr] = PRIO_MIN]
      BY PriorityOfCalls, ZenonT(60) DEF Add
    <2>2. fork(sched, arrival_ptr).prio = [sched.prio EXCEPT ![arrival_ptr] = PRIO_MAX]
      BY PriorityOfCalls
    <2> QED BY <2>1, <2>2 DEF Add
  <1> DEFINE at == IF process_count = 0 THEN 0 ELSE current_process_id
  <1>2. /\ pq' = [i \in Child |->
                   IF i = at THEN arrival_ptr
                   ELSE IF at < i /\ i <= process_count THEN pq[i - 1] ELSE pq[i]]
        /\ at \in 0 .. process_count
        /\ current_process_id' \in 0 .. process_count
        /\ current_process_id' = IF process_count = 0 THEN 0 ELSE at + 1
        /\ process_count' = process_count + 1
        /\ previous_active_id' = previous_active_id
        /\ arrival_ptr \in Child /\ arrival_ptr' = arrival_ptr + 1
        /\ phase' = "arrived"
    BY DEF Add, add_process_RR
  <1> HIDE DEF at
  <1>3. \A i \in Slots' : \/ i = at /\ pq'[i] = arrival_ptr
                          \/ i < at /\ i \in Slots /\ pq'[i] = pq[i]
                          \/ at < i /\ i - 1 \in Slots /\ pq'[i] = pq[i - 1]
    BY <1>2
  <1>4. TypeOK'
    <2>1. sched'.prio \in [Child -> PRIO_MIN .. PRIO_MAX]
      <3>1. sched.prio \in [Child -> PRIO_MIN .. PRIO_MAX] /\ arrival_ptr \in Child
        BY <1>2
      <3> HIDE DEF Child, PRIO_MIN, PRIO_MAX, PRIO_RUN
      <3> QED BY <1>1, <3>1, PriorityType
    <2>2. SlotsOK'
      BY InsertSafe DEF Add
    <2> QED BY <1>2, <2>1, <2>2
  <1>5. IndexSafe'
    BY InsertSafe DEF Add
  <1>6. OneResumed'
    BY <1>2 DEF OneResumed
  <1>7. OwedSwitch'
    <2> SUFFICES ASSUME NEW i \in Slots'
                 PROVE  \/ sched'.prio[pq'[i]] = PRIO_MIN
                        \/ i = current_process_id' /\ sched'.prio[pq'[i]] = PRIO_RUN
      BY <1>2 DEF OwedSwitch
    <2>1. \A k \in Slots : \/ sched.prio[pq[k]] = PRIO_MIN
                           \/ k = current_process_id /\ sched.prio[pq[k]] = PRIO_RUN
      BY DEF Add, OneResumed, OwedSwitch
    <2>2. \A k \in Slots : sched'.prio[pq[k]] = sched.prio[pq[k]]
      BY <1>1, SMTT(30)
    <2>3. CASE i = at
      BY <1>1, <1>2, <1>3, <2>3
    <2>4. CASE i < at
      BY <1>1, <1>2, <1>3, <2>1, <2>2, <2>4 DEF at
    <2>5. CASE at < i
      BY <1>1, <1>2, <1>3, <2>1, <2>2, <2>5 DEF at
    <2> QED BY <2>3, <2>4, <2>5, <1>2
  <1> QED BY <1>4, <1>5, <1>6, <1>7

(* RR.c:42-53. *)
LEMMA RemoveInv == Inv /\ Remove => Inv'
  <1> SUFFICES ASSUME Inv, Remove PROVE Inv'
    OBVIOUS
  <1> USE NumProcessAssumption DEF Inv, TypeOK, SlotsOK, IndexSafe, Slots, Child, NULL,
          PRIO_MIN, PRIO_RUN, PRIO_MAX
  <1>1. /\ pq' = [i \in Child |->
                   IF current_process_id <= i /\ i + 1 < process_count
                   THEN pq[i + 1] ELSE pq[i]]
        /\ process_count > 0 /\ process_count' = process_count - 1
        /\ previous_active_id' = -1
        /\ current_process_id' = IF process_count = 1 THEN -1
             ELSE IF current_process_id = process_count - 1 THEN 0
             ELSE current_process_id
        /\ phase = "running" /\ phase' = "switching"
        /\ UNCHANGED <<sched, arrival_ptr>>
    BY DEF Remove, remove_current_process_RR
  <1>2. \A i \in Slots' :
          \/ i < current_process_id /\ i \in Slots /\ pq'[i] = pq[i]
          \/ current_process_id <= i /\ i + 1 \in Slots /\ pq'[i] = pq[i + 1]
    BY <1>1
  <1>3. TypeOK'
    <2>1. SlotsOK'
      BY RemoveSafe DEF Remove
    <2> QED BY <1>1, <2>1
  <1>4. IndexSafe'
    BY RemoveSafe DEF Remove
  <1>5. OneResumed'
    BY <1>1 DEF OneResumed
  <1>6. OwedSwitch'
    BY <1>1, <1>2 DEF OneResumed, OwedSwitch
  <1> QED BY <1>3, <1>4, <1>5, <1>6

(* RR.c:55-58. *)
LEMMA TimesliceInv == Inv /\ Timeslice => Inv'
  <1> SUFFICES ASSUME Inv, Timeslice PROVE Inv'
    OBVIOUS
  <1> USE NumProcessAssumption DEF Inv, TypeOK, SlotsOK, IndexSafe, Slots, Child, NULL,
          PRIO_MIN, PRIO_RUN, PRIO_MAX
  <1>1. /\ previous_active_id' = current_process_id
        /\ current_process_id' = IF current_process_id < 0 THEN current_process_id
             ELSE IF current_process_id + 1 = process_count THEN 0
             ELSE current_process_id + 1
        /\ UNCHANGED <<pq, process_count, sched, arrival_ptr>>
        /\ phase = "running" /\ phase' = "switching"
    BY DEF Timeslice, timeslice_over_RR, advance
  <1>2. TypeOK'
    BY <1>1
  <1>3. IndexSafe'
    BY <1>1
  <1>4. OneResumed'
    BY <1>1 DEF OneResumed
  <1>5. OwedSwitch'
    BY <1>1 DEF OneResumed, OwedSwitch
  <1> QED BY <1>2, <1>3, <1>4, <1>5

(* RR.c:60-67: the priorities after the two calls. *)
LEMMA SwitchInv == Inv /\ Switch => Inv'
  <1> SUFFICES ASSUME Inv, Switch PROVE Inv'
    OBVIOUS
  <1> USE NumProcessAssumption DEF Inv, TypeOK, SlotsOK, IndexSafe, Slots, Child, NULL,
          PRIO_MIN, PRIO_RUN, PRIO_MAX
  <1> DEFINE s1 == IF previous_active_id >= 0
                   THEN suspend_process(sched, pq[previous_active_id]) ELSE sched
  <1>1. s1.prio = IF previous_active_id >= 0
                  THEN [sched.prio EXCEPT ![pq[previous_active_id]] = PRIO_MIN]
                  ELSE sched.prio
    BY PriorityOfCalls
  <1>2. sched'.prio = IF current_process_id >= 0
                      THEN [s1.prio EXCEPT ![pq[current_process_id]] = PRIO_RUN]
                      ELSE s1.prio
    <2>1. sched' = IF current_process_id >= 0
                   THEN resume_process(s1, pq[current_process_id]) ELSE s1
      BY DEF Switch, context_switch_RR
    <2> HIDE DEF s1
    <2>2. resume_process(s1, pq[current_process_id]).prio = [s1.prio EXCEPT ![pq[current_process_id]] = PRIO_RUN]
      BY PriorityOfCalls, ZenonT(60)
    <2> QED BY <2>1, <2>2
  <1> HIDE DEF s1
  <1>3. TypeOK'
    <2>1. /\ sched.prio \in [Child -> PRIO_MIN .. PRIO_MAX]
          /\ previous_active_id >= 0 => pq[previous_active_id] \in Child
          /\ current_process_id >= 0 => pq[current_process_id] \in Child
      OBVIOUS
    <2>2. sched'.prio \in [Child -> PRIO_MIN .. PRIO_MAX]
      <3> HIDE DEF Child, PRIO_MIN, PRIO_MAX, PRIO_RUN
      <3>1. s1.prio \in [Child -> PRIO_MIN .. PRIO_MAX]
        BY <1>1, <2>1, PriorityType
      <3> QED BY <1>2, <2>1, <3>1, PriorityType
    <2> QED BY <2>2 DEF Switch, rrvars
  <1>4. IndexSafe'
    BY DEF Switch, rrvars
  <1>5. OneResumed'
    BY <1>1, <1>2, SMTT(30) DEF Switch, rrvars, OneResumed, OwedSwitch
  <1>6. OwedSwitch'
    BY DEF Switch, OwedSwitch
  <1> QED BY <1>3, <1>4, <1>5, <1>6

(* The exit of a child changes the run list only, no priority.             *)
LEMMA ExitInv == ASSUME NEW p \in Child, Inv, Exit(p) PROVE Inv'
  <1>1. sched'.prio = sched.prio
    BY PriorityOfCalls DEF Exit
  <1> QED
    BY <1>1 DEF Exit, rrvars, Inv, TypeOK, SlotsOK, IndexSafe, OneResumed, OwedSwitch, Slots

(* Every call main.c makes, and every exit, preserves the invariant.       *)
LEMMA NextInv == Inv /\ [Next]_vars => Inv'
  <1> SUFFICES ASSUME Inv, [Next]_vars PROVE Inv'
    OBVIOUS
  <1>1. CASE UNCHANGED vars
    BY <1>1 DEF vars, rrvars, Inv, TypeOK, SlotsOK, IndexSafe, OneResumed, OwedSwitch, Slots
  <1> QED
    BY <1>1, AddInv, RemoveInv, TimesliceInv, SwitchInv, ExitInv DEF Next

(* Every reachable state of RR.c satisfies the inductive invariant.        *)
THEOREM Invariance == Spec => []Inv
  BY InitInv, NextInv, PTL DEF Spec

(* No index of RR.c ever leaves the jobs of pq (RR.c:12-58).               *)
THEOREM IndexSafety == Spec => []IndexSafe
<1>1. Inv => IndexSafe
  BY DEF Inv
<1> QED
  BY <1>1, Invariance, PTL

(* After every context switch exactly the current job has the second       *)
(* highest priority (RR.c:60-67).                                          *)
THEOREM SingleResumed == Spec => []OneResumed
<1>1. Inv => OneResumed
  BY DEF Inv
<1> QED
  BY <1>1, Invariance, PTL

-----------------------------------------------------------------------------
(* The refinement: RRQueue is the array read circularly from              *)
(* current_process_id on.                                                  *)

(* What the array read circularly is. *)
QueueFacts ==
  /\ RRQueue \in Seq(Child)
  /\ Len(RRQueue) = process_count
  /\ DOMAIN RRQueue = 1 .. process_count
  /\ RRQueue = <<>> <=> process_count = 0
  /\ process_count > 0 => Head(RRQueue) = pq[current_process_id]
  /\ \A k \in 1 .. process_count :
       RRQueue[k] = IF current_process_id + k - 1 < process_count
                    THEN pq[current_process_id + k - 1]
                    ELSE pq[current_process_id + k - 1 - process_count]

(* RRQueue is a sequence of process_count jobs, the current one first.     *)
LEMMA QueueType == Inv => QueueFacts
  <1> SUFFICES ASSUME Inv PROVE QueueFacts
    OBVIOUS
  <1> USE NumProcessAssumption DEF Inv, TypeOK, SlotsOK, IndexSafe, Slots, Child
  <1>1. \A k \in 1 .. process_count : RRQueue[k] \in Child
    BY DEF RRQueue
  <1>2. RRQueue \in [1 .. process_count -> Child]
    BY <1>1 DEF RRQueue
  <1>3. /\ RRQueue \in Seq(Child)
        /\ Len(RRQueue) = process_count
        /\ DOMAIN RRQueue = 1 .. process_count
    <2> HIDE DEF Child
    <2> QED BY <1>2
  <1>4. RRQueue = <<>> <=> process_count = 0
    BY <1>3
  <1>5. process_count > 0 => Head(RRQueue) = pq[current_process_id]
    <2> SUFFICES ASSUME process_count > 0
                 PROVE  Head(RRQueue) = pq[current_process_id]
      OBVIOUS
    <2>1. Head(RRQueue) = RRQueue[1]
      BY <1>3
    <2> QED BY <2>1 DEF RRQueue
  <1> QED BY <1>3, <1>4, <1>5 DEF QueueFacts, RRQueue

(* In the "running" phase the job at current_process_id alone is resumed.  *)
RunningFacts ==
  phase = "running" =>
    Resumed = IF process_count = 0 THEN {} ELSE {pq[current_process_id]}

(* Between two context switches only the head of the queue has the CPU.    *)
LEMMA ResumedIsHead == Inv => RunningFacts
  <1> SUFFICES ASSUME Inv, phase = "running"
               PROVE  Resumed = IF process_count = 0 THEN {} ELSE {pq[current_process_id]}
    BY DEF RunningFacts
  <1> USE NumProcessAssumption DEF Inv, TypeOK, SlotsOK, IndexSafe, Slots, Child
  <1>1. PRIO_RUN # PRIO_MIN
    BY DEF PRIO_RUN, PRIO_MIN, PRIO_MAX
  <1>2. \A j \in Slots : sched.prio[pq[j]] = PRIO_RUN <=> j = current_process_id
    BY <1>1 DEF OneResumed
  <1>3. /\ process_count > 0 => current_process_id \in Slots
        /\ process_count = 0 => Slots = {}
    OBVIOUS
  <1>4. process_count \in Nat
    OBVIOUS
  <1> HIDE DEF Inv, TypeOK, SlotsOK, IndexSafe, Slots, Child
  <1> QED BY <1>2, <1>3, <1>4 DEF Resumed

(* The same facts in the state after a step.                               *)
LEMMA QueueTypeAfter == Inv' => QueueFacts' /\ RunningFacts'
  BY QueueType, ResumedIsHead, PTL

(* The types of the indices, without the rest of the invariant.            *)
IndexFacts ==
  /\ process_count \in Nat
  /\ current_process_id \in Int
  /\ process_count > 0 => current_process_id \in 0 .. process_count - 1
  /\ Slots = 0 .. process_count - 1
  /\ Slots \subseteq Child
  /\ \A i \in Slots : pq[i] \in Child /\ pq[i] # arrival_ptr

(* The two indices are numbers the provers can compute with.               *)
LEMMA IndexType == Inv => IndexFacts
  BY NumProcessAssumption DEF Inv, TypeOK, SlotsOK, IndexSafe, IndexFacts, Slots, Child

(* The same in the state after a step.                                     *)
LEMMA IndexTypeAfter == Inv' => IndexFacts'
  BY IndexType, PTL

(* A job that arrives is served after all the jobs present.                *)
LEMMA AddRefines == Inv /\ Inv' /\ Add => RQ!Arrive(arrival_ptr)
  <1> SUFFICES ASSUME Inv, Inv', Add PROVE RQ!Arrive(arrival_ptr)
    OBVIOUS
  <1>q. QueueFacts /\ QueueFacts' /\ IndexFacts /\ IndexFacts'
    BY QueueType, QueueTypeAfter, IndexType, IndexTypeAfter
  <1> DEFINE at == IF process_count = 0 THEN 0 ELSE current_process_id
  <1>1. /\ pq' = [i \in Child |->
                   IF i = at THEN arrival_ptr
                   ELSE IF at < i /\ i <= process_count THEN pq[i - 1] ELSE pq[i]]
        /\ at \in 0 .. process_count
        /\ current_process_id' = IF process_count = 0 THEN 0 ELSE at + 1
        /\ process_count' = process_count + 1
        /\ arrival_ptr \in Child
    BY <1>q, NumProcessAssumption
       DEF Add, add_process_RR, IndexFacts, Inv, TypeOK, SlotsOK, Child
  <1>2. /\ \A i \in Slots' : \/ i = at /\ pq'[i] = arrival_ptr
                             \/ i < at /\ i \in Slots /\ pq'[i] = pq[i]
                             \/ at < i /\ i - 1 \in Slots /\ pq'[i] = pq[i - 1]
        /\ \A j \in Slots : \/ j < at /\ j \in Slots' /\ pq'[j] = pq[j]
                            \/ at <= j /\ j + 1 \in Slots' /\ pq'[j + 1] = pq[j]
    BY <1>q, <1>1 DEF IndexFacts
  <1> HIDE DEF at
  <1>3. arrival_ptr \notin RQ!Waiting
    <2>1. ASSUME NEW k \in 1 .. process_count PROVE RRQueue[k] # arrival_ptr
      <3>1. PICK i \in Slots : RRQueue[k] = pq[i]
        BY <1>q, SMTT(30) DEF QueueFacts, IndexFacts
      <3> QED BY <1>q, <3>1 DEF IndexFacts
    <2> QED BY <2>1, <1>q DEF RQ!Waiting, QueueFacts
  <1>4. \A k \in 1 .. process_count + 1 :
          RRQueue'[k] = IF k <= process_count THEN RRQueue[k] ELSE arrival_ptr
    <2> SUFFICES ASSUME NEW k \in 1 .. process_count + 1
                 PROVE  RRQueue'[k] = IF k <= process_count THEN RRQueue[k]
                                                            ELSE arrival_ptr
      OBVIOUS
    <2>1. RRQueue'[k] = IF current_process_id' + k - 1 < process_count + 1
                        THEN pq'[current_process_id' + k - 1]
                        ELSE pq'[current_process_id' + k - 1 - (process_count + 1)]
      BY <1>q, <1>1 DEF QueueFacts
    <2>2. ASSUME k <= process_count
          PROVE  RRQueue[k] = IF current_process_id + k - 1 < process_count
                              THEN pq[current_process_id + k - 1]
                              ELSE pq[current_process_id + k - 1 - process_count]
      <3>1. process_count \in Nat /\ k \in 1 .. process_count
        BY <1>q, <2>2 DEF IndexFacts
      <3> QED BY <1>q, <3>1 DEF QueueFacts
    <2>3. CASE process_count = 0
      BY <1>q, <1>1, <2>1, <2>3 DEF IndexFacts, at
    <2>4. CASE process_count > 0 /\ k <= process_count
      BY <1>q, <1>1, <2>1, <2>2, <2>4 DEF IndexFacts, at
    <2>5. CASE process_count > 0 /\ k = process_count + 1
      BY <1>q, <1>1, <2>1, <2>5 DEF IndexFacts, at
    <2> QED BY <1>q, <2>3, <2>4, <2>5 DEF IndexFacts
  <1>5. RRQueue' = Append(RRQueue, arrival_ptr)
    <2>1. /\ RRQueue \in Seq(Child) /\ Len(RRQueue) = process_count
          /\ RRQueue' \in Seq(Child) /\ Len(RRQueue') = process_count + 1
      BY <1>1, <1>q DEF QueueFacts
    <2>2. process_count \in Nat
      BY <1>q DEF IndexFacts
    <2> QED BY <1>1, <1>4, <2>1, <2>2, AppendProperties, SeqEqual
  <1>6. Resumed' = Resumed
    <2>1. sched'.prio = [sched.prio EXCEPT ![arrival_ptr] = PRIO_MIN]
      <3>1. sched'.prio = [fork(sched, arrival_ptr).prio EXCEPT ![arrival_ptr] = PRIO_MIN]
        BY PriorityOfCalls DEF Add
      <3>2. fork(sched, arrival_ptr).prio = [sched.prio EXCEPT ![arrival_ptr] = PRIO_MAX]
        BY PriorityOfCalls
      <3> QED BY <1>1, <3>1, <3>2
    <2>2. sched.prio \in [Child -> PRIO_MIN .. PRIO_MAX]
      BY DEF Inv, TypeOK, SlotsOK
    <2>3. \A j \in Slots : sched'.prio[pq[j]] = sched.prio[pq[j]]
      BY <1>q, <2>1, <2>2 DEF IndexFacts
    <2>4. sched'.prio[arrival_ptr] # PRIO_RUN
      BY <1>1, <2>1, <2>2 DEF PRIO_MIN, PRIO_RUN, PRIO_MAX
    <2>5. ASSUME NEW x \in Resumed' PROVE x \in Resumed
      <3>1. PICK i \in Slots' : x = pq'[i] /\ sched'.prio[pq'[i]] = PRIO_RUN
        BY <2>5 DEF Resumed
      <3>2. \E j \in Slots : pq'[i] = pq[j]
        BY <1>2, <2>4, <3>1
      <3> QED BY <2>3, <3>1, <3>2 DEF Resumed
    <2>6. ASSUME NEW x \in Resumed PROVE x \in Resumed'
      <3>1. PICK j \in Slots : x = pq[j] /\ sched.prio[pq[j]] = PRIO_RUN
        BY <2>6 DEF Resumed
      <3>2. \E i \in Slots' : pq'[i] = pq[j]
        BY <1>2, <3>1
      <3> QED BY <2>3, <3>1, <3>2 DEF Resumed
    <2> QED BY <2>5, <2>6
  <1> QED BY <1>3, <1>5, <1>6 DEF RQ!Arrive

(* The end of a slice rotates the queue; with no job it changes nothing.   *)
LEMMA TimesliceRefines ==
  Inv /\ Inv' /\ Timeslice => RQ!Rotate \/ UNCHANGED RQ!vars
  <1> SUFFICES ASSUME Inv, Inv', Timeslice PROVE RQ!Rotate \/ UNCHANGED RQ!vars
    OBVIOUS
  <1>q. QueueFacts /\ QueueFacts' /\ IndexFacts /\ RunningFacts
    BY QueueType, QueueTypeAfter, IndexType, ResumedIsHead
  <1>1. /\ phase = "running"
        /\ current_process_id' = IF current_process_id < 0 THEN current_process_id
             ELSE IF current_process_id + 1 = process_count THEN 0
             ELSE current_process_id + 1
        /\ UNCHANGED <<pq, process_count, sched>>
    BY DEF Timeslice, timeslice_over_RR, advance
  <1>2. UNCHANGED Resumed
    BY <1>1 DEF Resumed, Slots
  <1>3. CASE process_count = 0
    <2>1. RRQueue = <<>> /\ RRQueue' = <<>>
      BY <1>q, <1>1, <1>3 DEF QueueFacts
    <2> QED BY <1>2, <2>1 DEF RQ!vars
  <1>4. CASE process_count > 0
    <2>1. /\ RRQueue \in Seq(Child) /\ Len(RRQueue) = process_count
          /\ RRQueue # <<>> /\ Head(RRQueue) = pq[current_process_id]
          /\ RRQueue' \in Seq(Child) /\ Len(RRQueue') = process_count
          /\ process_count \in Nat
      BY <1>1, <1>4, <1>q DEF QueueFacts, IndexFacts
    <2>2. ASSUME NEW k \in 1 .. process_count
          PROVE  RRQueue'[k] = IF k < process_count THEN RRQueue[k + 1]
                                                    ELSE pq[current_process_id]
      <3>1. RRQueue'[k] = IF current_process_id' + k - 1 < process_count
                          THEN pq[current_process_id' + k - 1]
                          ELSE pq[current_process_id' + k - 1 - process_count]
        BY <1>1, <1>q DEF QueueFacts
      <3>2. CASE k < process_count
        <4>1. k + 1 \in 1 .. process_count
          BY <2>1, <3>2
        <4>2. RRQueue[k + 1] = IF current_process_id + (k + 1) - 1 < process_count
                               THEN pq[current_process_id + (k + 1) - 1]
                               ELSE pq[current_process_id + (k + 1) - 1 - process_count]
          BY <1>q, <4>1 DEF QueueFacts
        <4> QED BY <1>1, <1>4, <1>q, <3>1, <3>2, <4>2 DEF IndexFacts
      <3>3. CASE k = process_count
        BY <1>1, <1>4, <1>q, <3>1, <3>3 DEF IndexFacts
      <3> QED BY <2>1, <3>2, <3>3
    <2>3. RRQueue' = Append(Tail(RRQueue), Head(RRQueue))
      <3>1. /\ Tail(RRQueue) \in Seq(Child) /\ Len(Tail(RRQueue)) = process_count - 1
            /\ \A i \in 1 .. process_count - 1 : Tail(RRQueue)[i] = RRQueue[i + 1]
            /\ Head(RRQueue) \in Child
        BY <2>1, HeadTailProperties
      <3> QED BY <1>4, <2>1, <2>2, <3>1, AppendProperties, SeqEqual
    <2>4. Resumed = {Head(RRQueue)}
      <3>1. process_count # 0
        BY <1>4, <2>1
      <3> QED BY <1>1, <1>q, <2>1, <3>1 DEF RunningFacts
    <2> QED BY <1>2, <2>1, <2>3, <2>4 DEF RQ!Rotate
  <1> QED BY <1>3, <1>4, <1>q DEF IndexFacts

(* The job that ends is the head of the queue.                             *)
LEMMA RemoveRefines == Inv /\ Inv' /\ Remove => RQ!Leave
  <1> SUFFICES ASSUME Inv, Inv', Remove PROVE RQ!Leave
    OBVIOUS
  <1>q. QueueFacts /\ QueueFacts' /\ IndexFacts /\ IndexFacts' /\ RunningFacts
    BY QueueType, QueueTypeAfter, IndexType, IndexTypeAfter, ResumedIsHead
  <1>1. /\ pq' = [i \in Child |->
                   IF current_process_id <= i /\ i + 1 < process_count
                   THEN pq[i + 1] ELSE pq[i]]
        /\ process_count > 0 /\ process_count' = process_count - 1
        /\ current_process_id' = IF process_count = 1 THEN -1
             ELSE IF current_process_id = process_count - 1 THEN 0
             ELSE current_process_id
        /\ phase = "running"
        /\ UNCHANGED sched
    BY DEF Remove, remove_current_process_RR
  <1>2. /\ RRQueue \in Seq(Child) /\ Len(RRQueue) = process_count
        /\ RRQueue # <<>> /\ Head(RRQueue) = pq[current_process_id]
        /\ RRQueue' \in Seq(Child) /\ Len(RRQueue') = process_count - 1
        /\ process_count \in Nat
    BY <1>1, <1>q DEF QueueFacts, IndexFacts
  <1>3. ASSUME NEW k \in 1 .. process_count - 1 PROVE RRQueue'[k] = RRQueue[k + 1]
    <2>1. RRQueue'[k] = IF current_process_id' + k - 1 < process_count - 1
                        THEN pq'[current_process_id' + k - 1]
                        ELSE pq'[current_process_id' + k - 1 - (process_count - 1)]
      <3>1. k \in 1 .. process_count' /\ process_count' = process_count - 1
        BY <1>1
      <3> QED BY <1>q, <3>1 DEF QueueFacts
    <2>2. k + 1 \in 1 .. process_count
      BY <1>2
    <2>3. RRQueue[k + 1] = IF current_process_id + (k + 1) - 1 < process_count
                           THEN pq[current_process_id + (k + 1) - 1]
                           ELSE pq[current_process_id + (k + 1) - 1 - process_count]
      BY <1>q, <2>2 DEF QueueFacts
    <2>4. \A i \in 0 .. process_count - 1 : i \in Child
      BY <1>q DEF IndexFacts
    <2> QED BY <1>1, <1>q, <2>1, <2>3, <2>4 DEF IndexFacts
  <1>4. RRQueue' = Tail(RRQueue)
    <2>1. /\ Tail(RRQueue) \in Seq(Child) /\ Len(Tail(RRQueue)) = process_count - 1
          /\ \A i \in 1 .. process_count - 1 : Tail(RRQueue)[i] = RRQueue[i + 1]
      BY <1>2, HeadTailProperties
    <2> QED BY <1>2, <1>3, <2>1, SeqEqual
  <1>5. Resumed = {Head(RRQueue)}
    <2>1. process_count # 0
      BY <1>1, <1>2
    <2> QED BY <1>1, <1>2, <1>q, <2>1 DEF RunningFacts
  <1>6. Resumed' = {}
    <2>1. \A i \in Slots' : \E j \in Slots : j # current_process_id /\ pq'[i] = pq[j]
      <3> SUFFICES ASSUME NEW i \in Slots'
                   PROVE  \E j \in Slots : j # current_process_id /\ pq'[i] = pq[j]
        OBVIOUS
      <3>1. CASE i < current_process_id
        BY <1>1, <1>q, <3>1 DEF IndexFacts
      <3>2. CASE current_process_id <= i
        <4>1. i + 1 \in Slots /\ i + 1 # current_process_id /\ pq'[i] = pq[i + 1]
          BY <1>1, <1>q, <3>2 DEF IndexFacts
        <4> QED BY <4>1
      <3> QED BY <1>q, <3>1, <3>2 DEF IndexFacts
    <2>2. \A j \in Slots : j # current_process_id => sched.prio[pq[j]] = PRIO_MIN
      BY <1>1 DEF Inv, OneResumed
    <2>3. PRIO_MIN # PRIO_RUN
      BY DEF PRIO_MIN, PRIO_RUN, PRIO_MAX
    <2> QED BY <1>1, <2>1, <2>2, <2>3 DEF Resumed
  <1> QED BY <1>2, <1>4, <1>5, <1>6 DEF RQ!Leave

(* A context switch gives the CPU to the head of the queue alone.          *)
LEMMA SwitchRefines == Inv /\ Inv' /\ Switch => RQ!Dispatch
  <1> SUFFICES ASSUME Inv, Inv', Switch PROVE RQ!Dispatch
    OBVIOUS
  <1>q. QueueFacts /\ QueueFacts' /\ RunningFacts /\ RunningFacts'
    BY QueueType, ResumedIsHead, QueueTypeAfter
  <1>1. phase' = "running" /\ UNCHANGED rrvars
    BY DEF Switch
  <1>2. UNCHANGED RRQueue
    BY <1>1 DEF RRQueue, rrvars
  <1>3. Resumed' = IF process_count' = 0 THEN {} ELSE {pq'[current_process_id']}
    BY <1>1, <1>q DEF RunningFacts
  <1>4. Resumed' = IF process_count = 0 THEN {} ELSE {pq[current_process_id]}
    BY <1>1, <1>3 DEF rrvars
  <1>5. /\ RRQueue = <<>> <=> process_count = 0
        /\ process_count # 0 => Head(RRQueue) = pq[current_process_id]
    BY <1>q, NumProcessAssumption DEF QueueFacts, Inv, TypeOK, SlotsOK
  <1> QED BY <1>2, <1>4, <1>5 DEF RQ!Dispatch

(* The exit of a child is no step of the abstract queue.                   *)
LEMMA ExitRefines == ASSUME NEW p \in Child, Exit(p) PROVE UNCHANGED RQ!vars
  <1>1. sched'.prio = sched.prio /\ UNCHANGED rrvars
    BY PriorityOfCalls DEF Exit
  <1> QED BY <1>1 DEF RQ!vars, RRQueue, Resumed, Slots, rrvars

(* Every step of RR.c is a step of the abstract queue or a stutter.        *)
LEMMA StepRefines == Inv /\ Inv' /\ [Next]_vars => [RQ!Next]_(RQ!vars)
  <1> SUFFICES ASSUME Inv, Inv', [Next]_vars PROVE [RQ!Next]_(RQ!vars)
    OBVIOUS
  <1>1. CASE Add
    <2>1. arrival_ptr \in Child
      BY <1>1, NumProcessAssumption DEF Add, Inv, TypeOK, SlotsOK, Child
    <2> QED BY <1>1, <2>1, AddRefines DEF RQ!Next
  <1>2. CASE Timeslice
    BY <1>2, TimesliceRefines DEF RQ!Next
  <1>3. CASE Remove
    BY <1>3, RemoveRefines DEF RQ!Next
  <1>4. CASE Switch
    BY <1>4, SwitchRefines DEF RQ!Next
  <1>5. ASSUME NEW p \in Child, Exit(p) PROVE UNCHANGED RQ!vars
    BY <1>5, ExitRefines
  <1>6. CASE UNCHANGED vars
    BY <1>6 DEF vars, rrvars, RQ!vars, RRQueue, Resumed, Slots
  <1> QED BY <1>1, <1>2, <1>3, <1>4, <1>5, <1>6 DEF Next

(* The empty array stands for the empty queue.                             *)
LEMMA InitRefines == Init => RQ!Init
  <1> SUFFICES ASSUME Init PROVE RQ!Init
    OBVIOUS
  <1>1. Inv /\ process_count = 0
    BY InitInv DEF Init, set_strategy_RR
  <1>2. RRQueue = <<>>
    BY <1>1, QueueType DEF QueueFacts
  <1>3. Resumed = {}
    BY <1>1, ResumedIsHead DEF RunningFacts, Init
  <1> QED BY <1>2, <1>3 DEF RQ!Init

(* RR.c implements the plain round-robin queue, for every num_process: see *)
(* ImplementsRunQueue.  The invariant is needed because the indices only   *)
(* stand for the head of the queue while they stay inside the pool.        *)
THEOREM Refinement == Spec => ImplementsRunQueue
  <1>1. Spec => RQ!Init
    BY InitRefines DEF Spec
  <1>2. Spec => [][RQ!Next]_(RQ!vars)
    BY Invariance, StepRefines, PTL DEF Spec
  <1> QED BY <1>1, <1>2 DEF ImplementsRunQueue, RQ!Spec
=============================================================================
