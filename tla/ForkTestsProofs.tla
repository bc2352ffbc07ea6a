-------------------------- MODULE ForkTestsProofs ---------------------------
(***************************************************************************)
(* The manual tests of main.c pass on one CPU, however long the loops over *)
(* run_single_unit are and however fast the machine is, if the calls do    *)
(* not use up the time of sleep or alarm.                                  *)
(***************************************************************************)
EXTENDS ForkTests, SchedFifoProofs, SequenceTheorems

(* What the programs have in common, and what the child's expectation of    *)
(* its parent goes with. *)
Patient == {fork_test, fork_priority_test}

Shape(t) ==
  /\ DOMAIN t.parent = 1 .. Len(t.parent) /\ Len(t.parent) \in Nat
  /\ DOMAIN t.child = 1 .. Len(t.child) /\ Len(t.child) \in Nat
  /\ \A i \in DOMAIN t.parent :
       /\ t.parent[i] = "set_parent_priority" <=> i = 1
       /\ t.parent[i] \notin {"set_child_priority", "yes?", "no?"}
       /\ t.parent[i] = "exit" => i = Len(t.parent)
       /\ t \in Patient => t.parent[i] \notin {"sleep", "sigsuspend", "wait"}
  /\ \A i, j \in DOMAIN t.parent : t.parent[i] = "fork" /\ t.parent[j] = "fork" => i = j
  /\ \A i \in DOMAIN t.child :
       /\ t.child[i] = "set_child_priority" <=> i = 1
       /\ t.child[i] \in {"set_child_priority", "begins", "ends", "run", "yes?", "no?", "exit"}
       /\ t.child[i] = "exit" <=> i = Len(t.child)
  /\ t # priority_test => Len(t.child) > 1
  /\ t = priority_test => t.child = <<>> /\ \A i \in DOMAIN t.parent : t.parent[i] # "fork"

(* The programs are like that (main.c:519-630).                             *)
LEMMA Shapes == ASSUME NEW t \in Tests PROVE Shape(t)
<1> USE DEF Patient, fork_test, fork_priority_test, fork_block_test
<1>1. CASE t = priority_test
  BY <1>1 DEF Shape, priority_test
<1>2. CASE t = fork_test
  BY <1>2 DEF Shape, priority_test
<1>3. CASE t = fork_priority_test
  BY <1>3 DEF Shape, priority_test
<1>4. CASE t = fork_block_test
  BY <1>4 DEF Shape, priority_test
<1>5. CASE t = fork_signal_test
  BY <1>5 DEF Shape, priority_test, fork_signal_test
<1> QED
  BY <1>1, <1>2, <1>3, <1>4, <1>5 DEF Tests

(* The two processes.                                                       *)
LEMMA TwoProcesses == Child = {Parent, Kid} /\ Parent \in Child /\ Kid \in Child /\ Parent # Kid
BY ForkTestsAssumption DEF Child, Parent, Kid

(* A process that wakes up enters the list at its tail.                     *)
LEMMA EnqueueFacts ==
  ASSUME NEW s \in Kernel, NEW p \in Child, Distinct(s.rq), p \notin Queued(s)
  PROVE  /\ Enqueue(s, p) \in Kernel
         /\ Distinct(Enqueue(s, p).rq)
         /\ Queued(Enqueue(s, p)) = Queued(s) \cup {p}
         /\ Enqueue(s, p).prio = s.prio
<1> DEFINE t == Enqueue(s, p)
<1>0. /\ s.prio \in [Child -> PRIO_MIN .. PRIO_MAX] /\ s.rq \in Seq(Child) /\ Queued(s) = Elements(s.rq)
      /\ s = [prio |-> s.prio, rq |-> s.rq]
  BY DEF Kernel, Queued, Elements
<1>1. /\ s.prio \in [Child -> PRIO_MIN .. PRIO_MAX] /\ s.rq \in Seq(Child) /\ Queued(s) = Elements(s.rq)
      /\ t = [prio |-> s.prio, rq |-> Append(s.rq, p)]
  <2> DEFINE q == Append(s.rq, p)
  <2>1. t = [s EXCEPT !.rq = q]
    BY DEF Enqueue
  <2> HIDE DEF t, q
  <2>2. t = [prio |-> s.prio, rq |-> q]
    BY <1>0, <2>1
  <2> QED BY <1>0, <2>2 DEF q
<1>2. /\ Append(s.rq, p) \in Seq(Child) /\ Distinct(Append(s.rq, p))
      /\ Elements(Append(s.rq, p)) = Elements(s.rq) \cup {p}
  <2>1. p \notin Elements(s.rq)
    BY <1>1
  <2> QED BY <1>1, <2>1, EnterFacts, Zenon
<1>3. t \in Kernel
  <2> DEFINE q == Append(s.rq, p)
  <2>1. q \in Seq(Child) /\ t = [prio |-> s.prio, rq |-> q]
    BY <1>1, <1>2
  <2> HIDE DEF q
  <2> QED BY <1>1, <2>1 DEF Kernel
<1>4. t.rq = Append(s.rq, p) /\ t.prio = s.prio
  BY <1>1
<1> HIDE DEF t
<1>5. Distinct(t.rq) /\ Elements(t.rq) = Elements(s.rq) \cup {p}
  BY <1>2, <1>4, Zenon
<1> QED
  BY <1>1, <1>3, <1>4, <1>5 DEF t, Queued, Elements

(* Once the child has lowered itself it does not run while its parent can.  *)
LEMMA ChildYields ==
  ASSUME Inv, CPUs = 1, ip[Kid] > 1, Kid \in OnCPUs(sched, CPUs)
  PROVE  Parent \notin Queued(sched)
<1>1. SUFFICES ASSUME Parent \in Queued(sched) PROVE FALSE
  OBVIOUS
<1>2. Shape(test) /\ ip[Parent] \in Nat /\ ip[Kid] \in Nat
  BY Shapes, TwoProcesses DEF Inv, TypeOK
<1>3. ip[Parent] > 1
  BY <1>2 DEF Inv, ForkOnce, Forked, Shape
<1>4. sched.prio[Parent] = PRIO_MAX /\ sched.prio[Kid] = PRIO_RUN
  BY <1>3 DEF Inv, ParentAbove
<1>5. Queued(sched) \subseteq Child
  BY DEF Inv, TypeOK, Kernel, Queued
<1>6. \A p \in Queued(sched) \ {Parent} : sched.prio[p] < sched.prio[Parent]
  BY <1>4, <1>5, TwoProcesses DEF PRIO_MAX, PRIO_RUN
<1>7. OnCPU(sched) = {Parent}
  BY <1>1, <1>6, HighestRuns DEF Inv, TypeOK
<1> QED
  BY <1>7, TwoProcesses DEF OnCPU

(* The process that makes a call, and where it is in its program.           *)
LEMMA CallFacts ==
  ASSUME Inv, CPUs = 1, NEW p \in Child, NEW c, Calls(p, c)
  PROVE  /\ p \in Queued(sched)
         /\ ip[p] \in DOMAIN Program(p)
         /\ Program(p)[ip[p]] = c
         /\ p = Kid /\ c # "set_child_priority" => Parent \notin Queued(sched)
<1>1. Shape(test) /\ ip[p] \in Nat /\ ip[Parent] > 0
  BY Shapes DEF Inv, TypeOK, ParentAbove
<1>2. p \in Queued(sched) /\ p \in OnCPUs(sched, CPUs) /\ Program(p)[ip[p]] = c
  BY DEF Calls, OnCPUs, Queued
<1>3. ip[p] > 0
  BY <1>1, <1>2, TwoProcesses DEF Inv, ForkOnce, Shape
<1>4. ip[p] \in DOMAIN Program(p)
  BY <1>1, <1>3 DEF Calls, Done, Program, Shape
<1>5. ASSUME p = Kid, c # "set_child_priority" PROVE Parent \notin Queued(sched)
  <2>1. ip[Kid] > 1
    BY <1>1, <1>2, <1>3, <1>4, <1>5, TwoProcesses DEF Program, Shape
  <2> QED BY <1>2, <1>5, <2>1, ChildYields
<1> QED
  BY <1>2, <1>4, <1>5

-----------------------------------------------------------------------------
(* The steps *)

(* What a step may do to the priorities, by the call that is made. *)
PrioMove(p, c) ==
  \/ c = "set_parent_priority" /\ sched'.prio = [sched.prio EXCEPT ![p] = PRIO_MAX]
  \/ c = "set_child_priority" /\ sched'.prio = [sched.prio EXCEPT ![p] = PRIO_RUN]
  \/ c \notin {"set_parent_priority", "set_child_priority"} /\ sched'.prio = sched.prio

(* The numbers stay numbers, and the test and the machine stay the same.    *)
LEMMA Numbers == Inv /\ [Next]_vars => NumbersOK' /\ UNCHANGED setting
<1> SUFFICES ASSUME Inv, [Next]_vars PROVE NumbersOK' /\ UNCHANGED setting
  OBVIOUS
<1>0. second \in Nat \ {0} /\ left \in [Child -> Int] /\ timer \in Int /\ spent \in Nat
  BY DEF Inv, TypeOK, NumbersOK
<1>1. UNCHANGED setting /\ spent' \in Nat
  BY <1>0
  DEF Next, Step, SetParentPriority, SetChildPriority, Fork, RunSingleUnit, SchedYield, Says, Sleep,
      BlockSigalrm, SetAlarm, Sigsuspend, Wait, Exit, SleepOver, AlarmExpires, TimePasses, vars
<1>2. timer' \in Int
  BY <1>0
  DEF Next, Step, SetParentPriority, SetChildPriority, Fork, RunSingleUnit, SchedYield, Says, Sleep,
      BlockSigalrm, SetAlarm, Sigsuspend, Wait, Exit, SleepOver, AlarmExpires, TimePasses, vars
<1>3. left' \in [Child -> Int]
  BY <1>0
  DEF Next, Step, SetParentPriority, SetChildPriority, Fork, RunSingleUnit, SchedYield, Says, Sleep,
      BlockSigalrm, SetAlarm, Sigsuspend, Wait, Exit, SleepOver, AlarmExpires, TimePasses, vars
<1> QED
  BY <1>0, <1>1, <1>2, <1>3 DEF NumbersOK, setting

(* A call returns to its process, any but fork.                             *)
LEMMA MoveInv ==
  ASSUME Inv, NumbersOK', test' = test, NEW p \in Child, NEW c,
         ip[p] \in DOMAIN Program(p), Program(p)[ip[p]] = c, c # "fork", Return(p),
         sched' \in Kernel, Distinct(sched'.rq), PrioMove(p, c),
         Kid \in Queued(sched)' <=> Kid \in Queued(sched) /\ ~(p = Kid /\ c = "exit"),
         Parent \in Queued(sched) => Parent \in Queued(sched)' \/ (p = Parent /\ c = "exit")
  PROVE  Inv'
<1>1. Shape(test) /\ ip \in [Child -> Nat]
  BY Shapes DEF Inv, TypeOK
<1>2. ip' \in [Child -> Nat] /\ ip'[p] = ip[p] + 1 /\ \A q \in Child \ {p} : ip'[q] = ip[q]
  BY <1>1 DEF Return
<1>3. TypeOK'
  BY <1>2 DEF Inv, TypeOK
<1>4. \/ p = Parent /\ ip'[Kid] = ip[Kid] /\ ip'[Parent] = ip[Parent] + 1
         /\ ip[Parent] \in DOMAIN test.parent /\ test.parent[ip[Parent]] = c
      \/ p = Kid /\ ip'[Kid] = ip[Kid] + 1 /\ ip'[Parent] = ip[Parent]
         /\ ip[Kid] \in DOMAIN test.child /\ test.child[ip[Kid]] = c
  BY <1>2, TwoProcesses DEF Program
<1>5. ip[Parent] \in Nat /\ ip[Kid] \in Nat
  BY <1>1, TwoProcesses
<1>6. ForkOnce'
  <2>1. Forked' <=> Forked
    BY <1>1, <1>4, <1>5, SMTT(30) DEF Forked, Shape
  <2>2. ip'[Kid] > 0 <=> ip[Kid] > 0
    BY <1>1, <1>4, <1>5 DEF Shape
  <2>3. Kid \in Queued(sched) <=> ip[Kid] \in DOMAIN test.child
    BY DEF Inv, ForkOnce
  <2>4. CASE p = Kid
    <3>1. ip'[Kid] \in DOMAIN test.child <=> c # "exit"
      BY <1>1, <1>4, <1>5, <2>4, TwoProcesses DEF Shape
    <3> QED BY <1>4, <2>1, <2>2, <2>3, <2>4, <3>1, TwoProcesses DEF Inv, ForkOnce
  <2>5. CASE p = Parent
    BY <1>4, <2>1, <2>2, <2>3, <2>5, TwoProcesses DEF Inv, ForkOnce
  <2> QED BY <2>4, <2>5, TwoProcesses
<1>7. ParentAbove'
  <2>1. sched.prio \in [Child -> PRIO_MIN .. PRIO_MAX]
    BY DEF Inv, TypeOK, Kernel
  <2>2. CASE p = Parent
    <3>1. ip[Parent] = 1 <=> c = "set_parent_priority"
      BY <1>1, <1>4, <2>2, TwoProcesses DEF Shape
    <3>2. c # "set_child_priority"
      BY <1>1, <1>4, <2>2, TwoProcesses DEF Shape
    <3>3. sched'.prio[Kid] = sched.prio[Kid]
      BY <2>1, <2>2, <3>2, TwoProcesses DEF PrioMove
    <3>4. ip[Parent] > 1 => sched'.prio[Parent] = sched.prio[Parent]
      BY <2>1, <3>1, <3>2, <1>5, TwoProcesses DEF PrioMove
    <3>5. ip[Parent] = 1 => sched'.prio[Parent] = PRIO_MAX
      BY <2>1, <2>2, <3>1, TwoProcesses DEF PrioMove
    <3> QED BY <1>4, <1>5, <2>2, <3>3, <3>4, <3>5, TwoProcesses DEF Inv, ParentAbove
  <2>3. CASE p = Kid
    <3>1. ip[Kid] = 1 <=> c = "set_child_priority"
      BY <1>1, <1>4, <2>3, TwoProcesses DEF Shape
    <3>2. c # "set_parent_priority"
      BY <1>1, <1>4, <2>3, TwoProcesses DEF Shape
    <3>3. sched'.prio[Parent] = sched.prio[Parent]
      BY <2>1, <2>3, <3>2, TwoProcesses DEF PrioMove
    <3>4. ip[Kid] > 1 => sched'.prio[Kid] = sched.prio[Kid]
      BY <2>1, <3>1, <3>2, <1>5, TwoProcesses DEF PrioMove
    <3>5. ip[Kid] = 1 => sched'.prio[Kid] = PRIO_RUN
      BY <2>1, <2>3, <3>1, TwoProcesses DEF PrioMove
    <3>6. ip[Kid] > 0
      BY <1>1, <1>4, <2>3, TwoProcesses DEF Shape
    <3> QED BY <1>4, <1>5, <2>3, <3>3, <3>4, <3>5, <3>6, TwoProcesses DEF Inv, ParentAbove
  <2> QED BY <2>2, <2>3, TwoProcesses
<1>8. Done(Parent) => Done(Parent)'
  BY <1>1, <1>4, <1>5, TwoProcesses DEF Done, Program, Shape
<1>9. p = Parent /\ c = "exit" => Done(Parent)'
  BY <1>1, <1>4, <1>5, TwoProcesses DEF Done, Program, Shape
<1>10. ParentAtWork'
  BY <1>8, <1>9 DEF Inv, ParentAtWork
<1> QED
  BY <1>3, <1>6, <1>7, <1>10 DEF Inv

(* A call goes on: a loop has units left, or the parent blocks.             *)
LEMMA StayInv ==
  ASSUME Inv, NumbersOK', UNCHANGED <<test, ip>>, sched' \in Kernel, Distinct(sched'.rq),
         sched'.prio = sched.prio, Kid \in Queued(sched)' <=> Kid \in Queued(sched),
         test \in Patient => Queued(sched)' = Queued(sched)
  PROVE  Inv'
<1>1. TypeOK'
  BY DEF Inv, TypeOK
<1>2. ForkOnce' /\ ParentAbove'
  BY DEF Inv, ForkOnce, Forked, ParentAbove
<1>3. Done(Parent)' = Done(Parent)
  BY DEF Done, Program
<1>4. ParentAtWork'
  BY <1>3 DEF Inv, ParentAtWork, Patient
<1> QED
  BY <1>1, <1>2, <1>4 DEF Inv

(* The parent forks: the child enters the list with its parent's priority.  *)
LEMMA ForkInv ==
  ASSUME Inv, CPUs = 1, NumbersOK', NEW p \in Child, Fork(p)
  PROVE  Inv'
<1>1. Shape(test) /\ ip \in [Child -> Nat] /\ ip[Parent] \in Nat
  BY Shapes, TwoProcesses DEF Inv, TypeOK
<1>2. /\ p \in Queued(sched) /\ ip[p] \in DOMAIN Program(p) /\ Program(p)[ip[p]] = "fork"
  BY CallFacts DEF Fork
<1>3. p = Parent /\ ip[Parent] \in DOMAIN test.parent /\ test.parent[ip[Parent]] = "fork" /\ ip[Parent] # 1
  BY <1>1, <1>2, TwoProcesses DEF Program, Shape
<1>4. ip' \in [Child -> Nat] /\ ip'[Parent] = ip[Parent] + 1 /\ ip'[Kid] = 1
  BY <1>1, <1>3, TwoProcesses DEF Fork
<1>5. ip[Kid] = 0 /\ Kid \notin Queued(sched)
  <2>1. ~Forked
    BY <1>1, <1>3 DEF Forked, Shape
  <2>2. ip[Kid] \in Nat
    BY <1>1, TwoProcesses
  <2> QED BY <1>1, <2>1, <2>2 DEF Inv, ForkOnce, Shape
<1>6. /\ sched' \in Kernel /\ Distinct(sched'.rq) /\ Queued(sched)' = Queued(sched) \cup {Kid}
      /\ sched'.prio = [sched.prio EXCEPT ![Kid] = PRIO_MAX]
  <2>1. sched' = [prio |-> [sched.prio EXCEPT ![Kid] = PRIO_MAX], rq |-> Append(sched.rq, Kid)]
    BY DEF Fork, fork
  <2>2. sched'.prio = [sched.prio EXCEPT ![Kid] = PRIO_MAX]
    BY <2>1
  <2> QED BY <1>5, <2>1, <2>2, TwoProcesses, EnterKernel DEF Inv, TypeOK
<1>7. TypeOK'
  BY <1>4, <1>6 DEF Inv, TypeOK, Fork, setting
<1>8. ForkOnce'
  <2>1. Forked'
    <3>1. ip[Parent] < ip'[Parent] /\ test' = test
      BY <1>1, <1>4 DEF Fork, setting
    <3> QED BY <1>3, <3>1 DEF Forked
  <2>2. 1 \in DOMAIN test.child /\ test' = test
    BY <1>1, <1>3 DEF Fork, Shape, setting
  <2> QED BY <1>4, <1>6, <2>1, <2>2 DEF ForkOnce
<1>9. ParentAbove'
  <2>1. sched'.prio[Parent] = sched.prio[Parent]
    BY <1>6, TwoProcesses DEF Inv, TypeOK, Kernel
  <2>2. ip[Parent] > 1
    BY <1>1, <1>3 DEF Shape
  <2> QED BY <1>1, <1>4, <2>1, <2>2 DEF Inv, ParentAbove
<1>10. ParentAtWork'
  BY <1>2, <1>3, <1>6 DEF ParentAtWork
<1> QED
  BY <1>7, <1>8, <1>9, <1>10 DEF Inv

(* The calls that set a priority.                                           *)
LEMMA PriorityInv ==
  ASSUME Inv, CPUs = 1, NumbersOK', NEW p \in Child, SetParentPriority(p) \/ SetChildPriority(p)
  PROVE  Inv'
<1>0. sched \in Kernel /\ Distinct(sched.rq)
  BY DEF Inv, TypeOK
<1>1. CASE SetParentPriority(p)
  <2>1. ip[p] \in DOMAIN Program(p) /\ Program(p)[ip[p]] = "set_parent_priority"
    BY <1>1, CallFacts DEF SetParentPriority
  <2>2. /\ sched' \in Kernel /\ Distinct(sched'.rq) /\ Queued(sched)' = Queued(sched)
        /\ sched'.prio = [sched.prio EXCEPT ![p] = PRIO_MAX]
    BY <1>0, <1>1, SetPriorityFacts DEF SetParentPriority
  <2>3. PrioMove(p, "set_parent_priority")
    BY <2>2 DEF PrioMove
  <2>4. test' = test /\ Return(p)
    BY <1>1 DEF SetParentPriority, setting
  <2> QED BY <1>0, <2>1, <2>2, <2>3, <2>4, MoveInv
<1>2. CASE SetChildPriority(p)
  <2>1. ip[p] \in DOMAIN Program(p) /\ Program(p)[ip[p]] = "set_child_priority"
    BY <1>2, CallFacts DEF SetChildPriority
  <2>2. /\ sched' \in Kernel /\ Distinct(sched'.rq) /\ Queued(sched)' = Queued(sched)
        /\ sched'.prio = [sched.prio EXCEPT ![p] = PRIO_RUN]
    BY <1>0, <1>2, SetPriorityFacts DEF SetChildPriority, set_child_priority
  <2>3. PrioMove(p, "set_child_priority")
    BY <2>2 DEF PrioMove
  <2>4. test' = test /\ Return(p)
    BY <1>2 DEF SetChildPriority, setting
  <2> QED BY <1>0, <2>1, <2>2, <2>3, <2>4, MoveInv
<1> QED
  BY <1>1, <1>2

(* The calls that do not touch the run list: a unit of a loop, sigprocmask, *)
(* alarm.                                                                   *)
LEMMA QuietInv ==
  ASSUME Inv, CPUs = 1, NumbersOK', NEW p \in Child, RunSingleUnit(p) \/ BlockSigalrm(p) \/ SetAlarm(p)
  PROVE  Inv'
<1>0. sched \in Kernel /\ Distinct(sched.rq)
  BY DEF Inv, TypeOK
<1>1. sched' = sched /\ test' = test
  BY DEF RunSingleUnit, BlockSigalrm, SetAlarm, setting
<1>2. CASE UNCHANGED ip
  BY <1>0, <1>1, <1>2, StayInv
<1>3. CASE Return(p)
  <2>1. PICK c \in {"run", "sigprocmask", "alarm"} : Calls(p, c)
    BY DEF RunSingleUnit, BlockSigalrm, SetAlarm
  <2>2. ip[p] \in DOMAIN Program(p) /\ Program(p)[ip[p]] = c
    BY <2>1, CallFacts
  <2>3. PrioMove(p, c)
    BY <1>1 DEF PrioMove
  <2> QED BY <1>0, <1>1, <1>3, <2>1, <2>2, <2>3, MoveInv
<1> QED
  BY <1>2, <1>3 DEF RunSingleUnit, BlockSigalrm, SetAlarm

(* sched_yield leaves the same processes in the list.                       *)
LEMMA YieldInv ==
  ASSUME Inv, CPUs = 1, NumbersOK', NEW p \in Child, SchedYield(p)
  PROVE  Inv'
<1>0. sched \in Kernel /\ Distinct(sched.rq)
  BY DEF Inv, TypeOK
<1>1. p \in Queued(sched) /\ ip[p] \in DOMAIN Program(p) /\ Program(p)[ip[p]] = "sched_yield"
  BY CallFacts DEF SchedYield
<1>2. sched' = Enqueue(exit(sched, p), p) /\ test' = test /\ Return(p)
  BY DEF SchedYield, setting
<1>3. /\ exit(sched, p) \in Kernel /\ Distinct(exit(sched, p).rq) /\ exit(sched, p).prio = sched.prio
      /\ Queued(exit(sched, p)) = Queued(sched) \ {p}
  BY <1>0, ExitFacts
<1>4. /\ sched' \in Kernel /\ Distinct(sched'.rq) /\ sched'.prio = sched.prio
      /\ Queued(sched)' = Queued(sched)
  <2>1. p \notin Queued(exit(sched, p))
    BY <1>3
  <2>2. /\ sched' \in Kernel /\ Distinct(sched'.rq) /\ sched'.prio = exit(sched, p).prio
        /\ Queued(sched') = Queued(exit(sched, p)) \cup {p}
    BY <1>2, <1>3, <2>1, EnqueueFacts
  <2> QED BY <1>1, <1>3, <2>2
<1>5. PrioMove(p, "sched_yield")
  BY <1>4 DEF PrioMove
<1> QED
  BY <1>0, <1>1, <1>2, <1>4, <1>5, MoveInv

(* A message.                                                               *)
LEMMA SaysInv ==
  ASSUME Inv, CPUs = 1, NumbersOK', NEW p \in Child, Says(p)
  PROVE  Inv'
<1>0. sched \in Kernel /\ Distinct(sched.rq)
  BY DEF Inv, TypeOK
<1>1. PICK c \in Messages \cup {"yes?", "no?"} : Calls(p, c)
  BY DEF Says
<1>2. ip[p] \in DOMAIN Program(p) /\ Program(p)[ip[p]] = c
  BY <1>1, CallFacts
<1>3. sched' = sched /\ test' = test /\ Return(p)
  BY DEF Says, setting
<1>4. c \notin {"set_parent_priority", "set_child_priority", "fork", "exit"}
  BY <1>1 DEF Messages
<1>5. PrioMove(p, c)
  BY <1>3, <1>4 DEF PrioMove
<1> QED
  BY <1>0, <1>2, <1>3, <1>4, <1>5, MoveInv

(* The calls in which the parent may block.                                 *)
LEMMA BlockInv ==
  ASSUME Inv, CPUs = 1, NumbersOK', NEW p \in Child, Sleep(p) \/ Sigsuspend(p) \/ Wait(p)
  PROVE  Inv'
<1>0. sched \in Kernel /\ Distinct(sched.rq) /\ Shape(test)
  BY Shapes DEF Inv, TypeOK
<1>1. PICK c \in {"sleep", "sigsuspend", "wait"} : Calls(p, c)
  BY DEF Sleep, Sigsuspend, Wait
<1>2. ip[p] \in DOMAIN Program(p) /\ Program(p)[ip[p]] = c
  BY <1>1, CallFacts
<1>3. p = Parent /\ test \notin Patient
  BY <1>0, <1>1, <1>2, TwoProcesses DEF Program, Shape
<1>4. test' = test
  BY DEF Sleep, Sigsuspend, Wait, setting
<1>5. CASE sched' = exit(sched, p) /\ UNCHANGED ip
  <2>1. /\ exit(sched, p) \in Kernel /\ Distinct(exit(sched, p).rq) /\ exit(sched, p).prio = sched.prio
        /\ Queued(exit(sched, p)) = Queued(sched) \ {p}
    BY <1>0, ExitFacts
  <2> QED BY <1>3, <1>4, <1>5, <2>1, TwoProcesses, StayInv
<1>6. CASE Return(p) /\ UNCHANGED sched
  <2>1. PrioMove(p, c)
    BY <1>1, <1>6 DEF PrioMove
  <2> QED BY <1>0, <1>1, <1>2, <1>4, <1>6, <2>1, MoveInv
<1> QED
  BY <1>5, <1>6 DEF Sleep, Sigsuspend, Wait

(* The parent wakes up, because the sleep is over or the alarm expires, or  *)
(* time passes.                                                             *)
LEMMA WakeInv ==
  ASSUME Inv, CPUs = 1, NumbersOK', SleepOver \/ AlarmExpires \/ TimePasses
  PROVE  Inv'
<1>0. sched \in Kernel /\ Distinct(sched.rq)
  BY DEF Inv, TypeOK
<1>1. test' = test
  BY DEF AlarmExpires, SleepOver, TimePasses, setting
<1>2. CASE UNCHANGED <<sched, ip>>
  BY <1>0, <1>1, <1>2, StayInv
<1>3. ASSUME NEW c \in {"sleep", "sigsuspend"}, Blocked(Parent, c), Return(Parent),
             sched' = Enqueue(sched, Parent)
      PROVE  Inv'
  <2>1. ip[Parent] \in DOMAIN Program(Parent) /\ Program(Parent)[ip[Parent]] = c
        /\ Parent \notin Queued(sched)
    BY <1>3 DEF Blocked
  <2>2. /\ sched' \in Kernel /\ Distinct(sched'.rq) /\ sched'.prio = sched.prio
        /\ Queued(sched)' = Queued(sched) \cup {Parent}
    BY <1>0, <1>3, <2>1, EnqueueFacts, TwoProcesses
  <2>3. PrioMove(Parent, c)
    BY <2>2 DEF PrioMove
  <2> QED BY <1>0, <1>1, <1>3, <2>1, <2>2, <2>3, TwoProcesses, MoveInv
<1> QED
  BY <1>2, <1>3 DEF AlarmExpires, SleepOver, TimePasses

(* The end of a process; the parent may be waiting for it.                  *)
LEMMA ExitInv ==
  ASSUME Inv, CPUs = 1, NumbersOK', NEW p \in Child, Exit(p)
  PROVE  Inv'
<1>0. /\ sched \in Kernel /\ Distinct(sched.rq) /\ Shape(test)
      /\ ip \in [Child -> Nat] /\ ip[Parent] \in Nat /\ ip[Kid] \in Nat
  BY Shapes, TwoProcesses DEF Inv, TypeOK
<1>1. p \in Queued(sched) /\ ip[p] \in DOMAIN Program(p) /\ Program(p)[ip[p]] = "exit"
  BY CallFacts DEF Exit
<1>2. test' = test
  BY DEF Exit, setting
<1>3. /\ exit(sched, p) \in Kernel /\ Distinct(exit(sched, p).rq) /\ exit(sched, p).prio = sched.prio
      /\ Queued(exit(sched, p)) = Queued(sched) \ {p}
  BY <1>0, ExitFacts
<1>4. CASE ~Blocked(Parent, "wait")
  <2>1. sched' = exit(sched, p) /\ Return(p)
    BY <1>4 DEF Exit
  <2>2. PrioMove(p, "exit")
    BY <1>3, <2>1 DEF PrioMove
  <2>3. Parent \in Queued(sched) => Parent \in Queued(sched)' \/ p = Parent
    BY <1>3, <2>1
  <2>4. Kid \in Queued(sched)' <=> Kid \in Queued(sched) /\ p # Kid
    BY <1>3, <2>1, TwoProcesses
  <2> QED BY <1>0, <1>1, <1>2, <1>3, <2>1, <2>2, <2>3, <2>4, MoveInv
<1>5. CASE Blocked(Parent, "wait")
  <2>1. /\ ip[Parent] \in DOMAIN test.parent /\ test.parent[ip[Parent]] = "wait"
        /\ Parent \notin Queued(sched)
    BY <1>5 DEF Blocked, Program
  <2>2. p = Kid /\ ip[Kid] \in DOMAIN test.child /\ test.child[ip[Kid]] = "exit"
    BY <1>1, <2>1, TwoProcesses DEF Program
  <2>3. test \notin Patient /\ ip[Parent] > 1 /\ ip[Kid] > 1 /\ ip[Kid] + 1 \notin DOMAIN test.child
    BY <1>0, <2>1, <2>2 DEF Shape
  <2>4. ip' \in [Child -> Nat] /\ ip'[Parent] = ip[Parent] + 1 /\ ip'[Kid] = ip[Kid] + 1
    <3>1. ip' = [q \in Child |-> ip[q] + 1]
      BY <1>5 DEF Exit
    <3> QED BY <1>0, <3>1, TwoProcesses
  <2>5. /\ sched' \in Kernel /\ Distinct(sched'.rq) /\ sched'.prio = sched.prio
        /\ Queued(sched)' = (Queued(sched) \ {p}) \cup {Parent}
    <3>1. sched' = Enqueue(exit(sched, p), Parent)
      BY <1>5, Zenon DEF Exit
    <3>2. Parent \notin Queued(exit(sched, p))
      BY <1>3, <2>1
    <3> QED BY <1>3, <3>1, <3>2, EnqueueFacts, TwoProcesses
  <2>6. TypeOK'
    BY <1>2, <2>4, <2>5 DEF Inv, TypeOK
  <2>7. ForkOnce'
    <3>1. Forked' <=> Forked
      <4>1. \A i \in DOMAIN test.parent : i \in Nat
        BY <1>0 DEF Shape
      <4>2. \A i \in DOMAIN test.parent :
              i < ip'[Parent] /\ test.parent[i] = "fork" <=> i < ip[Parent] /\ test.parent[i] = "fork"
        BY <1>0, <2>1, <2>4, <4>1
      <4> QED BY <1>2, <4>2 DEF Forked
    <3>2. Kid \notin Queued(sched)'
      BY <2>2, <2>5, TwoProcesses
    <3> QED BY <1>0, <1>2, <2>3, <2>4, <3>1, <3>2 DEF Inv, ForkOnce
  <2>8. ParentAbove'
    BY <1>0, <2>3, <2>4, <2>5 DEF Inv, ParentAbove
  <2>9. ParentAtWork'
    BY <1>2, <2>3 DEF ParentAtWork, Patient
  <2> QED BY <2>6, <2>7, <2>8, <2>9 DEF Inv
<1> QED
  BY <1>4, <1>5

(* The parent is alone at first.                                            *)
LEMMA InitInv == Init => Inv
<1> SUFFICES ASSUME Init PROVE Inv
  OBVIOUS
<1>1. /\ test \in Tests /\ ip \in [Child -> Nat] /\ ip[Parent] = 1 /\ ip[Kid] = 0 /\ Shape(test)
      /\ NumbersOK
  BY TwoProcesses, Shapes, ForkTestsAssumption DEF Init, NumbersOK
<1>2. NoChildren \in Kernel /\ NoChildren.rq = <<>> /\ Distinct(NoChildren.rq) /\ Queued(NoChildren) = {}
  <2>1. NoChildren.rq = <<>> /\ DOMAIN NoChildren.rq = {}
    BY DEF NoChildren
  <2>2. NoChildren \in Kernel
    BY DEF NoChildren, Kernel, PRIO_MIN, PRIO_MAX
  <2> QED BY <2>1, <2>2 DEF Distinct, Queued
<1>3. sched \in Kernel /\ Distinct(sched.rq) /\ Queued(sched) = {Parent}
  <2>1. sched = Enqueue(NoChildren, Parent)
    BY DEF Init
  <2> QED BY <1>2, <2>1, EnqueueFacts, TwoProcesses
<1>4. TypeOK
  BY <1>1, <1>3 DEF TypeOK
<1>5. ForkOnce
  <2>1. ~Forked
    BY <1>1 DEF Forked, Shape
  <2>2. 0 \notin DOMAIN test.child
    BY <1>1 DEF Shape
  <2> QED BY <1>1, <1>3, <2>1, <2>2, TwoProcesses DEF ForkOnce
<1>6. ParentAbove /\ ParentAtWork
  BY <1>1, <1>3 DEF ParentAbove, ParentAtWork
<1> QED
  BY <1>4, <1>5, <1>6 DEF Inv

(* Every step keeps the invariant.                                          *)
LEMMA NextInv == ASSUME CPUs = 1 PROVE Inv /\ [Next]_vars => Inv'
<1> SUFFICES ASSUME Inv, [Next]_vars PROVE Inv'
  OBVIOUS
<1>0. NumbersOK'
  BY Numbers
<1>1. CASE UNCHANGED vars
  <2>1. UNCHANGED <<test, ip>> /\ sched' = sched
    BY <1>1 DEF vars, setting
  <2> QED BY <1>0, <2>1, StayInv DEF Inv, TypeOK
<1>2. ASSUME NEW p \in Child, Step(p) PROVE Inv'
  BY <1>0, <1>2, PriorityInv, ForkInv, QuietInv, YieldInv, SaysInv, BlockInv, ExitInv DEF Step
<1>3. CASE SleepOver \/ AlarmExpires \/ TimePasses
  BY <1>0, <1>3, WakeInv
<1> QED
  BY <1>1, <1>2, <1>3 DEF Next

(* The tests keep their invariant on one CPU.                               *)
THEOREM Invariance == ASSUME CPUs = 1 PROVE Spec => []Inv
<1>1. Inv /\ [Next]_vars => Inv'
  BY NextInv
<1> QED
  BY <1>1, InitInv, PTL DEF Spec

-----------------------------------------------------------------------------
(* What is printed, and when *)

(* What a step does to the run list.                                        *)
LEMMA Lists ==
  ASSUME Inv, CPUs = 1, NEW p \in Child
  PROVE  /\ Fork(p) => Queued(sched') = Queued(sched) \cup {Kid}
         /\ Sleep(p) => Queued(sched') = Queued(sched) \ {p}
         /\ Sigsuspend(p) => Queued(sched') = IF pending THEN Queued(sched) ELSE Queued(sched) \ {p}
         /\ Wait(p) => Queued(sched') = IF Done(Kid) THEN Queued(sched) ELSE Queued(sched) \ {p}
         /\ Exit(p) => Queued(sched') = (Queued(sched) \ {p})
                                        \cup (IF Blocked(Parent, "wait") THEN {Parent} ELSE {})
         /\ SetParentPriority(p) \/ SetChildPriority(p) \/ SchedYield(p) => Queued(sched') = Queued(sched)
         /\ SleepOver => Queued(sched') = Queued(sched) \cup {Parent}
         /\ AlarmExpires => Queued(sched') = Queued(sched)
                                        \cup (IF Blocked(Parent, "sigsuspend") THEN {Parent} ELSE {})
<1>0. sched \in Kernel /\ Distinct(sched.rq) /\ Shape(test)
  BY Shapes DEF Inv, TypeOK
<1>1. /\ exit(sched, p) \in Kernel /\ Distinct(exit(sched, p).rq)
      /\ Queued(exit(sched, p)) = Queued(sched) \ {p}
  BY <1>0, ExitFacts
<1>2. Parent \notin Queued(sched) => Queued(Enqueue(sched, Parent)) = Queued(sched) \cup {Parent}
  BY <1>0, TwoProcesses, EnqueueFacts
<1>3. ASSUME Fork(p) PROVE Queued(sched') = Queued(sched) \cup {Kid}
  <2>1. ip[p] \in DOMAIN Program(p) /\ Program(p)[ip[p]] = "fork"
    BY <1>3, CallFacts DEF Fork
  <2>2. p = Parent /\ ip[Parent] \in DOMAIN test.parent /\ test.parent[ip[Parent]] = "fork"
    BY <1>0, <2>1, TwoProcesses DEF Program, Shape
  <2>3. ~Forked
    BY <1>0, <2>2 DEF Forked, Shape
  <2>4. ip[Kid] \in Nat
    BY TwoProcesses DEF Inv, TypeOK
  <2>5. Kid \notin Queued(sched)
    BY <1>0, <2>3, <2>4 DEF Inv, ForkOnce, Shape
  <2>6. sched' = [prio |-> [sched.prio EXCEPT ![Kid] = PRIO_MAX], rq |-> Append(sched.rq, Kid)]
    BY <1>3 DEF Fork, fork
  <2> QED BY <1>0, <2>5, <2>6, TwoProcesses, EnterKernel
<1>4. ASSUME Exit(p)
      PROVE Queued(sched') = (Queued(sched) \ {p}) \cup (IF Blocked(Parent, "wait") THEN {Parent} ELSE {})
  <2>1. CASE Blocked(Parent, "wait")
    <3>1. Parent \notin Queued(exit(sched, p))
      BY <1>1, <2>1 DEF Blocked
    <3>2. sched' = Enqueue(exit(sched, p), Parent)
      BY <1>4, <2>1, Zenon DEF Exit
    <3> QED BY <1>1, <2>1, <3>1, <3>2, TwoProcesses, EnqueueFacts
  <2>2. CASE ~Blocked(Parent, "wait")
    <3>1. sched' = exit(sched, p)
      BY <1>4, <2>2, Zenon DEF Exit
    <3> QED BY <1>1, <2>2, <3>1
  <2> QED BY <2>1, <2>2
<1>5. ASSUME SetParentPriority(p) \/ SetChildPriority(p) PROVE Queued(sched') = Queued(sched)
  BY <1>0, <1>5, SetPriorityFacts DEF SetParentPriority, SetChildPriority, set_child_priority
<1>6. ASSUME SchedYield(p) PROVE Queued(sched') = Queued(sched)
  <2>1. p \in Queued(sched) /\ p \notin Queued(exit(sched, p))
    BY <1>1, <1>6, CallFacts DEF SchedYield
  <2>2. Queued(Enqueue(exit(sched, p), p)) = Queued(exit(sched, p)) \cup {p}
    BY <1>1, <2>1, EnqueueFacts
  <2> QED BY <1>1, <1>6, <2>1, <2>2 DEF SchedYield
<1>7. Sleep(p) => Queued(sched') = Queued(sched) \ {p}
  BY <1>1 DEF Sleep
<1>8. Sigsuspend(p) => Queued(sched') = IF pending THEN Queued(sched) ELSE Queued(sched) \ {p}
  BY <1>1 DEF Sigsuspend
<1>9. Wait(p) => Queued(sched') = IF Done(Kid) THEN Queued(sched) ELSE Queued(sched) \ {p}
  BY <1>1 DEF Wait
<1>10. SleepOver => Queued(sched') = Queued(sched) \cup {Parent}
  BY <1>2 DEF SleepOver, Blocked
<1>11. ASSUME AlarmExpires
       PROVE Queued(sched') = Queued(sched) \cup (IF Blocked(Parent, "sigsuspend") THEN {Parent} ELSE {})
  <2>1. CASE Blocked(Parent, "sigsuspend")
    <3>1. sched' = Enqueue(sched, Parent) /\ Parent \notin Queued(sched)
      BY <1>11, <2>1 DEF AlarmExpires, Blocked
    <3> QED BY <1>2, <2>1, <3>1
  <2>2. CASE ~Blocked(Parent, "sigsuspend")
    BY <1>11, <2>2 DEF AlarmExpires
  <2> QED BY <2>1, <2>2
<1> QED
  BY <1>3, <1>4, <1>5, <1>6, <1>7, <1>8, <1>9, <1>10, <1>11

(* What a step does to the places in the programs.                          *)
LEMMA Places ==
  ASSUME Inv, CPUs = 1, NEW p \in Child
  PROVE  /\ ip[Parent] \in Nat /\ ip[Kid] \in Nat
         /\ p = Parent /\ Return(p) => ip'[Parent] = ip[Parent] + 1 /\ ip'[Kid] = ip[Kid]
         /\ p = Kid /\ Return(p) => ip'[Kid] = ip[Kid] + 1 /\ ip'[Parent] = ip[Parent]
         /\ Fork(p) => p = Parent /\ ip[Kid] = 0 /\ ip'[Kid] = 1 /\ ip'[Parent] = ip[Parent] + 1
         /\ Exit(p) /\ p = Parent => ip'[Parent] = ip[Parent] + 1 /\ ip'[Kid] = ip[Kid]
         /\ Exit(p) /\ p = Kid => /\ ip'[Kid] = ip[Kid] + 1
                                  /\ ip'[Parent] = IF Blocked(Parent, "wait") THEN ip[Parent] + 1
                                                    ELSE ip[Parent]
<1>0. ip \in [Child -> Nat] /\ Shape(test)
  BY Shapes DEF Inv, TypeOK
<1>1. ip[Parent] \in Nat /\ ip[Kid] \in Nat
  BY <1>0, TwoProcesses
<1>2. p = Parent /\ Return(p) => ip'[Parent] = ip[Parent] + 1 /\ ip'[Kid] = ip[Kid]
  BY <1>0, TwoProcesses DEF Return
<1>3. p = Kid /\ Return(p) => ip'[Kid] = ip[Kid] + 1 /\ ip'[Parent] = ip[Parent]
  BY <1>0, TwoProcesses DEF Return
<1>4. ASSUME Fork(p)
      PROVE  p = Parent /\ ip[Kid] = 0 /\ ip'[Kid] = 1 /\ ip'[Parent] = ip[Parent] + 1
  <2>1. ip[p] \in DOMAIN Program(p) /\ Program(p)[ip[p]] = "fork"
    BY <1>4, CallFacts DEF Fork
  <2>2. p = Parent /\ ip[Parent] \in DOMAIN test.parent /\ test.parent[ip[Parent]] = "fork"
    BY <1>0, <2>1, TwoProcesses DEF Program, Shape
  <2>3. ~Forked
    BY <1>0, <2>2 DEF Forked, Shape
  <2> QED BY <1>0, <1>1, <1>4, <2>2, <2>3, TwoProcesses DEF Inv, ForkOnce, Fork
<1>5. ASSUME Exit(p), p = Parent PROVE ip'[Parent] = ip[Parent] + 1 /\ ip'[Kid] = ip[Kid]
  <2>1. p \in Queued(sched)
    BY <1>5, CallFacts DEF Exit
  <2>2. ~Blocked(Parent, "wait")
    BY <1>5, <2>1 DEF Blocked
  <2> QED BY <1>2, <1>5, <2>2 DEF Exit
<1>6. ASSUME Exit(p), p = Kid
      PROVE  /\ ip'[Kid] = ip[Kid] + 1
             /\ ip'[Parent] = IF Blocked(Parent, "wait") THEN ip[Parent] + 1 ELSE ip[Parent]
  <2>1. CASE Blocked(Parent, "wait")
    <3>1. ip' = [q \in Child |-> ip[q] + 1]
      BY <1>6, <2>1 DEF Exit
    <3> QED BY <2>1, <3>1, TwoProcesses
  <2>2. CASE ~Blocked(Parent, "wait")
    BY <1>3, <1>6, <2>2 DEF Exit
  <2> QED BY <2>1, <2>2
<1> QED
  BY <1>1, <1>2, <1>3, <1>4, <1>5, <1>6

(* One more message of those that are expected.                             *)
LEMMA Prints ==
  ASSUME NEW n \in Nat, NEW m \in Outputs, Printed(n), test' = test, said' = Append(said, m),
         test.expected[n + 1] = m
  PROVE  Printed(n + 1)'
<1>1. /\ said \in Seq(Outputs) /\ Len(said) = n
      /\ \A i \in 1 .. n : said[i] = test.expected[i]
  BY DEF Printed
<1>2. /\ said' \in Seq(Outputs) /\ Len(said') = n + 1
      /\ \A i \in 1 .. n : said'[i] = said[i]
      /\ said'[n + 1] = m
  BY <1>1, AppendProperties
<1> QED
  BY <1>1, <1>2 DEF Printed

(* Every step of a process is one of its calls, and only a message prints.  *)
LEMMA Quiet ==
  ASSUME Next, said' # said
  PROVE  \E p \in Child : Says(p)
BY DEF Next, Step, SetParentPriority, SetChildPriority, Fork, RunSingleUnit, SchedYield, Sleep,
       BlockSigalrm, SetAlarm, Sigsuspend, Wait, Exit, SleepOver, AlarmExpires, TimePasses

-----------------------------------------------------------------------------
(* priority_test, fork_test, fork_priority_test: no timer is set.           *)

(* The calls of these tests.                                                *)
LEMMA PatientCalls ==
  ASSUME Inv, CPUs = 1, test \notin {fork_block_test, fork_signal_test},
         NEW p \in Child, NEW c, Calls(p, c)
  PROVE  \/ p = Parent /\ c \notin Messages \cup {"yes?", "no?"}
         \/ /\ p = Kid /\ test \in Patient
            /\ c # "set_child_priority" => Parent \notin Queued(sched)
            /\ \/ ip[Kid] = 1 /\ c = "set_child_priority"
               \/ ip[Kid] = 2 /\ c = "yes?"
               \/ ip[Kid] = 3 /\ c = "exit"
<1>0. test \in {priority_test, fork_test, fork_priority_test}
  BY DEF Inv, TypeOK, Tests
<1>1. /\ ip[p] \in DOMAIN Program(p) /\ Program(p)[ip[p]] = c
      /\ p = Kid /\ c # "set_child_priority" => Parent \notin Queued(sched)
  BY CallFacts
<1>2. CASE p = Parent
  BY <1>0, <1>1, <1>2 DEF Program, Messages, priority_test, fork_test, fork_priority_test
<1>3. CASE p = Kid
  <2>1. test # priority_test
    BY <1>1, <1>3, TwoProcesses DEF Program, priority_test
  <2>2. test.child = <<"set_child_priority", "yes?", "exit">> /\ test \in Patient
    BY <1>0, <2>1 DEF Patient, fork_test, fork_priority_test
  <2>3. ip[Kid] \in DOMAIN test.child /\ test.child[ip[Kid]] = c
    BY <1>1, <1>3, TwoProcesses DEF Program
  <2> QED BY <1>1, <1>3, <2>2, <2>3
<1> QED
  BY <1>2, <1>3, TwoProcesses

(* The child says Success, since it comes to that when its parent has left  *)
(* the run list for good.                                                   *)
LEMMA PatientNext ==
  ASSUME Inv, CPUs = 1, PatientOutput, Next
  PROVE  PatientOutput'
<1>0. test' = test
  BY Numbers DEF setting
<1> DEFINE N == IF ip[Kid] <= 2 THEN 0 ELSE 1
<1> SUFFICES ASSUME test \notin {fork_block_test, fork_signal_test} PROVE Printed(N)'
  BY <1>0 DEF PatientOutput
<1>1. Printed(N) /\ ip[Kid] \in Nat
  BY Places, TwoProcesses DEF PatientOutput
<1>2. ASSUME NEW p \in Child, Says(p) PROVE Printed(N)'
  <2>1. PICK c \in Messages \cup {"yes?", "no?"} : Calls(p, c)
    BY <1>2 DEF Says
  <2>2. p = Kid /\ test \in Patient /\ Parent \notin Queued(sched) /\ ip[Kid] = 2 /\ c = "yes?"
    BY <2>1, PatientCalls DEF Messages
  <2>3. parent_is_terminated
    BY <2>2 DEF Inv, ParentAtWork, Patient, parent_is_terminated
  <2>4. \A d : Calls(p, d) => d = "yes?"
    BY <2>1, <2>2 DEF Calls
  <2>5. said' = Append(said, "Success")
    BY <1>2, <2>3, <2>4 DEF Says, Messages
  <2>6. ip'[Kid] = 3
    BY <1>2, <2>2, Places DEF Says
  <2>7. test.expected[0 + 1] = "Success" /\ Printed(0)
    BY <1>1, <2>2 DEF Patient, fork_test, fork_priority_test
  <2>8. Printed(0 + 1)'
    <3>1. 0 \in Nat /\ "Success" \in Outputs
      BY DEF Outputs
    <3> QED BY <1>0, <2>5, <2>7, <3>1, Prints, Zenon
  <2> QED BY <2>6, <2>8
<1>3. ASSUME said' = said, ip'[Kid] <= 2 <=> ip[Kid] <= 2 PROVE Printed(N)'
  BY <1>0, <1>1, <1>3 DEF Printed
<1>4. ASSUME NEW p \in Child, Step(p), ~Says(p) PROVE ip'[Kid] <= 2 <=> ip[Kid] <= 2
  <2>1. CASE Fork(p)
    BY <2>1, Places
  <2>2. CASE p = Parent /\ ~Fork(p)
    <3>1. CASE Exit(p)
      BY <2>2, <3>1, Places
    <3>2. CASE Return(p)
      BY <2>2, <3>2, Places
    <3>3. CASE UNCHANGED ip
      BY <3>3
    <3> QED BY <1>4, <2>2, <3>1, <3>2, <3>3
        DEF Step, SetParentPriority, SetChildPriority, RunSingleUnit, SchedYield, Sleep,
            BlockSigalrm, SetAlarm, Sigsuspend, Wait
  <2>3. CASE p = Kid
    <3>1. CASE SetChildPriority(p)
      <4>1. ip[Kid] = 1
        BY <2>3, <3>1, PatientCalls, TwoProcesses DEF SetChildPriority
      <4> QED BY <2>3, <3>1, <4>1, Places DEF SetChildPriority
    <3>2. CASE Exit(p)
      <4>1. ip[Kid] = 3
        BY <2>3, <3>2, PatientCalls, TwoProcesses DEF Exit
      <4> QED BY <2>3, <3>2, <4>1, Places
    <3>3. \A c : Calls(p, c) => c \in {"set_child_priority", "yes?", "exit"}
      BY <2>3, PatientCalls, TwoProcesses
    <3> QED BY <1>4, <3>1, <3>2, <3>3
        DEF Step, SetParentPriority, Fork, RunSingleUnit, SchedYield, Sleep, BlockSigalrm, SetAlarm,
            Sigsuspend, Wait
  <2> QED BY <2>1, <2>2, <2>3, TwoProcesses
<1>5. ASSUME SleepOver \/ AlarmExpires \/ TimePasses PROVE ip'[Kid] = ip[Kid]
  BY <1>5, Places, TwoProcesses DEF SleepOver, AlarmExpires, TimePasses
<1> QED
  BY <1>2, <1>3, <1>4, <1>5, Quiet DEF Next

-----------------------------------------------------------------------------
(* fork_block_test                                                          *)

(* Where its processes are, and which calls they make there.                *)
LEMMA BlockPlaces ==
  ASSUME Inv, CPUs = 1, test = fork_block_test
  PROVE  /\ ip[Parent] \in Nat \ {0} /\ ip[Kid] \in Nat
         /\ ip[Kid] > 0 <=> ip[Parent] > 2
         /\ Kid \in Queued(sched) <=> ip[Kid] \in 1 .. 3
         /\ Done(Parent) <=> ip[Parent] > 4
         /\ Blocked(Parent, "sleep") <=> ip[Parent] = 3 /\ Parent \notin Queued(sched)
         /\ ~Blocked(Parent, "sigsuspend")
         /\ \A p \in Child : \A c : Calls(p, c) =>
              \/ /\ p = Parent /\ Parent \in Queued(sched)
                 /\ \/ ip[Parent] = 1 /\ c = "set_parent_priority"
                    \/ ip[Parent] = 2 /\ c = "fork"
                    \/ ip[Parent] = 3 /\ c = "sleep"
                    \/ ip[Parent] = 4 /\ c = "exit"
              \/ /\ p = Kid
                 /\ \/ ip[Kid] = 1 /\ c = "set_child_priority"
                    \/ ip[Kid] = 2 /\ c = "no?"
                    \/ ip[Kid] = 3 /\ c = "exit"
<1>1. /\ DOMAIN test.parent = 1 .. 4 /\ Len(test.parent) = 4
      /\ test.parent[1] = "set_parent_priority" /\ test.parent[2] = "fork"
      /\ test.parent[3] = "sleep" /\ test.parent[4] = "exit"
      /\ DOMAIN test.child = 1 .. 3
      /\ test.child[1] = "set_child_priority" /\ test.child[2] = "no?" /\ test.child[3] = "exit"
  BY DEF fork_block_test
<1>2. ip[Parent] \in Nat \ {0} /\ ip[Kid] \in Nat
  BY Places, TwoProcesses DEF Inv, ParentAbove
<1>3. Forked <=> ip[Parent] > 2
  BY <1>1, <1>2 DEF Forked
<1>4. /\ ip[Kid] > 0 <=> ip[Parent] > 2
      /\ Kid \in Queued(sched) <=> ip[Kid] \in 1 .. 3
  BY <1>1, <1>3 DEF Inv, ForkOnce
<1>5. /\ Done(Parent) <=> ip[Parent] > 4
      /\ Blocked(Parent, "sleep") <=> ip[Parent] = 3 /\ Parent \notin Queued(sched)
      /\ ~Blocked(Parent, "sigsuspend")
  <2>1. Program(Parent) = test.parent
    BY DEF Program
  <2>2. Done(Parent) <=> ip[Parent] > 4
    BY <1>1, <2>1 DEF Done
  <2>3. \A c : Blocked(Parent, c) <=> /\ ip[Parent] \in 1 .. 4 /\ Parent \notin Queued(sched)
                                     /\ test.parent[ip[Parent]] = c
    BY <1>1, <2>1 DEF Blocked
  <2>4. ip[Parent] \in 1 .. 4 => ip[Parent] \in {1, 2, 3, 4}
    BY <1>2
  <2> QED BY <1>1, <1>2, <2>2, <2>3, <2>4
<1>6. ASSUME NEW p \in Child, NEW c, Calls(p, c)
      PROVE  \/ /\ p = Parent /\ Parent \in Queued(sched)
                /\ \/ ip[Parent] = 1 /\ c = "set_parent_priority"
                   \/ ip[Parent] = 2 /\ c = "fork"
                   \/ ip[Parent] = 3 /\ c = "sleep"
                   \/ ip[Parent] = 4 /\ c = "exit"
             \/ /\ p = Kid
                /\ \/ ip[Kid] = 1 /\ c = "set_child_priority"
                   \/ ip[Kid] = 2 /\ c = "no?"
                   \/ ip[Kid] = 3 /\ c = "exit"
  <2>1. p \in Queued(sched) /\ ip[p] \in DOMAIN Program(p) /\ Program(p)[ip[p]] = c
    BY <1>6, CallFacts
  <2> QED BY <1>1, <2>1, TwoProcesses DEF Program
<1> QED
  BY <1>2, <1>4, <1>5, <1>6

(* The parent sleeps until the child has looked.                            *)
LEMMA BlockNext ==
  ASSUME Inv, CPUs = 1, BlockInTime, Next
  PROVE  BlockInTime'
<1>0. test' = test /\ second' = second
  BY Numbers DEF setting
<1>n. second \in Nat \ {0} /\ timer \in Int /\ spent \in Nat
  BY DEF Inv, TypeOK, NumbersOK
<1> DEFINE N == IF ip[Kid] <= 2 THEN 0 ELSE 1
           Asleep == ip[Kid] <= 3 =>
                       /\ ip[Parent] <= 3
                       /\ IF Parent \in Queued(sched) THEN timer = -1 /\ spent = 0
                          ELSE ip[Parent] = 3 /\ timer = 10 * second - spent
<1> SUFFICES ASSUME test = fork_block_test, InTime' PROVE Printed(N)' /\ Asleep'
  BY <1>0 DEF BlockInTime
<1>1. spent' = spent \/ spent' = spent + 1
  BY DEF Next, Step, SetParentPriority, SetChildPriority, Fork, RunSingleUnit, SchedYield, Says, Sleep,
      BlockSigalrm, SetAlarm, Sigsuspend, Wait, Exit, SleepOver, AlarmExpires, TimePasses
<1>2. spent < 10 * second /\ (test = fork_signal_test => spent < second /\ second <= RunUnits)
  BY <1>0, <1>n, <1>1 DEF InTime
<1>3. Printed(N) /\ Asleep
  BY <1>2 DEF BlockInTime, InTime
<1> DEFINE Same == said' = said /\ (ip'[Kid] <= 2 <=> ip[Kid] <= 2)
<1>4. Same => Printed(N)'
  BY <1>0, <1>3 DEF Printed
<1>5. /\ ip[Parent] \in Nat \ {0} /\ ip[Kid] \in Nat
      /\ ip[Kid] > 0 <=> ip[Parent] > 2
      /\ Kid \in Queued(sched) <=> ip[Kid] \in 1 .. 3
      /\ Done(Parent) <=> ip[Parent] > 4
      /\ Blocked(Parent, "sleep") <=> ip[Parent] = 3 /\ Parent \notin Queued(sched)
      /\ ~Blocked(Parent, "sigsuspend")
  BY BlockPlaces
<1> HIDE DEF N
<1>6. ASSUME NEW p \in Child, SetParentPriority(p) \/ SetChildPriority(p) PROVE Same /\ Asleep'
  <2>1. \/ p = Parent /\ ip[Parent] = 1
        \/ p = Kid /\ ip[Kid] = 1
    BY <1>6, BlockPlaces DEF SetParentPriority, SetChildPriority
  <2>2. /\ said' = said /\ timer' = timer /\ spent' = spent /\ Return(p)
        /\ Queued(sched') = Queued(sched)
    BY <1>6, Lists DEF SetParentPriority, SetChildPriority
  <2>3. \/ ip[Parent] = 1 /\ ip'[Parent] = 2 /\ ip'[Kid] = ip[Kid]
        \/ ip[Kid] = 1 /\ ip'[Kid] = 2 /\ ip'[Parent] = ip[Parent]
    BY <2>1, <2>2, Places
  <2> QED BY <1>0, <1>3, <1>5, <2>2, <2>3
<1>7. ASSUME NEW p \in Child, Fork(p) PROVE Same /\ Asleep'
  <2>1. p = Parent /\ ip[Parent] = 2 /\ Parent \in Queued(sched)
    BY <1>7, BlockPlaces DEF Fork
  <2>2. said' = said /\ timer' = timer /\ spent' = spent /\ Parent \in Queued(sched')
    BY <1>7, <2>1, Lists DEF Fork
  <2>3. ip[Kid] = 0 /\ ip'[Kid] = 1 /\ ip'[Parent] = 3
    BY <1>7, <2>1, Places
  <2> QED BY <1>0, <1>3, <2>1, <2>2, <2>3
<1>8. ASSUME NEW p \in Child, Says(p) PROVE Printed(N)' /\ Asleep'
  <2>1. p = Kid /\ ip[Kid] = 2 /\ \A d : Calls(p, d) => d = "no?"
    BY <1>8, BlockPlaces DEF Says, Messages
  <2>2. ~parent_is_terminated
    BY <1>3, <1>5, <2>1 DEF parent_is_terminated
  <2>3. said' = Append(said, "Success")
    BY <1>8, <2>1, <2>2 DEF Says, Messages
  <2>4. ip'[Kid] = 3 /\ ip'[Parent] = ip[Parent]
    BY <1>8, <2>1, Places DEF Says
  <2>5. test.expected[0 + 1] = "Success" /\ Printed(0)
    BY <1>3, <2>1 DEF fork_block_test, N
  <2>6. Printed(0 + 1)'
    <3>1. 0 \in Nat /\ "Success" \in Outputs
      BY DEF Outputs
    <3> QED BY <1>0, <2>3, <2>5, <3>1, Prints, Zenon
  <2>7. Printed(N)'
    BY <2>4, <2>6 DEF N
  <2>8. sched' = sched /\ timer' = timer /\ spent' = spent
    BY <1>8 DEF Says
  <2> QED BY <1>0, <1>3, <2>1, <2>4, <2>7, <2>8
<1>9. ASSUME NEW p \in Child, Sleep(p) PROVE Same /\ Asleep'
  <2>1. p = Parent /\ ip[Parent] = 3 /\ Parent \in Queued(sched)
    BY <1>9, BlockPlaces DEF Sleep
  <2>2. /\ said' = said /\ timer' = 10 * second /\ spent' = spent /\ ip' = ip
        /\ Parent \notin Queued(sched')
    BY <1>9, <2>1, Lists DEF Sleep
  <2> QED BY <1>0, <1>n, <1>3, <2>1, <2>2
<1>10. ASSUME NEW p \in Child, Exit(p) PROVE Same /\ Asleep'
  <2>1. \/ p = Parent /\ ip[Parent] = 4
        \/ p = Kid /\ ip[Kid] = 3
    BY <1>10, BlockPlaces DEF Exit
  <2>2. said' = said
    BY <1>10 DEF Exit
  <2>3. \/ ip[Parent] = 4 /\ ip'[Kid] = ip[Kid]
        \/ ip[Kid] = 3 /\ ip'[Kid] = 4
    BY <1>10, <2>1, Places
  <2> QED BY <1>3, <1>5, <2>2, <2>3
<1>11. ASSUME SleepOver \/ AlarmExpires PROVE Same /\ Asleep'
  <2>1. timer = 0 /\ said' = said /\ ip'[Kid] = ip[Kid]
    BY <1>11, Places, TwoProcesses DEF SleepOver, AlarmExpires
  <2>2. ip[Kid] > 3
    BY <1>n, <1>2, <1>3, <1>5, <2>1
  <2> QED BY <1>5, <2>1, <2>2
<1>12. ASSUME TimePasses PROVE Same /\ Asleep'
  <2>1. timer > 0 /\ timer' = timer - 1 /\ said' = said /\ ip' = ip /\ sched' = sched
    BY <1>12 DEF TimePasses
  <2>2. ip[Kid] <= 3 => spent' = spent + 1
    BY <1>3, <1>5, <1>12, <2>1 DEF TimePasses
  <2> QED BY <1>0, <1>n, <1>3, <2>1, <2>2
<1>13. ASSUME NEW p \in Child, Step(p) PROVE Printed(N)' /\ Asleep'
  <2>1. \A c : Calls(p, c) => c \in {"set_parent_priority", "set_child_priority", "fork", "sleep", "no?", "exit"}
    BY BlockPlaces
  <2>2. ~(RunSingleUnit(p) \/ SchedYield(p) \/ BlockSigalrm(p) \/ SetAlarm(p) \/ Sigsuspend(p) \/ Wait(p))
    BY <2>1 DEF RunSingleUnit, SchedYield, BlockSigalrm, SetAlarm, Sigsuspend, Wait
  <2> QED BY <1>4, <1>6, <1>7, <1>8, <1>9, <1>10, <1>13, <2>2 DEF Step
<1> QED
  BY <1>4, <1>11, <1>12, <1>13 DEF Next

-----------------------------------------------------------------------------
(* fork_signal_test                                                         *)

(* Where its processes are, and which calls they make there.                *)
LEMMA SignalPlaces ==
  ASSUME Inv, CPUs = 1, test = fork_signal_test
  PROVE  /\ ip[Parent] \in Nat \ {0} /\ ip[Kid] \in Nat
         /\ ip[Kid] > 0 <=> ip[Parent] > 4
         /\ Kid \in Queued(sched) <=> ip[Kid] \in 1 .. 5
         /\ Done(Kid) <=> ip[Kid] > 5
         /\ Blocked(Parent, "sigsuspend") <=> ip[Parent] = 5 /\ Parent \notin Queued(sched)
         /\ Blocked(Parent, "wait") <=> ip[Parent] = 7 /\ Parent \notin Queued(sched)
         /\ ~Blocked(Parent, "sleep")
         /\ \A p \in Child : \A c : Calls(p, c) =>
              /\ timer # 0
              /\ \/ /\ p = Parent /\ Parent \in Queued(sched)
                    /\ \/ ip[Parent] = 1 /\ c = "set_parent_priority"
                       \/ ip[Parent] = 2 /\ c = "sigprocmask"
                       \/ ip[Parent] = 3 /\ c = "alarm"
                       \/ ip[Parent] = 4 /\ c = "fork"
                       \/ ip[Parent] = 5 /\ c = "sigsuspend"
                       \/ ip[Parent] = 6 /\ c = "awoken"
                       \/ ip[Parent] = 7 /\ c = "wait"
                       \/ ip[Parent] = 8 /\ c = "exit"
                 \/ p = Kid /\ ip[Kid] = 1 /\ c = "set_child_priority"
                 \/ /\ p = Kid /\ Parent \notin Queued(sched)
                    /\ \/ ip[Kid] = 2 /\ c = "begins"
                       \/ ip[Kid] = 3 /\ c = "run"
                       \/ ip[Kid] = 4 /\ c = "ends"
                       \/ ip[Kid] = 5 /\ c = "exit"
<1>1. /\ DOMAIN test.parent = 1 .. 8
      /\ test.parent[1] = "set_parent_priority" /\ test.parent[2] = "sigprocmask"
      /\ test.parent[3] = "alarm" /\ test.parent[4] = "fork"
      /\ test.parent[5] = "sigsuspend" /\ test.parent[6] = "awoken"
      /\ test.parent[7] = "wait" /\ test.parent[8] = "exit"
  BY DEF fork_signal_test
<1>2. /\ DOMAIN test.child = 1 .. 5 /\ Len(test.child) = 5
      /\ test.child[1] = "set_child_priority" /\ test.child[2] = "begins"
      /\ test.child[3] = "run" /\ test.child[4] = "ends" /\ test.child[5] = "exit"
  BY DEF fork_signal_test
<1>3. ip[Parent] \in Nat \ {0} /\ ip[Kid] \in Nat
  BY Places, TwoProcesses DEF Inv, ParentAbove
<1>4. Forked <=> ip[Parent] > 4
  BY <1>1, <1>3 DEF Forked
<1>5. /\ ip[Kid] > 0 <=> ip[Parent] > 4
      /\ Kid \in Queued(sched) <=> ip[Kid] \in 1 .. 5
  BY <1>2, <1>4 DEF Inv, ForkOnce
<1>6. Program(Parent) = test.parent /\ Program(Kid) = test.child
  BY TwoProcesses DEF Program
<1>7. Done(Kid) <=> ip[Kid] > 5
  BY <1>2, <1>6 DEF Done
<1>8. ip[Parent] \in 1 .. 8 => ip[Parent] \in {1, 2, 3, 4, 5, 6, 7, 8}
  BY <1>3
<1>9. ip[Kid] \in 1 .. 5 => ip[Kid] \in {1, 2, 3, 4, 5}
  BY <1>3
<1>10. /\ Blocked(Parent, "sigsuspend") <=> ip[Parent] = 5 /\ Parent \notin Queued(sched)
       /\ Blocked(Parent, "wait") <=> ip[Parent] = 7 /\ Parent \notin Queued(sched)
       /\ ~Blocked(Parent, "sleep")
  <2>1. \A c : Blocked(Parent, c) <=> /\ ip[Parent] \in 1 .. 8 /\ Parent \notin Queued(sched)
                                     /\ test.parent[ip[Parent]] = c
    BY <1>1, <1>6 DEF Blocked
  <2> QED BY <1>1, <1>3, <1>8, <2>1
<1>11. ASSUME NEW p \in Child, NEW c, Calls(p, c)
       PROVE  /\ timer # 0
              /\ \/ /\ p = Parent /\ Parent \in Queued(sched)
                    /\ \/ ip[Parent] = 1 /\ c = "set_parent_priority"
                       \/ ip[Parent] = 2 /\ c = "sigprocmask"
                       \/ ip[Parent] = 3 /\ c = "alarm"
                       \/ ip[Parent] = 4 /\ c = "fork"
                       \/ ip[Parent] = 5 /\ c = "sigsuspend"
                       \/ ip[Parent] = 6 /\ c = "awoken"
                       \/ ip[Parent] = 7 /\ c = "wait"
                       \/ ip[Parent] = 8 /\ c = "exit"
                 \/ p = Kid /\ ip[Kid] = 1 /\ c = "set_child_priority"
                 \/ /\ p = Kid /\ Parent \notin Queued(sched)
                    /\ \/ ip[Kid] = 2 /\ c = "begins"
                       \/ ip[Kid] = 3 /\ c = "run"
                       \/ ip[Kid] = 4 /\ c = "ends"
                       \/ ip[Kid] = 5 /\ c = "exit"
  <2>1. /\ p \in Queued(sched) /\ ip[p] \in DOMAIN Program(p) /\ Program(p)[ip[p]] = c
        /\ p = Kid /\ c # "set_child_priority" => Parent \notin Queued(sched)
    BY <1>11, CallFacts
  <2>2. timer # 0
    BY <1>11 DEF Calls
  <2>3. CASE p = Parent
    BY <1>1, <1>6, <1>8, <2>1, <2>2, <2>3
  <2>4. CASE p = Kid
    BY <1>2, <1>6, <1>9, <2>1, <2>2, <2>4
  <2> QED BY <2>3, <2>4, TwoProcesses
<1> QED
  BY <1>3, <1>5, <1>7, <1>10, <1>11

(* The alarm comes in the child's loop and finds the parent in sigsuspend.  *)
LEMMA SignalNext ==
  ASSUME Inv, CPUs = 1, SignalInTime, Next
  PROVE  SignalInTime'
<1>0. test' = test /\ second' = second
  BY Numbers DEF setting
<1>n. /\ second \in Nat \ {0} /\ timer \in Int /\ spent \in Nat /\ RunUnits \in Nat \ {0}
      /\ left \in [Child -> Int] /\ left[Kid] \in Int
  BY ForkTestsAssumption, TwoProcesses DEF Inv, TypeOK, NumbersOK
<1> DEFINE N == IF ip[Kid] <= 2 THEN 0 ELSE IF ip[Parent] <= 6 THEN 1
                ELSE IF ip[Kid] <= 4 THEN 2 ELSE 3
           Course ==
             /\ ip[Kid] <= 2 => left[Kid] = RunUnits
             /\ ip[Kid] = 3 => left[Kid] > 0
             /\ ip[Kid] > 3 => left[Kid] = 0
             /\ ip[Kid] > 4 => ip[Parent] > 6
             /\ ip[Parent] \in {1, 2, 3, 4, 6} => Parent \in Queued(sched)
             /\ ip[Parent] <= 3 => timer = -1 /\ spent = 0
             /\ ip[Parent] \in {4, 5} => timer >= 0 /\ timer = second - spent - (RunUnits - left[Kid])
             /\ ip[Parent] <= 5 => ~pending
             /\ ip[Parent] = 5 /\ ip[Kid] > 2 => Parent \notin Queued(sched)
             /\ ip[Parent] > 5 => timer = -1 /\ ip[Kid] > 2
             /\ ip[Parent] > 7 => ip[Kid] > 5
<1> SUFFICES ASSUME test = fork_signal_test, InTime' PROVE Printed(N)' /\ Course'
  BY <1>0 DEF SignalInTime
<1>1. spent' = spent \/ spent' = spent + 1
  BY DEF Next, Step, SetParentPriority, SetChildPriority, Fork, RunSingleUnit, SchedYield, Says, Sleep,
      BlockSigalrm, SetAlarm, Sigsuspend, Wait, Exit, SleepOver, AlarmExpires, TimePasses
<1>2. spent < second /\ second <= RunUnits
  BY <1>0, <1>n, <1>1 DEF InTime
<1>3. InTime
  BY <1>2, <1>n DEF InTime
<1>4. Printed(N) /\ Course
  BY <1>3 DEF SignalInTime
<1>5. /\ ip[Parent] \in Nat \ {0} /\ ip[Kid] \in Nat
      /\ ip[Kid] > 0 <=> ip[Parent] > 4
      /\ Kid \in Queued(sched) <=> ip[Kid] \in 1 .. 5
      /\ Done(Kid) <=> ip[Kid] > 5
      /\ Blocked(Parent, "sigsuspend") <=> ip[Parent] = 5 /\ Parent \notin Queued(sched)
      /\ Blocked(Parent, "wait") <=> ip[Parent] = 7 /\ Parent \notin Queued(sched)
      /\ ~Blocked(Parent, "sleep")
  BY SignalPlaces
<1> DEFINE Same == said' = said /\ N' = N
<1>6. Same => Printed(N)'
  <2> HIDE DEF N
  <2> QED BY <1>0, <1>4 DEF Printed
<1>7. ASSUME NEW p \in Child, SetParentPriority(p) \/ SetChildPriority(p) \/ BlockSigalrm(p)
      PROVE  Same /\ Course'
  <2>1. \/ p = Parent /\ ip[Parent] \in {1, 2}
        \/ p = Kid /\ ip[Kid] = 1
    BY <1>7, SignalPlaces DEF SetParentPriority, SetChildPriority, BlockSigalrm
  <2>2. /\ said' = said /\ timer' = timer /\ spent' = spent /\ left' = left /\ pending' = pending
        /\ Return(p) /\ Queued(sched') = Queued(sched)
    BY <1>7, Lists DEF SetParentPriority, SetChildPriority, BlockSigalrm
  <2>3. \/ ip[Parent] \in {1, 2} /\ ip'[Parent] = ip[Parent] + 1 /\ ip'[Kid] = ip[Kid]
        \/ ip[Kid] = 1 /\ ip'[Kid] = 2 /\ ip'[Parent] = ip[Parent]
    BY <2>1, <2>2, Places
  <2> QED BY <1>0, <1>4, <1>5, <2>2, <2>3
<1>8. ASSUME NEW p \in Child, SetAlarm(p) PROVE Same /\ Course'
  <2>1. p = Parent /\ ip[Parent] = 3 /\ Parent \in Queued(sched)
    BY <1>8, SignalPlaces DEF SetAlarm
  <2>2. /\ said' = said /\ timer' = second /\ spent' = spent /\ left' = left /\ pending' = pending
        /\ Return(p) /\ sched' = sched
    BY <1>8 DEF SetAlarm
  <2>3. ip'[Parent] = 4 /\ ip'[Kid] = ip[Kid] /\ ip[Kid] = 0
    BY <1>5, <2>1, <2>2, Places
  <2> QED BY <1>0, <1>n, <1>4, <1>5, <2>1, <2>2, <2>3
<1>9. ASSUME NEW p \in Child, Fork(p) PROVE Same /\ Course'
  <2>1. p = Parent /\ ip[Parent] = 4 /\ Parent \in Queued(sched)
    BY <1>9, SignalPlaces DEF Fork
  <2>2. /\ said' = said /\ timer' = timer /\ spent' = spent /\ left' = left /\ pending' = pending
        /\ Parent \in Queued(sched')
    BY <1>9, <2>1, Lists DEF Fork
  <2>3. ip[Kid] = 0 /\ ip'[Kid] = 1 /\ ip'[Parent] = 5
    BY <1>9, <2>1, Places
  <2> QED BY <1>0, <1>4, <2>1, <2>2, <2>3
<1>10. ASSUME NEW p \in Child, Sigsuspend(p) PROVE Same /\ Course'
  <2>1. p = Parent /\ ip[Parent] = 5 /\ ~pending
    BY <1>4, <1>10, SignalPlaces DEF Sigsuspend
  <2>2. /\ said' = said /\ timer' = timer /\ spent' = spent /\ left' = left /\ ~pending'
        /\ ip' = ip /\ Parent \notin Queued(sched')
    BY <1>10, <2>1, Lists DEF Sigsuspend
  <2> QED BY <1>0, <1>4, <2>1, <2>2
<1>11. ASSUME NEW p \in Child, RunSingleUnit(p) PROVE Same /\ Course'
  <2>1. p = Kid /\ ip[Kid] = 3 /\ Parent \notin Queued(sched) /\ timer # 0
    BY <1>11, SignalPlaces DEF RunSingleUnit
  <2>2. /\ said' = said /\ spent' = spent /\ sched' = sched /\ pending' = pending
        /\ timer' = IF timer > 0 THEN timer - 1 ELSE timer
        /\ left'[Kid] = left[Kid] - 1
    BY <1>n, <1>11, <2>1, TwoProcesses DEF RunSingleUnit
  <2>3. ip'[Parent] = ip[Parent] /\ ip'[Kid] = IF left[Kid] = 1 THEN 4 ELSE 3
    BY <1>11, <2>1, Places DEF RunSingleUnit
  <2> QED BY <1>0, <1>n, <1>4, <1>5, <2>1, <2>2, <2>3
<1>12. ASSUME NEW p \in Child, Says(p) PROVE Printed(N)' /\ Course'
  <2>1. PICK m \in Messages : Calls(p, m) /\ said' = Append(said, m)
    <3>1. ~Calls(p, "yes?") /\ ~Calls(p, "no?")
      BY SignalPlaces
    <3> QED BY <1>12, <3>1 DEF Says
  <2>2. /\ timer' = timer /\ spent' = spent /\ left' = left /\ pending' = pending
        /\ Return(p) /\ sched' = sched
    BY <1>12 DEF Says
  <2>3. \/ m = "begins" /\ ip[Kid] = 2 /\ ip'[Kid] = 3 /\ ip'[Parent] = ip[Parent]
           /\ Parent \notin Queued(sched)
        \/ m = "awoken" /\ ip[Parent] = 6 /\ ip'[Parent] = 7 /\ ip'[Kid] = ip[Kid]
        \/ m = "ends" /\ ip[Kid] = 4 /\ ip'[Kid] = 5 /\ ip'[Parent] = ip[Parent]
           /\ Parent \notin Queued(sched) /\ timer # 0
    BY <2>1, <2>2, SignalPlaces, Places DEF Messages
  <2>4. Course'
    <3>1. CASE m = "begins"
      <4>1. ip[Parent] = 5
        BY <1>4, <1>5, <2>3, <3>1
      <4> QED BY <1>0, <1>n, <1>4, <2>2, <2>3, <3>1, <4>1
    <3>2. CASE m = "awoken"
      BY <1>0, <1>n, <1>4, <1>5, <2>2, <2>3, <3>2
    <3>3. CASE m = "ends"
      <4>1. ip[Parent] > 6
        BY <1>n, <1>2, <1>4, <1>5, <2>3, <3>3
      <4> QED BY <1>0, <1>n, <1>4, <1>5, <2>2, <2>3, <3>3, <4>1
    <3> QED BY <2>3, <3>1, <3>2, <3>3
  <2>5. /\ m = "begins" => N = 0 /\ N' = 1
        /\ m = "awoken" => N = 1 /\ N' = 2
        /\ m = "ends" => N = 2 /\ N' = 3
    BY <1>n, <1>2, <1>4, <1>5, <2>3
  <2> HIDE DEF N
  <2>6. PICK k \in Nat : N = k /\ N' = k + 1 /\ m \in Outputs /\ test.expected[k + 1] = m
    <3>1. test.expected[0 + 1] = "begins" /\ test.expected[1 + 1] = "awoken" /\ test.expected[2 + 1] = "ends"
      BY DEF fork_signal_test
    <3> QED BY <2>1, <2>5, <3>1 DEF Messages, Outputs
  <2>7. Printed(k + 1)'
    <3>1. Printed(k)
      BY <1>4, <2>6
    <3> QED BY <1>0, <2>1, <2>6, <3>1, Prints, Zenon
  <2> QED BY <2>4, <2>6, <2>7
<1>13. ASSUME NEW p \in Child, Wait(p) PROVE Same /\ Course'
  <2>1. p = Parent /\ ip[Parent] = 7
    BY <1>13, SignalPlaces DEF Wait
  <2>2. /\ said' = said /\ timer' = timer /\ spent' = spent /\ left' = left /\ pending' = pending
    BY <1>13 DEF Wait
  <2>3. ip'[Kid] = ip[Kid] /\ ip'[Parent] = IF ip[Kid] > 5 THEN 8 ELSE 7
    BY <1>5, <1>13, <2>1, Places DEF Wait
  <2> QED BY <1>0, <1>4, <1>5, <2>1, <2>2, <2>3
<1>14. ASSUME NEW p \in Child, Exit(p) PROVE Same /\ Course'
  <2>1. \/ p = Parent /\ ip[Parent] = 8
        \/ p = Kid /\ ip[Kid] = 5 /\ Parent \notin Queued(sched)
    BY <1>14, SignalPlaces DEF Exit
  <2>2. /\ said' = said /\ timer' = timer /\ spent' = spent /\ left' = left /\ pending' = pending
    BY <1>14 DEF Exit
  <2>3. \/ ip[Parent] = 8 /\ ip'[Parent] = 9 /\ ip'[Kid] = ip[Kid]
        \/ /\ ip[Kid] = 5 /\ ip'[Kid] = 6 /\ Parent \notin Queued(sched)
           /\ ip'[Parent] = IF ip[Parent] = 7 THEN 8 ELSE ip[Parent]
    BY <1>5, <1>14, <2>1, Places
  <2> QED BY <1>0, <1>4, <1>5, <2>2, <2>3
<1>15. ASSUME SleepOver \/ AlarmExpires PROVE Same /\ Course'
  <2>1. AlarmExpires /\ timer = 0
    BY <1>5, <1>15 DEF SleepOver, AlarmExpires
  <2>2. ip[Parent] = 5 /\ ip[Kid] > 2 /\ Parent \notin Queued(sched)
    BY <1>n, <1>2, <1>4, <1>5, <2>1
  <2>3. /\ said' = said /\ timer' = -1 /\ spent' = spent /\ left' = left /\ pending' = pending
        /\ Return(Parent) /\ Parent \in Queued(sched')
    BY <1>5, <2>1, <2>2, Lists, TwoProcesses DEF AlarmExpires
  <2>4. ip'[Parent] = 6 /\ ip'[Kid] = ip[Kid]
    BY <2>2, <2>3, Places, TwoProcesses
  <2> QED BY <1>0, <1>4, <1>5, <2>2, <2>3, <2>4
<1>16. ASSUME TimePasses PROVE Same /\ Course'
  <2>1. /\ timer > 0 /\ timer' = timer - 1 /\ said' = said /\ ip' = ip /\ sched' = sched
        /\ left' = left /\ pending' = pending
    BY <1>16 DEF TimePasses
  <2>2. ip[Parent] \in {4, 5}
    BY <1>4, <1>5, <2>1
  <2>3. Queued(sched) # {}
    <3>1. ip[Parent] = 5 => ip[Kid] \in 1 .. 5
      BY <1>4, <1>5
    <3> QED BY <1>4, <1>5, <2>2, <3>1
  <2>4. spent' = spent + 1
    BY <1>16, <2>3 DEF TimePasses
  <2> QED BY <1>0, <1>n, <1>4, <1>5, <2>1, <2>2, <2>4
<1>17. ASSUME NEW p \in Child, Step(p) PROVE Printed(N)' /\ Course'
  <2>1. ~Calls(p, "sched_yield") /\ ~Calls(p, "sleep")
    BY SignalPlaces
  <2>2. ~SchedYield(p) /\ ~Sleep(p)
    BY <2>1 DEF SchedYield, Sleep
  <2> QED BY <1>6, <1>7, <1>8, <1>9, <1>10, <1>11, <1>12, <1>13, <1>14, <1>17, <2>2 DEF Step
<1> QED
  BY <1>6, <1>15, <1>16, <1>17 DEF Next

-----------------------------------------------------------------------------
(* Every step keeps what has been printed in order.                         *)
LEMMA TimedNext == ASSUME CPUs = 1 PROVE TimedInv /\ [Next]_vars => TimedInv'
<1> SUFFICES ASSUME TimedInv, [Next]_vars PROVE TimedInv'
  OBVIOUS
<1>1. Inv'
  BY NextInv DEF TimedInv
<1>2. CASE Next
  BY <1>1, <1>2, PatientNext, BlockNext, SignalNext DEF TimedInv
<1>3. CASE UNCHANGED vars
  <2>1. UNCHANGED <<test, second, ip, left, timer, pending, spent, said>> /\ sched' = sched
    BY <1>3 DEF vars, setting
  <2> QED BY <1>1, <2>1 DEF TimedInv, PatientOutput, BlockInTime, SignalInTime, Printed, InTime
<1> QED
  BY <1>2, <1>3

(* Nothing has been printed, and no timer is on.                            *)
LEMMA TimedInit == Init => TimedInv
<1> SUFFICES ASSUME Init PROVE TimedInv
  OBVIOUS
<1>1. /\ ip[Parent] = 1 /\ ip[Kid] = 0 /\ left[Kid] = RunUnits /\ timer = -1 /\ ~pending /\ spent = 0
      /\ said = <<>> /\ RunUnits \in Nat \ {0}
  BY TwoProcesses, ForkTestsAssumption DEF Init
<1>2. Printed(0)
  BY <1>1 DEF Printed
<1>3. Parent \in Queued(sched)
  <2>1. sched.rq = <<Parent>>
    BY DEF Init, Enqueue, NoChildren
  <2> QED BY <2>1 DEF Queued
<1>4. PatientOutput /\ BlockInTime /\ SignalInTime
  BY <1>1, <1>2, <1>3 DEF PatientOutput, BlockInTime, SignalInTime
<1> QED
  BY <1>4, InitInv DEF TimedInv

(* What the invariant says of the output of each test.                      *)
LEMMA OutputsExpected == TimedInv => Passes
<1> SUFFICES ASSUME TimedInv, InTime
             PROVE  /\ Len(said) <= Len(test.expected)
                    /\ \A i \in DOMAIN said : said[i] = test.expected[i]
                    /\ Over => Len(said) = Len(test.expected)
  BY DEF Passes
<1>0. Inv /\ Shape(test) /\ test \in Tests
  BY Shapes DEF TimedInv, Inv, TypeOK
<1>1. ip[Parent] \in Nat /\ ip[Kid] \in Nat
  BY <1>0, TwoProcesses DEF Inv, TypeOK
<1>2. ASSUME NEW n \in Nat, Printed(n), n <= Len(test.expected), Over => n = Len(test.expected)
      PROVE  /\ Len(said) <= Len(test.expected)
             /\ \A i \in DOMAIN said : said[i] = test.expected[i]
             /\ Over => Len(said) = Len(test.expected)
  <2>1. said \in Seq(Outputs) /\ Len(said) = n /\ DOMAIN said = 1 .. n
    BY <1>2 DEF Printed
  <2> QED BY <1>2, <2>1 DEF Printed
<1>3. ASSUME test # priority_test, Over PROVE Done(Kid)
  <2>1. \E i \in DOMAIN test.parent : test.parent[i] = "fork"
    BY <1>0, <1>3 DEF Tests, fork_test, fork_priority_test, fork_block_test, fork_signal_test
  <2>2. Forked
    BY <1>0, <1>1, <1>3, <2>1 DEF Over, Done, Program, Forked, Shape
  <2> QED BY <1>0, <1>1, <1>3, <2>2 DEF Over, Inv, ForkOnce
<1>4. CASE test = priority_test
  <2>1. ~Forked
    BY <1>0, <1>4 DEF Forked, Shape
  <2>2. ip[Kid] = 0
    BY <1>0, <1>1, <2>1 DEF Inv, ForkOnce
  <2>3. test \notin {fork_block_test, fork_signal_test} /\ Len(test.expected) = 0
    BY <1>4 DEF priority_test, fork_block_test, fork_signal_test
  <2>4. Printed(0)
    BY <2>2, <2>3 DEF TimedInv, PatientOutput
  <2> QED BY <1>2, <2>3, <2>4
<1>5. CASE test \in {fork_test, fork_priority_test}
  <2>1. /\ test \notin {priority_test, fork_block_test, fork_signal_test}
        /\ Len(test.expected) = 1 /\ Len(test.child) = 3
    BY <1>5 DEF priority_test, fork_test, fork_priority_test, fork_block_test, fork_signal_test
  <2>2. Printed(IF ip[Kid] <= 2 THEN 0 ELSE 1)
    BY <2>1 DEF TimedInv, PatientOutput
  <2>3. Over => ip[Kid] > 3
    BY <1>3, <2>1, TwoProcesses DEF Done, Program
  <2> QED BY <1>1, <1>2, <2>1, <2>2, <2>3
<1>6. CASE test = fork_block_test
  <2>1. test # priority_test /\ Len(test.expected) = 1 /\ Len(test.child) = 3
    BY <1>6 DEF priority_test, fork_block_test
  <2>2. Printed(IF ip[Kid] <= 2 THEN 0 ELSE 1)
    BY <1>6 DEF TimedInv, BlockInTime
  <2>3. Over => ip[Kid] > 3
    BY <1>3, <2>1, TwoProcesses DEF Done, Program
  <2> QED BY <1>1, <1>2, <2>1, <2>2, <2>3
<1>7. CASE test = fork_signal_test
  <2>1. test # priority_test /\ Len(test.expected) = 3 /\ Len(test.child) = 5
    BY <1>7 DEF priority_test, fork_signal_test
  <2>2. /\ Printed(IF ip[Kid] <= 2 THEN 0 ELSE IF ip[Parent] <= 6 THEN 1
                   ELSE IF ip[Kid] <= 4 THEN 2 ELSE 3)
        /\ ip[Kid] > 4 => ip[Parent] > 6
    BY <1>7 DEF TimedInv, SignalInTime
  <2>3. Over => ip[Kid] > 5
    BY <1>3, <2>1, TwoProcesses DEF Done, Program
  <2> QED BY <1>1, <1>2, <2>1, <2>2, <2>3
<1> QED
  BY <1>0, <1>4, <1>5, <1>6, <1>7 DEF Tests

(* Every test prints what its "Expected behavior" says, in that order and   *)
(* all of it, on one CPU, for every length of the loops, every speed of the *)
(* machine and every way in which the calls take less time than sleep and   *)
(* alarm: see Passes.                                                       *)
THEOREM TestsPass == ASSUME CPUs = 1 PROVE Spec => []Passes
<1>1. TimedInv /\ [Next]_vars => TimedInv'
  BY TimedNext
<1>2. Spec => []TimedInv
  BY <1>1, TimedInit, PTL DEF Spec
<1> QED
  BY <1>2, OutputsExpected, PTL

(* The child does nothing but lower itself while its parent can run: see    *)
(* ParentFirst.                                                             *)
THEOREM ParentGoesFirst == ASSUME CPUs = 1 PROVE Spec => ParentFirst
<1>1. ASSUME Inv, Step(Kid), Parent \in Queued(sched) PROVE SetChildPriority(Kid)
  <2>1. \A c : c # "set_child_priority" => ~Calls(Kid, c)
    BY <1>1, CallFacts, TwoProcesses
  <2> QED
    BY <1>1, <2>1 DEF Step, SetParentPriority, Fork, RunSingleUnit, SchedYield, Says, Sleep,
       BlockSigalrm, SetAlarm, Sigsuspend, Wait, Exit, Messages
<1>2. Inv /\ [Next]_vars => [Step(Kid) /\ Parent \in Queued(sched) => SetChildPriority(Kid)]_vars
  BY <1>1
<1> QED
  BY <1>2, Invariance, PTL DEF Spec, ParentFirst
=============================================================================
