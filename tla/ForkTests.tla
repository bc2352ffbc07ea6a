----------------------------- MODULE ForkTests ------------------------------
(***************************************************************************)
(* The manual tests of main.c (519-630): a parent and its child, each a    *)
(* short program of calls, under SCHED_FIFO.  They test what the scheduler *)
(* relies on: a forked child does nothing while its parent can run, runs   *)
(* while the parent is blocked, and a signal brings the parent back.       *)
(*                                                                         *)
(* Time is counted in ticks, the time run_single_unit takes.  What the     *)
(* other calls take is left open: while a timer runs, and a process runs,  *)
(* any number of ticks up to MaxOverhead may pass between two of them, so  *)
(* that sleep and alarm may end at any point of either program.            *)
(***************************************************************************)
EXTENDS SchedFifo

CONSTANTS
  CPUs,        \* the number of CPUs
  RunUnits,    \* the number of units of a loop over run_single_unit
  Seconds,     \* how many units run_single_unit may do in a second
  MaxOverhead  \* bound on the ticks that calls other than run_single_unit take

ASSUME ForkTestsAssumption ==
  /\ num_process = 2 /\ CPUs \in Nat \ {0}
  /\ RunUnits \in Nat \ {0} /\ Seconds \subseteq Nat \ {0} /\ MaxOverhead \in Nat

Parent == 0
Kid    == 1

VARIABLES
  test,        \* the test that main calls
  second,      \* the speed of the machine: a second, in ticks
  ip,          \* the next call of each program, 0 before the fork
  left,        \* the units left of the loop each program is in
  sched,       \* kernel: priorities and run list
  timer,       \* kernel: ticks to the end of sleep or alarm, -1 if neither is on
  pending,     \* kernel: is SIGALRM pending for the parent?
  masked,      \* kernel: does the parent block SIGALRM?
  spent,       \* the ticks taken by calls other than run_single_unit
  said         \* what has been printed

setting == <<test, second>>
vars    == <<setting, ip, left, sched, timer, pending, masked, spent, said>>

-----------------------------------------------------------------------------
(* The programs, and the output their comments expect of them.  "yes?"      *)
(* prints Success if the parent has terminated, "no?" if it has not.  The   *)
(* child's first call is the one my_fork makes.                             *)
priority_test ==
  [parent |-> <<"set_parent_priority", "run", "exit">>, child |-> <<>>, expected |-> <<>>]

(* Mutant: the parent waits for the child first. *)
fork_test_waits ==
  [parent |-> <<"set_parent_priority", "fork", "wait", "run", "exit">>,
   child  |-> <<"set_child_priority", "yes?", "exit">>, expected |-> <<"Success">>]

fork_test ==
  [parent |-> <<"set_parent_priority", "fork", "run", "exit">>,
   child  |-> <<"set_child_priority", "yes?", "exit">>, expected |-> <<"Success">>]

fork_priority_test ==
  [parent |-> <<"set_parent_priority", "fork", "sched_yield", "run", "exit">>,
   child  |-> <<"set_child_priority", "yes?", "exit">>, expected |-> <<"Success">>]

fork_block_test ==
  [parent |-> <<"set_parent_priority", "fork", "sleep", "exit">>,
   child  |-> <<"set_child_priority", "no?", "exit">>, expected |-> <<"Success">>]

(* Mutant: SIGALRM is not blocked before the alarm is set. *)
fork_signal_test_unblocked ==
  [parent |-> <<"set_parent_priority", "alarm", "fork", "sigsuspend", "awoken", "wait", "exit">>,
   child  |-> <<"set_child_priority", "begins", "run", "ends", "exit">>,
   expected |-> <<"begins", "awoken", "ends">>]

fork_signal_test ==
  [parent |-> <<"set_parent_priority", "sigprocmask", "alarm", "fork", "sigsuspend", "awoken",
                "wait", "exit">>,
   child  |-> <<"set_child_priority", "begins", "run", "ends", "exit">>,
   expected |-> <<"begins", "awoken", "ends">>]

Tests == {priority_test, fork_test, fork_priority_test, fork_block_test, fork_signal_test}

-----------------------------------------------------------------------------
Program(p) == IF p = Parent THEN test.parent ELSE test.child

Done(p) == ip[p] > Len(Program(p))

(* p has a CPU and is about to make this call.  An interrupt that is due     *)
(* comes first.                                                             *)
Calls(p, call) ==
  /\ p \in OnCPUs(sched, CPUs)
  /\ timer # 0
  /\ ~Done(p)
  /\ Program(p)[ip[p]] = call

(* p left the run list in this call. *)
Blocked(p, call) ==
  /\ ip[p] \in DOMAIN Program(p)
  /\ p \notin Queued(sched)
  /\ Program(p)[ip[p]] = call

Return(p)   == ip' = [ip EXCEPT ![p] = @ + 1]
Enqueue(s, p) == [s EXCEPT !.rq = Append(@, p)]

Init ==
  /\ test \in Tests
  /\ second \in Seconds
  /\ ip = [p \in Child |-> IF p = Parent THEN 1 ELSE 0]
  /\ left = [p \in Child |-> RunUnits]
  /\ sched = Enqueue(NoChildren, Parent)
  /\ timer = -1
  /\ pending = FALSE
  /\ masked = FALSE
  /\ spent = 0
  /\ said = <<>>

SetParentPriority(p) ==
  /\ Calls(p, "set_parent_priority")
  /\ sched' = set_priority(sched, p, PRIO_MAX)
  /\ Return(p)
  /\ UNCHANGED <<setting, left, timer, pending, masked, spent, said>>

(* Mutant: - 1 is left out. *)
set_child_priority_equal(s, p) == set_priority(s, p, PRIO_MAX)

set_child_priority(s, p) == set_priority(s, p, PRIO_RUN)

SetChildPriority(p) ==
  /\ Calls(p, "set_child_priority")
  /\ sched' = set_child_priority(sched, p)
  /\ Return(p)
  /\ UNCHANGED <<setting, left, timer, pending, masked, spent, said>>

Fork(p) ==
  /\ Calls(p, "fork")
  /\ sched' = fork(sched, Kid)
  /\ ip' = [ip EXCEPT ![p] = @ + 1, ![Kid] = 1]
  /\ UNCHANGED <<setting, left, timer, pending, masked, spent, said>>

RunSingleUnit(p) ==
  /\ Calls(p, "run")
  /\ left' = [left EXCEPT ![p] = @ - 1]
  /\ IF left[p] = 1 THEN Return(p) ELSE UNCHANGED ip
  /\ timer' = IF timer > 0 THEN timer - 1 ELSE timer
  /\ UNCHANGED <<setting, sched, pending, masked, spent, said>>

(* sched_yield: to the tail of the list. *)
SchedYield(p) ==
  /\ Calls(p, "sched_yield")
  /\ sched' = Enqueue(exit(sched, p), p)
  /\ Return(p)
  /\ UNCHANGED <<setting, left, timer, pending, masked, spent, said>>

parent_is_terminated == Done(Parent)

(* The messages of fork_signal_test, in the words that tell them apart.     *)
Messages == {"begins", "awoken", "ends"}

Says(p) ==
  /\ \/ \E m \in Messages : Calls(p, m) /\ said' = Append(said, m)
     \/ Calls(p, "yes?") /\ said' = Append(said, IF parent_is_terminated THEN "Success" ELSE "Error")
     \/ Calls(p, "no?")  /\ said' = Append(said, IF parent_is_terminated THEN "Error" ELSE "Success")
  /\ Return(p)
  /\ UNCHANGED <<setting, left, sched, timer, pending, masked, spent>>

Sleep(p) ==
  /\ Calls(p, "sleep")
  /\ sched' = exit(sched, p)
  /\ timer' = 10 * second
  /\ UNCHANGED <<setting, ip, left, pending, masked, spent, said>>

SleepOver ==
  /\ timer = 0
  /\ Blocked(Parent, "sleep")
  /\ timer' = -1
  /\ sched' = Enqueue(sched, Parent)
  /\ Return(Parent)
  /\ UNCHANGED <<setting, left, pending, masked, spent, said>>

BlockSigalrm(p) ==
  /\ Calls(p, "sigprocmask")
  /\ masked' = TRUE
  /\ Return(p)
  /\ UNCHANGED <<setting, left, sched, timer, pending, spent, said>>

SetAlarm(p) ==
  /\ Calls(p, "alarm")
  /\ timer' = second
  /\ Return(p)
  /\ UNCHANGED <<setting, left, sched, pending, masked, spent, said>>

(* sigsuspend returns at once if SIGALRM is pending. *)
Sigsuspend(p) ==
  /\ Calls(p, "sigsuspend")
  /\ IF pending
     THEN Return(p) /\ UNCHANGED sched
     ELSE sched' = exit(sched, p) /\ UNCHANGED ip
  /\ pending' = FALSE
  /\ UNCHANGED <<setting, left, timer, masked, spent, said>>

(* The second is over.  The handler does nothing; what counts is whether    *)
(* the parent is in sigsuspend.                                             *)
AlarmExpires ==
  /\ timer = 0
  /\ ~Blocked(Parent, "sleep")
  /\ timer' = -1
  /\ IF Blocked(Parent, "sigsuspend")
     THEN sched' = Enqueue(sched, Parent) /\ Return(Parent) /\ UNCHANGED pending
     ELSE pending' = masked /\ UNCHANGED <<sched, ip>>
  /\ UNCHANGED <<setting, left, masked, spent, said>>

(* A tick passes while no process can run, or in a call. *)
TimePasses ==
  /\ timer > 0
  /\ timer' = timer - 1
  /\ IF Queued(sched) = {}
     THEN UNCHANGED spent
     ELSE spent < MaxOverhead /\ spent' = spent + 1
  /\ UNCHANGED <<setting, ip, left, sched, pending, masked, said>>

(* wait(NULL) and the exit it waits for. *)
Wait(p) ==
  /\ Calls(p, "wait")
  /\ IF Done(Kid)
     THEN Return(p) /\ UNCHANGED sched
     ELSE sched' = exit(sched, p) /\ UNCHANGED ip
  /\ UNCHANGED <<setting, left, timer, pending, masked, spent, said>>

Exit(p) ==
  /\ Calls(p, "exit")
  /\ IF Blocked(Parent, "wait")
     THEN /\ sched' = Enqueue(exit(sched, p), Parent)
          /\ ip' = [q \in Child |-> ip[q] + 1]
     ELSE sched' = exit(sched, p) /\ Return(p)
  /\ UNCHANGED <<setting, left, timer, pending, masked, spent, said>>

Step(p) ==
  \/ SetParentPriority(p) \/ SetChildPriority(p) \/ Fork(p) \/ RunSingleUnit(p)
  \/ SchedYield(p) \/ Says(p) \/ Sleep(p) \/ BlockSigalrm(p) \/ SetAlarm(p)
  \/ Sigsuspend(p) \/ Wait(p) \/ Exit(p)

Next == SleepOver \/ AlarmExpires \/ TimePasses \/ \E p \in Child : Step(p)

Spec == Init /\ [][Next]_vars /\ WF_vars(Next)

-----------------------------------------------------------------------------
(* Properties *)

(* main.c:534: "Tests if the children runs only if the parent has done all  *)
(* its stuff", 556: "even if the parent tries to give up its time slice".   *)
(* A child starts with its parent's priority and may be ahead of it after   *)
(* sched_yield or a wakeup; all it can do then is lower itself.             *)
ParentFirst ==
  [][Step(Kid) /\ Parent \in Queued(sched) => SetChildPriority(Kid)]_vars

Over == Done(Parent) /\ (ip[Kid] = 0 \/ Done(Kid))

(* The calls together take less time than sleep or alarm, and the loop of   *)
(* fork_signal_test takes a second or more.  TLC finds another output if    *)
(* one of the three bounds is missed by a tick.                             *)
InTime ==
  /\ test = fork_block_test  => spent < 10 * second
  /\ test = fork_signal_test => spent < second /\ second <= RunUnits

(* The output is the one each test's "Expected behavior" asks for, in that  *)
(* order, and all of it is there in the end.  fork_test and                 *)
(* fork_priority_test: Success, the child finds its parent terminated, with *)
(* no condition on time (they set no timer).  fork_block_test: Success, the *)
(* child finds its parent alive, since the ten seconds are not over before  *)
(* it looks.  fork_signal_test: the parent is awoken after the child began  *)
(* (main.c:628) and before its loop ends.                                   *)
Passes ==
  InTime => /\ Len(said) <= Len(test.expected)
            /\ \A i \in DOMAIN said : said[i] = test.expected[i]
            /\ Over => Len(said) = Len(test.expected)

(* main.c:603: "Tests if the parent can receive signal even when a child is *)
(* running".  Every test ends, at whatever moment the alarm expires: before *)
(* the fork, before sigsuspend, or while the child runs.                    *)
Ends == <>Over

-----------------------------------------------------------------------------
(* The inductive invariant *)

NumbersOK ==
  /\ second \in Nat \ {0}
  /\ left \in [Child -> Int]
  /\ timer \in Int
  /\ spent \in Nat

TypeOK ==
  /\ test \in Tests
  /\ ip \in [Child -> Nat]
  /\ sched \in Kernel
  /\ Distinct(sched.rq)
  /\ NumbersOK

(* The child is there once its parent has returned from fork, and never     *)
(* blocks.                                                                  *)
Forked == \E i \in DOMAIN test.parent : i < ip[Parent] /\ test.parent[i] = "fork"
ForkOnce ==
  /\ ip[Kid] > 0 <=> Forked
  /\ Kid \in Queued(sched) <=> ip[Kid] \in DOMAIN test.child

(* After the first call of each the parent is above the child. *)
ParentAbove ==
  /\ ip[Parent] > 0
  /\ ip[Parent] > 1 => sched.prio[Parent] = PRIO_MAX
  /\ ip[Kid] > 1 => sched.prio[Kid] = PRIO_RUN

(* Where the child expects its parent's end, the parent does not block. *)
ParentAtWork ==
  test \in {fork_test, fork_priority_test} /\ ~Done(Parent) => Parent \in Queued(sched)

Inv == TypeOK /\ ForkOnce /\ ParentAbove /\ ParentAtWork

Outputs == Messages \cup {"Success", "Error"}

(* The first n messages that are expected have been printed. *)
Printed(n) ==
  /\ said \in Seq(Outputs)
  /\ Len(said) = n
  /\ \A i \in 1 .. n : said[i] = test.expected[i]

(* What is printed where no timer is set. *)
PatientOutput ==
  test \notin {fork_block_test, fork_signal_test} =>
    Printed(IF ip[Kid] <= 2 THEN 0 ELSE 1)

(* fork_block_test: until the child has ended, only its calls use up the    *)
(* time of sleep.                                                           *)
BlockInTime ==
  test = fork_block_test /\ InTime =>
    /\ Printed(IF ip[Kid] <= 2 THEN 0 ELSE 1)
    /\ ip[Kid] <= 3 =>
         /\ ip[Parent] <= 3
         /\ IF Parent \in Queued(sched) THEN timer = -1 /\ spent = 0
            ELSE ip[Parent] = 3 /\ timer = 10 * second - spent

(* fork_signal_test: the alarm is as far away as the calls and the units of *)
(* the child's loop leave it, so that it comes in the loop, to a parent     *)
(* that is in sigsuspend.                                                   *)
SignalInTime ==
  test = fork_signal_test /\ InTime =>
    /\ Printed(IF ip[Kid] <= 2 THEN 0 ELSE IF ip[Parent] <= 6 THEN 1
               ELSE IF ip[Kid] <= 4 THEN 2 ELSE 3)
    /\ ip[Kid] <= 2 => left[Kid] = RunUnits
    /\ ip[Kid] = 3 => left[Kid] > 0
    /\ ip[Kid] > 3 => left[Kid] = 0
    /\ ip[Kid] > 4 => ip[Parent] > 6
    /\ ip[Parent] \in {1, 2, 3, 4, 6} => Parent \in Queued(sched)
    /\ ip[Parent] <= 3 => timer = -1 /\ spent = 0
    /\ ip[Parent] \in {4, 5} => timer >= 0 /\ timer = second - spent - (RunUnits - left[Kid])
    /\ ip[Parent] <= 5 => ~pending
    /\ ip[Parent] = 5 /\ ip[Kid] > 2 => Parent \notin Queued(sched)
    /\ ip[Parent] > 5 => timer = -1 /\ ip[Kid] > 2
    /\ ip[Parent] > 7 => ip[Kid] > 5

TimedInv == Inv /\ PatientOutput /\ BlockInTime /\ SignalInTime
=============================================================================
