----------------------------- MODULE SchedFifo -----------------------------
(***************************************************************************)
(* The part of the Linux SCHED_FIFO class the scheduler drives: every      *)
(* child has a real-time priority, and the kernel keeps the runnable ones  *)
(* in a list.  The child that gets the (only) CPU is the first one of the  *)
(* highest priority in that list.  A "context switch" of this program is   *)
(* nothing but a change of priorities (scheduler.h, suspend_process and    *)
(* resume_process).                                                        *)
(*                                                                         *)
(* A child is named by its index in all_process_info; forks happen in that *)
(* order, so the index also orders the pids.                               *)
(***************************************************************************)
EXTENDS Integers, Sequences, FiniteSets

CONSTANT num_process      \* main.c: number of entries of all_process_info

ASSUME NumProcessAssumption == num_process \in Nat \ {0}

Child == 0 .. num_process - 1
NULL  == -1               \* the C null pointer, and an unwritten array slot

(* sched_get_priority_min(SCHED_FIFO) and sched_get_priority_max(SCHED_FIFO) *)
PRIO_MIN == 1
PRIO_MAX == 99
PRIO_RUN == PRIO_MAX - 1  \* what resume_process and set_child_priority give

-----------------------------------------------------------------------------
(* A value s of the kernel's view: s.prio is the priority of every child,  *)
(* s.rq the runnable children in list order.                               *)
NoChildren == [prio |-> [p \in Child |-> PRIO_MIN], rq |-> <<>>]

Queued(s) == {s.rq[i] : i \in DOMAIN s.rq}

(* The list without p, which is in it once or not at all. *)
Without(q, p) ==
  LET at == CHOOSE i \in DOMAIN q : q[i] = p
  IN  IF \E i \in DOMAIN q : q[i] = p
      THEN [i \in 1 .. Len(q) - 1 |-> IF i < at THEN q[i] ELSE q[i + 1]]
      ELSE q

(* sched_setscheduler(p, SCHED_FIFO, v) as set_priority calls it: a child  *)
(* whose priority is lowered goes to the head of the list of its new       *)
(* priority, one whose priority is raised to the tail, and nothing moves   *)
(* when the priority is the one it has.  A zombie is in no list.           *)
set_priority(s, p, v) ==
  [prio |-> [s.prio EXCEPT ![p] = v],
   rq   |-> CASE p \notin Queued(s) \/ v = s.prio[p] -> s.rq
              [] p \in Queued(s) /\ v < s.prio[p]    -> <<p>> \o Without(s.rq, p)
              [] p \in Queued(s) /\ v > s.prio[p]    -> Append(Without(s.rq, p), p)]

suspend_process(s, p) == set_priority(s, p, PRIO_MIN)
(* Mutant: + 1 for - 1. *)
resume_process_above(s, p) == set_priority(s, p, PRIO_MAX + 1)

resume_process(s, p)  == set_priority(s, p, PRIO_RUN)

(* fork(): the child inherits SCHED_FIFO and the scheduler's priority.     *)
fork(s, p) ==
  [prio |-> [s.prio EXCEPT ![p] = PRIO_MAX], rq |-> Append(s.rq, p)]

(* exit(): the child leaves the list and becomes a zombie.                 *)
exit(s, p) == [prio |-> s.prio, rq |-> Without(s.rq, p)]

(* Which entry of the run list comes before which. *)
Ahead(s, i, j) ==
  \/ s.prio[s.rq[i]] > s.prio[s.rq[j]]
  \/ s.prio[s.rq[i]] = s.prio[s.rq[j]] /\ i < j

(* The children the kernel runs on n CPUs that are left to them, and the    *)
(* one it runs on a single CPU while the scheduler itself is blocked.       *)
OnCPUs(s, n) ==
  {s.rq[j] : j \in {k \in DOMAIN s.rq :
                      Cardinality({i \in DOMAIN s.rq : Ahead(s, i, k)}) < n}}

OnCPU(s) == OnCPUs(s, 1)

-----------------------------------------------------------------------------
(* The states of the kernel's view, and what its lists may be like.         *)
Kernel == [prio : [Child -> PRIO_MIN .. PRIO_MAX], rq : Seq(Child)]

Distinct(q)   == \A i, j \in DOMAIN q : q[i] = q[j] => i = j
Increasing(q) == \A i, j \in DOMAIN q : i < j => q[i] < q[j]
=============================================================================
