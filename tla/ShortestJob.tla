----------------------------- MODULE ShortestJob -----------------------------
(***************************************************************************)
(* What non-preemptive shortest-job-first promises, without a heap: the    *)
(* jobs wait in a set; when no job is active the shortest one (the older   *)
(* one of two equals) becomes active and stays so until it ends.           *)
(***************************************************************************)
EXTENDS Integers

CONSTANT Job            \* the jobs, numbered in the order of their arrival

VARIABLES waiting,      \* the jobs that have arrived and have never run
          active,       \* at most one job: the one that has the CPU
          need          \* the time each job needs

vars == <<waiting, active, need>>

Before(p, q) == need[p] < need[q] \/ (need[p] = need[q] /\ p < q)

Init == waiting = {} /\ active = {} /\ need \in [Job -> Nat]

Arrive(p) ==
  /\ p \notin waiting \cup active
  /\ waiting' = waiting \cup {p}
  /\ UNCHANGED <<active, need>>

Dispatch(p) ==
  /\ active = {}
  /\ p \in waiting
  /\ \A q \in waiting \ {p} : Before(p, q)
  /\ active' = {p}
  /\ waiting' = waiting \ {p}
  /\ UNCHANGED need

End ==
  /\ active # {}
  /\ active' = {}
  /\ UNCHANGED <<waiting, need>>

Next == (\E p \in Job : Arrive(p) \/ Dispatch(p)) \/ End

Spec == Init /\ [][Next]_vars
=============================================================================
