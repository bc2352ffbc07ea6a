---------------------------- MODULE JobScheduler ----------------------------
(***************************************************************************)
(* What scheduler.h asks of every job scheduler, whatever its policy: the  *)
(* functions it declares, and what its comments say they may do.  Adding   *)
(* and removing jobs changes the pool and nothing else; which job has the  *)
(* CPU changes when, and only when, context_switch is called, and that is  *)
(* called once after one or more events have been handed over.             *)
(***************************************************************************)

CONSTANT Job

VARIABLES pool,      \* the jobs being managed
          resumed,   \* the jobs of the pool the CPU has been given to
          due        \* has there been an event since the last context_switch?

vars == <<pool, resumed, due>>

(* set_strategy *)
Init == pool = {} /\ resumed = {} /\ due = FALSE

(* Jobs may arrive together. *)
add_process(p) ==
  /\ p \notin pool
  /\ pool' = pool \cup {p}
  /\ due' = TRUE
  /\ UNCHANGED resumed

(* The job that has ended is the one that had the CPU. *)
remove_current_process ==
  /\ ~due
  /\ \E p \in pool : resumed = {p} /\ pool' = pool \ {p}
  /\ resumed' = {}
  /\ due' = TRUE

(* What the policy remembers changes, not what is seen here. *)
timeslice_over ==
  /\ ~due
  /\ due' = TRUE
  /\ UNCHANGED <<pool, resumed>>

(* The one step that gives the CPU to a job: the call ends what was due.    *)
context_switch ==
  /\ due
  /\ resumed' \in IF pool = {} THEN {{}} ELSE {{p} : p \in pool}
  /\ due' = FALSE
  /\ UNCHANGED pool

Next == \/ \E p \in Job : add_process(p)
        \/ remove_current_process
        \/ timeslice_over
        \/ context_switch

Spec == Init /\ [][Next]_vars
=============================================================================
