-------------------------------- MODULE FIFO --------------------------------
(***************************************************************************)
(* FIFO.c: the first-come-first-served job scheduler.  It keeps no queue   *)
(* of its own: every job is resumed as soon as it arrives, and the run     *)
(* list of the kernel (module SchedFifo) is the queue.                     *)
(***************************************************************************)
EXTENDS SchedFifo

VARIABLE count_process      \* FIFO.c: number of jobs that have not ended

set_strategy_FIFO == count_process = 0

(* Mutant: the job is counted and not resumed. *)
add_process_FIFO_asleep(s, p) == s

(* What add_process_FIFO makes of the kernel's state s, and of the count. *)
add_process_FIFO_sched(s, p) == resume_process(s, p)
add_process_FIFO == count_process' = count_process + 1

(* Mutant: the count is not decremented. *)
remove_current_process_FIFO_kept == UNCHANGED count_process

remove_current_process_FIFO == count_process' = count_process - 1

scheduler_empty_FIFO == count_process = 0
=============================================================================
