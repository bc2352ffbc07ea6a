-------------------------------- MODULE MCSJF --------------------------------
(* SJF.c and heap.c, under the calling contract of scheduler.h. *)
EXTENDS SJF

CONSTANT MaxNeed        \* longest time_needed tried

AllTimesNeeded == [Child -> 1 .. MaxNeed]
=============================================================================
