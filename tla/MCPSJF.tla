------------------------------- MODULE MCPSJF -------------------------------
(* PSJF.c and heap.c, under the calling contract of scheduler.h. *)
EXTENDS PSJF

SomeArrivals == {a \in [Child -> 0 .. 2] : \A i, j \in Child : i <= j => a[i] <= a[j]}
SomeTimes    == [Child -> 1 .. 2]
=============================================================================
