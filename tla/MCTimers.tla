------------------------------ MODULE MCTimers ------------------------------
(* The timers of main.c over all small inputs, sorted or not. *)
EXTENDS Timers

CONSTANT MaxTime     \* latest arrival time tried

AnyArrivals     == [Child -> 0 .. MaxTime]
TieFreeArrivals == {a \in AnyArrivals : TieFree(a)}
=============================================================================
