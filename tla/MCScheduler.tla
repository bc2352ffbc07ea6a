---------------------------- MODULE MCScheduler ----------------------------
(* The whole program on small inputs. *)
EXTENDS Scheduler

CONSTANTS MaxTime,   \* latest arrival time tried
          MaxNeed    \* longest time_needed tried

InOrder(a) == \A i, j \in Child : i <= j => a[i] <= a[j]

(* Jobs listed in the order of their arrival. *)
Inputs == [arrival_time : {a \in [Child -> 0 .. MaxTime] : InOrder(a)},
           time_needed  : [Child -> 1 .. MaxNeed]]

(* No arrival at a multiple of the slice, except at time 0. *)
TieFreeInputs ==
  {w \in Inputs : \A i \in Child :
     w.arrival_time[i] > 0 => w.arrival_time[i] % RR_TIMES_OF_UNIT # 0}

(* Inputs nobody has checked: in any order, and with a negative time. *)
UncheckedInputs ==
  {w \in [arrival_time : [Child -> -1 .. MaxTime], time_needed : [Child -> 1 .. MaxNeed]] :
     \A i \in Child : w.arrival_time[i] > 0 => w.arrival_time[i] % RR_TIMES_OF_UNIT # 0}
=============================================================================
