------------------------------ MODULE RunQueue ------------------------------
(***************************************************************************)
(* What a round-robin scheduler promises, without arrays or indices: the   *)
(* jobs wait in one queue; the job at its head is the one to run.  An      *)
(* arriving job goes to the back, the end of a time slice sends the head   *)
(* to the back, a job that ends leaves from the head.  Dispatching makes   *)
(* the head the only job that has the CPU.                                 *)
(***************************************************************************)
EXTENDS Integers, Sequences

CONSTANT Job

VARIABLES queue,     \* the jobs, in the order in which they will be served
          running    \* the jobs the CPU has been given to

vars == <<queue, running>>

Waiting == {queue[i] : i \in DOMAIN queue}

Init == queue = <<>> /\ running = {}

Arrive(p) ==
  /\ p \notin Waiting
  /\ queue' = Append(queue, p)
  /\ UNCHANGED running

Rotate ==
  /\ queue # <<>>
  /\ running = {Head(queue)}
  /\ queue' = Append(Tail(queue), Head(queue))
  /\ UNCHANGED running

Leave ==
  /\ queue # <<>>
  /\ running = {Head(queue)}
  /\ queue' = Tail(queue)
  /\ running' = {}

Dispatch ==
  /\ running' = IF queue = <<>> THEN {} ELSE {Head(queue)}
  /\ UNCHANGED queue

Next == (\E p \in Job : Arrive(p)) \/ Rotate \/ Leave \/ Dispatch

Spec == Init /\ [][Next]_vars
=============================================================================
