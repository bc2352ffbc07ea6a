---------------------------- MODULE MCProcessLog ----------------------------
(* The program with its log, on the inputs of MCScheduler. *)
EXTENDS ProcessLog, MCScheduler
=============================================================================
