-------------------------------- MODULE MCRR --------------------------------
(* RR.c alone, under the calling contract of scheduler.h. *)
EXTENDS RR
=============================================================================
