------------------------------ MODULE MCStream ------------------------------
(***************************************************************************)
(* A small instance of Stream for TLC: one run, all buffers of one slot.   *)
(***************************************************************************)
EXTENDS Stream

CONSTANTS r1
=============================================================================
