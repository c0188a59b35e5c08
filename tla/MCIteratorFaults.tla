-------------------------- MODULE MCIteratorFaults --------------------------
(* The instance of IteratorFaults for TLC. *)
EXTENDS IteratorFaults, TLC
=============================================================================
