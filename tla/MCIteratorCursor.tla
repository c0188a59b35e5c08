-------------------------- MODULE MCIteratorCursor --------------------------
(* Instances of IteratorCursor for TLC. *)
EXTENDS IteratorCursor, TLC

MCKeys == 1..3
MCSmallKeys == 1..2
=============================================================================
