------------------------ MODULE MCIteratorLifetime ------------------------
(* Instances of IteratorLifetime for TLC. *)
EXTENDS IteratorLifetime, TLC

Symmetry == Permutations(Threads) \cup Permutations(Iters)
=============================================================================
