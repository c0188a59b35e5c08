----------------------------- MODULE MCOpenBlind -----------------------------
(* The instance of OpenBlind for TLC. *)
EXTENDS OpenBlind, TLC

\* A negative budget and one of four, in words of four bits.
MCIntRange == {-1, 4}
MCAssigned == {3}

Symmetry == Permutations(Clients) \cup Permutations(Factories)
=============================================================================
