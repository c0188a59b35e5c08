----------------------------- MODULE MCDbHandles -----------------------------
(* Instances of DbHandles for TLC. *)
EXTENDS DbHandles

CONSTANTS a, b          \* two column families besides the default one

\* No descriptor at all, none of the default, the default alone, one more, and
\* both in either order.
MCRequests ==
    {<<>>, <<a>>, <<Default>>, <<Default, a>>, <<Default, a, b>>, <<b, a, Default>>}

\* Each database with one column family besides the default.
SmallRequests == {<<>>, <<Default>>, <<Default, a>>, <<b, Default>>}

\* The last call decides nothing that comes after it, unless it killed the
\* process, and no step reads the snapshots held; the properties that speak of
\* either are properties of steps.
StateView == <<catalog, store, home, cfh, at, ptr, view, batch, Killed>>

Symmetry == Permutations(Sessions) \cup Permutations(Addrs) \cup Permutations(Values)
=============================================================================
