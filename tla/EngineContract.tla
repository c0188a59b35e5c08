--------------------------- MODULE EngineContract ---------------------------
(***************************************************************************)
(* What the RocksDB engine asks of whoever owns a rocksdb::DB and the      *)
(* rocksdb::Iterator objects made from it: an iterator is made from an     *)
(* open database, is deleted once, and is deleted before its database is.  *)
(* The engine is a git submodule (extern/rocksdb) and not part of this     *)
(* repository; the contract is the one the binding relies on.              *)
(***************************************************************************)
CONSTANTS Iters         \* every iterator that may ever be made

VARIABLES
    db,                 \* the rocksdb::DB object
    iter                \* the rocksdb::Iterator objects

vars == <<db, iter>>

Init ==
    /\ db = "open"
    /\ iter = [i \in Iters |-> "unborn"]

NewIterator(i) ==
    /\ db = "open"
    /\ iter[i] = "unborn"
    /\ iter' = [iter EXCEPT ![i] = "open"]
    /\ UNCHANGED db

DeleteIterator(i) ==
    /\ db = "open"
    /\ iter[i] = "open"
    /\ iter' = [iter EXCEPT ![i] = "closed"]
    /\ UNCHANGED db

DeleteDB ==
    /\ db = "open"
    /\ \A i \in Iters : iter[i] # "open"
    /\ db' = "closed"
    /\ UNCHANGED iter

Next ==
    \/ \E i \in Iters : NewIterator(i) \/ DeleteIterator(i)
    \/ DeleteDB

Spec == Init /\ [][Next]_vars
=============================================================================
