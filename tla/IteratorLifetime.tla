-------------------------- MODULE IteratorLifetime --------------------------
(***************************************************************************)
(* The life of one RocksDB object and of the iterators made from it:       *)
(* RocksDB.iterator and RocksDB.close of src/pyrocks11/db.py, the          *)
(* finalizers they share, and the C++ objects they own.                    *)
(*                                                                         *)
(* The binding never releases the GIL, so a call into C++ is one step, and *)
(* a Python method is several: another thread may run between them, and    *)
(* the garbage collector may run a finalizer in any thread between them.   *)
(* A finalizer is named by the iterator it closes.                         *)
(***************************************************************************)
EXTENDS Naturals, FiniteSets

CONSTANTS
    Threads,            \* the Python threads that share the RocksDB object
    Iters,              \* every iterator that may ever be made
    None                \* no iterator

ASSUME IterAssumption == IsFiniteSet(Iters) /\ None \notin Iters

VARIABLES
    closed,             \* RocksDB._closed
    finSet,             \* RocksDB._fin_set
    alive,              \* the RocksDB object has not been collected
    held,               \* the DbIterator objects the program still refers to
    registry,           \* weakref.finalize._registry, the finalizers not run
    db,                 \* DBWrapper::db, "closed" once reset
    iter,               \* IteratorWrapper::iter_, "closed" once reset
    pc,                 \* where each thread is in iterator() or close()
    made,               \* iterator(): the local dbi
    snap,               \* close(): _fin_set when the loop started
    seen,               \* close(): the finalizers the loop has called
    popped              \* finalizers popped from the registry by the thread
                        \* that have not reached hnd.close() yet

vars == <<closed, finSet, alive, held, registry, db, iter,
          pc, made, snap, seen, popped>>

InIterator == {"created", "registered"}
InClose    == {"checked", "loop", "clear", "dbclose", "flag"}

Init ==
    /\ closed = FALSE
    /\ finSet = {}
    /\ alive = TRUE
    /\ held = {}
    /\ registry = {}
    /\ db = "open"
    /\ iter = [i \in Iters |-> "unborn"]
    /\ pc = [t \in Threads |-> "idle"]
    /\ made = [t \in Threads |-> None]
    /\ snap = [t \in Threads |-> {}]
    /\ seen = [t \in Threads |-> {}]
    /\ popped = [t \in Threads |-> {}]

\* A thread goes on with its own method when no finalizer runs on top of it.
At(t, l) == pc[t] = l /\ popped[t] = {}
Goto(t, l) == pc' = [pc EXCEPT ![t] = l]

-----------------------------------------------------------------------------
(* RocksDB.iterator *)

\* Mutant: the local dbi does not refer to the iterator that was made.
CreateIteratorLost(t) ==
    /\ At(t, "idle") /\ alive /\ db = "open"
    /\ \E i \in Iters : iter[i] = "unborn" /\ iter' = [iter EXCEPT ![i] = "open"]
    /\ Goto(t, "created")
    /\ UNCHANGED <<closed, finSet, alive, held, registry, db, made, snap, seen, popped>>

\* dbi = self._db.create_iterator(cfh).  On a closed database check_db fails
\* and the call raises "Invalid column family": nothing changes.
CreateIterator(t) ==
    /\ At(t, "idle")
    /\ alive
    /\ db = "open"
    /\ \E i \in Iters :
          /\ iter[i] = "unborn"
          /\ iter' = [iter EXCEPT ![i] = "open"]
          /\ made' = [made EXCEPT ![t] = i]
    /\ Goto(t, "created")
    /\ UNCHANGED <<closed, finSet, alive, held, registry, db, snap, seen, popped>>

\* weakref.finalize(dbw, self._close_hnd, dbi) enters the registry.
RegisterFinalizer(t) ==
    /\ At(t, "created")
    /\ registry' = registry \cup {made[t]}
    /\ Goto(t, "registered")
    /\ UNCHANGED <<closed, finSet, alive, held, db, iter, made, snap, seen, popped>>

\* Mutant: the finalizer is made but not added to _fin_set.
TrackFinalizerForgotten(t) ==
    /\ At(t, "registered")
    /\ held' = held \cup {made[t]}
    /\ made' = [made EXCEPT ![t] = None]
    /\ Goto(t, "idle")
    /\ UNCHANGED <<closed, finSet, alive, registry, db, iter, snap, seen, popped>>

\* self._fin_set.add(...), and dbw is returned to the program.
TrackFinalizer(t) ==
    /\ At(t, "registered")
    /\ finSet' = finSet \cup {made[t]}
    /\ held' = held \cup {made[t]}
    /\ made' = [made EXCEPT ![t] = None]
    /\ Goto(t, "idle")
    /\ UNCHANGED <<closed, alive, registry, db, iter, snap, seen, popped>>

-----------------------------------------------------------------------------
(* Finalizers *)

\* Mutant: a finalizer that is called stays in the registry.
PopAgain(t, i) ==
    /\ popped' = IF i \in registry THEN [popped EXCEPT ![t] = @ \cup {i}] ELSE popped
    /\ UNCHANGED registry

\* finalize.__call__ pops its entry; a finalizer that has run does nothing.
Pop(t, i) ==
    IF i \in registry
    THEN /\ registry' = registry \ {i}
         /\ popped' = [popped EXCEPT ![t] = @ \cup {i}]
    ELSE UNCHANGED <<registry, popped>>

\* The program drops a DbIterator and the interpreter collects it in thread t,
\* whatever t is doing.
Collect(t, i) ==
    /\ i \in held
    /\ held' = held \ {i}
    /\ Pop(t, i)
    /\ UNCHANGED <<closed, finSet, alive, db, iter, pc, made, snap, seen>>

\* Mutant: _close_hnd drops the handle and does not close it.
RunFinalizerIdle(t) ==
    /\ \E i \in popped[t] : popped' = [popped EXCEPT ![t] = @ \ {i}]
    /\ UNCHANGED <<closed, finSet, alive, held, registry, db, iter, pc, made, snap, seen>>

\* _close_hnd: hnd.close() deletes the rocksdb::Iterator.
RunFinalizer(t) ==
    /\ \E i \in popped[t] :
          /\ iter' = [iter EXCEPT ![i] = "closed"]
          /\ popped' = [popped EXCEPT ![t] = @ \ {i}]
    /\ UNCHANGED <<closed, finSet, alive, held, registry, db, pc, made, snap, seen>>

-----------------------------------------------------------------------------
(* RocksDB.close *)

\* if self._closed: return
CloseCheck(t) ==
    /\ At(t, "idle")
    /\ alive
    /\ ~closed
    /\ Goto(t, "checked")
    /\ UNCHANGED <<closed, finSet, alive, held, registry, db, iter, made, snap, seen, popped>>

\* for fin in self._fin_set: the set iterator remembers the set's size.
LoopStart(t) ==
    /\ At(t, "checked")
    /\ snap' = [snap EXCEPT ![t] = finSet]
    /\ seen' = [seen EXCEPT ![t] = {}]
    /\ Goto(t, "loop")
    /\ UNCHANGED <<closed, finSet, alive, held, registry, db, iter, made, popped>>

SameSize(t) == Cardinality(finSet) = Cardinality(snap[t])

\* Mutant: the loop takes any finalizer of _fin_set, called before or not.
CallFinalizerAny(t) ==
    /\ At(t, "loop")
    /\ SameSize(t)
    /\ \E f \in finSet : Pop(t, f)
    /\ UNCHANGED <<closed, finSet, alive, held, db, iter, pc, made, snap, seen>>

\* fin()
CallFinalizer(t) ==
    /\ At(t, "loop")
    /\ SameSize(t)
    /\ \E f \in finSet \ seen[t] :
          /\ seen' = [seen EXCEPT ![t] = @ \cup {f}]
          /\ Pop(t, f)
    /\ UNCHANGED <<closed, finSet, alive, held, db, iter, pc, made, snap>>

\* "Set changed size during iteration": RuntimeError leaves close() midway.
LoopRaises(t) ==
    /\ At(t, "loop")
    /\ ~SameSize(t)
    /\ snap' = [snap EXCEPT ![t] = {}]
    /\ seen' = [seen EXCEPT ![t] = {}]
    /\ Goto(t, "idle")
    /\ UNCHANGED <<closed, finSet, alive, held, registry, db, iter, made, popped>>

\* Mutant: the loop is left before every finalizer has been called.
LoopEndsEarly(t) ==
    /\ At(t, "loop")
    /\ SameSize(t)
    /\ Goto(t, "clear")
    /\ snap' = [snap EXCEPT ![t] = {}]
    /\ seen' = [seen EXCEPT ![t] = {}]
    /\ UNCHANGED <<closed, finSet, alive, held, registry, db, iter, made, popped>>

\* The loop has met every element that was there from the start; one that came
\* later, in place of another, may lie behind its position in the hash table.
LoopEnds(t) ==
    /\ At(t, "loop")
    /\ SameSize(t)
    /\ finSet \cap snap[t] \subseteq seen[t]
    /\ snap' = [snap EXCEPT ![t] = {}]
    /\ seen' = [seen EXCEPT ![t] = {}]
    /\ Goto(t, "clear")
    /\ UNCHANGED <<closed, finSet, alive, held, registry, db, iter, made, popped>>

\* Mutant: _closed is set before the database is closed.
ClearFinSetFlagged(t) ==
    /\ At(t, "clear")
    /\ finSet' = {}
    /\ closed' = TRUE
    /\ Goto(t, "dbclose")
    /\ UNCHANGED <<alive, held, registry, db, iter, made, snap, seen, popped>>

\* self._fin_set.clear()
ClearFinSet(t) ==
    /\ At(t, "clear")
    /\ finSet' = {}
    /\ Goto(t, "dbclose")
    /\ UNCHANGED <<closed, alive, held, registry, db, iter, made, snap, seen, popped>>

\* self._db.close(): harmless when another thread has already closed it.
CloseDb(t) ==
    /\ At(t, "dbclose")
    /\ db' = "closed"
    /\ Goto(t, "flag")
    /\ UNCHANGED <<closed, finSet, alive, held, registry, iter, made, snap, seen, popped>>

\* self._closed = True
SetClosed(t) ==
    /\ At(t, "flag")
    /\ closed' = TRUE
    /\ Goto(t, "idle")
    /\ UNCHANGED <<finSet, alive, held, registry, db, iter, made, snap, seen, popped>>

-----------------------------------------------------------------------------
(* Reference counting *)

\* Mutant: the finalizers hold a function that does not refer to the RocksDB
\* object.
CollectRocksDBUnpinned ==
    /\ alive
    /\ \A t \in Threads : At(t, "idle")
    /\ alive' = FALSE
    /\ UNCHANGED <<closed, finSet, held, registry, db, iter, pc, made, snap, seen, popped>>

\* The RocksDB object is freed once nothing refers to it: a method of it being
\* run does, and so does every finalizer in the registry or being run, through
\* the bound method self._close_hnd.
CollectRocksDB ==
    /\ alive
    /\ registry = {}
    /\ \A t \in Threads : At(t, "idle")
    /\ alive' = FALSE
    /\ UNCHANGED <<closed, finSet, held, registry, db, iter, pc, made, snap, seen, popped>>

\* Mutant: a cIterator does not keep its cDB.
DestroyDBWrapperUnkept ==
    /\ ~alive
    /\ db = "open"
    /\ db' = "closed"
    /\ UNCHANGED <<closed, finSet, alive, held, registry, iter, pc, made, snap, seen, popped>>

\* ~DBWrapper closes the database.  py::keep_alive<0, 1> makes each cIterator,
\* and so each DbIterator still held, keep the cDB.
DestroyDBWrapper ==
    /\ ~alive
    /\ held = {}
    /\ db = "open"
    /\ db' = "closed"
    /\ UNCHANGED <<closed, finSet, alive, held, registry, iter, pc, made, snap, seen, popped>>

\* The program is done with the database and with everything made from it.
Finished ==
    /\ ~alive
    /\ held = {}
    /\ db = "closed"
    /\ UNCHANGED vars

-----------------------------------------------------------------------------
\* What a thread does by itself once it is inside a method or a finalizer.
Proceed(t) ==
    \/ RegisterFinalizer(t) \/ TrackFinalizer(t)
    \/ RunFinalizer(t)
    \/ LoopStart(t) \/ CallFinalizer(t) \/ LoopRaises(t) \/ LoopEnds(t)
    \/ ClearFinSet(t) \/ CloseDb(t) \/ SetClosed(t)

Next ==
    \/ \E t \in Threads :
          \/ CreateIterator(t)
          \/ CloseCheck(t)
          \/ \E i \in Iters : Collect(t, i)
          \/ Proceed(t)
    \/ CollectRocksDB
    \/ DestroyDBWrapper
    \/ Finished

Spec == Init /\ [][Next]_vars

\* The interpreter switches threads, so each one that has something to do gets
\* to do it.  No call by the program is fair.
Fairness == \A t \in Threads : WF_vars(Proceed(t))

FairSpec == Spec /\ Fairness

\* Callers that serialise close(): while a thread is inside it, no other thread
\* is inside iterator(), close() or a finalizer.
Exclusive ==
    \A t, u \in Threads :
        pc[t] \in InClose /\ u # t => At(u, "idle")

SerialSpec == Init /\ [][Next /\ Exclusive']_vars

-----------------------------------------------------------------------------
(* Properties *)

TypeOK ==
    /\ closed \in BOOLEAN
    /\ finSet \subseteq Iters
    /\ alive \in BOOLEAN
    /\ held \subseteq Iters
    /\ registry \subseteq Iters
    /\ db \in {"open", "closed"}
    /\ iter \in [Iters -> {"unborn", "open", "closed"}]
    /\ pc \in [Threads -> {"idle"} \cup InIterator \cup InClose]
    /\ made \in [Threads -> Iters \cup {None}]
    /\ \A t \in Threads : made[t] \in Iters <=> pc[t] \in InIterator
    /\ snap \in [Threads -> SUBSET Iters]
    /\ seen \in [Threads -> SUBSET Iters]
    /\ popped \in [Threads -> SUBSET Iters]

\* Thread t is about to give iterator i a finalizer, or to close it.
Owns(t, i) == (pc[t] = "created" /\ made[t] = i) \/ i \in popped[t]

\* Every open rocksdb::Iterator has exactly one party that will delete it: the
\* thread that is making it, the registry, or the one thread that popped its
\* finalizer; and what one of them will delete is open.  Broken, an iterator
\* leaks or is deleted twice (db.py:120-122, 158-159).
SoleCloser ==
    \A i \in Iters :
        /\ iter[i] = "open" <=> i \in registry \/ \E t \in Threads : Owns(t, i)
        /\ \A t \in Threads : Owns(t, i) =>
              i \notin registry /\ \A u \in Threads : Owns(u, i) => u = t

\* No rocksdb::Iterator outlives its rocksdb::DB: close() runs the finalizers
\* before it closes the database (db.py:158-161), so that the iterator answers
\* "It has been already closed" (iterator_wrapper.h:23) and never reads or
\* frees memory of a deleted database.
NoOrphanIterator ==
    db = "closed" => \A i \in Iters : iter[i] # "open"

\* _closed is never set while the database is open: the early return of a
\* second close() tells the truth, whichever thread set it (db.py:156-162).
ClosedFlagIsTruthful == closed => db = "closed"

\* A RocksDB object is never collected while an iterator made from it is open,
\* whatever the threads do: the bound method in the finalizer pins the object,
\* so ~DBWrapper finds every iterator deleted (db.py:122, db_wrapper.cpp:27).
CollectedOwnsNothing == ~alive => \A i \in Iters : iter[i] # "open"

\* Every finalizer that may still run is in _fin_set, where close() will find
\* it, but for the one whose add() is the next step of iterator().
TrackedForClose ==
    \A i \in registry :
        i \in finSet \/ \E t \in Threads : pc[t] = "registered" /\ made[t] = i

\* close() returns: it ends its loop, or the loop raises.
CloseReturns ==
    \A t \in Threads : pc[t] \in InClose ~> pc[t] = "idle"

\* The iterator of a collected DbIterator does get deleted, even when the
\* thread that collects it is switched out, or is itself inside close().
CollectedIsClosed ==
    \A i \in Iters :
        iter[i] = "open" /\ i \notin held /\ (\A t \in Threads : made[t] # i)
            ~> iter[i] = "closed"

Contract == INSTANCE EngineContract
\* The binding uses the engine as the engine asks to be used.
ContractSpec == Contract!Spec
=============================================================================
