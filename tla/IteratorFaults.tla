--------------------------- MODULE IteratorFaults ---------------------------
(***************************************************************************)
(* IteratorLifetime with the two ways in which the interpreter takes a     *)
(* method or a finalizer apart: KeyboardInterrupt, which it raises between *)
(* two instructions of the main thread, and its own end, when the weakref  *)
(* module runs the finalizers that are left and switches them off.         *)
(*                                                                         *)
(* A finalizer that is lost leaves the rocksdb::Iterator to its cIterator, *)
(* whose destructor deletes it when the last reference goes.  As long as   *)
(* something refers to the exception, its traceback refers to the frame    *)
(* that it left, and so to the iterator that was being made or closed      *)
(* there: with the exception on its way, __exit__ calls close().           *)
(***************************************************************************)
EXTENDS IteratorLifetime

CONSTANT Main           \* the thread that signals and atexit functions run in

Stages == {"no", "running", "done"}

ASSUME MainAssumption == Main \in Threads /\ Iters \cap Stages = {}

VARIABLES
    exit,               \* weakref.finalize._exitfunc: "no" before it, "done"
                        \* once it has set _shutdown; the iterator whose
                        \* finalizer it is calling, or "running" between two
    traced,             \* the iterators in the frames of a traceback
    cut                 \* history: those of whose iterator() or finalizer an
                        \* interrupt has cut off the rest

faultVars == <<exit, traced, cut>>
fvars == <<vars, faultVars>>

FInit == Init /\ exit = "no" /\ traced = {} /\ cut = {}

LeaveMethod(t) ==
    /\ Goto(t, "idle")
    /\ snap' = [snap EXCEPT ![t] = {}]
    /\ seen' = [seen EXCEPT ![t] = {}]

-----------------------------------------------------------------------------
(* Finalizers that are lost *)

\* No finalizer of i will run, and none is being run.
Unowned(i) ==
    /\ exit = "done" \/ i \notin registry
    /\ \A t \in Threads : i \notin popped[t]

\* The program has i, or a thread in iterator() is about to give it i.
Referred(i) == i \in held \/ \E t \in Threads : made[t] = i

\* The cIterator of a DbIterator is referred to by nothing else.
SoleReference(i) == i \in held \ traced /\ Unowned(i)

\* Mutant: the cIterator keeps its rocksdb::Iterator when it is freed.
FreeHandleLeaks(i) ==
    /\ registry' = registry \ {i}
    /\ UNCHANGED <<iter, popped>>

\* ~IteratorWrapper.  After _shutdown a finalizer only leaves the registry.
FreeHandle(i) ==
    /\ registry' = registry \ {i}
    /\ iter' = [iter EXCEPT ![i] = "closed"]
    /\ UNCHANGED popped

CollectHandle(i) ==
    /\ SoleReference(i)
    /\ held' = held \ {i}
    /\ FreeHandle(i)
    /\ UNCHANGED <<closed, finSet, alive, db, pc, made, snap, seen, faultVars>>

CollectOrFinalize(t, i) ==
    \/ CollectHandle(i)
    \/ ~SoleReference(i) /\ Collect(t, i) /\ UNCHANGED faultVars

\* The exception is dropped, in thread t, and its traceback with it.
DropTraceback(t, i) ==
    /\ i \in traced
    /\ traced' = traced \ {i}
    /\ \/ Referred(i) /\ UNCHANGED <<registry, popped, iter>>
       \/ ~Referred(i) /\ Unowned(i) /\ FreeHandle(i)
       \/ ~Referred(i) /\ ~Unowned(i) /\ Pop(t, i) /\ UNCHANGED iter
    /\ UNCHANGED <<closed, finSet, alive, held, db, pc, made, snap, seen, exit, cut>>

\* fin() in the loop of close(), after _shutdown.
DiscardFinalizer(t) ==
    /\ exit = "done"
    /\ At(t, "loop")
    /\ SameSize(t)
    /\ \E f \in finSet \ seen[t] :
          /\ seen' = [seen EXCEPT ![t] = @ \cup {f}]
          /\ registry' = registry \ {f}
    /\ UNCHANGED <<closed, finSet, alive, held, db, iter, pc, made, snap, popped, faultVars>>

-----------------------------------------------------------------------------
(* KeyboardInterrupt *)

\* Mutant: the exception is raised without leaving iterator()'s frame.
InterruptIteratorKeeps ==
    /\ pc[Main] \in InIterator /\ popped[Main] = {}
    /\ traced' = traced \cup {made[Main]}
    /\ cut' = cut \cup {made[Main]}
    /\ Goto(Main, "idle")
    /\ UNCHANGED <<closed, finSet, alive, held, registry, db, iter, made, snap, seen, popped, exit>>

\* iterator() is left with dbi and dbw in its frame: before weakref.finalize, or
\* with the finalizer made but not in _fin_set.
InterruptIterator ==
    /\ pc[Main] \in InIterator /\ popped[Main] = {}
    /\ traced' = traced \cup {made[Main]}
    /\ cut' = cut \cup {made[Main]}
    /\ made' = [made EXCEPT ![Main] = None]
    /\ Goto(Main, "idle")
    /\ UNCHANGED <<closed, finSet, alive, held, registry, db, iter, snap, seen, popped, exit>>

\* close() is left between two of its steps.
InterruptClose ==
    /\ pc[Main] \in InClose /\ popped[Main] = {}
    /\ LeaveMethod(Main)
    /\ UNCHANGED <<closed, finSet, alive, held, registry, db, iter, made, popped, faultVars>>

\* The exception leaves the finalizer and what called it, close() or _exitfunc,
\* and hnd is in its traceback; in a finalizer that the garbage collector called
\* it is reported and dropped.
CalledByClose(i) == pc[Main] = "loop" /\ i \in seen[Main]

\* A finalizer is left between the pop of its entry and hnd.close().
InterruptFinalizer(i) ==
    /\ i \in popped[Main]
    /\ popped' = [popped EXCEPT ![Main] = @ \ {i}]
    /\ cut' = cut \cup {i}
    /\ IF CalledByClose(i) \/ exit = i
       THEN popped[Main] = {i} /\ traced' = traced \cup {i} /\ UNCHANGED iter
       ELSE /\ IF Referred(i) \/ i \in traced
               THEN UNCHANGED iter ELSE iter' = [iter EXCEPT ![i] = "closed"]
            /\ UNCHANGED traced
    /\ IF CalledByClose(i) THEN LeaveMethod(Main) ELSE UNCHANGED <<pc, snap, seen>>
    /\ exit' = IF exit = i THEN "done" ELSE exit
    /\ UNCHANGED <<closed, finSet, alive, held, registry, db, made>>

-----------------------------------------------------------------------------
(* The end of the interpreter *)

ExitStart ==
    /\ exit = "no"
    /\ At(Main, "idle")
    /\ exit' = "running"
    /\ UNCHANGED <<vars, traced, cut>>

ExitCall ==
    /\ exit = "running"
    /\ At(Main, "idle")
    /\ \E i \in registry : Pop(Main, i) /\ exit' = i
    /\ UNCHANGED <<closed, finSet, alive, held, db, iter, pc, made, snap, seen, traced, cut>>

ExitReturn ==
    /\ exit \in Iters
    /\ exit \notin popped[Main]
    /\ exit' = "running"
    /\ UNCHANGED <<vars, traced, cut>>

\* _shutdown = True, once no finalizer is left, or when KeyboardInterrupt ends
\* the loop of _exitfunc before that.
ExitEnd ==
    /\ exit = "running"
    /\ At(Main, "idle")
    /\ registry = {}
    /\ exit' = "done"
    /\ UNCHANGED <<vars, traced, cut>>

InterruptExit ==
    /\ exit \in Iters \cup {"running"}
    /\ popped[Main] = {}
    /\ exit' = "done"
    /\ UNCHANGED <<vars, traced, cut>>

Exiting == exit \notin {"no", "done"}

-----------------------------------------------------------------------------
\* What a thread does by itself, with the finalizers switched off or not.
FProceed(t) ==
    \/ /\ \/ RegisterFinalizer(t) \/ TrackFinalizer(t) \/ RunFinalizer(t)
          \/ LoopStart(t) \/ LoopRaises(t) \/ LoopEnds(t)
          \/ exit # "done" /\ CallFinalizer(t)
          \/ ClearFinSet(t) \/ CloseDb(t) \/ SetClosed(t)
       /\ UNCHANGED faultVars
    \/ DiscardFinalizer(t)

Interrupt ==
    \/ InterruptIterator \/ InterruptClose \/ InterruptExit
    \/ \E i \in Iters : InterruptFinalizer(i)

Exit == ExitStart \/ ExitCall \/ ExitReturn \/ ExitEnd

\* The frames of a traceback refer to the RocksDB object too.
FNext ==
    \/ \E t \in Threads :
          \/ /\ ~(t = Main /\ Exiting)
             /\ (CreateIterator(t) \/ CloseCheck(t))
             /\ UNCHANGED faultVars
          \/ \E i \in Iters : CollectOrFinalize(t, i) \/ DropTraceback(t, i)
          \/ FProceed(t)
    \/ /\ \/ traced = {} /\ CollectRocksDB
          \/ DestroyDBWrapper \/ Finished
       /\ UNCHANGED faultVars
    \/ Interrupt
    \/ Exit

FaultSpec == FInit /\ [][FNext]_fvars

\* The program of SerialSpec, under the same faults.
SerialFaultSpec ==
    /\ FInit /\ [][FNext /\ Exclusive']_fvars
    /\ \A t \in Threads : WF_fvars(FProceed(t))
    /\ WF_fvars(ExitCall \/ ExitReturn \/ ExitEnd)

-----------------------------------------------------------------------------
(* Properties *)

FTypeOK ==
    /\ TypeOK
    /\ exit \in Stages \cup Iters
    /\ traced \subseteq Iters
    /\ cut \subseteq Iters

\* An open rocksdb::Iterator always has something that will delete it: the
\* thread making it, its finalizer, or, when an interrupt or the end of the
\* interpreter has lost the finalizer, the destructor of a cIterator that the
\* program or a traceback still refers to (db.py:120-122, 165,
\* iterator_wrapper.h:11).
NothingLeaks ==
    \A i \in Iters :
        iter[i] = "open" =>
            \/ i \in registry \cup held \cup traced
            \/ \E t \in Threads : made[t] = i \/ i \in popped[t]

\* An iterator that outlives its database is one that an interrupt has cut off
\* from close(), in its own iterator() or in its own finalizer, or that the
\* program held when the interpreter had switched the finalizers off.  No other
\* interrupt, and none of them before, makes close() miss an iterator
\* (db.py:120-122, 158-165).
OrphansWereCutOff ==
    db = "closed" =>
        \A i \in Iters : iter[i] = "open" => i \in cut \/ (exit = "done" /\ i \in held)

\* A database dropped without close() is deleted after its iterators, even
\* those that lost their finalizers: py::keep_alive<0, 1> holds the cDB for
\* them (rocksdb_module.cpp:449, db_wrapper.cpp:27).
DestroyedLast ==
    [][~alive /\ db = "open" /\ db' = "closed" =>
          \A i \in Iters : iter[i] # "open"]_fvars

\* Dropping a DbIterator, and the traceback that an interrupt left, gets its
\* rocksdb::Iterator deleted in every case, unless one more interrupt puts it
\* into a traceback again (db.py:122, iterator_wrapper.h:11).
DroppedGetsClosed ==
    \A i \in Iters :
        iter[i] = "open" /\ i \notin held \cup traced /\ (\A t \in Threads : made[t] # i)
            ~> iter[i] = "closed" \/ i \in traced
=============================================================================
