---------------------- MODULE IteratorLifetimeRefinement ----------------------
(***************************************************************************)
(* What serialising close() buys: no rocksdb::Iterator outlives its        *)
(* database, and IteratorLifetime implements EngineContract.  A program    *)
(* with one thread, and no interrupts, gets the same without any lock.     *)
(***************************************************************************)
EXTENDS IteratorLifetimeProofs

\* A loop over _fin_set meets a set that does not change, and the finalizers
\* it has called have left the registry.
LoopCovers ==
    \A t \in Threads : pc[t] = "loop" =>
        snap[t] = finSet /\ seen[t] \cap registry = {}

\* Past its loop, close() finds no finalizer left to run.
AllRun ==
    \A t \in Threads : pc[t] \in {"clear", "dbclose"} =>
        registry = {} /\ popped[t] = {}

SerialInv ==
    /\ Inv
    /\ Exclusive
    /\ TrackedForClose
    /\ LoopCovers
    /\ AllRun
    /\ NoOrphanIterator

SerialNext == Next /\ Exclusive'

\* The program starts with no iterator and no thread in a method.
LEMMA InitSerialInv == Init => SerialInv
  BY InitInv
  DEF Init, SerialInv, Exclusive, TrackedForClose, LoopCovers, AllRun, NoOrphanIterator,
      InClose

\* Beside a thread inside close(), no thread holds a finalizer or makes one.
LEMMA CloserIsAlone ==
  ASSUME TypeOK, Exclusive, NEW t \in Threads, pc[t] \in InClose,
         NEW u \in Threads, u # t
  PROVE  pc[u] = "idle" /\ popped[u] = {}
  BY DEF Exclusive, At

\* A finalizer that can still run stays within the reach of close().
LEMMA TrackedStep ==
  SerialInv /\ [SerialNext]_vars => TrackedForClose'
<1> SUFFICES ASSUME SerialInv, [SerialNext]_vars PROVE TrackedForClose'
  OBVIOUS
<1>1. TypeOK /\ Exclusive /\ AllRun /\ TrackedForClose
  BY DEF SerialInv, Inv
<1> USE <1>1 DEF TypeOK, TrackedForClose, At, Goto, InIterator, InClose
<1>2. ASSUME NEW t \in Threads, CreateIterator(t) \/ CloseCheck(t) PROVE TrackedForClose'
  BY <1>2 DEF CreateIterator, CloseCheck
<1>3. ASSUME NEW t \in Threads, NEW i \in Iters, Collect(t, i) PROVE TrackedForClose'
  BY <1>3 DEF Collect, Pop
<1>4. ASSUME NEW t \in Threads, Proceed(t) PROVE TrackedForClose'
  <2>1. CASE RegisterFinalizer(t)
    BY <2>1 DEF RegisterFinalizer
  <2>2. CASE TrackFinalizer(t)
    BY <2>2 DEF TrackFinalizer
  <2>3. CASE CallFinalizer(t)
    BY <2>3 DEF CallFinalizer, Pop
  <2>4. CASE ClearFinSet(t)
    <3>1. registry = {}
      BY <2>4 DEF ClearFinSet, AllRun
    <3> QED
      BY <2>4, <3>1 DEF ClearFinSet
  <2>5. CASE \/ RunFinalizer(t) \/ LoopStart(t) \/ LoopRaises(t) \/ LoopEnds(t)
             \/ CloseDb(t) \/ SetClosed(t)
    BY <2>5 DEF RunFinalizer, LoopStart, LoopRaises, LoopEnds, CloseDb, SetClosed
  <2> QED
    BY <1>4, <2>1, <2>2, <2>3, <2>4, <2>5 DEF Proceed
<1>5. CASE CollectRocksDB \/ DestroyDBWrapper \/ UNCHANGED vars
  BY <1>5 DEF CollectRocksDB, DestroyDBWrapper, vars
<1> QED
  BY <1>2, <1>3, <1>4, <1>5 DEF SerialNext, Next, Finished

\* The loop of close() is never disturbed and, once left, leaves nothing.
LEMMA LoopStep ==
  SerialInv /\ [SerialNext]_vars => LoopCovers' /\ AllRun'
<1> SUFFICES ASSUME SerialInv, [SerialNext]_vars PROVE LoopCovers' /\ AllRun'
  OBVIOUS
<1>1. TypeOK /\ Exclusive /\ AllRun /\ LoopCovers /\ TrackedForClose
  BY DEF SerialInv, Inv
<1> USE <1>1 DEF TypeOK, LoopCovers, AllRun, At, Goto, InIterator, InClose
<1>2. ASSUME NEW t \in Threads, CreateIterator(t) \/ CloseCheck(t)
      PROVE  LoopCovers' /\ AllRun'
  BY <1>2 DEF CreateIterator, CloseCheck
<1>3. ASSUME NEW t \in Threads, NEW i \in Iters, Collect(t, i) PROVE LoopCovers' /\ AllRun'
  BY <1>3 DEF Collect, Pop
<1>4. ASSUME NEW t \in Threads, Proceed(t) PROVE LoopCovers' /\ AllRun'
  <2>1. CASE RegisterFinalizer(t) \/ TrackFinalizer(t)
    <3>1. \A u \in Threads : pc[u] \notin InClose
      BY <2>1, CloserIsAlone DEF RegisterFinalizer, TrackFinalizer
    <3>2. \A u \in Threads : pc'[u] \notin InClose
      BY <2>1, <3>1 DEF RegisterFinalizer, TrackFinalizer
    <3> QED
      BY <3>2
  <2>2. CASE RunFinalizer(t)
    BY <2>2 DEF RunFinalizer
  <2>3. CASE LoopStart(t)
    BY <2>3, CloserIsAlone DEF LoopStart
  <2>4. CASE CallFinalizer(t)
    <3>1. \A u \in Threads : u # t => pc[u] = "idle"
      BY <2>4, CloserIsAlone DEF CallFinalizer
    <3>2. PICK f \in finSet : seen' = [seen EXCEPT ![t] = @ \cup {f}] /\ Pop(t, f)
      BY <2>4 DEF CallFinalizer
    <3>3. f \notin registry' /\ registry' \subseteq registry
      BY <3>2 DEF Pop
    <3> QED
      BY <2>4, <3>1, <3>2, <3>3 DEF CallFinalizer
  <2>5. CASE LoopRaises(t)
    BY <2>5 DEF LoopRaises, SameSize
  <2>6. CASE LoopEnds(t)
    <3>1. \A u \in Threads : u # t => pc[u] = "idle"
      BY <2>6, CloserIsAlone DEF LoopEnds
    <3>2. registry \subseteq finSet
      BY <2>6, <3>1 DEF LoopEnds, TrackedForClose
    <3>3. finSet \subseteq seen[t] /\ seen[t] \cap registry = {}
      BY <2>6 DEF LoopEnds
    <3>4. registry = {}
      BY <3>2, <3>3
    <3> QED
      BY <2>6, <3>1, <3>4 DEF LoopEnds
  <2>7. CASE ClearFinSet(t)
    BY <2>7, CloserIsAlone DEF ClearFinSet
  <2>8. CASE CloseDb(t) \/ SetClosed(t)
    BY <2>8 DEF CloseDb, SetClosed
  <2> QED
    BY <1>4, <2>1, <2>2, <2>3, <2>4, <2>5, <2>6, <2>7, <2>8 DEF Proceed
<1>5. CASE CollectRocksDB \/ DestroyDBWrapper \/ UNCHANGED vars
  BY <1>5 DEF CollectRocksDB, DestroyDBWrapper, vars
<1> QED
  BY <1>2, <1>3, <1>4, <1>5 DEF SerialNext, Next, Finished

\* When close() reaches the database no iterator of it is open.
LEMMA NoneOpenAtClose ==
  ASSUME SerialInv, NEW t \in Threads, CloseDb(t)
  PROVE  \A i \in Iters : iter[i] # "open"
<1>1. pc[t] = "dbclose" /\ registry = {} /\ popped[t] = {}
  BY DEF SerialInv, AllRun, CloseDb, At
<1>2. \A u \in Threads : u # t => pc[u] = "idle" /\ popped[u] = {}
  BY <1>1, CloserIsAlone DEF SerialInv, Inv, InClose
<1> QED
  BY <1>1, <1>2 DEF SerialInv, Inv, SoleCloser, Owns

\* Nor is one when ~DBWrapper closes the database.
LEMMA NoneOpenAtDestroy ==
  ASSUME SerialInv, DestroyDBWrapper
  PROVE  \A i \in Iters : iter[i] # "open"
  BY DEF SerialInv, Inv, DestroyDBWrapper, CollectedIsQuiet, SoleCloser, Owns, At

\* Each step is a step of the contract or leaves the engine alone.
LEMMA StepRefines ==
  SerialInv /\ [SerialNext]_vars => [Contract!Next]_<<db, iter>>
<1> SUFFICES ASSUME SerialInv, [SerialNext]_vars PROVE [Contract!Next]_<<db, iter>>
  OBVIOUS
<1>1. ASSUME NEW t \in Threads, CreateIterator(t) PROVE Contract!Next
  BY <1>1 DEF CreateIterator, Contract!Next, Contract!NewIterator
<1>2. ASSUME NEW t \in Threads, RunFinalizer(t) PROVE Contract!Next
  <2>1. PICK i \in popped[t] : iter' = [iter EXCEPT ![i] = "closed"]
    BY <1>2 DEF RunFinalizer
  <2>2. i \in Iters /\ iter[i] = "open"
    BY <2>1 DEF SerialInv, Inv, TypeOK, SoleCloser, Owns
  <2>3. db = "open"
    BY <2>2 DEF SerialInv, Inv, TypeOK, NoOrphanIterator
  <2> QED
    BY <1>2, <2>1, <2>2, <2>3 DEF RunFinalizer, Contract!Next, Contract!DeleteIterator
<1>3. ASSUME NEW t \in Threads, CloseDb(t) PROVE [Contract!Next]_<<db, iter>>
  BY <1>3, NoneOpenAtClose
  DEF CloseDb, SerialInv, Inv, TypeOK, Contract!Next, Contract!DeleteDB
<1>4. CASE DestroyDBWrapper
  BY <1>4, NoneOpenAtDestroy DEF DestroyDBWrapper, Contract!Next, Contract!DeleteDB
<1>5. ASSUME NEW t \in Threads,
             \/ CloseCheck(t) \/ (\E i \in Iters : Collect(t, i))
             \/ RegisterFinalizer(t) \/ TrackFinalizer(t)
             \/ LoopStart(t) \/ CallFinalizer(t) \/ LoopRaises(t) \/ LoopEnds(t)
             \/ ClearFinSet(t) \/ SetClosed(t)
      PROVE  UNCHANGED <<db, iter>>
  BY <1>5
  DEF CloseCheck, Collect, RegisterFinalizer, TrackFinalizer, LoopStart, CallFinalizer,
      LoopRaises, LoopEnds, ClearFinSet, SetClosed
<1>6. CASE CollectRocksDB \/ UNCHANGED vars
  BY <1>6 DEF CollectRocksDB, vars
<1> QED
  BY <1>1, <1>2, <1>3, <1>4, <1>5, <1>6 DEF SerialNext, Next, Proceed, Finished

\* A step of the contract never leaves an iterator open in a closed database.
LEMMA NoOrphanStep ==
  SerialInv /\ [SerialNext]_vars => NoOrphanIterator'
<1> SUFFICES ASSUME SerialInv, [SerialNext]_vars PROVE NoOrphanIterator'
  OBVIOUS
<1>1. [Contract!Next]_<<db, iter>>
  BY StepRefines
<1> QED
  BY <1>1
  DEF SerialInv, NoOrphanIterator, Contract!Next, Contract!NewIterator,
      Contract!DeleteIterator, Contract!DeleteDB

\* Every step that waits for close() keeps the serial invariant.
LEMMA SerialInvStep == SerialInv /\ [SerialNext]_vars => SerialInv'
<1> SUFFICES ASSUME SerialInv, [SerialNext]_vars PROVE SerialInv'
  OBVIOUS
<1>1. Inv'
  BY InvStep DEF SerialInv, SerialNext
<1>2. Exclusive'
  BY DEF SerialInv, SerialNext, Exclusive, At, vars
<1> QED
  BY <1>1, <1>2, TrackedStep, LoopStep, NoOrphanStep DEF SerialInv

\* The serial invariant holds when close() is kept apart.
THEOREM SerialInvariance == SerialSpec => []SerialInv
  BY InitSerialInv, SerialInvStep, PTL DEF SerialSpec, SerialNext

\* With close() serialised, every rocksdb::Iterator is deleted before its
\* rocksdb::DB.
THEOREM NoOrphans == SerialSpec => []NoOrphanIterator
<1>1. SerialInv => NoOrphanIterator
  BY DEF SerialInv
<1> QED
  BY <1>1, SerialInvariance, PTL

\* With close() serialised, close() can find every finalizer that may run.
THEOREM AllTracked == SerialSpec => []TrackedForClose
<1>1. SerialInv => TrackedForClose
  BY DEF SerialInv
<1> QED
  BY <1>1, SerialInvariance, PTL

\* With close() serialised, the binding uses the engine as EngineContract asks.
THEOREM Refinement == SerialSpec => ContractSpec
<1>1. Init => Contract!Init
  BY DEF Init, Contract!Init
<1> QED
  BY <1>1, StepRefines, SerialInvariance, PTL
  DEF SerialSpec, SerialNext, ContractSpec, Contract!Spec, Contract!vars

\* A single thread never meets another one inside close().
LEMMA OneThreadIsSerial ==
  ASSUME \A t, u \in Threads : t = u
  PROVE  Spec => SerialSpec
<1>1. Exclusive'
  BY DEF Exclusive
<1> QED
  BY <1>1, PTL DEF Spec, SerialSpec

\* A program whose RocksDB object is used by one thread, and is not interrupted,
\* needs no lock: though the garbage collector may run a finalizer in the middle
\* of iterator() and of close(), it uses the engine as EngineContract asks, and
\* no rocksdb::Iterator outlives its rocksdb::DB.
THEOREM OneThreadNeedsNoLock ==
  ASSUME \A t, u \in Threads : t = u
  PROVE  Spec => ContractSpec /\ []NoOrphanIterator
<1>1. Spec => SerialSpec
  BY OneThreadIsSerial
<1> QED
  BY <1>1, NoOrphans, Refinement, PTL
=============================================================================
