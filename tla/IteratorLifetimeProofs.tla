----------------------- MODULE IteratorLifetimeProofs -----------------------
(***************************************************************************)
(* Theorems about IteratorLifetime, for any set of threads and any finite  *)
(* set of iterators.  First what holds under every interleaving, then what *)
(* holds when close() is serialised with the other methods, and that the   *)
(* serialised program implements EngineContract.                           *)
(***************************************************************************)
EXTENDS IteratorLifetime, TLAPS

-----------------------------------------------------------------------------
(* Every interleaving *)

\* A thread has not popped the finalizer of an iterator that has none yet.
MadeNotPopped ==
    \A t, u \in Threads : pc[t] = "created" => made[t] \notin popped[u]

\* A thread about to set _closed finds the database closed.
FlagAfterClose == \A t \in Threads : pc[t] = "flag" => db = "closed"

\* Nothing is left to do on behalf of a RocksDB object that was collected.
CollectedIsQuiet ==
    ~alive => registry = {} /\ \A t \in Threads : At(t, "idle")

Inv ==
    /\ TypeOK
    /\ SoleCloser
    /\ MadeNotPopped
    /\ ClosedFlagIsTruthful
    /\ FlagAfterClose
    /\ CollectedIsQuiet

\* No state the program starts in breaks the invariant.
LEMMA InitInv == Init => Inv
  BY IterAssumption
  DEF Init, Inv, TypeOK, SoleCloser, Owns, MadeNotPopped, ClosedFlagIsTruthful,
      FlagAfterClose, CollectedIsQuiet, At, InIterator, InClose

\* Every variable keeps its type, and a thread has a local dbi exactly while
\* it is between create_iterator and the return of iterator().
LEMMA TypeStep == TypeOK /\ [Next]_vars => TypeOK'
<1> SUFFICES ASSUME TypeOK, [Next]_vars PROVE TypeOK'
  OBVIOUS
<1> USE IterAssumption DEF TypeOK, InIterator, InClose, At, Goto
<1>1. ASSUME NEW t \in Threads, CreateIterator(t) PROVE TypeOK'
  BY <1>1 DEF CreateIterator
<1>2. ASSUME NEW t \in Threads, CloseCheck(t) PROVE TypeOK'
  BY <1>2 DEF CloseCheck
<1>3. ASSUME NEW t \in Threads, NEW i \in Iters, Collect(t, i) PROVE TypeOK'
  BY <1>3 DEF Collect, Pop
<1>4. ASSUME NEW t \in Threads, Proceed(t) PROVE TypeOK'
  <2>1. CASE RegisterFinalizer(t)
    BY <2>1 DEF RegisterFinalizer
  <2>2. CASE TrackFinalizer(t)
    BY <2>2 DEF TrackFinalizer
  <2>3. CASE RunFinalizer(t)
    BY <2>3 DEF RunFinalizer
  <2>4. CASE LoopStart(t)
    BY <2>4 DEF LoopStart
  <2>5. CASE CallFinalizer(t)
    BY <2>5 DEF CallFinalizer, Pop
  <2>6. CASE LoopRaises(t)
    BY <2>6 DEF LoopRaises
  <2>7. CASE LoopEnds(t)
    BY <2>7 DEF LoopEnds
  <2>8. CASE ClearFinSet(t)
    BY <2>8 DEF ClearFinSet
  <2>9. CASE CloseDb(t)
    BY <2>9 DEF CloseDb
  <2>10. CASE SetClosed(t)
    BY <2>10 DEF SetClosed
  <2> QED
    BY <1>4, <2>1, <2>2, <2>3, <2>4, <2>5, <2>6, <2>7, <2>8, <2>9, <2>10
    DEF Proceed
<1>5. CASE CollectRocksDB
  BY <1>5 DEF CollectRocksDB
<1>6. CASE DestroyDBWrapper
  BY <1>6 DEF DestroyDBWrapper
<1>7. CASE UNCHANGED vars
  BY <1>7 DEF vars
<1> QED
  BY <1>1, <1>2, <1>3, <1>4, <1>5, <1>6, <1>7 DEF Next, Finished

Ownership == SoleCloser /\ MadeNotPopped

\* A step that makes no iterator, no finalizer and pops none keeps the parties.
LEMMA OwnershipKept ==
  ASSUME Ownership,
         UNCHANGED <<registry, iter, popped, made>>,
         \A t \in Threads : pc'[t] = "created" <=> pc[t] = "created"
  PROVE  Ownership'
  BY DEF Ownership, SoleCloser, MadeNotPopped, Owns

\* Popping a finalizer hands its iterator from the registry to the thread.
LEMMA PopMovesOwnership ==
  ASSUME TypeOK, Ownership, NEW t \in Threads, NEW i \in Iters, Pop(t, i),
         UNCHANGED <<iter, pc, made>>
  PROVE  Ownership'
<1>1. CASE i \notin registry
  BY <1>1 DEF Ownership, SoleCloser, MadeNotPopped, Owns, Pop
<1>2. CASE i \in registry
  <2>1. /\ registry' = registry \ {i}
        /\ popped' = [popped EXCEPT ![t] = @ \cup {i}]
    BY <1>2 DEF Pop
  <2>2. \A u \in Threads : ~Owns(u, i)
    BY <1>2 DEF Ownership, SoleCloser
  <2>3. \A u \in Threads, j \in Iters :
           Owns(u, j)' <=> Owns(u, j) \/ (u = t /\ j = i)
    BY <2>1 DEF Owns, TypeOK
  <2>4. SoleCloser'
    BY <1>2, <2>1, <2>2, <2>3 DEF Ownership, SoleCloser
  <2>5. MadeNotPopped'
    BY <2>1, <2>2 DEF Ownership, MadeNotPopped, Owns, TypeOK
  <2> QED
    BY <2>4, <2>5 DEF Ownership
<1> QED
  BY <1>1, <1>2

\* Each open iterator keeps exactly one party that will delete it.
LEMMA OwnershipStep == TypeOK /\ Ownership /\ [Next]_vars => Ownership'
<1> SUFFICES ASSUME TypeOK, Ownership, [Next]_vars PROVE Ownership'
  OBVIOUS
<1>1. ASSUME NEW t \in Threads, CreateIterator(t) PROVE Ownership'
  <2>1. PICK i \in Iters : /\ iter[i] = "unborn"
                           /\ iter' = [iter EXCEPT ![i] = "open"]
                           /\ made' = [made EXCEPT ![t] = i]
    BY <1>1 DEF CreateIterator
  <2>2. /\ pc' = [pc EXCEPT ![t] = "created"]
        /\ UNCHANGED <<registry, popped>>
        /\ pc[t] = "idle"
    BY <1>1 DEF CreateIterator, Goto, At
  <2>3. i \notin registry /\ \A u \in Threads : ~Owns(u, i)
    BY <2>1 DEF Ownership, SoleCloser
  <2>4. \A u \in Threads, j \in Iters :
           Owns(u, j)' <=> Owns(u, j) \/ (u = t /\ j = i)
    BY <2>1, <2>2 DEF Owns, TypeOK
  <2>5. SoleCloser'
    BY <2>1, <2>2, <2>3, <2>4 DEF Ownership, SoleCloser, TypeOK
  <2>6. MadeNotPopped'
    BY <2>1, <2>2, <2>3 DEF Ownership, MadeNotPopped, Owns, TypeOK
  <2> QED
    BY <2>5, <2>6 DEF Ownership
<1>2. ASSUME NEW t \in Threads, RegisterFinalizer(t) PROVE Ownership'
  <2>1. /\ pc[t] = "created" /\ popped[t] = {}
        /\ registry' = registry \cup {made[t]}
        /\ pc' = [pc EXCEPT ![t] = "registered"]
        /\ UNCHANGED <<iter, made, popped>>
    BY <1>2 DEF RegisterFinalizer, At, Goto
  <2>2. made[t] \in Iters
    BY <2>1 DEF TypeOK, InIterator
  <2>3. \A u \in Threads, j \in Iters :
           Owns(u, j)' <=> Owns(u, j) /\ ~(u = t /\ j = made[t])
    BY <2>1 DEF Owns, TypeOK
  <2>4. SoleCloser'
    BY <2>1, <2>2, <2>3 DEF Ownership, SoleCloser, Owns
  <2>5. MadeNotPopped'
    BY <2>1 DEF Ownership, MadeNotPopped, TypeOK
  <2> QED
    BY <2>4, <2>5 DEF Ownership
<1>3. ASSUME NEW t \in Threads, TrackFinalizer(t) PROVE Ownership'
  BY <1>3 DEF TrackFinalizer, At, Goto, TypeOK, Ownership, SoleCloser, MadeNotPopped, Owns
<1>4. ASSUME NEW t \in Threads, NEW i \in Iters, Collect(t, i) PROVE Ownership'
  BY <1>4, PopMovesOwnership DEF Collect
<1>5. ASSUME NEW t \in Threads, RunFinalizer(t) PROVE Ownership'
  <2>1. PICK i \in popped[t] : /\ iter' = [iter EXCEPT ![i] = "closed"]
                               /\ popped' = [popped EXCEPT ![t] = @ \ {i}]
    BY <1>5 DEF RunFinalizer
  <2>2. UNCHANGED <<registry, pc, made>>
    BY <1>5 DEF RunFinalizer
  <2>3. i \in Iters /\ Owns(t, i)
    BY <2>1 DEF TypeOK, Owns
  <2>4. i \notin registry /\ \A u \in Threads : Owns(u, i) => u = t
    BY <2>3 DEF Ownership, SoleCloser
  <2>5. \A u \in Threads, j \in Iters :
           Owns(u, j)' <=> Owns(u, j) /\ ~(u = t /\ j = i)
    BY <2>1, <2>2 DEF Owns, TypeOK, Ownership, MadeNotPopped
  <2>6. SoleCloser'
    BY <2>1, <2>2, <2>4, <2>5 DEF Ownership, SoleCloser, TypeOK
  <2>7. MadeNotPopped'
    BY <2>1, <2>2 DEF Ownership, MadeNotPopped, TypeOK
  <2> QED
    BY <2>6, <2>7 DEF Ownership
<1>6. ASSUME NEW t \in Threads, CallFinalizer(t) PROVE Ownership'
  <2>1. PICK f \in finSet : Pop(t, f)
    BY <1>6 DEF CallFinalizer
  <2>2. f \in Iters
    BY DEF TypeOK
  <2> QED
    BY <1>6, <2>1, <2>2, PopMovesOwnership DEF CallFinalizer
<1>7. ASSUME NEW t \in Threads,
             \/ CloseCheck(t) \/ LoopStart(t) \/ LoopRaises(t) \/ LoopEnds(t)
             \/ ClearFinSet(t) \/ CloseDb(t) \/ SetClosed(t)
      PROVE  Ownership'
  <2>1. UNCHANGED <<registry, iter, popped, made>>
    BY <1>7 DEF CloseCheck, LoopStart, LoopRaises, LoopEnds, ClearFinSet, CloseDb, SetClosed
  <2>2. \A u \in Threads : pc'[u] = "created" <=> pc[u] = "created"
    BY <1>7 DEF TypeOK, At, Goto, CloseCheck, LoopStart, LoopRaises, LoopEnds,
                ClearFinSet, CloseDb, SetClosed
  <2> QED
    BY <2>1, <2>2, OwnershipKept
<1>8. CASE CollectRocksDB \/ DestroyDBWrapper \/ UNCHANGED vars
  BY <1>8, OwnershipKept DEF CollectRocksDB, DestroyDBWrapper, vars
<1> QED
  BY <1>1, <1>2, <1>3, <1>4, <1>5, <1>6, <1>7, <1>8 DEF Next, Proceed, Finished

\* The database stays closed once closed, and _closed is set after it.
LEMMA FlagStep ==
  TypeOK /\ ClosedFlagIsTruthful /\ FlagAfterClose /\ [Next]_vars
     => ClosedFlagIsTruthful' /\ FlagAfterClose'
<1> SUFFICES ASSUME TypeOK, ClosedFlagIsTruthful, FlagAfterClose, [Next]_vars
             PROVE  ClosedFlagIsTruthful' /\ FlagAfterClose'
  OBVIOUS
<1> USE DEF TypeOK, ClosedFlagIsTruthful, FlagAfterClose, At, Goto
<1>1. ASSUME NEW t \in Threads,
             \/ CreateIterator(t) \/ CloseCheck(t) \/ RegisterFinalizer(t)
             \/ TrackFinalizer(t) \/ LoopStart(t) \/ LoopRaises(t) \/ LoopEnds(t)
             \/ ClearFinSet(t)
      PROVE  ClosedFlagIsTruthful' /\ FlagAfterClose'
  BY <1>1 DEF CreateIterator, CloseCheck, RegisterFinalizer, TrackFinalizer,
              LoopStart, LoopRaises, LoopEnds, ClearFinSet
<1>2. ASSUME NEW t \in Threads,
             (\E i \in Iters : Collect(t, i)) \/ RunFinalizer(t) \/ CallFinalizer(t)
      PROVE  ClosedFlagIsTruthful' /\ FlagAfterClose'
  BY <1>2 DEF Collect, RunFinalizer, CallFinalizer
<1>3. ASSUME NEW t \in Threads, CloseDb(t) \/ SetClosed(t)
      PROVE  ClosedFlagIsTruthful' /\ FlagAfterClose'
  BY <1>3 DEF CloseDb, SetClosed
<1>4. CASE CollectRocksDB \/ DestroyDBWrapper \/ UNCHANGED vars
  BY <1>4 DEF CollectRocksDB, DestroyDBWrapper, vars
<1> QED
  BY <1>1, <1>2, <1>3, <1>4 DEF Next, Proceed, Finished

\* A collected RocksDB object has no method running and no finalizer left.
LEMMA QuietStep == TypeOK /\ CollectedIsQuiet /\ [Next]_vars => CollectedIsQuiet'
<1> SUFFICES ASSUME TypeOK, CollectedIsQuiet, [Next]_vars PROVE CollectedIsQuiet'
  OBVIOUS
<1> USE DEF TypeOK, CollectedIsQuiet, At, Goto
<1>1. CASE alive
  <2>1. ASSUME NEW t \in Threads,
               \/ CreateIterator(t) \/ CloseCheck(t) \/ (\E i \in Iters : Collect(t, i))
               \/ Proceed(t)
        PROVE  alive'
    BY <1>1, <2>1
    DEF CreateIterator, CloseCheck, Collect, Proceed, RegisterFinalizer, TrackFinalizer,
        RunFinalizer, LoopStart, CallFinalizer, LoopRaises, LoopEnds, ClearFinSet,
        CloseDb, SetClosed
  <2>2. CASE CollectRocksDB
    BY <2>2 DEF CollectRocksDB
  <2>3. CASE DestroyDBWrapper \/ UNCHANGED vars
    BY <1>1, <2>3 DEF DestroyDBWrapper, vars
  <2> QED
    BY <2>1, <2>2, <2>3 DEF Next, Finished
<1>2. CASE ~alive
  <2>1. ASSUME NEW t \in Threads, NEW i \in Iters, Collect(t, i) PROVE CollectedIsQuiet'
    BY <1>2, <2>1 DEF Collect, Pop
  <2>2. ASSUME NEW t \in Threads PROVE ~CreateIterator(t) /\ ~CloseCheck(t) /\ ~Proceed(t)
    BY <1>2 DEF CreateIterator, CloseCheck, Proceed, RegisterFinalizer, TrackFinalizer,
                RunFinalizer, LoopStart, CallFinalizer, LoopRaises, LoopEnds, ClearFinSet,
                CloseDb, SetClosed
  <2>3. CASE CollectRocksDB \/ DestroyDBWrapper \/ UNCHANGED vars
    BY <1>2, <2>3 DEF CollectRocksDB, DestroyDBWrapper, vars
  <2> QED
    BY <2>1, <2>2, <2>3 DEF Next, Finished
<1> QED
  BY <1>1, <1>2

\* Every step of every thread and of the garbage collector keeps the invariant.
LEMMA InvStep == Inv /\ [Next]_vars => Inv'
  BY TypeStep, OwnershipStep, FlagStep, QuietStep DEF Inv, Ownership

\* The invariant holds in every behaviour.
THEOREM Invariance == Spec => []Inv
  BY InitInv, InvStep, PTL DEF Spec

\* Every variable keeps its type.
THEOREM TypeCorrect == Spec => []TypeOK
<1>1. Inv => TypeOK
  BY DEF Inv
<1> QED
  BY <1>1, Invariance, PTL

\* Whatever the threads and the garbage collector do, each open iterator has
\* exactly one party that will delete it: none is leaked, none deleted twice.
THEOREM OneCloser == Spec => []SoleCloser
<1>1. Inv => SoleCloser
  BY DEF Inv
<1> QED
  BY <1>1, Invariance, PTL

\* _closed never tells a thread that an open database is closed.
THEOREM FlagTruthful == Spec => []ClosedFlagIsTruthful
<1>1. Inv => ClosedFlagIsTruthful
  BY DEF Inv
<1> QED
  BY <1>1, Invariance, PTL

\* ~DBWrapper runs after the last iterator has been deleted.
THEOREM CollectedIsEmpty == Spec => []CollectedOwnsNothing
<1>1. Inv => CollectedOwnsNothing
  BY DEF Inv, SoleCloser, CollectedIsQuiet, CollectedOwnsNothing, Owns, At
<1> QED
  BY <1>1, Invariance, PTL
=============================================================================
