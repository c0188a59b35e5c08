------------------------ MODULE IteratorFaultsProofs ------------------------
(***************************************************************************)
(* Theorems about IteratorFaults, for any threads and iterators.  Under    *)
(* every interleaving, no interrupt and no end of the interpreter leaks a  *)
(* rocksdb::Iterator, or makes ~DBWrapper run before one.  With close()    *)
(* serialised, the iterators that outlive their database are those whose   *)
(* own iterator() or finalizer was cut off.                                *)
(***************************************************************************)
EXTENDS IteratorFaults, IteratorLifetimeRefinement

\* An iterator that has not been made is known to no one.
UnbornIsUnknown ==
    \A i \in Iters :
        iter[i] = "unborn" =>
            /\ i \notin finSet \cup held \cup registry \cup traced
            /\ \A t \in Threads : made[t] # i /\ i \notin popped[t]

\* iterator() is the only one to have the iterator it is making.
MakingIsPrivate ==
    \A t \in Threads : made[t] \in Iters =>
        /\ made[t] \notin finSet \cup held
        /\ pc[t] = "created" => made[t] \notin registry
        /\ \A u \in Threads : made[u] = made[t] => u = t

\* A finalizer in the registry has its DbIterator.
RegistryIsReferred == \A i \in registry : i \in traced \/ Referred(i)

\* iterator() registers the finalizer, which only a call of it takes away.
RegisteredHasFinalizer ==
    \A t \in Threads : pc[t] = "registered" =>
        \/ made[t] \in registry \cup cut
        \/ iter[made[t]] # "open"
        \/ \E u \in Threads : made[t] \in popped[u]

\* An open iterator that no finalizer will delete any more was cut off by an
\* interrupt, or held when the interpreter switched the finalizers off.
LossIsExplained ==
    \A i \in Iters :
        iter[i] = "open" =>
            \/ i \in registry \cup cut
            \/ exit = "done" /\ i \in held
            \/ \E t \in Threads : made[t] = i \/ i \in popped[t]

\* A traceback holds what was cut off, and by its frames the RocksDB object.
TracedWasCut == traced \subseteq cut /\ (alive \/ traced = {})

Parties ==
    /\ NothingLeaks
    /\ UnbornIsUnknown
    /\ MakingIsPrivate
    /\ RegistryIsReferred
    /\ RegisteredHasFinalizer
    /\ LossIsExplained
    /\ TracedWasCut

FInv == FTypeOK /\ Parties /\ CollectedIsQuiet

\* No state the program starts in breaks the invariant.
LEMMA FInitInv == FInit => FInv
<1>1. FInit => TypeOK /\ CollectedIsQuiet
  BY InitInv DEF FInit, Inv
<1>2. FInit => Parties
  BY IterAssumption
  DEF FInit, Init, Parties, NothingLeaks, UnbornIsUnknown, MakingIsPrivate,
      RegistryIsReferred, RegisteredHasFinalizer, LossIsExplained, TracedWasCut
<1>3. FInit => exit \in Stages /\ traced = {} /\ cut = {}
  BY DEF FInit, Stages
<1> QED
  BY <1>1, <1>2, <1>3 DEF FInv, FTypeOK

-----------------------------------------------------------------------------
(* The steps *)

\* What the program does, and the garbage collector with the finalizers intact.
Run(t) ==
    /\ \/ CreateIterator(t) \/ CloseCheck(t) \/ Proceed(t)
       \/ \E i \in Iters : ~SoleReference(i) /\ Collect(t, i)
    /\ UNCHANGED faultVars

\* What the interpreter does besides: it interrupts, and it ends.
Fault(t) ==
    \/ \E i \in Iters : CollectHandle(i) \/ DropTraceback(t, i) \/ InterruptFinalizer(i)
    \/ DiscardFinalizer(t)
    \/ InterruptIterator \/ InterruptClose
    \/ ExitCall

Freeing ==
    /\ \/ traced = {} /\ CollectRocksDB
       \/ DestroyDBWrapper
       \/ UNCHANGED vars
    /\ UNCHANGED <<traced, cut>>
    /\ exit = "done" => exit' = "done"

\* Every step is one of the three.
LEMMA Steps == [FNext]_fvars => Freeing \/ \E t \in Threads : Run(t) \/ Fault(t)
<1> SUFFICES ASSUME [FNext]_fvars
             PROVE  Freeing \/ \E t \in Threads : Run(t) \/ Fault(t)
  OBVIOUS
<1>1. ASSUME NEW t \in Threads,
             \/ (CreateIterator(t) \/ CloseCheck(t)) /\ UNCHANGED faultVars
             \/ FProceed(t)
      PROVE  Run(t) \/ Fault(t)
  BY <1>1 DEF FProceed, Proceed, Run, Fault
<1>2. ASSUME NEW t \in Threads, NEW i \in Iters,
             CollectOrFinalize(t, i) \/ DropTraceback(t, i)
      PROVE  Run(t) \/ Fault(t)
  BY <1>2 DEF CollectOrFinalize, Run, Fault
<1>3. CASE /\ (traced = {} /\ CollectRocksDB) \/ DestroyDBWrapper \/ Finished
           /\ UNCHANGED faultVars
  BY <1>3 DEF Freeing, Finished, faultVars
<1>4. CASE ExitStart \/ ExitReturn \/ ExitEnd \/ InterruptExit
  BY <1>4, MainAssumption
  DEF ExitStart, ExitReturn, ExitEnd, InterruptExit, Freeing, Stages
<1>5. CASE InterruptIterator \/ InterruptClose \/ ExitCall \/ \E i \in Iters : InterruptFinalizer(i)
  BY <1>5, MainAssumption DEF Fault
<1>6. CASE UNCHANGED fvars
  BY <1>6 DEF fvars, faultVars, Freeing
<1> QED
  BY <1>1, <1>2, <1>3, <1>4, <1>5, <1>6 DEF FNext, Interrupt, Exit

\* Where the interpreter does not interfere, a step is one of IteratorLifetime.
LEMMA RunIsNext ==
  ASSUME Freeing \/ \E t \in Threads : Run(t)
  PROVE  [Next]_vars
  BY DEF Freeing, Run, Next

\* Every variable keeps its type through a fault.
LEMMA FaultType ==
  ASSUME FTypeOK, NEW t \in Threads, Fault(t)
  PROVE  TypeOK' /\ traced' \subseteq Iters /\ cut' \subseteq Iters
<1> DEFINE Goal == TypeOK' /\ traced' \subseteq Iters /\ cut' \subseteq Iters
<1> USE IterAssumption, MainAssumption
    DEF FTypeOK, TypeOK, InIterator, InClose, At, Goto, faultVars
<1>1. ASSUME NEW i \in Iters, CollectHandle(i) PROVE Goal
  BY <1>1 DEF CollectHandle, FreeHandle
<1>2. ASSUME NEW i \in Iters, DropTraceback(t, i) PROVE Goal
  <2>1. /\ registry' \subseteq Iters
        /\ iter' \in [Iters -> {"unborn", "open", "closed"}]
        /\ popped' \in [Threads -> SUBSET Iters]
    BY <1>2 DEF DropTraceback, FreeHandle, Pop
  <2> QED
    BY <1>2, <2>1 DEF DropTraceback
<1>3. ASSUME NEW i \in Iters, InterruptFinalizer(i) PROVE Goal
  <2>1. /\ popped' \in [Threads -> SUBSET Iters]
        /\ iter' \in [Iters -> {"unborn", "open", "closed"}]
        /\ traced' \subseteq Iters /\ cut' \subseteq Iters
    BY <1>3 DEF InterruptFinalizer
  <2>2. CASE CalledByClose(i)
    <3>1. pc[Main] = "loop"
      BY <2>2 DEF CalledByClose
    <3> QED
      BY <1>3, <2>1, <2>2, <3>1 DEF InterruptFinalizer, LeaveMethod
  <2>3. CASE ~CalledByClose(i)
    BY <1>3, <2>1, <2>3 DEF InterruptFinalizer
  <2> QED
    BY <2>2, <2>3
<1>4. CASE DiscardFinalizer(t)
  BY <1>4 DEF DiscardFinalizer
<1>5. CASE InterruptIterator
  BY <1>5 DEF InterruptIterator
<1>6. CASE InterruptClose
  BY <1>6 DEF InterruptClose, LeaveMethod
<1>7. CASE ExitCall
  BY <1>7 DEF ExitCall, Pop
<1> QED
  BY <1>1, <1>2, <1>3, <1>4, <1>5, <1>6, <1>7 DEF Fault

-----------------------------------------------------------------------------
(* The parties that may delete an iterator *)

\* A step that gives no finalizer, iterator or local a new place.
LEMMA PartiesKept ==
  ASSUME Parties, finSet' \subseteq finSet,
         UNCHANGED <<held, registry, iter, made, popped, traced, cut>>,
         \A t \in Threads, l \in InIterator : pc'[t] = l => pc[t] = l,
         exit = "done" => exit' = "done", alive' \/ traced = {}
  PROVE  Parties'
  BY DEF Parties, NothingLeaks, UnbornIsUnknown, MakingIsPrivate, RegistryIsReferred,
         RegisteredHasFinalizer, LossIsExplained, TracedWasCut, Referred, InIterator

\* Popping a finalizer hands its iterator to the thread.
LEMMA PopKeepsParties ==
  ASSUME FTypeOK, Parties, NEW t \in Threads, NEW i \in Iters, Pop(t, i),
         \/ UNCHANGED <<held, traced>>
         \/ /\ held' = held \ {i} /\ UNCHANGED traced
            /\ i \in traced \cup registry \cup UNION {popped[u] : u \in Threads}
         \/ /\ traced' = traced \ {i} /\ UNCHANGED held
            /\ i \in registry \cup UNION {popped[u] : u \in Threads},
         UNCHANGED <<finSet, iter, made, pc, cut, alive>>,
         exit = "done" => exit' = "done"
  PROVE  Parties'
<1>1. /\ registry' = registry \ {i}
      /\ \A u \in Threads : popped[u] \subseteq popped'[u]
      /\ \A u \in Threads : popped'[u] \subseteq popped[u] \cup (registry \cap {i})
      /\ i \in registry => i \in popped'[t]
  BY DEF Pop, FTypeOK, TypeOK
<1>2. /\ held' \subseteq held /\ held \ {i} \subseteq held'
      /\ traced' \subseteq traced /\ traced \ {i} \subseteq traced'
  OBVIOUS
<1>3. NothingLeaks'
  BY <1>1 DEF Parties, NothingLeaks
<1>4. UnbornIsUnknown' /\ MakingIsPrivate' /\ RegistryIsReferred'
  BY <1>1, <1>2 DEF Parties, UnbornIsUnknown, MakingIsPrivate, RegistryIsReferred, Referred
<1>5. RegisteredHasFinalizer'
  BY <1>1 DEF Parties, RegisteredHasFinalizer
<1>6. LossIsExplained' /\ TracedWasCut'
  BY <1>1, <1>2 DEF Parties, LossIsExplained, TracedWasCut
<1> QED
  BY <1>3, <1>4, <1>5, <1>6 DEF Parties

\* So does freeing the iterator when nothing else refers to it.
LEMMA FreeKeepsParties ==
  ASSUME FTypeOK, Parties, NEW i \in Iters, FreeHandle(i),
         held' \subseteq held, held \ {i} \subseteq held',
         traced' \subseteq traced, traced \ {i} \subseteq traced',
         \A t \in Threads : made[t] # i,
         UNCHANGED <<finSet, made, pc, cut, exit, alive>>,
         i \in held \cup traced
  PROVE  Parties'
<1>1. /\ registry' = registry \ {i} /\ iter' = [iter EXCEPT ![i] = "closed"]
      /\ UNCHANGED popped
  BY DEF FreeHandle
<1> USE DEF FTypeOK, TypeOK
<1>2. NothingLeaks'
  BY <1>1 DEF Parties, NothingLeaks
<1>3. UnbornIsUnknown' /\ MakingIsPrivate' /\ RegistryIsReferred'
  BY <1>1 DEF Parties, UnbornIsUnknown, MakingIsPrivate, RegistryIsReferred, Referred
<1>4. RegisteredHasFinalizer'
  BY <1>1 DEF Parties, RegisteredHasFinalizer
<1>5. LossIsExplained' /\ TracedWasCut'
  BY <1>1 DEF Parties, LossIsExplained, TracedWasCut
<1> QED
  BY <1>2, <1>3, <1>4, <1>5 DEF Parties

\* Every open iterator keeps a party that will delete it, while the program
\* runs by itself.
LEMMA RunParties ==
  ASSUME FTypeOK, Parties, NEW t \in Threads, Run(t)
  PROVE  Parties'
<1> USE DEF FTypeOK, TypeOK, InIterator, InClose, At, Goto
<1>0. UNCHANGED faultVars /\ UNCHANGED <<exit, traced, cut, alive>>
  BY DEF Run, faultVars, CreateIterator, CloseCheck, Collect, Proceed, RegisterFinalizer,
         TrackFinalizer, RunFinalizer, LoopStart, CallFinalizer, LoopRaises, LoopEnds,
         ClearFinSet, CloseDb, SetClosed
<1>1. CASE CreateIterator(t)
  <2>1. PICK i \in Iters : /\ iter[i] = "unborn"
                           /\ iter' = [iter EXCEPT ![i] = "open"]
                           /\ made' = [made EXCEPT ![t] = i]
    BY <1>1 DEF CreateIterator
  <2>2. /\ UNCHANGED <<finSet, held, registry, popped>>
        /\ pc[t] = "idle" /\ pc' = [pc EXCEPT ![t] = "created"]
        /\ made[t] \notin Iters
    BY <1>1 DEF CreateIterator
  <2>3. /\ i \notin finSet \cup held \cup registry \cup traced
        /\ \A u \in Threads : made[u] # i /\ i \notin popped[u]
    BY <2>1 DEF Parties, UnbornIsUnknown
  <2>4. NothingLeaks' /\ LossIsExplained' /\ TracedWasCut'
    BY <1>0, <2>1, <2>2, <2>3 DEF Parties, NothingLeaks, LossIsExplained, TracedWasCut
  <2>5. UnbornIsUnknown' /\ MakingIsPrivate'
    BY <1>0, <2>1, <2>2, <2>3 DEF Parties, UnbornIsUnknown, MakingIsPrivate
  <2>6. RegistryIsReferred'
    BY <1>0, <2>1, <2>2, <2>3 DEF Parties, RegistryIsReferred, Referred
  <2>7. RegisteredHasFinalizer'
    BY <1>0, <2>1, <2>2, <2>3 DEF Parties, RegisteredHasFinalizer
  <2> QED
    BY <2>4, <2>5, <2>6, <2>7 DEF Parties
<1>2. CASE RegisterFinalizer(t)
  <2>1. /\ registry' = registry \cup {made[t]} /\ made[t] \in Iters
        /\ pc' = [pc EXCEPT ![t] = "registered"]
        /\ UNCHANGED <<finSet, held, iter, made, popped>>
    BY <1>2 DEF RegisterFinalizer
  <2>2. UnbornIsUnknown' /\ MakingIsPrivate'
    BY <1>0, <2>1 DEF Parties, UnbornIsUnknown, MakingIsPrivate
  <2>3. NothingLeaks' /\ RegistryIsReferred' /\ RegisteredHasFinalizer'
    BY <1>0, <2>1 DEF Parties, NothingLeaks, RegistryIsReferred, RegisteredHasFinalizer, Referred
  <2>4. LossIsExplained' /\ TracedWasCut'
    BY <1>0, <2>1 DEF Parties, LossIsExplained, TracedWasCut
  <2> QED
    BY <2>2, <2>3, <2>4 DEF Parties
<1>3. CASE TrackFinalizer(t)
  <2>1. /\ finSet' = finSet \cup {made[t]} /\ held' = held \cup {made[t]}
        /\ made[t] \in Iters /\ made' = [made EXCEPT ![t] = None]
        /\ pc[t] = "registered" /\ pc' = [pc EXCEPT ![t] = "idle"]
        /\ UNCHANGED <<registry, iter, popped>>
    BY <1>3 DEF TrackFinalizer
  <2>2. None \notin Iters
    BY IterAssumption
  <2>3. NothingLeaks' /\ UnbornIsUnknown'
    BY <1>0, <2>1, <2>2 DEF Parties, NothingLeaks, UnbornIsUnknown
  <2>4. MakingIsPrivate'
    BY <2>1, <2>2 DEF Parties, MakingIsPrivate
  <2>5. RegistryIsReferred' /\ RegisteredHasFinalizer'
    BY <1>0, <2>1, <2>2 DEF Parties, RegistryIsReferred, RegisteredHasFinalizer, Referred
  <2>6. LossIsExplained' /\ TracedWasCut'
    BY <1>0, <2>1, <2>2 DEF Parties, LossIsExplained, RegisteredHasFinalizer, TracedWasCut
  <2> QED
    BY <2>3, <2>4, <2>5, <2>6 DEF Parties
<1>4. ASSUME NEW i \in Iters, ~SoleReference(i), Collect(t, i) PROVE Parties'
  <2>1. \/ i \in traced \cup registry
        \/ i \in UNION {popped[u] : u \in Threads}
    BY <1>4 DEF SoleReference, Unowned, Collect
  <2> QED
    BY <1>0, <1>4, <2>1, PopKeepsParties DEF Collect
<1>5. CASE RunFinalizer(t)
  <2>1. PICK i \in popped[t] : /\ iter' = [iter EXCEPT ![i] = "closed"]
                               /\ popped' = [popped EXCEPT ![t] = @ \ {i}]
    BY <1>5 DEF RunFinalizer
  <2>2. i \in Iters /\ UNCHANGED <<finSet, held, registry, made, pc>>
    BY <1>5, <2>1 DEF RunFinalizer
  <2>3. NothingLeaks' /\ UnbornIsUnknown'
    BY <1>0, <2>1, <2>2 DEF Parties, NothingLeaks, UnbornIsUnknown
  <2>4. MakingIsPrivate' /\ RegistryIsReferred'
    BY <1>0, <2>2 DEF Parties, MakingIsPrivate, RegistryIsReferred, Referred
  <2>5. RegisteredHasFinalizer'
    BY <1>0, <2>1, <2>2 DEF Parties, RegisteredHasFinalizer
  <2>6. LossIsExplained' /\ TracedWasCut'
    BY <1>0, <2>1, <2>2 DEF Parties, LossIsExplained, TracedWasCut
  <2> QED
    BY <2>3, <2>4, <2>5, <2>6 DEF Parties
<1>6. CASE CallFinalizer(t)
  <2>1. PICK f \in finSet : Pop(t, f)
    BY <1>6 DEF CallFinalizer
  <2> QED
    BY <1>0, <1>6, <2>1, PopKeepsParties DEF CallFinalizer
<1>7. CASE \/ CloseCheck(t) \/ LoopStart(t) \/ LoopRaises(t) \/ LoopEnds(t)
           \/ ClearFinSet(t) \/ CloseDb(t) \/ SetClosed(t)
  <2>1. finSet' \subseteq finSet /\ UNCHANGED <<held, registry, iter, made, popped>>
    BY <1>7 DEF CloseCheck, LoopStart, LoopRaises, LoopEnds, ClearFinSet, CloseDb, SetClosed
  <2>2. \A u \in Threads, l \in InIterator : pc'[u] = l => pc[u] = l
    BY <1>7 DEF CloseCheck, LoopStart, LoopRaises, LoopEnds, ClearFinSet, CloseDb, SetClosed
  <2>3. alive \/ traced = {}
    BY DEF Parties, TracedWasCut
  <2> QED
    BY <1>0, <2>1, <2>2, <2>3, PartiesKept
<1> QED
  BY <1>1, <1>2, <1>3, <1>4, <1>5, <1>6, <1>7 DEF Run, Proceed

\* ... and when the interpreter takes its methods and finalizers apart.
LEMMA FaultParties ==
  ASSUME FTypeOK, Parties, NEW t \in Threads, Fault(t), alive \/ ~InterruptIterator,
         alive \/ \A i \in Iters : ~InterruptFinalizer(i)
  PROVE  Parties'
<1> USE DEF FTypeOK, TypeOK, InIterator, InClose, At, Goto
<1>0. UNCHANGED alive /\ (exit = "done" => exit' = "done")
  BY MainAssumption
  DEF Fault, CollectHandle, DropTraceback, InterruptFinalizer, DiscardFinalizer,
      InterruptIterator, InterruptClose, ExitCall, faultVars, Stages
<1>1. ASSUME NEW i \in Iters, CollectHandle(i) PROVE Parties'
  <2>1. \A u \in Threads : made[u] # i
    BY <1>1 DEF CollectHandle, SoleReference, Parties, MakingIsPrivate
  <2>2. /\ i \in held /\ held' = held \ {i} /\ FreeHandle(i)
        /\ UNCHANGED <<finSet, made, pc, alive, exit, traced, cut>>
    BY <1>1 DEF CollectHandle, SoleReference, faultVars
  <2> QED
    BY <2>1, <2>2, FreeKeepsParties
<1>2. ASSUME NEW i \in Iters, DropTraceback(t, i) PROVE Parties'
  <2>0. /\ i \in traced /\ traced' = traced \ {i}
        /\ UNCHANGED <<finSet, held, made, pc, alive, exit, cut>>
    BY <1>2 DEF DropTraceback
  <2>1. CASE Referred(i) /\ UNCHANGED <<registry, popped, iter>>
    <3>1. NothingLeaks'
      BY <2>0, <2>1 DEF Parties, NothingLeaks, Referred
    <3>2. UnbornIsUnknown' /\ MakingIsPrivate' /\ RegistryIsReferred'
      BY <2>0, <2>1 DEF Parties, UnbornIsUnknown, MakingIsPrivate, RegistryIsReferred, Referred
    <3>3. RegisteredHasFinalizer' /\ LossIsExplained' /\ TracedWasCut'
      BY <2>0, <2>1 DEF Parties, RegisteredHasFinalizer, LossIsExplained, TracedWasCut
    <3> QED
      BY <3>1, <3>2, <3>3 DEF Parties
  <2>2. CASE ~Referred(i) /\ FreeHandle(i)
    BY <2>0, <2>2, FreeKeepsParties DEF Referred
  <2>3. CASE ~Unowned(i) /\ Pop(t, i) /\ UNCHANGED iter
    <3>1. i \in registry \/ i \in UNION {popped[u] : u \in Threads}
      BY <2>3 DEF Unowned
    <3> QED
      BY <2>0, <2>3, <3>1, PopKeepsParties
  <2> QED
    BY <1>2, <2>1, <2>2, <2>3 DEF DropTraceback
<1>3. ASSUME NEW i \in Iters, InterruptFinalizer(i) PROVE Parties'
  <2>1. /\ i \in popped[Main] /\ popped' = [popped EXCEPT ![Main] = @ \ {i}]
        /\ cut' = cut \cup {i}
        /\ UNCHANGED <<finSet, held, registry, made>>
        /\ \A u \in Threads, l \in InIterator : pc'[u] = l => pc[u] = l
    BY <1>3, MainAssumption DEF InterruptFinalizer, LeaveMethod
  <2>2. \/ traced' = traced \cup {i} /\ UNCHANGED iter
        \/ (Referred(i) \/ i \in traced) /\ UNCHANGED <<traced, iter>>
        \/ iter' = [iter EXCEPT ![i] = "closed"] /\ UNCHANGED traced
    BY <1>3 DEF InterruptFinalizer
  <2>3. alive
    BY <1>3
  <2>4. NothingLeaks' /\ UnbornIsUnknown'
    <3>1. NothingLeaks'
      BY <2>1, <2>2, MainAssumption DEF Parties, NothingLeaks, Referred
    <3>2. iter[i] # "unborn"
      BY <2>1, MainAssumption DEF Parties, UnbornIsUnknown
    <3>3. UnbornIsUnknown'
      BY <2>1, <2>2, <3>2, MainAssumption DEF Parties, UnbornIsUnknown
    <3> QED
      BY <3>1, <3>3
  <2>5. MakingIsPrivate' /\ RegistryIsReferred'
    BY <2>1, <2>2 DEF Parties, MakingIsPrivate, RegistryIsReferred, Referred
  <2>6. RegisteredHasFinalizer'
    BY <2>1, <2>2, MainAssumption DEF Parties, RegisteredHasFinalizer
  <2>7. LossIsExplained'
    <3>1. exit = "done" => exit' = "done"
      BY <1>0
    <3> QED
      BY <2>1, <2>2, <3>1, MainAssumption DEF Parties, LossIsExplained
  <2>8. TracedWasCut'
    BY <1>0, <2>1, <2>2, <2>3 DEF Parties, TracedWasCut
  <2> QED
    BY <2>4, <2>5, <2>6, <2>7, <2>8 DEF Parties
<1>4. CASE DiscardFinalizer(t)
  <2>1. PICK f \in finSet : registry' = registry \ {f}
    BY <1>4 DEF DiscardFinalizer
  <2>2. exit = "done" /\ UNCHANGED <<finSet, held, iter, made, popped, pc, alive, exit, traced, cut>>
    BY <1>4 DEF DiscardFinalizer, faultVars
  <2>3. f \in Iters /\ \A u \in Threads : made[u] # f
    BY <2>1 DEF Parties, MakingIsPrivate
  <2>4. f \in registry => f \in held \cup traced
    BY <2>3 DEF Parties, RegistryIsReferred, Referred
  <2>5. NothingLeaks' /\ LossIsExplained' /\ TracedWasCut'
    BY <2>1, <2>2, <2>4 DEF Parties, NothingLeaks, LossIsExplained, TracedWasCut
  <2>6. UnbornIsUnknown' /\ MakingIsPrivate' /\ RegistryIsReferred'
    BY <2>1, <2>2 DEF Parties, UnbornIsUnknown, MakingIsPrivate, RegistryIsReferred, Referred
  <2>7. RegisteredHasFinalizer'
    BY <2>1, <2>2, <2>3 DEF Parties, RegisteredHasFinalizer
  <2> QED
    BY <2>5, <2>6, <2>7 DEF Parties
<1>5. CASE InterruptIterator
  <2>1. /\ pc[Main] \in {"created", "registered"} /\ pc' = [pc EXCEPT ![Main] = "idle"]
        /\ made[Main] \in Iters /\ made' = [made EXCEPT ![Main] = None]
        /\ traced' = traced \cup {made[Main]} /\ cut' = cut \cup {made[Main]}
        /\ UNCHANGED <<finSet, held, registry, iter, popped, exit>>
        /\ None \notin Iters
    BY <1>5, IterAssumption, MainAssumption DEF InterruptIterator
  <2>2. alive
    BY <1>5
  <2>3. NothingLeaks' /\ LossIsExplained'
    BY <2>1, MainAssumption DEF Parties, NothingLeaks, LossIsExplained
  <2>4. UnbornIsUnknown'
    BY <2>1, MainAssumption DEF Parties, UnbornIsUnknown
  <2>5. MakingIsPrivate'
    BY <2>1, MainAssumption DEF Parties, MakingIsPrivate
  <2>6. RegistryIsReferred' /\ RegisteredHasFinalizer'
    BY <2>1, MainAssumption
    DEF Parties, RegistryIsReferred, Referred, RegisteredHasFinalizer
  <2>7. TracedWasCut'
    BY <1>0, <2>1, <2>2 DEF Parties, TracedWasCut
  <2> QED
    BY <2>3, <2>4, <2>5, <2>6, <2>7 DEF Parties
<1>6. CASE InterruptClose
  <2>1. UNCHANGED <<finSet, held, registry, iter, made, popped, traced, cut>>
    BY <1>6 DEF InterruptClose, faultVars
  <2>2. \A u \in Threads, l \in InIterator : pc'[u] = l => pc[u] = l
    BY <1>6, MainAssumption DEF InterruptClose, LeaveMethod
  <2>3. alive \/ traced = {}
    BY DEF Parties, TracedWasCut
  <2> QED
    BY <1>0, <2>1, <2>2, <2>3, PartiesKept
<1>7. CASE ExitCall
  <2>1. PICK i \in registry : Pop(Main, i)
    BY <1>7 DEF ExitCall
  <2>2. UNCHANGED <<finSet, held, iter, made, pc, traced, cut>>
    BY <1>7 DEF ExitCall
  <2> QED
    BY <1>0, <2>1, <2>2, PopKeepsParties, MainAssumption
<1> QED
  BY <1>1, <1>2, <1>3, <1>4, <1>5, <1>6, <1>7 DEF Fault

-----------------------------------------------------------------------------
(* The collected RocksDB object *)

\* It leaves no thread anything that an interrupt could cut off, and a fault
\* gives it nothing to do.
LEMMA FaultQuiet ==
  ASSUME FTypeOK, TracedWasCut, CollectedIsQuiet, NEW t \in Threads, Fault(t)
  PROVE  /\ CollectedIsQuiet'
         /\ alive \/ ~InterruptIterator
         /\ alive \/ \A i \in Iters : ~InterruptFinalizer(i)
<1>1. UNCHANGED alive
  BY DEF Fault, CollectHandle, DropTraceback, InterruptFinalizer, DiscardFinalizer,
         InterruptIterator, InterruptClose, ExitCall
<1>2. SUFFICES ASSUME ~alive
               PROVE  CollectedIsQuiet' /\ ~InterruptIterator
                      /\ \A i \in Iters : ~InterruptFinalizer(i)
  BY <1>1 DEF CollectedIsQuiet
<1>3. registry = {} /\ traced = {} /\ \A u \in Threads : pc[u] = "idle" /\ popped[u] = {}
  BY <1>2 DEF CollectedIsQuiet, TracedWasCut, At
<1>4. ~InterruptIterator /\ \A i \in Iters : ~InterruptFinalizer(i)
  BY <1>3, MainAssumption DEF InterruptIterator, InterruptFinalizer, InIterator
<1>5. PICK i \in Iters : CollectHandle(i)
  BY <1>3, <1>4, MainAssumption
  DEF Fault, DropTraceback, DiscardFinalizer, InterruptClose, ExitCall, At, InClose
<1>6. CollectedIsQuiet'
  BY <1>1, <1>3, <1>5 DEF CollectHandle, FreeHandle, CollectedIsQuiet, At
<1> QED
  BY <1>4, <1>6

\* The end of the interpreter goes from stage to stage.
LEMMA ExitType ==
  FTypeOK /\ [FNext]_fvars => exit' \in Stages \cup Iters
<1> SUFFICES ASSUME exit \in Stages \cup Iters, registry \subseteq Iters, [FNext]_fvars
             PROVE  exit' \in Stages \cup Iters
  BY DEF FTypeOK, TypeOK
<1> USE DEF Stages, faultVars
<1>1. ASSUME NEW t \in Threads,
             \/ \E i \in Iters : CollectOrFinalize(t, i) \/ DropTraceback(t, i)
             \/ FProceed(t)
      PROVE  exit' = exit
  BY <1>1 DEF CollectOrFinalize, CollectHandle, DropTraceback, FProceed, DiscardFinalizer
<1>2. CASE InterruptIterator \/ InterruptClose
  BY <1>2 DEF InterruptIterator, InterruptClose
<1>3. CASE InterruptExit \/ \E i \in Iters : InterruptFinalizer(i)
  BY <1>3 DEF InterruptExit, InterruptFinalizer
<1>4. CASE Exit
  BY <1>4 DEF Exit, ExitStart, ExitCall, ExitReturn, ExitEnd
<1> QED
  BY <1>1, <1>2, <1>3, <1>4 DEF FNext, Interrupt, fvars

\* Every step keeps the invariant, interrupts and the end of the interpreter
\* among them.
LEMMA FInvStep == FInv /\ [FNext]_fvars => FInv'
<1> SUFFICES ASSUME FInv, [FNext]_fvars PROVE FInv'
  OBVIOUS
<1>0. /\ FTypeOK /\ TypeOK /\ Parties /\ TracedWasCut /\ CollectedIsQuiet
      /\ exit' \in Stages \cup Iters
  BY ExitType DEF FInv, FTypeOK, Parties
<1>1. CASE Freeing
  <2>1. /\ UNCHANGED <<finSet, held, registry, iter, made, popped, pc, traced, cut>>
        /\ alive' \/ traced = {}
        /\ exit = "done" => exit' = "done"
    BY <1>0, <1>1 DEF Freeing, CollectRocksDB, DestroyDBWrapper, vars, TracedWasCut
  <2>2. Parties'
    BY <1>0, <2>1, PartiesKept
  <2> QED
    BY <1>0, <1>1, <2>1, <2>2, RunIsNext, TypeStep, QuietStep DEF FInv, FTypeOK
<1>2. ASSUME NEW t \in Threads, Run(t) PROVE FInv'
  <2>1. TypeOK' /\ CollectedIsQuiet'
    BY <1>0, <1>2, RunIsNext, TypeStep, QuietStep
  <2>2. UNCHANGED <<traced, cut>>
    BY <1>2 DEF Run, faultVars
  <2> QED
    BY <1>0, <1>2, <2>1, <2>2, RunParties DEF FInv, FTypeOK
<1>3. ASSUME NEW t \in Threads, Fault(t) PROVE FInv'
  BY <1>0, <1>3, FaultType, FaultParties, FaultQuiet DEF FInv, FTypeOK
<1> QED
  BY <1>1, <1>2, <1>3, Steps

\* The invariant holds in every behaviour.
THEOREM FInvariance == FaultSpec => []FInv
  BY FInitInv, FInvStep, PTL DEF FaultSpec

\* Every variable keeps its type, and _exitfunc is always at a stage of its own
\* or in the finalizer of an iterator.
THEOREM FTypeCorrect == FaultSpec => []FTypeOK
<1>1. FInv => FTypeOK
  BY DEF FInv
<1> QED
  BY <1>1, FInvariance, PTL

\* Whenever the main thread is interrupted and whenever the interpreter ends,
\* an open rocksdb::Iterator has something left that will delete it.
THEOREM NoLeaks == FaultSpec => []NothingLeaks
<1>1. FInv => NothingLeaks
  BY DEF FInv, Parties
<1> QED
  BY <1>1, FInvariance, PTL

\* ~DBWrapper closes a database only after its last iterator is deleted.
THEOREM DestroyedLastTheorem == FaultSpec => DestroyedLast
<1>1. FInv /\ [FNext]_fvars =>
         (~alive /\ db = "open" /\ db' = "closed" => \A i \in Iters : iter[i] # "open")
  <2> SUFFICES ASSUME FInv, [FNext]_fvars, ~alive, db = "open", db' = "closed",
                      NEW i \in Iters, iter[i] = "open"
               PROVE  FALSE
    OBVIOUS
  <2>1. /\ registry = {} /\ traced = {}
        /\ \A t \in Threads : pc[t] = "idle" /\ popped[t] = {} /\ made[t] \notin Iters
    BY DEF FInv, FTypeOK, CollectedIsQuiet, At, TypeOK, InIterator, Parties, TracedWasCut
  <2>2. i \in held
    BY <2>1 DEF FInv, Parties, NothingLeaks
  <2>3. ~Freeing
    BY <2>2 DEF Freeing, CollectRocksDB, DestroyDBWrapper, vars
  <2>4. ASSUME NEW t \in Threads PROVE ~Run(t)
    BY <2>1 DEF Run, CreateIterator, CloseCheck, Collect, Proceed, RegisterFinalizer,
                TrackFinalizer, RunFinalizer, LoopStart, CallFinalizer, LoopRaises,
                LoopEnds, ClearFinSet, CloseDb, SetClosed, At
  <2>5. ASSUME NEW t \in Threads PROVE ~Fault(t)
    BY DEF Fault, CollectHandle, DropTraceback, InterruptFinalizer, DiscardFinalizer,
           InterruptIterator, InterruptClose, ExitCall
  <2> QED
    BY <2>3, <2>4, <2>5, Steps
<1> QED
  BY <1>1, FInvariance, PTL DEF FaultSpec, DestroyedLast

-----------------------------------------------------------------------------
(* With close() serialised *)

\* Every finalizer that no interrupt has cut off is where close() will find it.
RestIsTracked ==
    \A i \in registry \ cut :
        i \in finSet \/ \E t \in Threads : pc[t] = "registered" /\ made[t] = i

\* Past its loop, close() has left no other finalizer to run.
RestHasRun ==
    \A t \in Threads : pc[t] \in {"clear", "dbclose"} => registry \cup popped[t] \subseteq cut

\* On a closed database none is left, and no iterator is being made.
AfterClose ==
    db = "closed" =>
        /\ registry \subseteq cut
        /\ \A t \in Threads : popped[t] \subseteq cut /\ made[t] \notin Iters

SInv ==
    /\ FInv
    /\ Exclusive
    /\ RestIsTracked
    /\ LoopCovers
    /\ RestHasRun
    /\ AfterClose

SNext == FNext /\ Exclusive'

\* No state the program starts in breaks the serialised invariant.
LEMMA InitSInv == FInit => SInv
  BY FInitInv, InitSerialInv, IterAssumption
  DEF SInv, SerialInv, FInit, Init, RestIsTracked, RestHasRun, AfterClose

\* A finalizer that can still run stays within the reach of close().
LEMMA FTrackedStep == SInv /\ [SNext]_fvars => RestIsTracked'
<1> SUFFICES ASSUME SInv, [SNext]_fvars PROVE RestIsTracked'
  OBVIOUS
<1>1. TypeOK /\ RestHasRun /\ RestIsTracked
  BY DEF SInv, FInv, FTypeOK
<1> USE <1>1, MainAssumption DEF TypeOK, RestIsTracked, At, Goto
<1>2. CASE Freeing
  BY <1>2 DEF Freeing, CollectRocksDB, DestroyDBWrapper, vars
<1>3. ASSUME NEW t \in Threads, Run(t) PROVE RestIsTracked'
  <2>0. UNCHANGED cut
    BY <1>3 DEF Run, faultVars
  <2>1. CASE CreateIterator(t) \/ CloseCheck(t)
    BY <2>0, <2>1 DEF CreateIterator, CloseCheck
  <2>2. ASSUME NEW i \in Iters, Collect(t, i) PROVE RestIsTracked'
    BY <2>0, <2>2 DEF Collect, Pop
  <2>3. CASE RegisterFinalizer(t)
    BY <2>0, <2>3 DEF RegisterFinalizer
  <2>4. CASE TrackFinalizer(t)
    BY <2>0, <2>4 DEF TrackFinalizer
  <2>5. CASE CallFinalizer(t)
    BY <2>0, <2>5 DEF CallFinalizer, Pop
  <2>6. CASE ClearFinSet(t)
    <3>1. registry \subseteq cut
      BY <2>0, <2>6 DEF ClearFinSet, RestHasRun
    <3> QED
      BY <2>0, <2>6, <3>1 DEF ClearFinSet
  <2>7. CASE \/ RunFinalizer(t) \/ LoopStart(t) \/ LoopRaises(t) \/ LoopEnds(t)
             \/ CloseDb(t) \/ SetClosed(t)
    BY <2>0, <2>7 DEF RunFinalizer, LoopStart, LoopRaises, LoopEnds, CloseDb, SetClosed
  <2> QED
    BY <1>3, <2>1, <2>2, <2>3, <2>4, <2>5, <2>6, <2>7 DEF Run, Proceed
<1>4. ASSUME NEW t \in Threads, Fault(t) PROVE RestIsTracked'
  <2>1. ASSUME NEW i \in Iters, CollectHandle(i) PROVE RestIsTracked'
    BY <2>1 DEF CollectHandle, FreeHandle, faultVars
  <2>2. ASSUME NEW i \in Iters, DropTraceback(t, i) PROVE RestIsTracked'
    <3>1. registry' \subseteq registry /\ UNCHANGED <<finSet, made, pc, cut>>
      BY <2>2 DEF DropTraceback, FreeHandle, Pop
    <3> QED
      BY <3>1
  <2>3. ASSUME NEW i \in Iters, InterruptFinalizer(i) PROVE RestIsTracked'
    <3>1. /\ UNCHANGED <<registry, finSet, made>> /\ cut \subseteq cut'
          /\ \A u \in Threads : pc[u] = "registered" => pc'[u] = "registered"
      BY <2>3 DEF InterruptFinalizer, CalledByClose, LeaveMethod
    <3> QED
      BY <3>1
  <2>4. CASE DiscardFinalizer(t)
    BY <2>4 DEF DiscardFinalizer, faultVars
  <2>5. CASE InterruptIterator
    <3>1. /\ UNCHANGED <<registry, finSet>> /\ cut' = cut \cup {made[Main]}
          /\ pc' = [pc EXCEPT ![Main] = "idle"] /\ made' = [made EXCEPT ![Main] = None]
      BY <2>5 DEF InterruptIterator
    <3> QED
      BY <3>1
  <2>6. CASE InterruptClose
    BY <2>6 DEF InterruptClose, LeaveMethod, InClose, faultVars
  <2>7. CASE ExitCall
    BY <2>7 DEF ExitCall, Pop
  <2> QED
    BY <1>4, <2>1, <2>2, <2>3, <2>4, <2>5, <2>6, <2>7 DEF Fault
<1> QED
  BY <1>2, <1>3, <1>4, Steps DEF SNext

\* A fault leaves what a loop of close() has covered as it was.
LEMMA FLoopStep == SInv /\ [SNext]_fvars => LoopCovers' /\ RestHasRun'
<1> SUFFICES ASSUME SInv, [SNext]_fvars PROVE LoopCovers' /\ RestHasRun'
  OBVIOUS
<1>1. TypeOK /\ Exclusive /\ RestHasRun /\ LoopCovers /\ RestIsTracked
  BY DEF SInv, FInv, FTypeOK
<1> USE <1>1, MainAssumption DEF TypeOK, LoopCovers, RestHasRun, At, Goto
<1>2. CASE Freeing
  BY <1>2 DEF Freeing, CollectRocksDB, DestroyDBWrapper, vars
<1>3. ASSUME NEW t \in Threads, Run(t) PROVE LoopCovers' /\ RestHasRun'
  <2>0. UNCHANGED cut
    BY <1>3 DEF Run, faultVars
  <2>1. CASE CreateIterator(t) \/ CloseCheck(t)
    BY <2>0, <2>1 DEF CreateIterator, CloseCheck
  <2>2. ASSUME NEW i \in Iters, Collect(t, i) PROVE LoopCovers' /\ RestHasRun'
    BY <2>0, <2>2 DEF Collect, Pop
  <2>3. CASE RegisterFinalizer(t) \/ TrackFinalizer(t)
    <3>1. \A u \in Threads : pc'[u] \notin InClose
      BY <2>0, <2>3, CloserIsAlone DEF RegisterFinalizer, TrackFinalizer, InClose
    <3> QED
      BY <3>1 DEF InClose
  <2>4. CASE RunFinalizer(t)
    BY <2>0, <2>4 DEF RunFinalizer
  <2>5. CASE LoopStart(t)
    BY <2>0, <2>5, CloserIsAlone DEF LoopStart, InClose
  <2>6. CASE CallFinalizer(t)
    <3>1. \A u \in Threads : u # t => pc[u] = "idle"
      BY <2>0, <2>6, CloserIsAlone DEF CallFinalizer, InClose
    <3>2. PICK f \in finSet : seen' = [seen EXCEPT ![t] = @ \cup {f}] /\ Pop(t, f)
      BY <2>0, <2>6 DEF CallFinalizer
    <3>3. f \notin registry' /\ registry' \subseteq registry
      BY <3>2 DEF Pop
    <3> QED
      BY <2>0, <2>6, <3>1, <3>2, <3>3 DEF CallFinalizer
  <2>7. CASE LoopRaises(t)
    BY <2>0, <2>7 DEF LoopRaises, SameSize
  <2>8. CASE LoopEnds(t)
    <3>1. \A u \in Threads : u # t => pc[u] = "idle"
      BY <2>0, <2>8, CloserIsAlone DEF LoopEnds, InClose
    <3>2. registry \ cut \subseteq finSet
      BY <2>0, <2>8, <3>1 DEF LoopEnds, RestIsTracked
    <3>3. finSet \subseteq seen[t] /\ seen[t] \cap registry = {}
      BY <2>0, <2>8 DEF LoopEnds
    <3>4. registry \subseteq cut
      BY <3>2, <3>3
    <3> QED
      BY <2>0, <2>8, <3>1, <3>4 DEF LoopEnds
  <2>9. CASE ClearFinSet(t)
    BY <2>0, <2>9, CloserIsAlone DEF ClearFinSet, InClose
  <2>10. CASE CloseDb(t) \/ SetClosed(t)
    BY <2>0, <2>10 DEF CloseDb, SetClosed
  <2> QED
    BY <1>3, <2>1, <2>2, <2>3, <2>4, <2>5, <2>6, <2>7, <2>8, <2>9, <2>10 DEF Run, Proceed
<1>4. ASSUME NEW t \in Threads, Fault(t) PROVE LoopCovers' /\ RestHasRun'
  <2>1. ASSUME NEW i \in Iters, CollectHandle(i) PROVE LoopCovers' /\ RestHasRun'
    BY <2>1 DEF CollectHandle, FreeHandle, faultVars
  <2>2. ASSUME NEW i \in Iters, DropTraceback(t, i) PROVE LoopCovers' /\ RestHasRun'
    <3>1. /\ registry' \subseteq registry /\ UNCHANGED <<finSet, pc, snap, seen, cut>>
          /\ \A u \in Threads : popped'[u] \subseteq popped[u] \cup (registry \cap {i})
      BY <2>2 DEF DropTraceback, FreeHandle, Pop
    <3> QED
      BY <3>1
  <2>3. ASSUME NEW i \in Iters, InterruptFinalizer(i) PROVE LoopCovers' /\ RestHasRun'
    <3>1. /\ UNCHANGED <<registry, finSet>> /\ cut \subseteq cut'
          /\ popped' = [popped EXCEPT ![Main] = @ \ {i}]
      BY <2>3 DEF InterruptFinalizer
    <3>2. \A u \in Threads : \/ pc'[u] = "idle"
                             \/ pc'[u] = pc[u] /\ snap'[u] = snap[u] /\ seen'[u] = seen[u]
      BY <2>3 DEF InterruptFinalizer, LeaveMethod
    <3> QED
      BY <3>1, <3>2
  <2>4. CASE DiscardFinalizer(t)
    BY <2>4 DEF DiscardFinalizer, faultVars
  <2>5. CASE InterruptIterator
    BY <2>5 DEF InterruptIterator
  <2>6. CASE InterruptClose
    BY <2>6 DEF InterruptClose, LeaveMethod, faultVars
  <2>7. CASE ExitCall
    <3>1. PICK i \in registry : Pop(Main, i)
      BY <2>7 DEF ExitCall
    <3>2. registry' \subseteq registry /\ pc[Main] = "idle"
      BY <2>7, <3>1 DEF ExitCall, Pop
    <3>3. \A u \in Threads : u # Main => popped'[u] = popped[u]
      BY <3>1 DEF Pop
    <3> QED
      BY <2>7, <3>2, <3>3 DEF ExitCall
  <2> QED
    BY <1>4, <2>1, <2>2, <2>3, <2>4, <2>5, <2>6, <2>7 DEF Fault
<1> QED
  BY <1>2, <1>3, <1>4, Steps DEF SNext

\* Once closed, a database has nothing else left to run.
LEMMA AfterCloseStep == SInv /\ [SNext]_fvars => AfterClose'
<1> SUFFICES ASSUME SInv, [SNext]_fvars, db' = "closed" PROVE AfterClose'
  BY DEF AfterClose
<1> DEFINE Done == /\ registry \subseteq cut
                   /\ \A t \in Threads : popped[t] \subseteq cut /\ made[t] \notin Iters
<1>1. /\ TypeOK /\ FTypeOK /\ Exclusive /\ RestHasRun /\ AfterClose /\ CollectedIsQuiet
      /\ TracedWasCut
  BY DEF SInv, FInv, FTypeOK, Parties
<1> USE <1>1, IterAssumption, MainAssumption DEF TypeOK, At, Goto
<1>2. CASE db = "closed"
  <2>1. Done
    BY <1>2 DEF AfterClose
  <2>2. CASE Freeing
    BY <2>1, <2>2 DEF AfterClose, Freeing, CollectRocksDB, DestroyDBWrapper, vars
  <2>3. ASSUME NEW t \in Threads, Run(t) PROVE Done'
    <3>1. ~CreateIterator(t) /\ ~RegisterFinalizer(t) /\ ~TrackFinalizer(t)
      BY <1>2, <2>1 DEF CreateIterator, RegisterFinalizer, TrackFinalizer, InIterator
    <3> DEFINE Shrinks == /\ registry' \subseteq registry /\ UNCHANGED made
                          /\ \A u \in Threads : popped'[u] \subseteq popped[u] \cup registry
    <3>2. Shrinks
      <4>1. ASSUME NEW i \in Iters, Collect(t, i) PROVE Shrinks
        BY <4>1 DEF Collect, Pop
      <4>2. CASE CallFinalizer(t)
        BY <4>2 DEF CallFinalizer, Pop
      <4>3. CASE RunFinalizer(t)
        BY <4>3 DEF RunFinalizer
      <4>4. CASE \/ CloseCheck(t) \/ LoopStart(t) \/ LoopRaises(t) \/ LoopEnds(t)
                 \/ ClearFinSet(t) \/ CloseDb(t) \/ SetClosed(t)
        BY <4>4 DEF CloseCheck, LoopStart, LoopRaises, LoopEnds, ClearFinSet, CloseDb, SetClosed
      <4> QED
        <5> HIDE DEF Shrinks
        <5> QED
          BY <2>3, <3>1, <4>1, <4>2, <4>3, <4>4 DEF Run, Proceed
    <3>3. UNCHANGED cut
      BY <2>3 DEF Run, faultVars
    <3> QED
      BY <2>1, <3>2, <3>3
  <2>4. ASSUME NEW t \in Threads, Fault(t) PROVE Done'
    <3> DEFINE Shrinks == /\ registry' \subseteq registry /\ UNCHANGED made /\ cut \subseteq cut'
                          /\ \A u \in Threads : popped'[u] \subseteq popped[u] \cup registry
    <3>1. ASSUME NEW i \in Iters, CollectHandle(i) \/ DropTraceback(t, i) PROVE Shrinks
      BY <3>1 DEF CollectHandle, DropTraceback, FreeHandle, Pop, faultVars
    <3>2. ASSUME NEW i \in Iters, InterruptFinalizer(i) PROVE Shrinks
      BY <3>2 DEF InterruptFinalizer
    <3>3. ASSUME DiscardFinalizer(t) PROVE Shrinks
      <4>1. PICK f \in finSet : registry' = registry \ {f}
        BY <3>3 DEF DiscardFinalizer
      <4>2. UNCHANGED <<made, popped, cut>>
        BY <3>3 DEF DiscardFinalizer, faultVars
      <4> QED
        BY <4>1, <4>2
    <3>4. ASSUME InterruptClose PROVE Shrinks
      <4>1. UNCHANGED <<registry, made, popped, cut>>
        BY <3>4 DEF InterruptClose, faultVars
      <4> QED
        BY <4>1
    <3>5. ASSUME ExitCall PROVE Shrinks
      <4>1. PICK i \in registry : Pop(Main, i)
        BY <3>5 DEF ExitCall
      <4>2. UNCHANGED <<made, cut>>
        BY <3>5 DEF ExitCall
      <4> QED
        BY <4>1, <4>2 DEF Pop
    <3>6. ~InterruptIterator
      BY <2>1 DEF InterruptIterator, InIterator
    <3>7. Shrinks
      BY <2>4, <3>1, <3>2, <3>3, <3>4, <3>5, <3>6 DEF Fault
    <3> QED
      BY <2>1, <3>7
  <2> QED
    BY <2>2, <2>3, <2>4, Steps DEF SNext, AfterClose
<1>3. CASE db = "open"
  <2>1. CASE Freeing
    BY <1>3, <2>1 DEF Freeing, CollectRocksDB, DestroyDBWrapper, vars, CollectedIsQuiet,
                      AfterClose, InIterator
  <2>2. ASSUME NEW t \in Threads, Run(t) PROVE Done'
    <3>1. CloseDb(t)
      BY <1>3, <2>2
      DEF Run, Proceed, CreateIterator, CloseCheck, Collect, RegisterFinalizer,
          TrackFinalizer, RunFinalizer, LoopStart, CallFinalizer, LoopRaises, LoopEnds,
          ClearFinSet, SetClosed
    <3>2. registry \subseteq cut /\ popped[t] \subseteq cut /\ pc[t] = "dbclose"
      BY <3>1 DEF CloseDb, RestHasRun
    <3>3. \A u \in Threads : u # t => pc[u] = "idle" /\ popped[u] = {}
      BY <3>2, CloserIsAlone DEF InClose
    <3>4. UNCHANGED cut
      BY <2>2 DEF Run, faultVars
    <3> QED
      BY <3>1, <3>2, <3>3, <3>4 DEF CloseDb, InIterator
  <2>3. ASSUME NEW t \in Threads PROVE ~Fault(t)
    BY <1>3 DEF Fault, CollectHandle, DropTraceback, InterruptFinalizer, DiscardFinalizer,
                InterruptIterator, InterruptClose, ExitCall
  <2> QED
    BY <2>1, <2>2, <2>3, Steps DEF SNext, AfterClose
<1> QED
  BY <1>2, <1>3

\* SInv is inductive, when close() is serialised.
LEMMA SInvStep == SInv /\ [SNext]_fvars => SInv'
<1> SUFFICES ASSUME SInv, [SNext]_fvars PROVE SInv'
  OBVIOUS
<1>1. [FNext]_fvars /\ FInv
  BY DEF SNext, SInv
<1>2. Exclusive'
  BY DEF SNext, SInv, Exclusive, fvars, vars, At
<1> QED
  BY <1>1, <1>2, FInvStep, FTrackedStep, FLoopStep, AfterCloseStep DEF SInv

\* With close() serialised, an iterator under a closed database is one whose
\* iterator() or whose finalizer an interrupt has cut off, or one that the
\* program held when the interpreter had switched the finalizers off.
THEOREM OrphansAreCutOff == SerialFaultSpec => []OrphansWereCutOff
<1>1. SInv => OrphansWereCutOff
  BY DEF SInv, FInv, Parties, LossIsExplained, AfterClose, OrphansWereCutOff
<1>2. SerialFaultSpec => []SInv
  BY InitSInv, SInvStep, PTL DEF SerialFaultSpec, SNext
<1> QED
  BY <1>1, <1>2, PTL
=============================================================================
