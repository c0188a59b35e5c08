--------------------------- MODULE IteratorCursor ---------------------------
(***************************************************************************)
(* One DbIterator, shared by the threads of a program: iterator.py over    *)
(* iterator_wrapper.cpp.  The engine's iterator reads the column family as *)
(* it was when it was made.  Each call into C++ is one step; __next__      *)
(* makes six of them, and other threads may come between: they move the    *)
(* same iterator, write to the database, or close it.                      *)
(***************************************************************************)
EXTENDS Integers, Sequences

CONSTANTS
    Threads,
    Keys,               \* in the order of the engine's comparator
    Values,
    Absent,             \* a key without a value
    None                \* no position, no start

ASSUME CursorAssumption ==
    Keys \subseteq Int /\ None \notin Keys /\ Absent \notin Values

VARIABLES
    store,              \* the column family
    view,               \* the column family as the iterator sees it
    open,               \* IteratorWrapper::iter_ is not null
    pos,                \* the key it is at, None when it is not valid
    failed,             \* its last move met an error: its status() is not ok
    pc,                 \* the call of __next__ each thread makes next
    key, value,         \* __next__: its locals
    from,               \* where the scan began, None outside a scan
    got,                \* the pairs __next__ has returned in this scan
    ended,              \* __next__ has raised StopIteration in this scan
    misused             \* who moved the engine's iterator while not valid

vars == <<store, view, open, pos, failed, pc, key, value, from, got, ended, misused>>
cursor == <<pos, failed>>
locals == <<pc, key, value>>
scan == <<from, got, ended>>

Contents == [Keys -> Values \cup {Absent}]
InNext == {"key_valid", "key", "value_valid", "value", "next"}

Init ==
    /\ store \in Contents
    /\ view = store
    /\ open = TRUE
    /\ pos = None
    /\ failed = FALSE
    /\ pc = [t \in Threads |-> "idle"]
    /\ key = [t \in Threads |-> None]
    /\ value = [t \in Threads |-> Absent]
    /\ from = None
    /\ got = <<>>
    /\ ended = FALSE
    /\ misused = "no"

Present == {k \in Keys : view[k] # Absent}

\* The engine's iterator is at a key, or it has passed the last one.
Arrives(p) == pos' = p /\ failed' = FALSE

\* An error in reading leaves it not valid either, and only its status(), which
\* the binding never asks for, tells the two apart.
Fails == pos' = None /\ failed' = TRUE

\* Where a move to the first or the last of the keys can end.
GoesToFirst(ks) ==
    \/ ks = {} /\ Arrives(None)
    \/ \E k \in ks : (\A j \in ks : k <= j) /\ Arrives(k)
    \/ Fails

GoesToLast(ks) ==
    \/ ks = {} /\ Arrives(None)
    \/ \E k \in ks : (\A j \in ks : j <= k) /\ Arrives(k)
    \/ Fails

After(k)  == {j \in Present : k < j}
Before(k) == {j \in Present : j < k}
AtOrAfter(k) == {j \in Present : k <= j}

Idle(t) == pc[t] = "idle"
Goto(t, l) == pc' = [pc EXCEPT ![t] = l]

-----------------------------------------------------------------------------
(* Seeks and single moves.  On a closed iterator check_db raises. *)

StartScan(k) == from' = k /\ got' = <<>> /\ ended' = FALSE

SeekToFirst(t) ==
    /\ Idle(t) /\ open
    /\ GoesToFirst(Present)
    /\ \E k \in Keys : (\A j \in Keys : k <= j) /\ StartScan(k)
    /\ UNCHANGED <<store, view, open, locals, misused>>

Seek(t, k) ==
    /\ Idle(t) /\ open
    /\ GoesToFirst(AtOrAfter(k))
    /\ StartScan(k)
    /\ UNCHANGED <<store, view, open, locals, misused>>

SeekToLast(t) ==
    /\ Idle(t) /\ open
    /\ GoesToLast(Present)
    /\ StartScan(None)
    /\ UNCHANGED <<store, view, open, locals, misused>>

\* next() and prev() do not look whether the iterator is valid, as the engine
\* asks its callers to.
Move(t, direction) ==
    /\ Idle(t) /\ open
    /\ IF pos = None
       THEN misused' = "caller" /\ UNCHANGED cursor
       ELSE /\ IF direction = "next" THEN GoesToFirst(After(pos)) ELSE GoesToLast(Before(pos))
            /\ UNCHANGED misused
    /\ StartScan(None)
    /\ UNCHANGED <<store, view, open, locals>>

-----------------------------------------------------------------------------
(* DbIterator.__next__ *)

\* Mutant: __next__ returns None where it should raise StopIteration.
ValidNeverStops(t, here, there) ==
    /\ pc[t] = here
    /\ Goto(t, IF open /\ pos # None THEN there ELSE "idle")
    /\ UNCHANGED <<store, view, open, cursor, key, value, scan, misused>>

\* self.valid() at the top, in self.key() and in self.value(): a closed
\* iterator raises RuntimeError, one that is not valid StopIteration, whether it
\* has passed the last key or failed.
Valid(t, here, there) ==
    /\ pc[t] = here
    /\ Goto(t, IF open /\ pos # None THEN there ELSE "idle")
    /\ ended' = (ended \/ (open /\ pos = None /\ from # None))
    /\ UNCHANGED <<store, view, open, cursor, key, value, from, got, misused>>

\* Mutant: __next__ moves before it has read the value.
ReadKeyMoves(t) ==
    /\ pc[t] = "key"
    /\ IF open /\ pos # None
       THEN /\ key' = [key EXCEPT ![t] = pos]
            /\ GoesToFirst(After(pos))
            /\ Goto(t, "value_valid")
       ELSE Goto(t, "idle") /\ UNCHANGED <<key, cursor>>
    /\ UNCHANGED <<store, view, open, value, scan, misused>>

\* self._iter.key(): "Iterator not valid" if another thread has moved it.
ReadKey(t) ==
    /\ pc[t] = "key"
    /\ IF open /\ pos # None
       THEN key' = [key EXCEPT ![t] = pos] /\ Goto(t, "value_valid")
       ELSE Goto(t, "idle") /\ UNCHANGED key
    /\ UNCHANGED <<store, view, open, cursor, value, scan, misused>>

\* Mutant: the value is read from the database as it is now.
ReadValueNow(t) ==
    /\ pc[t] = "value"
    /\ IF open /\ pos # None
       THEN value' = [value EXCEPT ![t] = store[pos]] /\ Goto(t, "next")
       ELSE Goto(t, "idle") /\ UNCHANGED value
    /\ UNCHANGED <<store, view, open, cursor, key, scan, misused>>

\* Mutant: reading the value moves the iterator, as next() then does again.
ReadValueMoves(t) ==
    /\ pc[t] = "value"
    /\ IF open /\ pos # None
       THEN /\ value' = [value EXCEPT ![t] = view[pos]]
            /\ GoesToFirst(After(pos))
            /\ Goto(t, "next")
       ELSE Goto(t, "idle") /\ UNCHANGED <<value, cursor>>
    /\ UNCHANGED <<store, view, open, key, scan, misused>>

\* self._iter.value()
ReadValue(t) ==
    /\ pc[t] = "value"
    /\ IF open /\ pos # None
       THEN value' = [value EXCEPT ![t] = view[pos]] /\ Goto(t, "next")
       ELSE Goto(t, "idle") /\ UNCHANGED value
    /\ UNCHANGED <<store, view, open, cursor, key, scan, misused>>

\* Mutant: the pair is returned and the iterator is not moved.
AdvanceStays(t) ==
    /\ pc[t] = "next"
    /\ got' = IF open /\ from # None THEN Append(got, <<key[t], value[t]>>) ELSE got
    /\ Goto(t, "idle")
    /\ UNCHANGED <<store, view, open, cursor, key, value, from, ended, misused>>

\* Mutant: a closed iterator is not checked for.
AdvanceUnchecked(t) ==
    /\ pc[t] = "next"
    /\ IF pos = None
       THEN misused' = "__next__" /\ UNCHANGED cursor
       ELSE GoesToFirst(After(pos)) /\ UNCHANGED misused
    /\ got' = IF from # None THEN Append(got, <<key[t], value[t]>>) ELSE got
    /\ Goto(t, "idle")
    /\ UNCHANGED <<store, view, open, key, value, from, ended>>

\* self.next(), and the pair is returned.
Advance(t) ==
    /\ pc[t] = "next"
    /\ IF ~open
       THEN UNCHANGED <<cursor, got, misused>>
       ELSE /\ IF pos = None
               THEN misused' = "__next__" /\ UNCHANGED cursor
               ELSE GoesToFirst(After(pos)) /\ UNCHANGED misused
            /\ got' = IF from # None THEN Append(got, <<key[t], value[t]>>) ELSE got
    /\ Goto(t, "idle")
    /\ UNCHANGED <<store, view, open, key, value, from, ended>>

Proceed(t) ==
    \/ Valid(t, "key_valid", "key") \/ ReadKey(t)
    \/ Valid(t, "value_valid", "value") \/ ReadValue(t)
    \/ Advance(t)

-----------------------------------------------------------------------------
(* The rest of the program *)

Write(k, v) ==
    /\ store' = [store EXCEPT ![k] = v]
    /\ UNCHANGED <<view, open, cursor, locals, scan, misused>>

\* RocksDB.close() runs the iterator's finalizer.
Close ==
    /\ open
    /\ open' = FALSE
    /\ UNCHANGED <<store, view, cursor, locals, scan, misused>>

\* The engine asks that an iterator that is not valid is not moved: what it does
\* then is not modelled further.
Next ==
    \/ /\ misused = "no"
       /\ \/ \E t \in Threads :
                \/ SeekToFirst(t)
                \/ \E k \in Keys : Seek(t, k)
                \/ SeekToLast(t)
                \/ \E d \in {"next", "prev"} : Move(t, d)
                \/ Valid(t, "idle", "key_valid")
                \/ Proceed(t)
          \/ \E k \in Keys, v \in Values \cup {Absent} : Write(k, v)
          \/ Close
    \/ misused # "no" /\ UNCHANGED vars

Spec == Init /\ [][Next]_vars

\* A program that keeps the other threads off the iterator while one of them is
\* inside __next__, as a lock around each call would.
Undisturbed ==
    \A t \in Threads :
        pc[t] \in InNext => pc'[t] # pc[t] \/ <<cursor, pc, scan>>' = <<cursor, pc, scan>>

TurnsSpec == Init /\ [][Next /\ Undisturbed]_vars

\* A thread goes on with __next__, or calls it again for as long as it returns.
Continue(t) ==
    /\ misused = "no"
    /\ Proceed(t) \/ (from # None /\ ~ended /\ Valid(t, "idle", "key_valid"))

\* A thread in __next__, or in a for loop, gets to run however often others write.
FairTurnsSpec == TurnsSpec /\ \A t \in Threads : WF_vars(Continue(t) /\ Undisturbed)

-----------------------------------------------------------------------------
(* Properties *)

TypeOK ==
    /\ store \in Contents
    /\ view \in Contents
    /\ open \in BOOLEAN
    /\ pos \in Keys \cup {None}
    /\ failed \in BOOLEAN
    /\ pc \in [Threads -> {"idle"} \cup InNext]
    /\ key \in [Threads -> Keys \cup {None}]
    /\ value \in [Threads -> Values \cup {Absent}]
    /\ from \in Keys \cup {None}
    /\ got \in Seq(Keys \X Values)
    /\ ended \in BOOLEAN
    /\ misused \in {"no", "caller", "__next__"}

\* The pairs are those of the view at ks, all of them, in key order.
Lists(pairs, ks) ==
    /\ {pairs[i][1] : i \in DOMAIN pairs} = ks
    /\ \A i \in DOMAIN pairs : pairs[i][2] = view[pairs[i][1]]
    /\ \A i, j \in DOMAIN pairs : i < j => pairs[i][1] < pairs[j][1]

\* The keys of the view between the start of the scan and its last pair.
Passed == {k \in AtOrAfter(from) : \E i \in DOMAIN got : k <= got[i][1]}

\* __next__ lists the pairs there were when the iterator was made, in order,
\* whatever is written meanwhile, and skips and repeats none (iterator.py:86-103).
ScanFollowsView == from # None => Lists(got, Passed)

\* StopIteration means that there are no more items (iterator.py:93-94).
StopMeansAll == ended => from # None /\ Lists(got, AtOrAfter(from))

\* But for an error in reading, __next__ raises StopIteration only once it has
\* returned every pair: an iterator closed in the middle of a loop ends it with an
\* error of its own instead (iterator.py:96-97, iterator_wrapper.h:23).
StopHidesOnlyErrors == ended /\ ~failed => from # None /\ Lists(got, AtOrAfter(from))

\* __next__ moves the engine's iterator only where it is valid, which it saw
\* five calls earlier (iterator.py:96, 101).
NextMovesValid == misused # "__next__"

\* Each pair that __next__ returns is a pair of the database: its key and its
\* value were read from the same entry (iterator.py:88-91, 99-100).
PairsAreEntries == \A i \in DOMAIN got : view[got[i][1]] = got[i][2]

\* Nothing is read from or moved in an iterator once it is closed.
ClosedIsInert == [][~open => UNCHANGED <<open, pos, key, value, got>>]_vars

\* The program does nothing more with the iterator than loop over it.
OnlyLoops ==
    \/ \E t \in Threads : Continue(t)
    \/ \E k \in Keys, v \in Values \cup {Absent} : Write(k, v)
    \/ Close

\* Such a loop over the iterator ends, though other threads go on writing: the view
\* that it walks through is finite and does not grow (iterator.py:86-103).
LoopEnds == <>[][OnlyLoops]_vars => <>[](from = None \/ ended \/ ~open)
=============================================================================
