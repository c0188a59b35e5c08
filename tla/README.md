# A verification project for pyrocks11

pyrocks11 is a Python binding of the RocksDB engine, written with pybind11. This
directory holds TLA+ models of the code under `src/`, the TLC configurations that
check them, and theorems about them that TLAPS proves. Paths below are relative to
the repository; `db.py`, `iterator.py` and `batch.py` are under `src/pyrocks11/`, the
C++ files under `src/cpp/`.

To check a model: `tlc -config lifetime_threads.cfg MCIteratorLifetime`. To check
proofs: `tlapm IteratorLifetimeProofs.tla`.

## 1. Inventory

| Part | State it keeps | Operations | Right when |
|---|---|---|---|
| `RocksDB` (`db.py`) | `_db`, `_fin_set`, `_closed` | open, open_blind, get_column_families, put, get, delete, write, iterator, snapshot, release_snapshot, compact_range, close, context manager | every iterator is deleted once and before its database; calls after close fail cleanly |
| `DBWrapper` (`db_wrapper.cpp`) | `db` (owned, null once closed), `cfh` (name to handle, never cleared), `default_cfh` | open, the operations above, close, destructor | an operation reaches the column family its handle names, or raises |
| `ColumnFamilyHandle` (`cf_handle.h`) | the engine's handle, and the address of its database | check_db | it is accepted by its own database only |
| `WriteBatch` (`batch.py`, `batch_wrapper.cpp`) | the engine's batch: column family id, key, value | put, delete, clear, count | its operations take effect together, in order, where they were named |
| `DbIterator` (`iterator.py`, `iterator_wrapper.cpp`) | the engine's iterator, null once closed | seek_to_first, seek_to_last, seek, next, prev, valid, key, value, `__next__` | a scan lists what there was when it was made, in order, each pair once, and does not pass for complete when it is not |
| Opening by path (`db.py`, `db_wrapper.cpp`) | none between calls; `open_blind` holds the names it listed | open, open_blind, get_column_families | a session appears in one step, with every column family, or the call fails and at most a new database stays behind |
| Options (`options.py`, `rocksdb_module.cpp`) | fields of the engine's option structures, a table factory behind a `shared_ptr` | get, set, optimize_level_style_compaction, optimize_for_small_db, set_plain_table, to_dict | an open database keeps what it was opened with |
| Registration and stubs (`rocksdb_module.cpp`, `_rocksdb_cpp.pyi`) | none | none | - |
| RocksDB engine (submodule, not in the repository) | the database on disk | - | external |

How the parts interact. A Python method calls C++ through pybind11 while it holds the
GIL, and nothing in `rocksdb_module.cpp` releases it: one call into C++ is one atomic
step, and a Python method that makes several calls, or several steps of its own, can
be interrupted between them, by another thread or by a finalizer that the garbage
collector runs on top of it. `iterator()` registers a `weakref.finalize` for each
`DbIterator` and puts it in `_fin_set`; `close()` calls each of them, then closes the
database. A finalizer holds the bound method `self._close_hnd`, so the `RocksDB`
object lives as long as one of its finalizers may run; `py::keep_alive<0, 1>`
(`rocksdb_module.cpp:449`) makes each iterator keep the `cDB`. Handles and batches are
values: they hold pointers and ids that outlive the database.

What is hard here: the steps of `iterator()` and `close()` interleaved with each other
and with finalizers; handles and batches used with another database than their own,
or after their own was closed; an iterator shared by threads; calls through the null
pointer of a closed database; KeyboardInterrupt and the end of the interpreter in the
middle of any of it; `open_blind`, which lists names in one call and opens them in
another; option objects that several databases share; errors of the engine that are
dropped, so that a loop ends as if at the last pair. `PROJECT.json`
lists each hazard at its line with the properties that would catch it.

## 2. Modules

| Module | Models |
|---|---|
| `EngineContract` | what the engine asks of the owner of a database and its iterators (external) |
| `IteratorLifetime` | `iterator()`, `close()`, finalizers, garbage collection, `~DBWrapper` |
| `IteratorLifetimeProofs`, `IteratorLifetimeRefinement` | its theorems |
| `IteratorFaults` | the same with KeyboardInterrupt and its traceback, the end of the interpreter and `~IteratorWrapper` |
| `IteratorFaultsProofs` | its theorems |
| `OptionObjects` | option objects, table factories, and what changes them |
| `AtomicOpen` | what opening a database promises |
| `OpenBlind` | `open`, `open_blind`, `get_column_families` and another process, over `OptionObjects` |
| `OpenBlindProofs` | its theorems |
| `KeyValueStore` | what the methods promise together: one value per cell |
| `DbHandles` | open, handles, the operations, batches, snapshots and close, over several databases and sessions |
| `DbHandlesProofs`, `DbHandlesRefinement` | its theorems |
| `IteratorCursor` | `DbIterator` and its `__next__`, shared by threads |
| `IteratorCursorProofs` | its theorems |
| `MCIteratorLifetime`, `MCIteratorFaults`, `MCDbHandles`, `MCOpenBlind`, `MCIteratorCursor` | the instances for TLC |

Operators whose comment begins with *Mutant* are not part of a model. Each is a
plausible bug in the definition that follows it, and `PROJECT.json` says which property
it breaks when it takes that definition's place.

### IteratorLifetime

| Variable | Code |
|---|---|
| `closed`, `finSet` | `RocksDB._closed`, `_fin_set`; a finalizer is named by its iterator |
| `registry` | the finalizers that have not run, in the `weakref` module |
| `held`, `alive` | the `DbIterator` objects, and the `RocksDB` object, that have not been collected |
| `db`, `iter` | `DBWrapper::db`, `IteratorWrapper::iter_` |
| `pc`, `made`, `snap`, `seen` | where a thread is in `iterator()` or `close()`, and its locals |
| `popped` | finalizers that a thread has taken from the registry and not yet run |

Calling a finalizer is two steps, as in CPython: `Pop` removes it from the registry,
`RunFinalizer` calls `hnd.close()`; another thread may come between. While a finalizer
runs on top of a thread, the method below it waits (`At`). The loop of `close()` over
`_fin_set` fails with "Set changed size during iteration" when the set has changed
size (`LoopRaises`), and is only sure to have met the elements that were there from
the start (`LoopEnds`).

`SerialSpec` is the same program when callers keep other threads out of `iterator()`,
`close()` and finalizers while a thread is inside `close()`.

### IteratorFaults

The module extends `IteratorLifetime` and keeps its actions.

| Variable | Code |
|---|---|
| `exit` | where `weakref.finalize._exitfunc` is, which runs in `Main` like the signal handlers |
| `traced` | the iterators in frames that a traceback refers to |
| `cut` | history: the iterators of whose `iterator()` or finalizer an interrupt has cut off the rest |

An `Interrupt...` action is KeyboardInterrupt raised in the main thread between two
bytecodes, and ends the method it strikes. It frees nothing by that: the traceback
of the exception refers to the frames it leaves. `InterruptIterator` leaves `dbi` and
`dbw` there, before `weakref.finalize` or with the finalizer made and not in
`_fin_set`; `InterruptFinalizer` leaves `hnd` there, when `close()` or `_exitfunc` called
the finalizer. `DropTraceback` is the end of the exception, at any later time, and then the
frame's references go like any others. So `close()` can run with the exception still on its
way, as it does in `with RocksDB.open(...)`, where `__exit__` calls it (`db.py:170-171`):
the iterator is open and no finalizer that `close()` knows of will close it. An
interrupt in a finalizer that the garbage collector called is reported and dropped at once,
and the method below goes on. `InterruptClose` and `InterruptExit` strike between the steps of
`close()` and of `_exitfunc`. A traceback refers to the `RocksDB` object too, so that it is
not collected before.

`ExitStart`, `ExitCall`, `ExitReturn` and `ExitEnd` are `_exitfunc`: it calls what is in
the registry and then sets `_shutdown`, after which `close()` finds finalizers that do
nothing (`DiscardFinalizer`).

A finalizer that is lost takes no iterator with it: the `DbIterator` still refers to its
`cIterator`, whose destructor (`iterator_wrapper.h:11`) deletes the engine's iterator when
the last reference goes (`CollectHandle`).

### OptionObjects, AtomicOpen and OpenBlind

| Variable | Code |
|---|---|
| `cfOptions`, `dbOptions`, `tableOptions` | the option objects that a program holds |
| `factory` | each `PlainTableFactory` and the settings it copied (`rocksdb_module.cpp:95-98`) |
| `inUse` | the descriptors that `DBWrapper::open` copied, by client and name; none without a session |
| `disk`, `holder` | the column families of the database, and its LOCK file (external) |
| `pc`, `listed` | where a thread is in `open_blind`, and `res` |
| `during` | history: the column families there were at some moment, and at every moment, since a thread listed them |

A copy of `ColumnFamilyOptions` shares the table factory. `set_plain_table` allocates a
new one, at any place that no `shared_ptr` refers to. One size stands for all the
fields of `cCFOptions`, and the three flags that `DB::Open` reads for all of
`cDBOptions`, which are bound in the same way. A budget is an `int` that C++ converts
to `uint64_t` (`OptimizeLevelStyle`).

`open_blind` is `ListNames` and `OpenListed`. Between them any thread may open, close and
set options, and another process may open, write, drop column families, close, crash or
delete the database (external). `ListNames` may find nothing though there is a
database, as the Status is dropped (`db_wrapper.cpp:207`). `Open` is one call of
`cDB.open`; the engine creates a database before it looks at the names.

`AtomicOpen` says what the steps of the other process are, and that a call that fails
leaves the database as it was or a new one where there was none. It ties what
`open_blind` opens to what it listed: a session opened blind knows every column family that
was there throughout the call, and none that never was, but the default one. It does not
say what `open_blind` does at a path without a database (see 5).

### DbHandles

A session is one return of `RocksDB.open`. `catalog` holds the id of each column family of
each database, `store` its values by id and key, as the engine keeps them. The names that
`open()` asks for are the keys of a dict, so no name comes twice; the engine creates the
missing ones in that order and numbers them on from those there are (`Created`). `ptr[s]` is `DBWrapper::db`, and `at[s]` the address in the handles of the
session, which `close()` does not change: `check_db` is `at[o] = ptr[s]`. The allocator
may place a new database at any address that no open one has. Opening read-write
needs the engine's lock, a descriptor for each column family there is, and leave to
create what is missing; an open that fails on a missing column family has by then
created the database. A read-only session reads the state it was opened on. A call
through the null pointer of a closed database ends the process ("killed"), and so may
a read with the handle of a closed database, or it returns anything.

`call` records the last call and its reply. It decides nothing later, so the
configurations leave it out of the state with a VIEW, and the properties that speak of
it are action properties, which TLC checks on every step, new state or not.

`FreshSpec` adds an allocator that reuses no address; `CarefulSpec` adds a program that
writes a batch only to the database whose handles it was built with. They show under
which conditions the check in `cf_handle.h` is enough. `OwnSpec`, in
`DbHandlesRefinement`, is a program that writes its batches like that and uses each handle
with its own session only, over any allocator.

### IteratorCursor

`__next__` calls into C++ six times: `valid`, `valid` and `key`, `valid` and `value`,
`next`; each is a step. The view is the column family as it was when the iterator was
made. A seek or a move arrives at a key, passes the last one, or fails in reading
(`Fails`): then the engine's iterator is not valid either, and only its `status()`, which
`iterator_wrapper.cpp` never asks for, tells this from the end. `failed` is that status; no
action reads it. `TurnsSpec` is a program whose threads take turns: while one of them is in
`__next__` no other uses the iterator, though others go on writing and may close it. Moving an
iterator that is not valid is outside the engine's contract: `misused` says who did it,
and the run stops there.

## 3. Runs

| Run | Instance | States | Shows |
|---|---|---|---|
| `lifetime_threads` | 3 threads, 2 iterators, `FairSpec` | 191 979 | the invariants that hold under every interleaving; `close()` returns; what is dropped gets closed |
| `lifetime_serial` | 3 threads, 3 iterators, `SerialSpec` | 3 145 | no iterator outlives its database; `EngineContract` is implemented |
| `lifetime_faults` | 2 threads, 3 iterators, `SerialFaultSpec` | 254 157 | with interrupts and exit: nothing leaks, dropping gets closed, and only iterators that were cut off outlive their database |
| `lifetime_race` | 2 threads, 2 iterators | - | violated: close() against iterator() |
| `handles_any` | 2 sessions, 2 databases, 2 addresses, 3 names, 6 requests | 180 909 | what `check_db` and the open modes guarantee |
| `handles_careful` | the same with 4 requests, batches of 2, `CarefulSpec` | 96 247 | `KeyValueStore` is implemented |
| `handles_reuse` | the same | - | violated: a stale handle is accepted |
| `handles_batch` | the same, `FreshSpec` | - | violated: a batch lands in another database |
| `opening` | 2 clients and another process, 1 CFOptions object, 3 table factories, 2 names | 343 424 | `AtomicOpen` is implemented: `open_blind` opens what it listed, a failed open leaves at most a new database; options in use are frozen |
| `cursor_turns` | 2 threads, 3 keys, 2 values, `FairTurnsSpec` | 1 037 502 | a scan follows the view and stops early only on an error; a loop ends |
| `cursor_error` | 1 thread, 2 keys, 1 value, `TurnsSpec` | - | violated: a read error ends the loop as if at the last pair |
| `cursor_shared` | 2 threads, 2 keys, 2 values | - | violated: a torn pair |

Bounds, and why they are enough. Three threads give a thread inside `close()`, one
inside `iterator()` and one running a finalizer, with one iterator that is being made
and one that is held or collected; the runs with less interleaving have three
iterators, one of each. Faults strike the main thread only, so two threads give it and
one other. Two sessions over two databases and two addresses
give every pairing of a handle with another database: of the same path or not, closed
or open, at the same address or not. Three names give column families with one id
under different names in different databases, and a database that one session opens
with column families that an earlier one did not have. A batch of two is the shortest
that has an order. A request asks for nothing, for less than the default column family,
for less than there is, or for more, in either order. Three keys give a first, a middle
and a last. In `opening` a database is open by one client while the other changes the object it was
opened with; three table factories let two databases and the object have one each; a
second name is there or not when it is listed and when it is opened; words of four bits
tell a negative budget (-1 gives 3) from a size (4 gives 1).

Fairness. `FairSpec` gives weak fairness to what each thread does once it is inside a
method or a finalizer (`Proceed`), because the interpreter switches threads, and to no
call by the program and no collection. `SerialFaultSpec` gives it to `FProceed`, the same steps
once finalizers may be switched off, and to the loop of `_exitfunc`; to no interrupt,
not to the start of the exit, and not to the end of an exception: a program may keep its
traceback for good. `FairTurnsSpec` gives it to a thread that is in `__next__` or in a loop
over the iterator (`Continue`), and to no writer.

Deadlock is checked in every run: `Finished` is the end of a program that has dropped
everything, and a killed or misused process stutters.

## 4. What is proved

For any sets of threads, iterators, sessions, databases, addresses, option objects, table
factories, names, keys and values.

*IteratorLifetime.* `Inv` is inductive for `Spec`. Its core is `SoleCloser`: an iterator
is open exactly when one party is going to delete it, and the parties are the thread
that is making it, the registry, and the thread that popped its finalizer. It needs
`MadeNotPopped`, since a thread could otherwise be two of the parties at once,
`FlagAfterClose`, which carries `ClosedFlagIsTruthful` over the last step of `close()`,
and `CollectedIsQuiet`, which makes `~DBWrapper` find nothing open. The theorems
`TypeCorrect`, `OneCloser`, `FlagTruthful` and `CollectedIsEmpty` follow.

`SerialInv` is inductive for `SerialSpec`. It adds that the loop of `close()` meets a set
that does not change (`LoopCovers`), that every finalizer in the registry is in that
set (`TrackedForClose`), and so that none is left when the loop ends (`AllRun`). With
`SoleCloser` no iterator is then open when the database is closed: `NoOrphans`, and
`Refinement`, that each step is a step of `EngineContract` or leaves the engine alone
(`ContractSpec`). `OneThreadNeedsNoLock` says that for a program with one thread both hold of
`Spec` itself, although finalizers run in the middle of its methods. It is a theorem about
programs that are not interrupted: KeyboardInterrupt inside a `with` block is enough to break
it, and is the subject of `IteratorFaults`.

*IteratorFaults.* `FInv` is inductive for `FaultSpec`, without any serialisation.
`SoleCloser` does not survive an interrupt; what does is `Parties`: an open iterator is
in the registry, or in the hands of a thread, or held by the program or a traceback. It
needs that an iterator being made is known to its thread only (`MakingIsPrivate`), that a
finalizer in the registry has its object (`RegistryIsReferred`), and that a registered
finalizer goes only when someone takes it (`RegisteredHasFinalizer`), for the interrupt
that strikes after `weakref.finalize`; `LossIsExplained` and `TracedWasCut` say why an open
iterator has no finalizer, or is in a traceback. `FTypeCorrect`, `NoLeaks` and
`DestroyedLastTheorem` follow.

`SInv` adds for `SerialFaultSpec` that a registered finalizer is in `_fin_set`, unless it was cut
off or `iterator()` is about to put it there (`RestIsTracked`); that the loop of `close()`
meets all in the set (`LoopCovers`) and so leaves none to run but those cut off
(`RestHasRun`), and that this is still so on a closed database, where no iterator is being made
either (`AfterClose`). `OrphansAreCutOff` follows: an
iterator that outlives its database had its own `iterator()` or its own finalizer cut off by an
interrupt, or was held when the interpreter switched the finalizers off. An interrupt
between the steps of `close()` itself never has this effect. The steps that are steps of
`IteratorLifetime` take their lemmas from its proofs.

*OpenBlind.* `OInv` says that a session knows the default column family, that a database
has it as soon as there is one, and that who holds the lock has a database. Its type
part carries the conversion of a budget: a size is a word, for every `int`
(`OpenTypeCorrect`). From it, `OpeningIsAtomic`: each step is one of `AtomicOpen` or
leaves it alone. The step that opens needs to know how old the list is (`ListingIsDated`):
all in it was there at some moment of the call, and what was there at every moment is in
it or the list is empty, and an empty one opens nothing. `SettingsStayFrozen` holds since a
factory in use is referred to and so never handed out again.

*DbHandles.* First what the operators compute. `OverlayIs`: a batch leaves in each cell what
its last write to that cell says, and the value from before in the others. `Overlay` is a
recursive function, and the proof takes the least number of writes after which the two
would differ. `CreatedMeans`: each missing name gets an id of its own, above those there
were and at most the number of column families. The id is a count of names, so this is an
argument about the cardinalities of nested sets.

`Inv` is inductive for `Spec`, whatever handles and batches go where. It says that the
column families of a database are numbered like that (`Numbered`), that the names a session
was opened with are of its database (`NamesExist`), that a session's pointer is the address
in its handles until it is null (`Pointers`), that open databases have different ones
(`Distinct`), and `ListIsComplete`, which holds because a database that is open for writing
is locked, so that no other open, failed or not, adds to it. `TypeCorrect`,
`ListsEverything` and `ColumnFamiliesStay`, that no step takes a column family away or
renumbers it, follow, and with the steps:

* `CheckDbSeparates`: `check_db` lets a call through only on an open database and never
  with the handle of another open one; `CheckDbSufficesWithoutReuse`: if addresses were
  not reused it would be exact;
* `OnlyClosedKills`: the process dies only of a call on a closed database or with a handle
  of one, which needs `Inv` to rule out that a live handle reads something that is no
  value;
* `ReadOnlyIsReadOnly`: a read-only session changes nothing.

`DbHandlesRefinement` proves that the binding implements `KeyValueStore`: a step is a write
of the cells that the handles name, a read that returns the cell's value, or leaves every
cell alone. `CarefulInv` adds to `Inv` that each write in the batch has the id of the column
family it was made for (`BatchIsNamed`), which stays true because ids do, and that nothing
is kept under an id that no column family has (`UnusedIsAbsent`), so that new column
families are empty. `OwnHandlesSuffice` proves it of `OwnSpec`, addresses reused or not, and
`Refinement` of `CarefulSpec`, where `check_db` keeps the handles apart. `OwnWritesLand` says
the same of the step that `handles_batch` violates.

*IteratorCursor.* `TypeCorrect` and `ClosedStaysInert` hold for any threads that use the
iterator as they like. The rest is for `TurnsSpec`. There `Alone`, that one thread at most is
in `__next__`, makes the position `__next__` saw the position it reads and moves (`Steady`),
and the pairs returned are those of the view from the start of the scan up to the iterator
(`Scanning`): a seek starts with none, and to move to the next entry adds the one that was
left and no other (`AdvanceStep`, `ListsAppend`). From it `TurnsFollowView`,
`TurnsHideOnlyErrors`, that `StopIteration` before the last pair takes a read error, and
`TurnsMoveValid`. `OneThreadNeedsNoLock` says that one thread gets the first two without a lock.

The assumptions on the constants are `HandleAssumption`, `CursorAssumption` and their like, in
the modules that declare them: that None and Absent are no values, that names are finitely
many and a request has each once, that keys are ordered. No theorem bounds the number of
anything.

Only model-checked: liveness (`CloseReturns`, `CollectedIsClosed`, `DroppedGetsClosed`,
`LoopEnds`), as TLAPS has no fairness reasoning here. Every invariant and
every action property of a passing run is a theorem, and so are the three refinements.

## 5. Findings

* `lifetime_race`: a `close()` between `create_iterator` and `_fin_set.add` deletes the
  database under an open iterator. `NoOrphans` shows that a lock around `close()` and
  `iterator()` that also keeps finalizers out is enough.
* `handles_reuse`: `check_db` compares addresses, and addresses are reused.
* `handles_batch`: a batch is not tied to a database. `OwnHandlesSuffice` shows that a program
  which drops its handles when it closes their database, and writes its batches home,
  meets neither of these two.
* `cursor_shared`: `__next__` is not atomic. `TurnsFollowView` shows that a lock around each
  use of a shared iterator is enough.
* `cursor_error`: `__next__` raises StopIteration when `valid()` is false, "no more items" in
  its words (`iterator.py:93-94`), and it is false after a read error too: the loop ends
  early and nothing tells. `TurnsHideOnlyErrors` shows that this is the only cause.

`IteratorFaults` tells of one more way to delete a database under an open iterator, for which
one thread is enough: a KeyboardInterrupt inside `iterator()`, in a `with` block, whose
`__exit__` closes the database while the traceback holds the iterator. `OrphansWereCutOff` is
what remains true.

Other disagreements met while reading, not given runs: `get` returns None for a missing
key where its docstring says KeyError (`db.py:89-90`; `tests/test_db.py:58` expects
None); `get_column_family_handle` raises RuntimeError where its docstring says KeyError
(`db.py:62-63`; `tests/test_cf.py:62`); the methods of `WriteBatch` return None where
their docstrings say self. `snapshot()` takes a snapshot and then raises TypeError,
because `rocksdb::Snapshot` is not registered, so that it can be neither used nor released
(`db.py:130`, `db_wrapper.cpp:176`). `open_blind` of a path without a database ends in a
TypeError about an empty dictionary, where its docstring (`db.py:201`) speaks of creating a
database and `db.py:210-212` sets `create_if_missing` for it. The stub gives
`optimize_level_style_compaction` a default budget that the binding does not declare, so
a call without one is a TypeError; it types enum fields as int, which pybind11 refuses.
`to_dict` of `cDBOptions` converts enums that are not registered and so always raises
(`rocksdb_module.cpp:411`).

## 6. What is not modelled

* The engine: recovery, compaction, the log, background errors. A read error is modelled
  where the binding hides it, in the moves of an iterator, and as the empty list of
  `get_column_families`; which error it is, and those that raise, are not. The models hold what the
  binding relies on: atomic batches in order, iterators over a frozen view, the lock,
  stable column family ids.
* Of the options, `increase_parallelism` and `CompactRangeOptions` (numbers that only the
  engine reads), `to_dict` (reads only) and the fields one by one.
* The registration of classes and enums, the stubs and the build: declarations. What
  they decide for the models is in them: which calls raise TypeError, that the GIL is
  held, what keeps what alive.
* Keys and values are members of small sets: the binding passes bytes through.
* A crash of this process or of the machine: writes are not synced
  (`db_wrapper.cpp:107`), and what survives is up to the engine. The status that
  `Close()` returns is dropped (`db_wrapper.cpp:186`); what the engine leaves behind when
  it fails is not in the repository.
* Growth: `_fin_set` keeps a finalizer of every iterator ever made, and every open leaks its
  column family handles. Both are the design of the code and not of an order of steps.
* Asynchronous exceptions other than KeyboardInterrupt, and fork().

## 7. What could follow

1. A composition of `IteratorLifetime` and `IteratorCursor`: several iterators in use
   while the database is closed under them, and one that is orphaned while it is read.
2. A composition of `OpenBlind` and `DbHandles`: `KeyValueStore` for sessions that were
   opened blind.
