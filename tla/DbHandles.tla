------------------------------ MODULE DbHandles ------------------------------
(***************************************************************************)
(* The RocksDB objects of one program, the column family handles they give *)
(* out, and a WriteBatch: src/cpp/db_wrapper.cpp, cf_handle.h and          *)
(* batch_wrapper.cpp, behind the methods of src/pyrocks11/db.py and        *)
(* batch.py.  Each method is one call into C++ made under the GIL.         *)
(*                                                                         *)
(* A session is one return of RocksDB.open.  A handle is named by the      *)
(* session that gave it out and a column family name: the map of handles   *)
(* outlives close(), so a program can have any of them at any time.        *)
(***************************************************************************)
EXTENDS Naturals, FiniteSets, SequencesExt

CONSTANTS
    Sessions,           \* every session there may be
    Paths,              \* the databases on disk
    Addrs,              \* where the allocator may place a rocksdb::DB
    Names, Default,     \* column family names, and the one named "default"
    Requests,           \* the column_family_options of open(): their names
    Keys, Values,
    Absent,             \* Python's None, what get() returns for no value
    None,               \* nullptr, and no session, path or view
    MaxBatch            \* bound on the operations in the batch

Ids == 1..Cardinality(Names)
Stores == [Ids \X Keys -> Values \cup {Absent}]
Cells == Paths \X Names \X Keys

\* The column_family_options of open() are a dictionary: no name comes twice.
ASSUME HandleAssumption ==
    /\ IsFiniteSet(Names) /\ Default \in Names
    /\ Requests \subseteq Seq(Names) /\ \A names \in Requests : IsInjective(names)
    /\ {"ok", "RuntimeError", "TypeError", "killed"} \cap (Values \cup {Absent}) = {}
    /\ None \notin Addrs \cup Paths \cup Sessions \cup Stores
    /\ MaxBatch \in Nat

VARIABLES
    catalog,            \* the id of each column family of each database
    store,              \* each database's values by column family id and key
    home,               \* the path each session opened
    cfh,                \* DBWrapper::cfh, the names it maps to handles
    at,                 \* ColumnFamilyHandle::dbh, in each session's handles
    ptr,                \* DBWrapper::db, None once reset
    view,               \* what a read-only session reads, None if read-write
    pinned,             \* the sessions whose engine holds a snapshot
    batch,              \* WriteBatchWrapper::batch_
    call                \* the last call: what it asked for and its reply

vars == <<catalog, store, home, cfh, at, ptr, view, pinned, batch, call>>
sessionVars == <<home, cfh, at, ptr, view>>

\* A database that is not there has no column families.
NoDatabase == [n \in {} |-> 0]

Init ==
    /\ catalog = [p \in Paths |-> NoDatabase]
    /\ store = [p \in Paths |-> [c \in Ids \X Keys |-> Absent]]
    /\ home = [s \in Sessions |-> None]
    /\ cfh = [s \in Sessions |-> {}]
    /\ at = [s \in Sessions |-> None]
    /\ ptr = [s \in Sessions |-> None]
    /\ view = [s \in Sessions |-> None]
    /\ pinned = {}
    /\ batch = <<>>
    /\ call = [op |-> "none", session |-> None, owner |-> None, cell |-> None,
               writes |-> <<>>, reply |-> "ok"]

Opened(s) == home[s] # None
IsOpen(s) == ptr[s] # None

Replies(op, s, r) ==
    call' = [op |-> op, session |-> s, owner |-> s, cell |-> None,
             writes |-> <<>>, reply |-> r]

-----------------------------------------------------------------------------
(* DBWrapper::open *)

Locked(p) == \E u \in Sessions : IsOpen(u) /\ home[u] = p /\ view[u] = None

Existing(p) == DOMAIN catalog[p]

\* DB::Open goes through the manifest: it needs the LOCK file, the database or
\* leave to create it, and a descriptor for every column family there is.
Recovers(p, names, createDb) ==
    /\ Default \in ToSet(names)
    /\ ~Locked(p)
    /\ Existing(p) # {} \/ createDb
    /\ Existing(p) \subseteq ToSet(names)

Recovered(p) == IF Existing(p) = {} THEN [n \in {Default} |-> 1] ELSE catalog[p]

Missing(p, names) == ToSet(names) \ DOMAIN Recovered(p)

\* The missing names that open() is given no later than n.
MissingUpTo(p, names, n) ==
    {m \in Missing(p, names) :
        \E i, j \in DOMAIN names : i <= j /\ names[i] = m /\ names[j] = n}

\* Mutant: the ids of new column families begin anew with each open().
CreatedAnew(p, names) ==
    [n \in DOMAIN Recovered(p) \cup Missing(p, names) |->
        IF n \in DOMAIN Recovered(p) THEN Recovered(p)[n]
        ELSE Cardinality(MissingUpTo(p, names, n))]

\* Column families that are created take the next ids, in the order given.
Created(p, names) ==
    [n \in DOMAIN Recovered(p) \cup Missing(p, names) |->
        IF n \in DOMAIN Recovered(p) THEN Recovered(p)[n]
        ELSE Cardinality(DOMAIN Recovered(p)) + Cardinality(MissingUpTo(p, names, n))]

\* Mutant: the handles that DBWrapper keeps are those of new column families.
RegisterNew(s, p, names, v) ==
    /\ \E a \in Addrs :
          /\ \A u \in Sessions : ptr[u] # a
          /\ at' = [at EXCEPT ![s] = a]
          /\ ptr' = [ptr EXCEPT ![s] = a]
    /\ home' = [home EXCEPT ![s] = p]
    /\ cfh' = [cfh EXCEPT ![s] = {Default} \cup (names \ Existing(p))]
    /\ view' = [view EXCEPT ![s] = v]

\* The DBWrapper constructor: each handle remembers the address of the DB,
\* any that no other open DB is at.
Register(s, p, names, v) ==
    /\ \E a \in Addrs :
          /\ \A u \in Sessions : ptr[u] # a
          /\ at' = [at EXCEPT ![s] = a]
          /\ ptr' = [ptr EXCEPT ![s] = a]
    /\ home' = [home EXCEPT ![s] = p]
    /\ cfh' = [cfh EXCEPT ![s] = names]
    /\ view' = [view EXCEPT ![s] = v]

\* DbOpenRW: the missing column families are created in the order given.
OpenReadWrite(s, p, names, createDb, createCfs) ==
    /\ Recovers(p, names, createDb)
    /\ Missing(p, names) = {} \/ createCfs
    /\ catalog' = [catalog EXCEPT ![p] = Created(p, names)]
    /\ Register(s, p, ToSet(names), None)
    /\ Replies("open", s, "ok")
    /\ UNCHANGED <<store, pinned, batch>>

\* The engine creates the database before it looks at the names.
OpenReadWriteFails(s, p, names, createDb, createCfs) ==
    /\ ~Recovers(p, names, createDb) \/ (Missing(p, names) # {} /\ ~createCfs)
    /\ catalog' = IF names # <<>> /\ createDb /\ ~Locked(p)
                  THEN [catalog EXCEPT ![p] = Recovered(p)] ELSE catalog
    /\ Replies("open", s, IF names = <<>> THEN "TypeError" ELSE "RuntimeError")
    /\ UNCHANGED <<store, sessionVars, pinned, batch>>

\* DbOpenRO takes no lock, creates nothing, opens any of the column families,
\* and goes on reading the state it was opened on.
OpenReadOnly(s, p, names) ==
    IF Default \in ToSet(names) /\ ToSet(names) \subseteq Existing(p)
    THEN /\ Register(s, p, ToSet(names), store[p])
         /\ Replies("open", s, "ok")
         /\ UNCHANGED <<catalog, store, pinned, batch>>
    ELSE /\ Replies("open", s, IF names = <<>> THEN "TypeError" ELSE "RuntimeError")
         /\ UNCHANGED <<catalog, store, sessionVars, pinned, batch>>

Open(s) ==
    /\ ~Opened(s)
    /\ \E p \in Paths, names \in Requests :
          \/ OpenReadOnly(s, p, names)
          \/ \E createDb, createCfs \in BOOLEAN :
                \/ OpenReadWrite(s, p, names, createDb, createCfs)
                \/ OpenReadWriteFails(s, p, names, createDb, createCfs)

-----------------------------------------------------------------------------
(* Operations through a column family handle *)

\* get_column_family finds the name among the ones given to open().
HasHandle(o, n) == Opened(o) /\ n \in cfh[o]
CellOf(o, n, k) == <<home[o], n, k>>

\* What the engine stores of a write: the column family's id, not its name.
IdOf(o, n) == catalog[home[o]][n]
WriteOf(o, n, k, v) ==
    [id |-> IdOf(o, n), key |-> k, cell |-> CellOf(o, n, k), value |-> v]

\* Mutant: a handle is good on any open database.
CheckDbOpen(s, o) == IsOpen(s)

\* ColumnFamilyHandle::check_db
CheckDb(s, o) == at[o] = ptr[s]

\* Mutant: the operations are applied from the last to the first.
OverlayReversed(db, ws) ==
    LET after[i \in 0..Len(ws)] ==
            IF i = 0 THEN db
            ELSE LET w == ws[Len(ws) + 1 - i]
                 IN  [after[i - 1] EXCEPT ![<<w.id, w.key>>] = w.value]
    IN  after[Len(ws)]

\* What the operations of a batch make of the values, one after the other.
Overlay(db, ws) ==
    LET after[i \in 0..Len(ws)] ==
            IF i = 0 THEN db
            ELSE [after[i - 1] EXCEPT ![<<ws[i].id, ws[i].key>>] = ws[i].value]
    IN  after[Len(ws)]

\* Mutant: the engine is not told that the database is read-only.
ApplyAnyMode(op, s, o, ws) ==
    LET ok == \A i \in DOMAIN ws : ws[i].id \in Range(catalog[home[s]])
    IN  /\ store' = IF ok THEN [store EXCEPT ![home[s]] = Overlay(@, ws)] ELSE store
        /\ call' = [op |-> op, session |-> s, owner |-> o, cell |-> None, writes |-> ws,
                    reply |-> IF ok THEN "ok" ELSE "RuntimeError"]

\* The engine applies a batch whole, or refuses it: the database is read-only,
\* or has no column family of one of the ids.
Apply(op, s, o, ws) ==
    LET ok == /\ view[s] = None
              /\ \A i \in DOMAIN ws : ws[i].id \in Range(catalog[home[s]])
    IN  /\ store' = IF ok THEN [store EXCEPT ![home[s]] = Overlay(@, ws)] ELSE store
        /\ call' = [op |-> op, session |-> s, owner |-> o, cell |-> None, writes |-> ws,
                    reply |-> IF ok THEN "ok" ELSE "RuntimeError"]

\* "Invalid column family"
Refuse(op, s, o) ==
    /\ ~CheckDb(s, o)
    /\ call' = [op |-> op, session |-> s, owner |-> o, cell |-> None, writes |-> <<>>,
                reply |-> "RuntimeError"]
    /\ UNCHANGED store

Put(s, o, n, k, v) ==
    /\ Refuse("put", s, o) \/ (CheckDb(s, o) /\ Apply("put", s, o, <<WriteOf(o, n, k, v)>>))
    /\ UNCHANGED <<catalog, sessionVars, pinned, batch>>

DeleteKey(s, o, n, k) ==
    /\ \/ Refuse("delete", s, o)
       \/ CheckDb(s, o) /\ Apply("delete", s, o, <<WriteOf(o, n, k, Absent)>>)
    /\ UNCHANGED <<catalog, sessionVars, pinned, batch>>

\* The engine reads through the handle itself, not through its id: with the
\* handle of a database that was closed it reads what is left of it.
Read(s, o, n, k) ==
    IF s # o THEN Values \cup {Absent, "killed"}
    ELSE {(IF view[s] = None THEN store[home[s]] ELSE view[s])[<<IdOf(o, n), k>>]}

Get(s, o, n, k) ==
    /\ \/ Refuse("get", s, o)
       \/ /\ CheckDb(s, o)
          /\ \E r \in Read(s, o, n, k) :
                call' = [op |-> IF view[s] = None THEN "get" ELSE "get_ro",
                         session |-> s, owner |-> o,
                         cell |-> CellOf(o, n, k), writes |-> <<>>, reply |-> r]
          /\ UNCHANGED store
    /\ UNCHANGED <<catalog, sessionVars, pinned, batch>>

\* create_iterator has the guard of get; IteratorLifetime has the rest.
CreateIterator(s, o) ==
    /\ \/ Refuse("iterator", s, o)
       \/ /\ CheckDb(s, o)
          /\ \E r \in IF s = o THEN {"ok"} ELSE {"ok", "killed"} :
                call' = [op |-> "iterator", session |-> s, owner |-> o, cell |-> None,
                         writes |-> <<>>, reply |-> r]
          /\ UNCHANGED store
    /\ UNCHANGED <<catalog, sessionVars, pinned, batch>>

-----------------------------------------------------------------------------
(* WriteBatch: put and delete check nothing; the handle's id is recorded. *)

BatchAdd(o, n, k, v) ==
    /\ Len(batch) < MaxBatch
    /\ batch' = Append(batch, WriteOf(o, n, k, v))
    /\ Replies("batch", o, "ok")
    /\ UNCHANGED <<catalog, store, sessionVars, pinned>>

BatchClear ==
    /\ batch # <<>>
    /\ batch' = <<>>
    /\ Replies("batch", None, "ok")
    /\ UNCHANGED <<catalog, store, sessionVars, pinned>>

-----------------------------------------------------------------------------
(* Operations on the whole database.  None but close() looks at the pointer *)
(* first: on a closed database they call through nullptr.                   *)

Write(s) ==
    /\ IF IsOpen(s) THEN Apply("write", s, s, batch)
       ELSE Replies("write", s, "killed") /\ UNCHANGED store
    /\ UNCHANGED <<catalog, sessionVars, pinned, batch>>

\* Compaction rewrites files and changes no value.
CompactRange(s) ==
    /\ Replies("compact", s, IF ~IsOpen(s) THEN "killed"
                             ELSE IF view[s] = None THEN "ok" ELSE "RuntimeError")
    /\ UNCHANGED <<catalog, store, sessionVars, pinned, batch>>

\* The engine takes a snapshot; rocksdb::Snapshot is not a registered type, so
\* its pointer cannot be returned to Python.
Snapshot(s) ==
    /\ pinned' = IF IsOpen(s) THEN pinned \cup {s} ELSE pinned
    /\ Replies("snapshot", s, IF IsOpen(s) THEN "TypeError" ELSE "killed")
    /\ UNCHANGED <<catalog, store, sessionVars, batch>>

\* Nor can one be passed from Python: C++ is not reached.
ReleaseSnapshot(s) ==
    /\ Replies("release", s, "TypeError")
    /\ UNCHANGED <<catalog, store, sessionVars, pinned, batch>>

\* db->Close() and db.reset(); a second close() does nothing.  With a snapshot
\* held the engine's Close() fails, and its status is dropped.
Close(s) ==
    /\ ptr' = [ptr EXCEPT ![s] = None]
    /\ Replies("close", s, "ok")
    /\ UNCHANGED <<catalog, store, home, cfh, at, view, pinned, batch>>

-----------------------------------------------------------------------------
\* The process has been killed by the operating system.
Killed == call.reply = "killed"

Next ==
    \/ /\ ~Killed
       /\ \/ \E s \in Sessions : Open(s)
          \/ BatchClear
          \/ \E o \in Sessions, n \in Names, k \in Keys :
                /\ HasHandle(o, n)
                /\ \/ \E v \in Values \cup {Absent} : BatchAdd(o, n, k, v)
                   \/ \E s \in {u \in Sessions : Opened(u)} :
                         \/ \E v \in Values : Put(s, o, n, k, v)
                         \/ DeleteKey(s, o, n, k)
                         \/ Get(s, o, n, k)
                         \/ CreateIterator(s, o)
          \/ \E s \in {u \in Sessions : Opened(u)} :
                \/ Write(s) \/ CompactRange(s)
                \/ Snapshot(s) \/ ReleaseSnapshot(s) \/ Close(s)
    \/ Killed /\ UNCHANGED vars

Spec == Init /\ [][Next]_vars

\* An allocator that never places a rocksdb::DB where an earlier one was.
NoReuse ==
    \A s, u \in Sessions : s # u /\ Opened(s) /\ Opened(u) => at[s] # at[u]

FreshSpec == Init /\ [][Next /\ NoReuse']_vars

\* A program that writes a batch to the database whose handles it was built
\* with, through this session or another.
HomeBatch ==
    call.op = "write" =>
        \A i \in DOMAIN call.writes : call.writes[i].cell[1] = home[call.session]

CarefulSpec == Init /\ [][Next /\ NoReuse' /\ HomeBatch']_vars

-----------------------------------------------------------------------------
(* Properties *)

Outcomes == {"ok", "RuntimeError", "TypeError", "killed"}
WriteRecords == [id : Ids, key : Keys, cell : Cells, value : Values \cup {Absent}]

TypeOK ==
    /\ catalog \in [Paths -> UNION {[ns -> Ids] : ns \in SUBSET Names}]
    /\ \A p \in Paths : IsInjective(catalog[p])
    /\ store \in [Paths -> Stores]
    /\ home \in [Sessions -> Paths \cup {None}]
    /\ cfh \in [Sessions -> SUBSET Names]
    /\ at \in [Sessions -> Addrs \cup {None}]
    /\ ptr \in [Sessions -> Addrs \cup {None}]
    /\ view \in [Sessions -> Stores \cup {None}]
    /\ pinned \subseteq Sessions
    /\ batch \in Seq(WriteRecords) /\ Len(batch) <= MaxBatch
    /\ call.session \in Sessions \cup {None}
    /\ call.owner \in Sessions \cup {None}
    /\ call.reply \in Outcomes \cup Values \cup {Absent}

HandleOps == {"put", "delete", "get", "get_ro", "iterator"}

\* The step is an operation that check_db let through.
Accepted == call'.op \in HandleOps /\ call'.reply # "RuntimeError"

\* check_db lets a call through only on an open database, and never with the
\* handle of another database that is open too, wherever the allocator places
\* them and whatever was closed before (cf_handle.h:11, db_wrapper.cpp:103).
AcceptedHandles ==
    [][Accepted => /\ IsOpen(call'.session)
                   /\ call'.owner = call'.session \/ ~IsOpen(call'.owner)]_vars

\* The column families a read-write session knows are all its database has,
\* though other sessions may have opened it before and created some, so that
\* list_column_families leaves none out (db_wrapper.cpp:20, 193).
ListIsComplete ==
    \A s \in Sessions :
        IsOpen(s) /\ view[s] = None => cfh[s] = Existing(home[s])

\* A program that uses no closed database and no handle of one is never killed.
KilledNeedsClosed ==
    [][Killed' => ~IsOpen(call'.session) \/ ~IsOpen(call'.owner)]_vars

\* A read-only session never changes a database, whoever's handles and batch
\* it is given.
ReadOnlyNeverWrites ==
    [][call'.session # None /\ view'[call'.session] # None
          => UNCHANGED <<store, catalog>>]_vars

Contents ==
    [c \in Cells |->
        IF c[2] \in Existing(c[1]) THEN store[c[1]][<<catalog[c[1]][c[2]], c[3]>>]
        ELSE Absent]

Promise == INSTANCE KeyValueStore WITH contents <- Contents
\* To a careful program, and with an allocator that reuses no address, the
\* binding is a store of cells: each write lands in the database and column
\* family named by its handle, through closes, re-opens and new column
\* families, and a read returns the last value written.
PromiseSpec == Promise!Spec

\* An operation is let through only with a handle of the same session: what
\* the check "Invalid column family" is there for (db_wrapper.cpp:103-104).
StaleHandleRefused == [][Accepted => call'.owner = call'.session]_vars

\* Column families are a logical separation of data (db.py:14): an operation
\* changes no cell but those its handles name.
WritesWhereNamed ==
    [][\A c \in Cells : Contents'[c] # Contents[c] =>
          \E i \in DOMAIN call'.writes : call'.writes[i].cell = c]_vars
=============================================================================
