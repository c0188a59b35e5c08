------------------------------ MODULE OpenBlind ------------------------------
(***************************************************************************)
(* Opening one database by path: RocksDB.open, and RocksDB.open_blind,     *)
(* which asks the engine for the names of the column families and then     *)
(* opens them.  The two are calls into C++ of their own.  Between them     *)
(* other threads open and close the database and set fields of the options *)
(* object that open_blind was given, and another process opens it, creates *)
(* and drops column families, closes it, crashes, or deletes it.           *)
(***************************************************************************)
EXTENDS OptionObjects

CONSTANTS
    Clients,            \* the threads of this process; each has one session
    Names, Default,     \* column family names, and the one named "default"
    Other,              \* the other process
    None                \* nobody

ASSUME OpenAssumption ==
    /\ Default \in Names
    /\ None \notin Clients \cup {Other}
    /\ Other \notin Clients

Modes == {"rw", "ro"}

\* The options in use by a client without a session.
Nothing == [n \in {} |-> Fresh]

VARIABLES
    disk,               \* the column families of the database, {} if none
    holder,             \* who holds the engine's LOCK file
    pc,                 \* where each client is
    listed,             \* open_blind: res
    during              \* history: the column families that there were at some
                        \* and at every moment since a client listed them

openVars == <<disk, holder, pc, listed>>
vars == <<optionVars, inUse, openVars, during>>

Unseen == [ever |-> {}, still |-> {}]

Init ==
    /\ OptionsInit
    /\ inUse = [c \in Clients |-> Nothing]
    /\ disk = {}
    /\ holder = None
    /\ pc = [c \in Clients |-> "idle"]
    /\ listed = [c \in Clients |-> {}]
    /\ during = [c \in Clients |-> Unseen]

Goto(c, l) == pc' = [pc EXCEPT ![c] = l]

-----------------------------------------------------------------------------
(* DBWrapper::open *)

\* DB::Open and DB::OpenForReadOnly: what the engine asks before it opens a
\* database with these names.
Opens(mode, names, flags) ==
    IF mode = "ro"
    THEN Default \in names /\ names \subseteq disk
    ELSE /\ Default \in names /\ disk \subseteq names
         /\ holder = None
         /\ IF disk = {} THEN flags["create_if_missing"] ELSE ~flags["error_if_exists"]
         /\ names \ (disk \cup {Default}) = {} \/ flags["create_missing_column_families"]

\* The names are refused once the engine has created the database for them.
CreatesAndFails(mode, names, flags) ==
    /\ mode = "rw" /\ holder = None /\ disk = {} /\ names # {}
    /\ flags["create_if_missing"]
    /\ ~Opens(mode, names, flags)

\* cDB.open: the options are copied into the descriptors.  An empty dictionary
\* is a TypeError, and what the engine refuses a RuntimeError.
Open(c, mode, cfs, flags) ==
    LET names == DOMAIN cfs IN
    IF Opens(mode, names, flags)
    THEN /\ inUse' = [inUse EXCEPT ![c] = cfs]
         /\ disk' = IF mode = "rw" THEN disk \cup names ELSE disk
         /\ holder' = IF mode = "rw" THEN c ELSE holder
         /\ Goto(c, "open")
    ELSE /\ disk' = IF CreatesAndFails(mode, names, flags) THEN {Default} ELSE disk
         /\ Goto(c, "idle")
         /\ UNCHANGED <<inUse, holder>>

\* options=None is a new cDBOptions with create_if_missing set; otherwise the
\* fields are read when cDB.open is called.
Flags == {DefaultDbOptions, dbOptions}

\* RocksDB.open with a CFOptions object, or with a dictionary of them, or with
\* None, which is a new one.
OpenSighted(c) ==
    /\ pc[c] = "idle"
    /\ \E mode \in Modes, flags \in Flags :
          \/ \E names \in SUBSET Names : \E of \in [names -> Objects] :
                Open(c, mode, [n \in names |-> cfOptions[of[n]]], flags)
          \/ Open(c, mode, [n \in {Default} |-> Fresh], flags)
    /\ UNCHANGED <<optionVars, listed>>

\* get_column_families.  The Status is dropped: with no database at the path,
\* or on any error in reading it, the list is empty.
ListNames(c) ==
    /\ pc[c] = "idle"
    /\ \E names \in {disk, {}} : listed' = [listed EXCEPT ![c] = names]
    /\ Goto(c, "listed")
    /\ UNCHANGED <<optionVars, inUse, disk, holder>>

\* Mutant: the loop over the names misses one of them.
OpenListedButOne(c) ==
    /\ pc[c] = "listed"
    /\ \E mode \in Modes, flags \in Flags, missed \in Names :
          Open(c, mode, [n \in listed[c] \ {missed} |-> Fresh], flags)
    /\ listed' = [listed EXCEPT ![c] = {}]
    /\ UNCHANGED optionVars

\* The rest of open_blind: each name is opened with a new CFOptions.
OpenListed(c) ==
    /\ pc[c] = "listed"
    /\ \E mode \in Modes, flags \in Flags :
          Open(c, mode, [n \in listed[c] |-> Fresh], flags)
    /\ listed' = [listed EXCEPT ![c] = {}]
    /\ UNCHANGED optionVars

CloseDb(c) ==
    /\ pc[c] = "open"
    /\ inUse' = [inUse EXCEPT ![c] = Nothing]
    /\ holder' = IF holder = c THEN None ELSE holder
    /\ Goto(c, "idle")
    /\ UNCHANGED <<optionVars, disk, listed>>

-----------------------------------------------------------------------------
(* Another process *)

OtherOpens ==
    /\ holder = None
    /\ holder' = Other
    /\ disk' = disk \cup {Default}

\* create_column_family and drop_column_family of another program.
OtherWrites ==
    /\ holder = Other
    /\ \E n \in Names \ {Default} : disk' \in {disk \cup {n}, disk \ {n}}
    /\ UNCHANGED holder

\* It closes the database, or it crashes and the system frees its lock.
OtherCloses ==
    /\ holder = Other
    /\ holder' = None
    /\ UNCHANGED disk

OtherDestroys ==
    /\ holder = None
    /\ disk' = {}
    /\ UNCHANGED holder

OtherProcess ==
    /\ OtherOpens \/ OtherWrites \/ OtherCloses \/ OtherDestroys
    /\ UNCHANGED <<optionVars, inUse, pc, listed>>

-----------------------------------------------------------------------------
Watch ==
    during' = [c \in Clients |->
        IF pc'[c] # "listed" THEN Unseen
        ELSE IF pc[c] # "listed" THEN [ever |-> disk', still |-> disk']
        ELSE [ever |-> during[c].ever \cup disk', still |-> during[c].still \cap disk']]

Next ==
    /\ \/ \E c \in Clients : OpenSighted(c) \/ ListNames(c) \/ OpenListed(c) \/ CloseDb(c)
       \/ OptionsNext /\ UNCHANGED openVars
       \/ OtherProcess
    /\ Watch

Spec == Init /\ [][Next]_vars

-----------------------------------------------------------------------------
(* Properties *)

CallsTypeOK ==
    /\ OptionsTypeOK
    /\ inUse \in [Clients -> UNION {[ns -> CfRecords] : ns \in SUBSET Names}]
    /\ disk \subseteq Names
    /\ holder \in Clients \cup {Other, None}
    /\ pc \in [Clients -> {"idle", "listed", "open"}]
    /\ listed \in [Clients -> SUBSET Names]

TypeOK ==
    /\ CallsTypeOK
    /\ during \in [Clients -> [ever : SUBSET Names, still : SUBSET Names]]

Known == [c \in Clients |-> DOMAIN inUse[c]]
Asking == {c \in Clients : pc[c] = "listed"}

Atomic == INSTANCE AtomicOpen WITH known <- Known, writer <- holder, asking <- Asking

\* Opening is one step, whatever other threads and processes do between the
\* listing of the names and their opening: a session for writing is the only one
\* and knows all the column families, one for reading knows only column families
\* that are there, and a call that fails at most leaves a new database behind
\* (db_wrapper.cpp:64-91).  What open_blind lists is what it opens: its session
\* misses no column family that was there all the time and makes up none, but
\* for the default one (db.py:199-225).
PromiseSpec == Atomic!Spec

\* What a database was opened with does not change while it is open, though
\* the program goes on setting fields of the objects it passed, makes new table
\* factories from them and opens other databases with them
\* (db_wrapper.cpp:43-44, 50-51; rocksdb_module.cpp:95-97).
OpenSettingsAreFrozen ==
    [][\A c \in Clients :
          pc[c] = "open" /\ pc'[c] = "open" =>
             \A n \in DOMAIN inUse[c] : Effective(inUse[c][n])' = Effective(inUse[c][n])]_vars
=============================================================================
