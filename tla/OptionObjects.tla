---------------------------- MODULE OptionObjects ----------------------------
(***************************************************************************)
(* The option objects of a program, as src/cpp/rocksdb_module.cpp binds    *)
(* them: mutable, shared by reference in Python, and copied by cDB.open.   *)
(* A copy of cCFOptions shares the table factory, a std::shared_ptr.       *)
(*                                                                         *)
(* A class has dozens of fields, each bound with def_readwrite and in the  *)
(* same way.  Of cCFOptions the model keeps write_buffer_size for all the  *)
(* sizes, and of cDBOptions the three flags that decide in DB::Open.  A    *)
(* call that pybind11 refuses with a TypeError changes nothing and is not  *)
(* a step.                                                                 *)
(***************************************************************************)
EXTENDS Integers, FiniteSets

CONSTANTS
    Objects,            \* the CFOptions objects
    Factories,          \* where the allocator may place a table factory
    BlockBased,         \* the factory that a new cCFOptions shares with all
    Settings, Initial,  \* what PlainTableOptions may say, and says when new
    IntRange,           \* C++ int
    WordSize,           \* 2^w for the w bits of size_t and uint64_t
    DefaultSize,        \* write_buffer_size of a new cCFOptions
    SmallSize,          \* what OptimizeForSmallDb sets it to
    Assigned            \* sizes that the program assigns

ASSUME OptionAssumption ==
    /\ BlockBased \notin Factories
    /\ Initial \in Settings
    /\ IntRange \subseteq Int
    /\ WordSize \in Nat \ {0}
    /\ {DefaultSize, SmallSize} \cup Assigned \subseteq 0..(WordSize - 1)

VARIABLES
    cfOptions,          \* the fields of each CFOptions object
    dbOptions,          \* the fields of a DBOptions object that threads share
    tableOptions,       \* what a PlainTableOptions object says
    factory,            \* what each table factory was made with
    inUse               \* the options that each open database was given, by
                        \* its owner and the name of the column family

optionVars == <<cfOptions, dbOptions, tableOptions, factory>>

Fresh == [size |-> DefaultSize, table |-> BlockBased]
DbFields == {"create_if_missing", "create_missing_column_families", "error_if_exists"}

\* open() and open_blind() with options=None.
DefaultDbOptions == [f \in DbFields |-> f = "create_if_missing"]

OptionsInit ==
    /\ cfOptions = [o \in Objects |-> Fresh]
    /\ dbOptions = [f \in DbFields |-> FALSE]
    /\ tableOptions = Initial
    /\ factory = [f \in Factories |-> Initial]

SetDbField(f, v) ==
    /\ dbOptions' = [dbOptions EXCEPT ![f] = v]
    /\ UNCHANGED <<cfOptions, tableOptions, factory, inUse>>

SetSize(o, n) ==
    /\ cfOptions' = [cfOptions EXCEPT ![o].size = n]
    /\ UNCHANGED <<dbOptions, tableOptions, factory, inUse>>

\* OptimizeLevelStyleCompaction(uint64_t) is given an int: a negative budget
\* wraps around.  The buffer is a quarter of the budget.
OptimizeLevelStyle(o, budget) == SetSize(o, (budget % WordSize) \div 4)

OptimizeForSmallDb(o) == SetSize(o, SmallSize)

SetTableField(v) ==
    /\ tableOptions' = v
    /\ UNCHANGED <<cfOptions, dbOptions, factory, inUse>>

\* A factory is freed when the last std::shared_ptr to it goes.
Referenced ==
    {cfOptions[o].table : o \in Objects} \cup
    UNION {{inUse[c][n].table : n \in DOMAIN inUse[c]} : c \in DOMAIN inUse}

\* Mutant: the factory that the object has already is given the settings.
SetPlainTableInPlace(o) ==
    IF cfOptions[o].table = BlockBased
    THEN \E f \in Factories \ Referenced :
            /\ factory' = [factory EXCEPT ![f] = tableOptions]
            /\ cfOptions' = [cfOptions EXCEPT ![o].table = f]
            /\ UNCHANGED <<dbOptions, tableOptions, inUse>>
    ELSE /\ factory' = [factory EXCEPT ![cfOptions[o].table] = tableOptions]
         /\ UNCHANGED <<cfOptions, dbOptions, tableOptions, inUse>>

\* Mutant: table_factory.reset() is given no factory.
SetPlainTableNull(o) ==
    /\ cfOptions' = [cfOptions EXCEPT ![o].table = "nullptr"]
    /\ UNCHANGED <<dbOptions, tableOptions, factory, inUse>>

\* table_factory.reset(NewPlainTableFactory(pto)): the factory copies pto.
SetPlainTable(o) ==
    \E f \in Factories \ Referenced :
       /\ factory' = [factory EXCEPT ![f] = tableOptions]
       /\ cfOptions' = [cfOptions EXCEPT ![o].table = f]
       /\ UNCHANGED <<dbOptions, tableOptions, inUse>>

OptionsNext ==
    \/ \E f \in DbFields, v \in BOOLEAN : SetDbField(f, v)
    \/ \E v \in Settings : SetTableField(v)
    \/ \E o \in Objects :
          \/ \E n \in Assigned : SetSize(o, n)
          \/ \E b \in IntRange : OptimizeLevelStyle(o, b)
          \/ OptimizeForSmallDb(o)
          \/ SetPlainTable(o)

-----------------------------------------------------------------------------
CfRecords == [size : 0..(WordSize - 1), table : Factories \cup {BlockBased}]

OptionsTypeOK ==
    /\ cfOptions \in [Objects -> CfRecords]
    /\ dbOptions \in [DbFields -> BOOLEAN]
    /\ tableOptions \in Settings
    /\ factory \in [Factories -> Settings]

\* What a column family was opened with, down to the settings of its table.
Effective(r) ==
    [size  |-> r.size,
     table |-> IF r.table \in Factories THEN factory[r.table] ELSE BlockBased]
=============================================================================
