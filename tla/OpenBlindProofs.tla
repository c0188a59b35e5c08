--------------------------- MODULE OpenBlindProofs ---------------------------
(***************************************************************************)
(* Theorems about OpenBlind, for any threads, option objects, table        *)
(* factories and column family names: opening is atomic, with or without   *)
(* the names, and no one changes the options of an open database.          *)
(***************************************************************************)
EXTENDS OpenBlind, TLAPS

\* A client has options in use while it has a session, "default" among them.
SessionsKnowDefault ==
    \A c \in Clients : IF pc[c] = "open" THEN Default \in DOMAIN inUse[c]
                                         ELSE DOMAIN inUse[c] = {}

\* Every database has the default column family, and so has every listing of
\* one; who holds the lock has a database.
DefaultIsThere ==
    /\ \A ns \in {disk} \cup {listed[c] : c \in Clients} : ns = {} \/ Default \in ns
    /\ holder # None => disk # {}

\* What is there now was always there or came since, and a list that is not empty
\* says what there was when it was made.
ListingIsDated ==
    \A c \in Clients :
        IF pc[c] = "listed"
        THEN /\ during[c].still \subseteq disk /\ disk \subseteq during[c].ever
             /\ listed[c] # {} =>
                   during[c].still \subseteq listed[c] /\ listed[c] \subseteq during[c].ever
        ELSE during[c] = Unseen

OInv == CallsTypeOK /\ SessionsKnowDefault /\ DefaultIsThere

Watched ==
    during \in [Clients -> [ever : SUBSET Names, still : SUBSET Names]] /\ ListingIsDated

Opened == UNION {[ns -> CfRecords] : ns \in SUBSET Names}

\* A new CFOptions object holds values that its fields can hold.
LEMMA FreshType == Fresh \in CfRecords
  BY OptionAssumption DEF Fresh, CfRecords

\* A negative int becomes a size_t.
LEMMA BudgetType ==
  ASSUME NEW b \in Int
  PROVE  (b % WordSize) \div 4 \in 0..(WordSize - 1)
<1>1. WordSize \in Nat \ {0}
  BY OptionAssumption
<1>2. b % WordSize \in 0..(WordSize - 1)
  BY <1>1
<1> QED
  BY <1>1, <1>2

\* The invariant holds before the first call.
LEMMA InitOInv == Init => OInv
<1> SUFFICES ASSUME Init PROVE OInv
  OBVIOUS
<1>1. Nothing \in Opened /\ DOMAIN Nothing = {}
  <2>1. Nothing \in [{} -> CfRecords]
    BY DEF Nothing
  <2> QED
    BY <2>1 DEF Opened, Nothing
<1>2. OptionsTypeOK
  BY FreshType, OptionAssumption DEF Init, OptionsInit, OptionsTypeOK
<1>3. CallsTypeOK
  BY <1>1, <1>2 DEF Init, CallsTypeOK, Opened
<1>4. SessionsKnowDefault /\ DefaultIsThere
  BY <1>1 DEF Init, SessionsKnowDefault, DefaultIsThere
<1> QED
  BY <1>3, <1>4 DEF OInv

-----------------------------------------------------------------------------
(* The steps *)

\* The option objects keep their types when the program works on them.
LEMMA OptionsStep ==
  ASSUME OptionsTypeOK, OptionsNext
  PROVE  OptionsTypeOK' /\ UNCHANGED inUse
<1> USE DEF OptionsTypeOK
<1>1. ASSUME NEW f \in DbFields, NEW v \in BOOLEAN, SetDbField(f, v)
      PROVE  OptionsTypeOK' /\ UNCHANGED inUse
  BY <1>1 DEF SetDbField
<1>2. ASSUME NEW v \in Settings, SetTableField(v)
      PROVE  OptionsTypeOK' /\ UNCHANGED inUse
  BY <1>2 DEF SetTableField
<1>3. ASSUME NEW o \in Objects, NEW n \in 0..(WordSize - 1), SetSize(o, n)
      PROVE  OptionsTypeOK' /\ UNCHANGED inUse
  BY <1>3 DEF SetSize, CfRecords
<1>4. ASSUME NEW o \in Objects, SetPlainTable(o)
      PROVE  OptionsTypeOK' /\ UNCHANGED inUse
  BY <1>4 DEF SetPlainTable, CfRecords
<1>5. /\ Assigned \cup {SmallSize} \subseteq 0..(WordSize - 1)
      /\ \A b \in IntRange : (b % WordSize) \div 4 \in 0..(WordSize - 1)
  BY OptionAssumption, BudgetType
<1> QED
  BY <1>1, <1>2, <1>3, <1>4, <1>5
  DEF OptionsNext, OptimizeLevelStyle, OptimizeForSmallDb

\* cDB.open with these names by a client without a session.
Opening(c, ns) ==
    \E mode \in Modes, cfs \in Opened, flags \in [DbFields -> BOOLEAN] :
        DOMAIN cfs = ns /\ Open(c, mode, cfs, flags)

\* RocksDB.open is one call of cDB.open ...
LEMMA SightedIsOpening ==
  ASSUME OInv, NEW c \in Clients, OpenSighted(c)
  PROVE  /\ \E ns \in SUBSET Names : Opening(c, ns)
         /\ pc[c] = "idle" /\ UNCHANGED <<optionVars, listed>>
<1>1. Flags \subseteq [DbFields -> BOOLEAN]
  BY DEF Flags, DefaultDbOptions, OInv, CallsTypeOK, OptionsTypeOK
<1>2. PICK mode \in Modes, flags \in Flags :
          \/ \E names \in SUBSET Names : \E of \in [names -> Objects] :
                Open(c, mode, [n \in names |-> cfOptions[of[n]]], flags)
          \/ Open(c, mode, [n \in {Default} |-> Fresh], flags)
  BY DEF OpenSighted
<1>3. ASSUME NEW names \in SUBSET Names, NEW of \in [names -> Objects]
      PROVE  /\ [n \in names |-> cfOptions[of[n]]] \in Opened
             /\ DOMAIN [n \in names |-> cfOptions[of[n]]] = names
  <2>1. [n \in names |-> cfOptions[of[n]]] \in [names -> CfRecords]
    BY DEF OInv, CallsTypeOK, OptionsTypeOK
  <2> QED
    BY <2>1 DEF Opened
<1>4. /\ [n \in {Default} |-> Fresh] \in Opened /\ {Default} \in SUBSET Names
      /\ DOMAIN [n \in {Default} |-> Fresh] = {Default}
  <2>1. [n \in {Default} |-> Fresh] \in [{Default} -> CfRecords]
    BY FreshType
  <2> QED
    BY <2>1, OpenAssumption DEF Opened
<1> QED
  BY <1>1, <1>2, <1>3, <1>4 DEF Opening, OpenSighted

\* ... and so is the second half of open_blind.
LEMMA ListedIsOpening ==
  ASSUME OInv, NEW c \in Clients, OpenListed(c)
  PROVE  /\ Opening(c, listed[c]) /\ pc[c] = "listed" /\ UNCHANGED optionVars
         /\ listed' = [listed EXCEPT ![c] = {}]
<1>1. Flags \subseteq [DbFields -> BOOLEAN]
  BY DEF Flags, DefaultDbOptions, OInv, CallsTypeOK, OptionsTypeOK
<1>2. [n \in listed[c] |-> Fresh] \in Opened /\ DOMAIN [n \in listed[c] |-> Fresh] = listed[c]
  <2>1. [n \in listed[c] |-> Fresh] \in [listed[c] -> CfRecords] /\ listed[c] \in SUBSET Names
    BY FreshType DEF OInv, CallsTypeOK
  <2> QED
    BY <2>1 DEF Opened
<1> QED
  BY <1>1, <1>2 DEF Opening, OpenListed

\* What one call of cDB.open does to the session, the database and its lock.
LEMMA OpeningStep ==
  ASSUME OInv, NEW c \in Clients, NEW ns, Opening(c, ns), pc[c] # "open"
  PROVE  \/ /\ pc' = [pc EXCEPT ![c] = "open"]
            /\ \E cfs \in Opened : /\ inUse' = [inUse EXCEPT ![c] = cfs]
                                   /\ DOMAIN cfs = ns /\ Default \in ns
                                   /\ \/ /\ DOMAIN cfs \subseteq disk
                                         /\ UNCHANGED <<disk, holder>>
                                      \/ /\ disk \subseteq DOMAIN cfs
                                         /\ disk' = DOMAIN cfs
                                         /\ holder = None /\ holder' = c
         \/ /\ pc' = [pc EXCEPT ![c] = "idle"]
            /\ UNCHANGED <<inUse, holder>>
            /\ \/ UNCHANGED disk
               \/ holder = None /\ disk = {} /\ disk' = {Default}
<1>1. PICK mode \in Modes, cfs \in Opened, flags \in [DbFields -> BOOLEAN] :
         DOMAIN cfs = ns /\ Open(c, mode, cfs, flags)
  BY DEF Opening
<1>2. CASE Opens(mode, DOMAIN cfs, flags)
  BY <1>1, <1>2 DEF Open, Opens, Goto, Modes
<1>3. CASE ~Opens(mode, DOMAIN cfs, flags)
  BY <1>1, <1>3 DEF Open, CreatesAndFails, Goto
<1> QED
  BY <1>2, <1>3

\* A call of cDB.open keeps the invariant but for the list that it used up.
LEMMA OpeningInv ==
  ASSUME OInv, NEW c \in Clients, NEW ns, Opening(c, ns), pc[c] # "open",
         UNCHANGED optionVars,
         listed' = listed \/ listed' = [listed EXCEPT ![c] = {}]
  PROVE  OInv'
<1>1. OptionsTypeOK'
  BY DEF OInv, CallsTypeOK, OptionsTypeOK, optionVars
<1>2. \A cfs \in Opened : DOMAIN cfs \subseteq Names
  BY DEF Opened
<1>3. /\ inUse' \in [Clients -> Opened] /\ disk' \subseteq Names
      /\ holder' \in Clients \cup {Other, None}
      /\ pc' \in [Clients -> {"idle", "listed", "open"}]
      /\ listed' \in [Clients -> SUBSET Names]
  BY <1>2, OpeningStep, OpenAssumption DEF OInv, CallsTypeOK, Opened
<1>4. CallsTypeOK'
  BY <1>1, <1>3 DEF CallsTypeOK, Opened
<1>5. SessionsKnowDefault'
  BY OpeningStep DEF OInv, CallsTypeOK, SessionsKnowDefault
<1>6. (disk' = {} /\ holder' = None) \/ Default \in disk'
  BY OpeningStep DEF OInv, DefaultIsThere
<1>7. DefaultIsThere'
  BY <1>6 DEF OInv, CallsTypeOK, DefaultIsThere
<1> QED
  BY <1>4, <1>5, <1>7 DEF OInv

\* The invariant is kept by every step.
LEMMA OInvStep == OInv /\ [Next]_vars => OInv'
<1> SUFFICES ASSUME OInv, [Next]_vars PROVE OInv'
  OBVIOUS
<1>1. ASSUME NEW c \in Clients, OpenSighted(c) PROVE OInv'
  BY <1>1, SightedIsOpening, OpeningInv
<1>2. ASSUME NEW c \in Clients, OpenListed(c) PROVE OInv'
  BY <1>2, ListedIsOpening, OpeningInv
<1>3. ASSUME NEW c \in Clients, ListNames(c) PROVE OInv'
  <2>1. /\ UNCHANGED <<optionVars, inUse, disk, holder>>
        /\ pc[c] = "idle" /\ pc' = [pc EXCEPT ![c] = "listed"]
        /\ \E names \in {disk, {}} : listed' = [listed EXCEPT ![c] = names]
    BY <1>3 DEF ListNames, Goto
  <2>2. CallsTypeOK'
    BY <2>1 DEF OInv, CallsTypeOK, OptionsTypeOK, optionVars
  <2>3. SessionsKnowDefault' /\ DefaultIsThere'
    BY <2>1 DEF OInv, CallsTypeOK, SessionsKnowDefault, DefaultIsThere
  <2> QED
    BY <2>2, <2>3 DEF OInv
<1>4. ASSUME NEW c \in Clients, CloseDb(c) PROVE OInv'
  <2>1. /\ UNCHANGED <<optionVars, disk, listed>>
        /\ pc' = [pc EXCEPT ![c] = "idle"]
        /\ inUse' = [inUse EXCEPT ![c] = Nothing]
        /\ holder' \in {holder, None}
    BY <1>4 DEF CloseDb, Goto
  <2>2. Nothing \in Opened /\ DOMAIN Nothing = {}
    <3>1. Nothing \in [{} -> CfRecords]
      BY DEF Nothing
    <3> QED
      BY <3>1 DEF Opened, Nothing
  <2>3. CallsTypeOK'
    BY <2>1, <2>2 DEF OInv, CallsTypeOK, OptionsTypeOK, optionVars, Opened
  <2>4. SessionsKnowDefault' /\ DefaultIsThere'
    BY <2>1, <2>2 DEF OInv, CallsTypeOK, SessionsKnowDefault, DefaultIsThere
  <2> QED
    BY <2>3, <2>4 DEF OInv
<1>5. CASE OptionsNext /\ UNCHANGED openVars
  BY <1>5, OptionsStep DEF OInv, CallsTypeOK, SessionsKnowDefault, DefaultIsThere, openVars
<1>6. CASE OtherProcess
  <2>1. /\ UNCHANGED <<optionVars, inUse, pc, listed>>
        /\ disk' \subseteq Names /\ holder' \in Clients \cup {Other, None}
        /\ (disk' = {} /\ holder' = None) \/ Default \in disk'
    BY <1>6, OpenAssumption
    DEF OtherProcess, OtherOpens, OtherWrites, OtherCloses, OtherDestroys, OInv, CallsTypeOK,
        DefaultIsThere
  <2> QED
    BY <2>1 DEF OInv, CallsTypeOK, OptionsTypeOK, optionVars, SessionsKnowDefault, DefaultIsThere
<1>7. CASE UNCHANGED vars
  BY <1>7 DEF vars, openVars, optionVars, OInv, CallsTypeOK, OptionsTypeOK, SessionsKnowDefault,
              DefaultIsThere
<1> QED
  BY <1>1, <1>2, <1>3, <1>4, <1>5, <1>6, <1>7 DEF Next

\* A client lists what there is, or nothing, and keeps the list until it opens.
LEMMA ListingStep ==
  ASSUME OInv, Next, NEW c \in Clients, pc'[c] = "listed"
  PROVE  IF pc[c] = "listed" THEN listed'[c] = listed[c]
         ELSE disk' = disk /\ listed'[c] \in {disk, {}}
<1>1. ASSUME NEW d \in Clients, OpenSighted(d) \/ OpenListed(d)
      PROVE  pc[c] = "listed" /\ listed'[c] = listed[c]
  <2>1. PICK ns : Opening(d, ns) /\ pc[d] # "open"
    BY <1>1, SightedIsOpening, ListedIsOpening
  <2>2. pc' \in {[pc EXCEPT ![d] = "open"], [pc EXCEPT ![d] = "idle"]}
    BY <2>1, OpeningStep
  <2>3. c # d /\ pc[c] = "listed"
    BY <2>2 DEF OInv, CallsTypeOK
  <2> QED
    BY <1>1, <2>3, SightedIsOpening, ListedIsOpening DEF OInv, CallsTypeOK
<1>2. ASSUME NEW d \in Clients, ListNames(d)
      PROVE  IF pc[c] = "listed" THEN listed'[c] = listed[c]
             ELSE disk' = disk /\ listed'[c] \in {disk, {}}
  BY <1>2 DEF ListNames, Goto, OInv, CallsTypeOK
<1>3. ASSUME NEW d \in Clients, CloseDb(d)
      PROVE  pc[c] = "listed" /\ listed'[c] = listed[c]
  BY <1>3 DEF CloseDb, Goto, OInv, CallsTypeOK
<1>4. CASE OtherProcess \/ UNCHANGED openVars
  BY <1>4 DEF OtherProcess, openVars
<1> QED
  BY <1>1, <1>2, <1>3, <1>4 DEF Next

\* What the history says of a client's list stays true.
LEMMA WatchedStep == OInv /\ OInv' /\ Watched /\ [Next]_vars => Watched'
<1> SUFFICES ASSUME OInv, OInv', Watched, [Next]_vars PROVE Watched'
  OBVIOUS
<1>1. CASE UNCHANGED vars
  BY <1>1 DEF vars, openVars, Watched, ListingIsDated
<1>2. CASE Next
  <2>1. Watch /\ disk \subseteq Names /\ disk' \subseteq Names
    BY <1>2 DEF Next, OInv, CallsTypeOK
  <2>2. during' \in [Clients -> [ever : SUBSET Names, still : SUBSET Names]]
    BY <2>1 DEF Watch, Watched, Unseen
  <2>3. ASSUME NEW c \in Clients, pc'[c] # "listed" PROVE during'[c] = Unseen
    BY <2>1, <2>3 DEF Watch
  <2>4. ASSUME NEW c \in Clients, pc'[c] = "listed"
        PROVE  /\ during'[c].still \subseteq disk' /\ disk' \subseteq during'[c].ever
               /\ listed'[c] # {} => /\ during'[c].still \subseteq listed'[c]
                                     /\ listed'[c] \subseteq during'[c].ever
    <3>1. CASE pc[c] = "listed"
      <4>1. during'[c] = [ever |-> during[c].ever \cup disk',
                          still |-> during[c].still \cap disk']
        BY <2>1, <2>4, <3>1 DEF Watch
      <4>2. listed'[c] = listed[c]
        BY <1>2, <2>4, <3>1, ListingStep
      <4> QED
        BY <3>1, <4>1, <4>2 DEF Watched, ListingIsDated
    <3>2. CASE pc[c] # "listed"
      <4>1. during'[c] = [ever |-> disk', still |-> disk']
        BY <2>1, <2>4, <3>2 DEF Watch
      <4>2. disk' = disk /\ listed'[c] \in {disk, {}}
        BY <1>2, <2>4, <3>2, ListingStep
      <4> QED
        BY <4>1, <4>2
    <3> QED
      BY <3>1, <3>2
  <2> QED
    BY <2>2, <2>3, <2>4 DEF Watched, ListingIsDated
<1> QED
  BY <1>1, <1>2

\* The invariants hold in every behaviour.
THEOREM OInvariance == Spec => [](OInv /\ Watched)
<1>1. Init => Watched
  BY DEF Init, Watched, ListingIsDated, Unseen
<1> QED
  BY <1>1, InitOInv, OInvStep, WatchedStep, PTL DEF Spec

\* Every variable keeps its type: a size stays within its word, a table factory is
\* never null.
THEOREM OpenTypeCorrect == Spec => []TypeOK
<1>1. OInv /\ Watched => TypeOK
  BY DEF OInv, Watched, TypeOK
<1> QED
  BY <1>1, OInvariance, PTL

-----------------------------------------------------------------------------
(* Opening is atomic *)

\* The program starts where the promise does.
LEMMA InitRefines == Init => Atomic!Init
<1> SUFFICES ASSUME Init PROVE Atomic!Init
  OBVIOUS
<1>1. \A c \in Clients : DOMAIN inUse[c] = {}
  BY DEF Init, Nothing
<1>2. Asking = {}
  BY DEF Init, Asking
<1> QED
  BY <1>1, <1>2 DEF Init, Unseen, Atomic!Init, Atomic!Unseen, Known

\* The two modules write the same history.
LEMMA WatchRefines == Watch => Atomic!Watch
  BY DEF Watch, Atomic!Watch, Unseen, Atomic!Unseen, Asking

\* A call of cDB.open is one step of the promise: it answers a call of open_blind
\* with what that has listed.
LEMMA OpeningRefines ==
  ASSUME OInv, Watched, NEW c \in Clients, NEW ns, Opening(c, ns), pc[c] # "open",
         pc[c] = "listed" => ns = listed[c]
  PROVE  Atomic!OpenForWriting(c) \/ Atomic!OpenForReading(c) \/ Atomic!Fail(c)
<1> inUse \in [Clients -> Opened]
  BY DEF OInv, CallsTypeOK, Opened
<1>1. Known[c] = {}
  BY DEF Known, OInv, SessionsKnowDefault
<1>2. ASSUME pc' \in {[pc EXCEPT ![c] = "open"], [pc EXCEPT ![c] = "idle"]}
      PROVE  Asking' = Asking \ {c}
  BY <1>2 DEF Asking, OInv, CallsTypeOK
<1>3. CASE /\ pc' = [pc EXCEPT ![c] = "open"]
           /\ \E cfs \in Opened : /\ inUse' = [inUse EXCEPT ![c] = cfs]
                                  /\ DOMAIN cfs = ns /\ Default \in ns
                                  /\ \/ ns \subseteq disk /\ UNCHANGED <<disk, holder>>
                                     \/ /\ disk \subseteq ns /\ disk' = ns
                                        /\ holder = None /\ holder' = c
  <2>1. PICK cfs \in Opened : /\ inUse' = [inUse EXCEPT ![c] = cfs]
                              /\ DOMAIN cfs = ns /\ Default \in ns
    BY <1>3
  <2>2. Known' = [Known EXCEPT ![c] = ns] /\ ns \subseteq Names
    BY <2>1 DEF Known, Opened
  <2>3. c \in Asking => /\ during[c].still \subseteq ns
                        /\ ns \subseteq during[c].ever \cup {Default}
    BY <2>1 DEF Asking, Watched, ListingIsDated
  <2>4. Atomic!Answers(c, ns)
    BY <1>1, <1>2, <1>3, <2>1, <2>2, <2>3 DEF Atomic!Answers
  <2> QED
    BY <1>3, <2>2, <2>4 DEF Atomic!OpenForReading, Atomic!OpenForWriting
<1>4. CASE /\ pc' = [pc EXCEPT ![c] = "idle"]
           /\ UNCHANGED <<inUse, holder>>
           /\ \/ UNCHANGED disk
              \/ holder = None /\ disk = {} /\ disk' = {Default}
  <2>1. UNCHANGED Known
    BY <1>4 DEF Known
  <2> QED
    BY <1>1, <1>2, <1>4, <2>1 DEF Atomic!Fail
<1> QED
  BY <1>3, <1>4, OpeningStep

\* Every step is a step of the promise, or leaves what it speaks of alone.
LEMMA NextRefines == OInv /\ Watched /\ [Next]_vars => [Atomic!Next]_(Atomic!vars)
<1> SUFFICES ASSUME OInv, Watched, [Next]_vars PROVE [Atomic!Next]_(Atomic!vars)
  OBVIOUS
<1>1. ASSUME NEW c \in Clients, OpenSighted(c) \/ OpenListed(c), Watch
      PROVE  Atomic!Next
  <2>1. \E ns : Opening(c, ns) /\ pc[c] # "open" /\ (pc[c] = "listed" => ns = listed[c])
    BY <1>1, SightedIsOpening, ListedIsOpening
  <2> QED
    BY <1>1, <2>1, OpeningRefines, WatchRefines DEF Atomic!Next
<1>2. ASSUME NEW c \in Clients, ListNames(c), Watch PROVE Atomic!Next
  <2>1. Known[c] = {} /\ UNCHANGED Known
    BY <1>2 DEF Known, ListNames, OInv, SessionsKnowDefault
  <2>2. Asking' = Asking \cup {c}
    BY <1>2 DEF ListNames, Goto, Asking, OInv, CallsTypeOK
  <2> QED
    BY <1>2, <2>1, <2>2, WatchRefines DEF ListNames, Atomic!Next, Atomic!Ask
<1>3. ASSUME NEW c \in Clients, CloseDb(c), Watch PROVE Atomic!Next
  <2>1. Known[c] # {}
    BY <1>3 DEF Known, CloseDb, OInv, SessionsKnowDefault
  <2>2. DOMAIN Nothing = {}
    BY DEF Nothing
  <2>3. Known' = [Known EXCEPT ![c] = {}]
    BY <1>3, <2>2 DEF Known, CloseDb, OInv, CallsTypeOK
  <2>4. UNCHANGED Asking
    BY <1>3 DEF CloseDb, Goto, Asking, OInv, CallsTypeOK
  <2> QED
    BY <1>3, <2>1, <2>3, <2>4, WatchRefines DEF CloseDb, Atomic!Next, Atomic!Close
<1>4. ASSUME OtherProcess, Watch PROVE Atomic!Next
  <2>1. UNCHANGED <<Known, Asking>>
    BY <1>4 DEF OtherProcess, Known, Asking
  <2>2. \/ Atomic!OtherOpens \/ Atomic!OtherWrites
        \/ Atomic!OtherCloses \/ Atomic!OtherDestroys
    BY <1>4
    DEF OtherProcess, OtherOpens, OtherWrites, OtherCloses, OtherDestroys,
        Atomic!OtherOpens, Atomic!OtherWrites, Atomic!OtherCloses, Atomic!OtherDestroys
  <2> QED
    BY <1>4, <2>1, <2>2, WatchRefines DEF Atomic!Next
<1>5. ASSUME OptionsNext, UNCHANGED openVars, Watch PROVE UNCHANGED Atomic!vars
  <2>1. UNCHANGED <<disk, holder, pc, Known, Asking>>
    BY <1>5, OptionsStep DEF OInv, CallsTypeOK, openVars, Known, Asking
  <2>2. \A c \in Clients : during'[c] = during[c]
    <3> SUFFICES ASSUME NEW c \in Clients PROVE during'[c] = during[c]
      OBVIOUS
    <3>1. CASE pc[c] = "listed"
      <4>1. /\ during[c] \in [ever : SUBSET Names, still : SUBSET Names]
            /\ during[c].still \subseteq disk /\ disk \subseteq during[c].ever
        BY <3>1 DEF Watched, ListingIsDated
      <4>2. during'[c] = [ever |-> during[c].ever, still |-> during[c].still]
        BY <1>5, <2>1, <3>1, <4>1 DEF Watch
      <4> QED
        BY <4>1, <4>2
    <3>2. CASE pc[c] # "listed"
      BY <1>5, <2>1, <3>2 DEF Watch, Watched, ListingIsDated
    <3> QED
      BY <3>1, <3>2
  <2>3. UNCHANGED during
    <3>1. during = [c \in Clients |-> during[c]] /\ during' = [c \in Clients |-> during'[c]]
      BY <1>5 DEF Watch, Watched
    <3> QED
      BY <2>2, <3>1
  <2> QED
    BY <2>1, <2>3 DEF Atomic!vars
<1>6. CASE UNCHANGED vars
  BY <1>6 DEF vars, openVars, Atomic!vars, Known, Asking
<1> QED
  BY <1>1, <1>2, <1>3, <1>4, <1>5, <1>6 DEF Next

\* Whatever other threads and processes do between the listing and the opening,
\* opening is the one step that AtomicOpen makes of it, and open_blind opens what
\* it has listed.
THEOREM OpeningIsAtomic == Spec => PromiseSpec
  BY InitRefines, NextRefines, OInvariance, PTL DEF Spec, PromiseSpec, Atomic!Spec

-----------------------------------------------------------------------------
(* The options in use *)

\* No step changes the options, or the table factories, of an open database.
THEOREM SettingsStayFrozen == Spec => OpenSettingsAreFrozen
<1>1. ASSUME OInv, Next, NEW c \in Clients, pc[c] = "open", pc'[c] = "open",
             NEW n \in DOMAIN inUse[c]
      PROVE  Effective(inUse[c][n])' = Effective(inUse[c][n])
  <2>1. inUse[c] = inUse'[c]
    <3>1. ASSUME NEW d \in Clients, OpenSighted(d) \/ OpenListed(d)
          PROVE  inUse[c] = inUse'[c]
      <4>1. (\E ns : Opening(d, ns)) /\ pc[d] # "open" /\ d # c
        BY <1>1, <3>1, SightedIsOpening, ListedIsOpening
      <4> QED
        BY <1>1, <3>1, <4>1, SightedIsOpening, ListedIsOpening, OpeningStep DEF OInv, CallsTypeOK
    <3>2. ASSUME NEW d \in Clients, CloseDb(d) PROVE inUse[c] = inUse'[c]
      BY <1>1, <3>2 DEF CloseDb, Goto, OInv, CallsTypeOK
    <3>3. CASE OtherProcess \/ (\E d \in Clients : ListNames(d)) \/ OptionsNext
      BY <1>1, <3>3, OptionsStep DEF OtherProcess, ListNames, OInv, CallsTypeOK
    <3> QED
      BY <1>1, <3>1, <3>2, <3>3 DEF Next
  <2>2. c \in DOMAIN inUse /\ inUse[c][n].table \in Referenced
    BY <1>1 DEF OInv, CallsTypeOK, Referenced
  <2>3. \A f \in Referenced : factory'[f] = factory[f]
    <3>1. CASE UNCHANGED factory
      BY <3>1
    <3>2. CASE \E o \in Objects : SetPlainTable(o)
      BY <1>1, <3>2 DEF SetPlainTable, OInv, CallsTypeOK, OptionsTypeOK
    <3>3. UNCHANGED factory \/ \E o \in Objects : SetPlainTable(o)
      BY <1>1 DEF Next, OpenSighted, ListNames, OpenListed, CloseDb, OtherProcess, optionVars,
                  OptionsNext, SetDbField, SetTableField, SetSize, OptimizeLevelStyle,
                  OptimizeForSmallDb
    <3> QED
      BY <3>1, <3>2, <3>3
  <2> QED
    BY <2>1, <2>2, <2>3 DEF Effective
<1>2. OInv /\ [Next]_vars =>
         [\A c \in Clients :
             pc[c] = "open" /\ pc'[c] = "open" =>
                \A n \in DOMAIN inUse[c] :
                   Effective(inUse[c][n])' = Effective(inUse[c][n])]_vars
  BY <1>1
<1> QED
  BY <1>2, OInvariance, PTL DEF Spec, OpenSettingsAreFrozen

=============================================================================
