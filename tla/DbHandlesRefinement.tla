------------------------ MODULE DbHandlesRefinement ------------------------
(***************************************************************************)
(* What the binding promises a careful program, for any databases, column  *)
(* families, keys and batches: DbHandles implements KeyValueStore, as long *)
(* as each handle is used with the session that gave it out and each batch *)
(* is written to the database whose handles it was built with.  Where the  *)
(* allocator reuses no address, check_db sees to the first of the two.     *)
(***************************************************************************)
EXTENDS DbHandlesProofs

\* A write has the id of the column family its handle names.
Named(w) ==
    /\ w.cell[2] \in Existing(w.cell[1])
    /\ w.id = catalog[w.cell[1]][w.cell[2]]
    /\ w.key = w.cell[3]

BatchIsNamed == \A i \in DOMAIN batch : Named(batch[i])

\* No value is kept under an id that no column family has.
UnusedIsAbsent ==
    \A p \in Paths, x \in Ids \X Keys :
        x[1] \notin Range(catalog[p]) => store[p][x] = Absent

CarefulInv == Inv /\ BatchIsNamed /\ UnusedIsAbsent

\* A program that uses each handle only with the session that gave it out, as
\* far as check_db lets it do otherwise.
OwnHandles ==
    call.op \in HandleOps /\ call.reply # "RuntimeError" => call.owner = call.session

OwnNext == Next /\ OwnHandles' /\ HomeBatch'

OwnSpec == Init /\ [][OwnNext]_vars

\* Before the first open() every cell is absent.
LEMMA InitCarefulInv == Init => CarefulInv /\ Promise!Init
<1> SUFFICES ASSUME Init PROVE CarefulInv /\ Promise!Init
  OBVIOUS
<1>1. Inv
  BY InitInv
<1>2. BatchIsNamed /\ UnusedIsAbsent
  BY DEF Init, BatchIsNamed, UnusedIsAbsent
<1>3. Promise!Init
  <2>1. \A c \in Cells : c[2] \notin Existing(c[1])
    BY DEF Init, Existing, NoDatabase, Cells
  <2> QED
    BY <2>1 DEF Promise!Init, Contents
<1> QED
  BY <1>1, <1>2, <1>3 DEF CarefulInv

-----------------------------------------------------------------------------
(* The contents of the databases *)

\* A cell of a column family is kept under its id, which no other one has.
LEMMA CellMeans ==
  ASSUME Inv, NEW c \in Cells, c[2] \in Existing(c[1])
  PROVE  /\ <<catalog[c[1]][c[2]], c[3]>> \in Ids \X Keys
         /\ Contents[c] = store[c[1]][<<catalog[c[1]][c[2]], c[3]>>]
  BY DEF Inv, Numbered, Cells, Existing, Contents

\* New column families are empty.
LEMMA ContentsKept ==
  ASSUME Inv, Inv', UnusedIsAbsent, store' = store,
         \A p \in Paths : Extends(catalog[p], catalog'[p])
  PROVE  Contents' = Contents /\ UnusedIsAbsent'
<1>1. ASSUME NEW c \in Cells PROVE Contents'[c] = Contents[c]
  <2> DEFINE p == c[1]  n == c[2]
  <2>1. p \in Paths /\ n \in Names /\ c[3] \in Keys
    BY DEF Cells
  <2>2. Extends(catalog[p], catalog'[p]) /\ Numbered(catalog'[p])
    BY <2>1 DEF Inv
  <2>3. CASE n \in Existing(p)
    BY <2>2, <2>3, <1>1 DEF Contents, Existing, Extends
  <2>4. CASE n \notin Existing(p) /\ n \in Existing(p)'
    <3>1. catalog'[p][n] \in Ids /\ catalog'[p][n] \notin Range(catalog[p])
      BY <2>2, <2>4 DEF Numbered, Extends, Existing, Range, IsInjective
    <3>2. store[p][<<catalog'[p][n], c[3]>>] = Absent
      BY <2>1, <3>1 DEF UnusedIsAbsent
    <3> QED
      BY <2>4, <3>2, <1>1 DEF Contents, Existing
  <2>5. CASE n \notin Existing(p) /\ n \notin Existing(p)'
    BY <2>5, <1>1 DEF Contents, Existing
  <2> QED
    BY <2>3, <2>4, <2>5
<1>2. UnusedIsAbsent'
  BY DEF UnusedIsAbsent, Extends, Range
<1> QED
  BY <1>1, <1>2 DEF Contents

\* Updates that are carried out are the ones asked for, of the cells they name.
LEMMA ApplyCells ==
  ASSUME CarefulInv, NEW op, NEW s \in Sessions, NEW o \in Sessions,
         NEW ws \in Seq(WriteRecords), Opened(s), Apply(op, s, o, ws), catalog' = catalog,
         \A i \in DOMAIN ws : Named(ws[i]) /\ ws[i].cell[1] = home[s]
  PROVE  /\ call'.reply = "ok" => Contents' = Promise!Overwritten(ws)
         /\ call'.reply # "ok" => call'.reply = "RuntimeError" /\ Contents' = Contents
         /\ UnusedIsAbsent'
<1> DEFINE p == home[s]  n == Len(ws)
<1>1. p \in Paths /\ store \in [Paths -> Stores] /\ Numbered(catalog[p]) /\ n \in Nat
      /\ DOMAIN ws = 1..n /\ \A i \in 1..n : ws[i] \in WriteRecords
  BY DEF CarefulInv, Inv, TypeOK, Opened
<1>2. CASE call'.reply # "ok"
  BY <1>2 DEF Apply, Contents, Existing, UnusedIsAbsent, CarefulInv
<1>3. CASE call'.reply = "ok"
  <2>1. store' = [store EXCEPT ![p] = After(store[p], ws, n)]
        /\ \A i \in 1..n : ws[i].id \in Range(catalog[p])
    BY <1>1, <1>3, OverlayIs DEF Apply
  <2>2. UnusedIsAbsent'
    <3> SUFFICES ASSUME NEW q \in Paths, NEW x \in Ids \X Keys, x[1] \notin Range(catalog[q])
                 PROVE  store'[q][x] = Absent
      BY DEF UnusedIsAbsent
    <3>1. store[q][x] = Absent
      BY DEF CarefulInv, UnusedIsAbsent
    <3>2. CASE q = p
      <4>1. Hits(ws, n, x) = {}
        BY <2>1, <3>2 DEF Hits
      <4> QED
        BY <1>1, <2>1, <3>1, <3>2, <4>1 DEF After, ValueAfter
    <3>3. CASE q # p
      BY <1>1, <2>1, <3>1, <3>3
    <3> QED
      BY <3>2, <3>3
  <2>3. ASSUME NEW c \in Cells PROVE Contents'[c] = Promise!Overwritten(ws)[c]
    <3> DEFINE on == {i \in DOMAIN ws : ws[i].cell = c}
               x == <<catalog[p][c[2]], c[3]>>
    <3>1. Promise!Overwritten(ws)[c] =
             IF on = {} THEN Contents[c] ELSE ws[LastOf(on)].value
      BY <2>3 DEF Promise!Overwritten, LastOf
    <3>2. CASE c[1] = p /\ c[2] \in Existing(p)
      <4>1. x \in Ids \X Keys /\ Contents[c] = store[p][x] /\ Contents'[c] = store'[p][x]
        BY <3>2, <2>3, CellMeans DEF CarefulInv, Contents, Existing
      <4>2. on = Hits(ws, n, x)
        <5> SUFFICES ASSUME NEW i \in 1..n
                     PROVE  ws[i].cell = c <=> <<ws[i].id, ws[i].key>> = x
          BY <1>1 DEF Hits
        <5>1. /\ Named(ws[i]) /\ ws[i].cell[1] = p /\ ws[i].cell \in Cells
          BY <1>1 DEF WriteRecords
        <5>2. ws[i].id = catalog[p][c[2]] <=> ws[i].cell[2] = c[2]
          BY <1>1, <3>2, <5>1 DEF Named, Numbered, IsInjective, Existing
        <5>3. ws[i].cell = c <=> ws[i].cell[2] = c[2] /\ ws[i].cell[3] = c[3]
          BY <3>2, <5>1 DEF Cells
        <5> QED
          BY <5>1, <5>2, <5>3 DEF Named
      <4>3. store'[p][x] = ValueAfter(store[p], ws, n, x)
        BY <1>1, <2>1, <4>1 DEF After
      <4> QED
        BY <3>1, <4>1, <4>2, <4>3 DEF ValueAfter
    <3>3. CASE ~(c[1] = p /\ c[2] \in Existing(p))
      <4>1. on = {}
        BY <1>1, <3>3 DEF Named
      <4>2. Contents'[c] = Contents[c]
        BY <1>1, <2>1, <2>3, <3>3 DEF Contents, Existing, Cells
      <4> QED
        BY <3>1, <4>1, <4>2
    <3> QED
      BY <3>2, <3>3
  <2>4. Contents' = Promise!Overwritten(ws)
    BY <2>3 DEF Contents, Promise!Overwritten
  <2> QED
    BY <1>3, <2>2, <2>4
<1> QED
  BY <1>2, <1>3

-----------------------------------------------------------------------------
(* The steps *)

\* A write made through a handle is named.
LEMMA WriteIsNamed ==
  ASSUME Inv, NEW o \in Sessions, NEW n \in Names, NEW k \in Keys,
         NEW v \in Values \cup {Absent}, HasHandle(o, n)
  PROVE  Named(WriteOf(o, n, k, v)) /\ WriteOf(o, n, k, v).cell[1] = home[o]
  BY HandleMeans DEF Named, WriteOf, CellOf, IdOf

\* An operation through a handle of the session itself is one of the store.
LEMMA OperatesRefines ==
  ASSUME CarefulInv, OwnHandles',
         NEW s \in Sessions, NEW o \in Sessions, NEW n \in Names, NEW k \in Keys,
         Opened(s), HasHandle(o, n), Operates(s, o, n, k)
  PROVE  Promise!Next /\ UnusedIsAbsent'
<1> USE DEF Promise!Next, Promise!Writing, Promise!Reading, Promise!Write, Promise!Read,
            Promise!Other
<1>1. Inv /\ UnusedIsAbsent /\ catalog' = catalog
  BY OperatesInv DEF CarefulInv
<1>2. /\ call'.op \in HandleOps /\ call'.session = s /\ call'.owner = o
      /\ call'.reply # "RuntimeError"
      => s = o
  BY DEF OwnHandles
<1>3. "RuntimeError" \notin Values \cup {Absent} /\ "killed" \notin Values \cup {Absent}
      /\ "ok" \notin Values \cup {Absent}
  BY HandleAssumption
<1>4. store' = store => Contents' = Contents /\ UnusedIsAbsent'
  BY <1>1 DEF Contents, Existing, UnusedIsAbsent
<1>5. ASSUME NEW op, Refuse(op, s, o) PROVE Promise!Next /\ UnusedIsAbsent'
  BY <1>3, <1>4, <1>5 DEF Refuse
<1>6. ASSUME NEW op \in {"put", "delete"}, NEW v \in Values \cup {Absent},
             CheckDb(s, o), Apply(op, s, o, <<WriteOf(o, n, k, v)>>)
      PROVE  Promise!Next /\ UnusedIsAbsent'
  <2> DEFINE ws == <<WriteOf(o, n, k, v)>>
  <2>1. ws \in Seq(WriteRecords)
    BY <1>1, HandleMeans
  <2>2. /\ call'.op = op /\ call'.writes = ws /\ call'.session = s /\ call'.owner = o
        /\ call'.reply \in {"ok", "RuntimeError"}
        /\ call'.reply = "RuntimeError" => store' = store
    BY <1>6 DEF Apply
  <2>3. CASE call'.reply = "RuntimeError"
    BY <1>3, <1>4, <2>2, <2>3
  <2>4. CASE call'.reply = "ok"
    <3>1. s = o
      BY <1>2, <1>6, <2>2, <2>4 DEF HandleOps
    <3>2. \A i \in DOMAIN ws : Named(ws[i]) /\ ws[i].cell[1] = home[s]
      BY <1>1, <3>1, WriteIsNamed
    <3> HIDE DEF ws
    <3>3. Contents' = Promise!Overwritten(ws) /\ UnusedIsAbsent'
      BY <1>1, <1>6, <2>1, <2>4, <3>2, ApplyCells DEF ws
    <3> QED
      BY <1>6, <2>2, <2>4, <3>3
  <2> QED
    BY <2>2, <2>3, <2>4
<1>7. ASSUME NEW v \in Values, Put(s, o, n, k, v) PROVE Promise!Next /\ UnusedIsAbsent'
  BY <1>5, <1>6, <1>7 DEF Put
<1>8. CASE DeleteKey(s, o, n, k)
  BY <1>5, <1>6, <1>8 DEF DeleteKey
<1>9. ASSUME Get(s, o, n, k), CheckDb(s, o) PROVE Promise!Next /\ UnusedIsAbsent'
  <2>1. PICK r \in Read(s, o, n, k) :
           call' = [op |-> IF view[s] = None THEN "get" ELSE "get_ro",
                    session |-> s, owner |-> o,
                    cell |-> CellOf(o, n, k), writes |-> <<>>, reply |-> r]
    BY <1>9 DEF Get, Refuse
  <2>2. store' = store
    BY <1>9 DEF Get, Refuse
  <2>3. CASE view[s] # None
    BY <1>4, <2>1, <2>2, <2>3
  <2>4. CASE view[s] = None
    <3>1. CellOf(o, n, k) \in Cells /\ n \in Existing(home[o])
      BY <1>1, HandleMeans DEF CellOf, Cells
    <3>2. Contents[CellOf(o, n, k)] = store[home[o]][<<IdOf(o, n), k>>]
      BY <3>1 DEF Contents, CellOf, IdOf
    <3>3. s = o
      BY <1>1, <1>2, <1>3, <2>1, <2>4, ReadMeans DEF HandleOps
    <3>4. r = Contents[CellOf(o, n, k)]
      BY <2>1, <2>4, <3>2, <3>3 DEF Read
    <3>5. r \in Values \cup {Absent}
      BY <1>1, <2>1, <3>3, ReadMeans
    <3> QED
      BY <1>4, <2>1, <2>2, <2>4, <3>4, <3>5
  <2> QED
    BY <2>3, <2>4
<1>10. ASSUME CreateIterator(s, o), CheckDb(s, o) PROVE Promise!Next /\ UnusedIsAbsent'
  BY <1>4, <1>10 DEF CreateIterator, Refuse
<1> QED
  BY <1>5, <1>7, <1>8, <1>9, <1>10 DEF Operates, Get, CreateIterator

\* So is a batch that is written to its own database.
LEMMA ManagesRefines ==
  ASSUME CarefulInv, HomeBatch', NEW s \in Sessions, Opened(s), Manages(s)
  PROVE  Promise!Next /\ UnusedIsAbsent'
<1> USE DEF Promise!Next, Promise!Writing, Promise!Reading, Promise!Write, Promise!Read,
            Promise!Other
<1>1. Inv /\ UnusedIsAbsent /\ UNCHANGED <<catalog, sessionVars>>
  BY ManagesInv DEF CarefulInv
<1>2. store' = store => Contents' = Contents /\ UnusedIsAbsent'
  BY <1>1 DEF Contents, Existing, UnusedIsAbsent
<1>3. ASSUME Write(s), IsOpen(s) PROVE Promise!Next /\ UnusedIsAbsent'
  <2>1. Apply("write", s, s, batch) /\ batch \in Seq(WriteRecords)
    BY <1>1, <1>3 DEF Write, Inv, TypeOK
  <2>2. call'.op = "write" /\ call'.writes = batch /\ call'.session = s
    BY <2>1 DEF Apply
  <2>3. \A i \in DOMAIN batch : Named(batch[i]) /\ batch[i].cell[1] = home[s]
    BY <1>1, <2>2 DEF HomeBatch, CarefulInv, BatchIsNamed, sessionVars
  <2>4. /\ call'.reply = "ok" => Contents' = Promise!Overwritten(batch)
        /\ call'.reply # "ok" => call'.reply = "RuntimeError" /\ Contents' = Contents
        /\ UnusedIsAbsent'
    BY <1>1, <2>1, <2>3, ApplyCells
  <2> QED
    BY <2>2, <2>4
<1>4. CASE Write(s) /\ ~IsOpen(s)
  BY <1>2, <1>4 DEF Write, Replies
<1>5. CASE CompactRange(s) \/ Snapshot(s) \/ ReleaseSnapshot(s)
  BY <1>2, <1>5 DEF CompactRange, Snapshot, ReleaseSnapshot, Replies
<1> QED
  BY <1>3, <1>4, <1>5 DEF Manages

\* What is in the batch stays named: no column family changes its id.
LEMMA BatchStep ==
  ASSUME CarefulInv, [Next]_vars
  PROVE  BatchIsNamed'
<1>1. Inv /\ batch \in Seq(WriteRecords) /\ \A p \in Paths : Extends(catalog[p], catalog'[p])
  BY InvStep DEF CarefulInv, Inv, TypeOK
<1>2. ASSUME NEW w \in WriteRecords, Named(w)
      PROVE  /\ w.cell[2] \in DOMAIN catalog'[w.cell[1]]
             /\ w.id = catalog'[w.cell[1]][w.cell[2]] /\ w.key = w.cell[3]
  BY <1>1, <1>2 DEF Named, WriteRecords, Cells, Extends, Existing
<1>3. \A i \in DOMAIN batch : batch[i] \in WriteRecords /\ Named(batch[i])
  BY <1>1 DEF CarefulInv, BatchIsNamed
<1>4. CASE batch' = batch
  BY <1>2, <1>3, <1>4 DEF BatchIsNamed, Named, Existing
<1>5. CASE batch' = <<>>
  BY <1>5 DEF BatchIsNamed
<1>6. ASSUME NEW o \in Sessions, NEW n \in Names, NEW k \in Keys, NEW v \in Values \cup {Absent},
             HasHandle(o, n), BatchAdd(o, n, k, v)
      PROVE  BatchIsNamed'
  <2> DEFINE w == WriteOf(o, n, k, v)
  <2>1. w \in WriteRecords /\ Named(w)
    BY <1>1, <1>6, HandleMeans, WriteIsNamed
  <2>2. batch' = Append(batch, w)
    BY <1>6 DEF BatchAdd
  <2> HIDE DEF w
  <2>3. \A i \in DOMAIN batch' : batch'[i] \in WriteRecords /\ Named(batch'[i])
    BY <1>1, <1>3, <2>1, <2>2
  <2> QED
    BY <1>2, <2>3 DEF BatchIsNamed, Named, Existing
<1>7. ASSUME NEW s \in Sessions, Open(s) PROVE batch' = batch
  BY <1>7 DEF Open, OpenReadOnly, OpenReadWrite, OpenReadWriteFails
<1>8. ASSUME NEW s \in Sessions, Close(s) \/ Manages(s) PROVE batch' = batch
  BY <1>8 DEF Close, Manages, Write, CompactRange, Snapshot, ReleaseSnapshot
<1>9. ASSUME NEW s, NEW o, NEW n, NEW k, Operates(s, o, n, k) PROVE batch' = batch
  BY <1>9 DEF Operates, Put, DeleteKey, Get, CreateIterator
<1>10. CASE BatchClear \/ UNCHANGED vars
  BY <1>4, <1>5, <1>10 DEF BatchClear, vars
<1> QED
  BY <1>4, <1>6, <1>7, <1>8, <1>9, <1>10, Steps

\* Every step keeps the invariant, and is a step of the store or none.
LEMMA CarefulStep ==
  CarefulInv /\ [OwnNext]_vars => CarefulInv' /\ [Promise!Next]_(Promise!vars)
<1> SUFFICES ASSUME CarefulInv, [OwnNext]_vars
             PROVE  CarefulInv' /\ [Promise!Next]_(Promise!vars)
  OBVIOUS
<1>1. [Next]_vars /\ Inv /\ UnusedIsAbsent
  BY DEF OwnNext, CarefulInv
<1>2. Inv' /\ \A p \in Paths : Extends(catalog[p], catalog'[p])
  BY <1>1, InvStep
<1>3. BatchIsNamed'
  BY <1>1, BatchStep
<1>4. UnusedIsAbsent' /\ [Promise!Next]_(Promise!vars)
  <2>1. ASSUME store' = store, call'.op \notin {"put", "delete", "write", "get"}
        PROVE  UnusedIsAbsent' /\ Promise!Next
    BY <1>1, <1>2, <2>1, ContentsKept
    DEF Promise!Next, Promise!Other, Promise!Writing, Promise!Reading
  <2>2. CASE UNCHANGED vars
    BY <1>1, <2>2 DEF vars, Contents, Existing, UnusedIsAbsent, Promise!vars
  <2>3. ASSUME NEW s \in Sessions, Open(s) \/ Close(s)
        PROVE  UnusedIsAbsent' /\ Promise!Next
    BY <2>1, <2>3
    DEF Open, OpenReadOnly, OpenReadWrite, OpenReadWriteFails, Close, Replies
  <2>4. ASSUME NEW o, NEW n, NEW k, NEW v, BatchClear \/ BatchAdd(o, n, k, v)
        PROVE  UnusedIsAbsent' /\ Promise!Next
    BY <2>1, <2>4 DEF BatchClear, BatchAdd, Replies
  <2> QED
    BY <1>1, <2>2, <2>3, <2>4, Steps, OperatesRefines, ManagesRefines DEF OwnNext
<1> QED
  BY <1>2, <1>3, <1>4 DEF CarefulInv

-----------------------------------------------------------------------------
(* The theorems *)

\* To a program that uses each handle with its own session the binding is a
\* store of cells, wherever the allocator places the databases: each write lands
\* in the database and column family named by its handle, through closes,
\* re-opens and new column families, and a read returns the last value written.
THEOREM OwnHandlesSuffice == OwnSpec => PromiseSpec
  BY InitCarefulInv, CarefulStep, PTL DEF OwnSpec, PromiseSpec, Promise!Spec

\* Without reuse of addresses check_db makes every program one of those.
LEMMA CarefulIsOwn == CarefulSpec => OwnSpec
<1>1. Init => Inv /\ NoReuse
  BY InitInv DEF Init, NoReuse, Opened
<1>2. Inv /\ NoReuse /\ [Next /\ NoReuse' /\ HomeBatch']_vars => (Inv /\ NoReuse)'
  BY InvStep DEF NoReuse, Opened, vars
<1>3. Inv /\ NoReuse /\ [Next /\ NoReuse' /\ HomeBatch']_vars => [OwnNext]_vars
  BY AcceptedMeans, CheckDbSuffices DEF OwnNext, OwnHandles, Accepted
<1> QED
  BY <1>1, <1>2, <1>3, PTL DEF CarefulSpec, OwnSpec

\* So the binding is a store of cells to a program that writes each batch to
\* the database it was built for, if the allocator reuses no address.
THEOREM Refinement == CarefulSpec => PromiseSpec
  BY CarefulIsOwn, OwnHandlesSuffice, PTL

\* No operation of a program that uses each handle with its own session, and
\* each batch with its own database, changes a cell its handles do not name.
THEOREM OwnWritesLand == OwnSpec => WritesWhereNamed
<1>1. [Promise!Next]_(Promise!vars) =>
        [\A c \in Cells : Contents'[c] # Contents[c] =>
            \E i \in DOMAIN call'.writes : call'.writes[i].cell = c]_vars
  BY DEF Promise!Next, Promise!Write, Promise!Read, Promise!Other, Promise!Overwritten,
         Promise!vars
<1> QED
  BY <1>1, InitCarefulInv, CarefulStep, PTL DEF OwnSpec, WritesWhereNamed
=============================================================================
