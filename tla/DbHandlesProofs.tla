-------------------------- MODULE DbHandlesProofs ---------------------------
(***************************************************************************)
(* What check_db, the modes and the handles of a database guarantee, for   *)
(* any number of databases, sessions, column families, keys and addresses, *)
(* and any program that uses them.  The invariant says how the engine      *)
(* numbers the column families of a database and what a session knows of   *)
(* it.                                                                     *)
(***************************************************************************)
EXTENDS DbHandles, TLAPS, FiniteSetTheorems, WellFoundedInduction

-----------------------------------------------------------------------------
(* What the operators compute *)

\* Of the first n writes, those to a column family's key, and what they make of
\* its value.
Hits(ws, n, c) == {i \in 1..n : <<ws[i].id, ws[i].key>> = c}

LastOf(is) == CHOOSE i \in is : \A j \in is : j <= i

ValueAfter(db, ws, n, c) ==
    IF Hits(ws, n, c) = {} THEN db[c] ELSE ws[LastOf(Hits(ws, n, c))].value

After(db, ws, n) == [c \in Ids \X Keys |-> ValueAfter(db, ws, n, c)]

\* A set of numbers has a least one.
LEMMA LeastNat ==
  ASSUME NEW S \in SUBSET Nat, S # {}
  PROVE  \E m \in S : \A j \in S : ~(j < m)
<1>1. IsWellFoundedOn(OpToRel(<, Nat), Nat)
  BY NatLessThanWellFounded
<1>2. PICK m \in S : \A j \in S : <<j, m>> \notin OpToRel(<, Nat)
  BY <1>1, WFMin
<1> QED
  BY <1>2 DEF OpToRel

\* ... and a greatest, if it is bounded.
LEMMA GreatestMeans ==
  ASSUME NEW n \in Nat, NEW S \in SUBSET (1..n), S # {}
  PROVE  LastOf(S) \in S /\ \A j \in S : j <= LastOf(S)
<1> DEFINE T == {k \in 0..n : n - k \in S}
<1>1. T \in SUBSET Nat /\ T # {}
  <2>1. PICK i \in S : TRUE
    OBVIOUS
  <2>2. n - i \in 0..n /\ n - (n - i) = i
    OBVIOUS
  <2>3. n - i \in T
    BY <2>2
  <2>4. T \in SUBSET Nat
    OBVIOUS
  <2> QED
    BY <2>3, <2>4
<1>2. PICK m \in T : \A j \in T : ~(j < m)
  <2> HIDE DEF T
  <2> QED
    BY <1>1, LeastNat
<1>3. PICK i \in S : m = n - i
  <2>1. m \in 0..n /\ n - m \in S
    BY <1>2
  <2> QED
    BY <2>1
<1>4. \A j \in S : j <= i
  <2> SUFFICES ASSUME NEW j \in S PROVE j <= i
    OBVIOUS
  <2>1. n - j \in 0..n /\ n - (n - j) = j /\ j \in Int /\ i \in Int
    OBVIOUS
  <2>2. ~(n - j < m)
    BY <1>2, <2>1
  <2> QED
    BY <2>1, <2>2, <1>3
<1> QED
  BY <1>4 DEF LastOf

\* A batch leaves in each cell what its last write to the cell says, and the
\* value from before in the others.  By the least number of writes that would
\* make a difference.
LEMMA OverlayIs ==
  ASSUME NEW db \in Stores, NEW ws \in Seq(WriteRecords)
  PROVE  Overlay(db, ws) = After(db, ws, Len(ws))
<1> DEFINE One(d, w) == [d EXCEPT ![<<w.id, w.key>>] = w.value]
           Step(f) == [i \in 0..Len(ws) |-> IF i = 0 THEN db ELSE One(f[i - 1], ws[i])]
           G == [i \in 0..Len(ws) |-> After(db, ws, i)]
           F == CHOOSE f : f = Step(f)
<1>1. Overlay(db, ws) = F[Len(ws)]
  BY DEF Overlay
<1>2. Len(ws) \in Nat /\ DOMAIN ws = 1..Len(ws) /\ \A i \in DOMAIN ws : ws[i] \in WriteRecords
  OBVIOUS
<1>3. After(db, ws, 0) = db
  BY DEF After, ValueAfter, Hits, Stores
<1>4. ASSUME NEW i \in 1..Len(ws)
      PROVE  After(db, ws, i) = One(After(db, ws, i - 1), ws[i])
  <2> DEFINE here == <<ws[i].id, ws[i].key>>
  <2>1. here \in Ids \X Keys
    BY <1>2 DEF WriteRecords
  <2>2. ASSUME NEW c \in Ids \X Keys, c # here
        PROVE  ValueAfter(db, ws, i, c) = ValueAfter(db, ws, i - 1, c)
    <3>1. Hits(ws, i, c) = Hits(ws, i - 1, c)
      BY <2>2, <1>2 DEF Hits
    <3> QED
      BY <3>1 DEF ValueAfter
  <2>3. ValueAfter(db, ws, i, here) = ws[i].value
    <3>1. i \in Hits(ws, i, here) /\ \A j \in Hits(ws, i, here) : j <= i /\ j \in Int
      BY <1>2 DEF Hits
    <3>2. LastOf(Hits(ws, i, here)) = i
      BY <3>1, <1>2 DEF LastOf
    <3> QED
      BY <3>1, <3>2 DEF ValueAfter
  <2> HIDE DEF here
  <2>4. \A c \in Ids \X Keys : ValueAfter(db, ws, i, c) =
           IF c = here THEN ws[i].value ELSE ValueAfter(db, ws, i - 1, c)
    BY <2>2, <2>3
  <2>5. After(db, ws, i) = [After(db, ws, i - 1) EXCEPT ![here] = ws[i].value]
    BY <2>1, <2>4 DEF After
  <2> QED
    BY <2>5 DEF here
<1> HIDE DEF One
<1>5. G = Step(G)
  <2>1. ASSUME NEW i \in 0..Len(ws)
        PROVE  After(db, ws, i) = IF i = 0 THEN db ELSE One(G[i - 1], ws[i])
    <3>1. CASE i = 0
      BY <3>1, <1>3
    <3>2. CASE i # 0
      <4>1. i \in 1..Len(ws) /\ i - 1 \in 0..Len(ws)
        BY <3>2, <1>2
      <4>2. G[i - 1] = After(db, ws, i - 1)
        BY <4>1
      <4> QED
        BY <3>2, <4>1, <4>2, <1>4
    <3> QED
      BY <3>1, <3>2
  <2> QED
    BY <2>1
<1>6. F = Step(F)
  BY <1>5
<1> HIDE DEF F
<1>7. ASSUME NEW i \in 0..Len(ws) PROVE F[i] = IF i = 0 THEN db ELSE One(F[i - 1], ws[i])
  BY <1>6
<1>8. \A i \in 0..Len(ws) : F[i] = After(db, ws, i)
  <2> DEFINE Bad == {i \in 0..Len(ws) : F[i] # After(db, ws, i)}
  <2> SUFFICES ASSUME Bad # {} PROVE FALSE
    OBVIOUS
  <2>1. Bad \in SUBSET Nat
    BY <1>2
  <2>2. PICK m \in Bad : \A j \in Bad : ~(j < m)
    <3> HIDE DEF Bad
    <3> QED
      BY <2>1, LeastNat
  <2>3. m # 0
    BY <2>2, <1>7, <1>3, <1>2
  <2>4. m \in 1..Len(ws) /\ m - 1 \in 0..Len(ws) /\ m - 1 < m
    BY <2>2, <2>3, <1>2
  <2>5. F[m - 1] = After(db, ws, m - 1)
    BY <2>2, <2>4
  <2>6. F[m] = One(F[m - 1], ws[m])
    BY <1>7, <2>3, <2>4
  <2>7. F[m] = After(db, ws, m)
    BY <2>4, <2>5, <2>6, <1>4
  <2> QED
    BY <2>2, <2>7
<1>9. Len(ws) \in 0..Len(ws)
  BY <1>2
<1> QED
  BY <1>1, <1>8, <1>9

\* ... and it is a value.
LEMMA OverlayStays ==
  ASSUME NEW db \in Stores, NEW ws \in Seq(WriteRecords)
  PROVE  Overlay(db, ws) \in Stores
<1> SUFFICES ASSUME NEW c \in Ids \X Keys
             PROVE  ValueAfter(db, ws, Len(ws), c) \in Values \cup {Absent}
  <2>1. After(db, ws, Len(ws)) \in Stores
    BY DEF After, Stores
  <2> QED
    BY <2>1, OverlayIs
<1>1. CASE Hits(ws, Len(ws), c) = {}
  BY <1>1 DEF ValueAfter, Stores
<1>2. CASE Hits(ws, Len(ws), c) # {}
  <2>1. Hits(ws, Len(ws), c) \in SUBSET (1..Len(ws)) /\ Len(ws) \in Nat
    BY DEF Hits
  <2>2. LastOf(Hits(ws, Len(ws), c)) \in 1..Len(ws)
    BY <1>2, <2>1, GreatestMeans
  <2>3. ws[LastOf(Hits(ws, Len(ws), c))] \in WriteRecords
    BY <2>2
  <2> QED
    BY <1>2, <2>3 DEF ValueAfter, WriteRecords
<1> QED
  BY <1>1, <1>2

\* The ids of a database's column families: each its own, and none beyond
\* their number.
Numbered(ids) ==
    /\ ids \in UNION {[ns -> Ids] : ns \in SUBSET Names}
    /\ IsInjective(ids)
    /\ \A n \in DOMAIN ids : ids[n] <= Cardinality(DOMAIN ids)

Extends(ids, more) ==
    DOMAIN ids \subseteq DOMAIN more /\ \A n \in DOMAIN ids : more[n] = ids[n]

\* A database that is opened keeps its column families, or has the default one.
LEMMA RecoveredMeans ==
  ASSUME NEW p \in Paths, Numbered(catalog[p])
  PROVE  /\ Numbered(Recovered(p)) /\ Extends(catalog[p], Recovered(p))
         /\ DOMAIN Recovered(p) \subseteq Existing(p) \cup {Default}
<1>1. CASE Existing(p) = {}
  <2>1. Cardinality({Default}) = 1 /\ 1 \in Ids
    <3>1. IsFiniteSet(Names) /\ {Default} \in SUBSET Names
      BY HandleAssumption
    <3>2. Cardinality({Default}) = 1 /\ Cardinality(Names) \in Nat
      BY <3>1, FS_Singleton, FS_CardinalityType
    <3> QED
      BY <3>1, <3>2, FS_Subset DEF Ids
  <2>2. Recovered(p) = [n \in {Default} |-> 1]
    BY <1>1 DEF Recovered
  <2>3. Recovered(p) \in [{Default} -> Ids] /\ {Default} \in SUBSET Names
    BY <2>1, <2>2, HandleAssumption
  <2>4. Numbered(Recovered(p))
    BY <2>1, <2>2, <2>3 DEF Numbered, IsInjective
  <2> QED
    BY <1>1, <2>2, <2>4 DEF Extends, Existing
<1>2. CASE Existing(p) # {}
  BY <1>2 DEF Recovered, Extends, Existing
<1> QED
  BY <1>1, <1>2

\* The missing column families are numbered on from there, each with an id of
\* its own.
LEMMA CreatedMeans ==
  ASSUME NEW p \in Paths, NEW names \in Requests, Numbered(Recovered(p))
  PROVE  /\ Numbered(Created(p, names)) /\ Extends(Recovered(p), Created(p, names))
         /\ DOMAIN Created(p, names) = DOMAIN Recovered(p) \cup ToSet(names)
<1> DEFINE R == Recovered(p)
           old == DOMAIN R
           new == Missing(p, names)
           upTo(n) == MissingUpTo(p, names, n)
           C == Created(p, names)
<1>1. names \in Seq(Names) /\ IsInjective(names) /\ ToSet(names) \subseteq Names
  BY HandleAssumption DEF ToSet
<1>2. old \subseteq Names /\ R \in [old -> Ids] /\ IsInjective(R)
      /\ \A n \in old : R[n] <= Cardinality(old)
  BY DEF Numbered
<1>3. new = ToSet(names) \ old /\ new \subseteq Names /\ old \cap new = {}
      /\ old \cup new = old \cup ToSet(names)
  BY <1>1 DEF Missing
<1>4. IsFiniteSet(Names) /\ IsFiniteSet(old) /\ IsFiniteSet(new)
      /\ Cardinality(Names) \in Nat /\ Cardinality(old) \in Nat /\ Cardinality(new) \in Nat
  BY <1>2, <1>3, HandleAssumption, FS_Subset, FS_CardinalityType
<1>5. Cardinality(old \cup new) = Cardinality(old) + Cardinality(new)
      /\ Cardinality(old \cup new) <= Cardinality(Names)
  <2>1. Cardinality(old \cup new)
          = Cardinality(old) + Cardinality(new) - Cardinality(old \cap new)
    BY <1>4, FS_Union
  <2>2. old \cup new \in SUBSET Names
    BY <1>2, <1>3
  <2>3. Cardinality(old \cup new) <= Cardinality(Names)
    BY <2>2, <1>4, FS_Subset
  <2>4. Cardinality(old \cap new) = 0
    <3> HIDE DEF old, new
    <3> QED
      BY <1>3, FS_EmptySet
  <2> QED
    BY <2>1, <2>3, <2>4, <1>4
<1>6. ASSUME NEW n \in new
      PROVE  /\ upTo(n) \subseteq new /\ IsFiniteSet(upTo(n))
             /\ Cardinality(upTo(n)) \in 1..Cardinality(new)
  <2>1. upTo(n) \in SUBSET new
    BY DEF MissingUpTo
  <2>2. PICK i \in DOMAIN names : names[i] = n
    BY <1>3 DEF ToSet
  <2>3. n \in upTo(n)
    BY <1>1, <2>2 DEF MissingUpTo
  <2>4. IsFiniteSet(upTo(n)) /\ Cardinality(upTo(n)) <= Cardinality(new)
    BY <2>1, <1>4, FS_Subset
  <2>5. Cardinality(upTo(n)) \in Nat /\ Cardinality(upTo(n)) # 0
    BY <2>3, <2>4, FS_CardinalityType, FS_EmptySet
  <2> QED
    BY <2>1, <2>4, <2>5, <1>4
<1>7. ASSUME NEW m \in new, NEW n \in new, Cardinality(upTo(m)) = Cardinality(upTo(n))
      PROVE  m = n
  <2>1. PICK i, j \in DOMAIN names : names[i] = m /\ names[j] = n
    BY <1>3 DEF ToSet
  <2>2. ASSUME NEW k \in DOMAIN names, NEW l \in DOMAIN names, k <= l,
               names[k] \in new, names[l] \in new,
               Cardinality(upTo(names[k])) = Cardinality(upTo(names[l]))
        PROVE  names[k] = names[l]
    <3>1. upTo(names[k]) \subseteq upTo(names[l])
      BY <1>1, <2>2 DEF MissingUpTo, IsInjective
    <3>2. upTo(names[k]) = upTo(names[l])
      BY <3>1, <2>2, <1>6, FS_Subset
    <3>3. names[l] \in upTo(names[l])
      BY <1>1, <2>2 DEF MissingUpTo
    <3>4. PICK g, h \in DOMAIN names : g <= h /\ names[g] = names[l] /\ names[h] = names[k]
      BY <3>2, <3>3 DEF MissingUpTo
    <3> QED
      BY <3>4, <1>1, <2>2 DEF IsInjective
  <2>3. i \in Int /\ j \in Int
    BY <1>1
  <2> QED
    BY <2>1, <2>2, <2>3, <1>7
<1>8. C = [n \in old \cup new |->
             IF n \in old THEN R[n] ELSE Cardinality(old) + Cardinality(upTo(n))]
  BY DEF Created
<1> HIDE DEF R, new, upTo, C
<1>9. \A n \in old \cup new : C[n] \in Ids /\ C[n] <= Cardinality(old \cup new)
  BY <1>2, <1>4, <1>5, <1>6, <1>8 DEF Ids
<1>10. ASSUME NEW m \in old \cup new, NEW n \in old \cup new, C[m] = C[n]
       PROVE  m = n
  <2>1. CASE m \in old /\ n \in old
    BY <2>1, <1>2, <1>8, <1>10 DEF IsInjective
  <2>2. CASE m \in new /\ n \in new
    <3>1. Cardinality(upTo(m)) = Cardinality(upTo(n))
      BY <2>2, <1>3, <1>4, <1>6, <1>8, <1>10
    <3> QED
      BY <2>2, <3>1, <1>7
  <2>3. ASSUME NEW x \in old, NEW y \in new PROVE C[x] # C[y]
    <3>1. C[x] \in Int /\ C[x] <= Cardinality(old)
      BY <1>2, <1>8 DEF Ids
    <3>2. C[y] = Cardinality(old) + Cardinality(upTo(y)) /\ Cardinality(upTo(y)) \in 1..Cardinality(new)
      BY <1>3, <1>6, <1>8
    <3> QED
      BY <3>1, <3>2, <1>4
  <2> QED
    BY <2>1, <2>2, <2>3, <1>10
<1>11. C \in [old \cup new -> Ids] /\ old \cup new \in SUBSET Names
  BY <1>2, <1>3, <1>8, <1>9
<1>12. Numbered(C)
  BY <1>9, <1>10, <1>11 DEF Numbered, IsInjective
<1>13. Extends(R, C) /\ DOMAIN C = old \cup ToSet(names)
  BY <1>3, <1>8, <1>11 DEF Extends
<1> QED
  BY <1>12, <1>13 DEF R, C

-----------------------------------------------------------------------------
(* The invariant *)

\* The names that a session was opened with are of its database.
NamesExist ==
    \A s \in Sessions : Opened(s) => cfh[s] \subseteq Existing(home[s])

\* The address in a session's handles is DBWrapper::db until the database is
\* closed.
Pointers ==
    /\ \A s \in Sessions : Opened(s) => at[s] # None
    /\ \A s \in Sessions : IsOpen(s) => Opened(s) /\ ptr[s] = at[s]

\* The allocator places no two live databases at one address.
Distinct ==
    \A s, u \in Sessions : IsOpen(s) /\ IsOpen(u) /\ ptr[s] = ptr[u] => s = u

\* Only a session that was opened has a view.
Views == \A s \in Sessions : view[s] # None => Opened(s)

Inv ==
    /\ TypeOK
    /\ \A p \in Paths : Numbered(catalog[p])
    /\ NamesExist
    /\ Pointers /\ Distinct /\ Views
    /\ ListIsComplete

\* Before the first open() there is no database and no session.
LEMMA InitInv == Init => Inv
<1> SUFFICES ASSUME Init PROVE Inv
  OBVIOUS
<1>1. NoDatabase \in [{} -> Ids] /\ DOMAIN NoDatabase = {} /\ {} \in SUBSET Names
  BY DEF NoDatabase
<1>2. Numbered(NoDatabase)
  BY <1>1 DEF Numbered, IsInjective
<1>3. <<>> \in Seq(WriteRecords) /\ Len(<<>>) = 0
  OBVIOUS
<1>4. TypeOK
  BY <1>2, <1>3, HandleAssumption DEF Init, TypeOK, Numbered, Stores, Outcomes
<1>5. NamesExist /\ Pointers /\ Distinct /\ Views /\ ListIsComplete
  BY DEF Init, NamesExist, Pointers, Distinct, Views, ListIsComplete, Opened, IsOpen
<1> QED
  BY <1>2, <1>4, <1>5 DEF Init, Inv

-----------------------------------------------------------------------------
(* Opening and closing *)

\* The values of call() that TypeOK allows.
CallOK ==
    /\ call.session \in Sessions \cup {None}
    /\ call.owner \in Sessions \cup {None}
    /\ call.reply \in Outcomes \cup Values \cup {Absent}

\* No database loses a column family or gets another number for one.
LEMMA CatalogStep ==
  ASSUME Inv, NEW p \in Paths, NEW names \in Requests, Numbered(catalog'[p]),
         catalog' = [catalog EXCEPT ![p] = catalog'[p]]
  PROVE  /\ catalog' \in [Paths -> UNION {[ns -> Ids] : ns \in SUBSET Names}]
         /\ \A q \in Paths : IsInjective(catalog'[q]) /\ Numbered(catalog'[q])
  BY DEF Inv, TypeOK, Numbered

\* The session that open() makes, on a database whose column families are
\* among those in catalog'.
LEMMA RegisterInv ==
  ASSUME Inv, NEW s \in Sessions, NEW p \in Paths, NEW names \in SUBSET Names,
         NEW v \in Stores \cup {None}, ~Opened(s), Register(s, p, names, v),
         catalog' \in [Paths -> UNION {[ns -> Ids] : ns \in SUBSET Names}],
         \A q \in Paths : Numbered(catalog'[q]) /\ Existing(q) \subseteq Existing(q)',
         names \subseteq Existing(p)',
         v = None => /\ names = Existing(p)' /\ ~Locked(p)
                     /\ \A q \in Paths : q # p => catalog'[q] = catalog[q],
         v # None => catalog' = catalog,
         CallOK', UNCHANGED <<store, pinned, batch>>
  PROVE  Inv'
<1>1. PICK m \in Addrs : /\ \A u \in Sessions : ptr[u] # m
                         /\ at' = [at EXCEPT ![s] = m]
                         /\ ptr' = [ptr EXCEPT ![s] = m]
  BY DEF Register
<1>2. /\ home' = [home EXCEPT ![s] = p] /\ p # None /\ m # None
      /\ cfh' = [cfh EXCEPT ![s] = names] /\ view' = [view EXCEPT ![s] = v]
  BY HandleAssumption DEF Register
<1>3. TypeOK'
  BY <1>1, <1>2 DEF Inv, TypeOK, CallOK, Numbered
<1>4. NamesExist'
  BY <1>2 DEF Inv, TypeOK, NamesExist, Opened
<1>5. Pointers'
  BY <1>1, <1>2 DEF Inv, TypeOK, Pointers, Opened, IsOpen
<1>6. Distinct'
  BY <1>1, <1>2 DEF Inv, TypeOK, Pointers, Distinct, Opened, IsOpen
<1>7. Views'
  BY <1>2 DEF Inv, TypeOK, Views, Opened
<1>8. ListIsComplete'
  <2> SUFFICES ASSUME NEW u \in Sessions, IsOpen(u)', view'[u] = None
               PROVE  cfh'[u] = Existing(home[u])'
    BY DEF ListIsComplete
  <2>1. CASE u = s
    BY <2>1, <1>2 DEF Inv, TypeOK
  <2>2. CASE u # s
    <3>1. /\ IsOpen(u) /\ view[u] = None /\ home'[u] = home[u] /\ cfh'[u] = cfh[u]
          /\ home[u] \in Paths
      BY <2>2, <1>1, <1>2 DEF Inv, TypeOK, Pointers, IsOpen, Opened
    <3>2. catalog'[home[u]] = catalog[home[u]]
      BY <3>1 DEF Locked
    <3> QED
      BY <3>1, <3>2 DEF Inv, ListIsComplete, Existing
  <2> QED
    BY <2>1, <2>2
<1> QED
  BY <1>3, <1>4, <1>5, <1>6, <1>7, <1>8 DEF Inv

\* A step that makes and closes no session keeps the invariant, if it changes
\* no column families of a database that is open for writing.
LEMMA KeepInv ==
  ASSUME Inv, UNCHANGED sessionVars,
         catalog' \in [Paths -> UNION {[ns -> Ids] : ns \in SUBSET Names}],
         \A q \in Paths : /\ Numbered(catalog'[q]) /\ Existing(q) \subseteq Existing(q)'
                          /\ catalog'[q] = catalog[q] \/ ~Locked(q),
         store' \in [Paths -> Stores], pinned' \subseteq Sessions,
         batch' \in Seq(WriteRecords), Len(batch') <= MaxBatch, CallOK'
  PROVE  Inv'
<1>1. TypeOK' /\ Pointers' /\ Distinct' /\ Views'
  BY DEF Inv, sessionVars, TypeOK, CallOK, Numbered, Pointers, Distinct, Views, Opened, IsOpen
<1>2. NamesExist'
  BY DEF Inv, TypeOK, sessionVars, NamesExist, Opened
<1>3. ListIsComplete'
  <2> SUFFICES ASSUME NEW u \in Sessions, IsOpen(u), view[u] = None
               PROVE  cfh[u] = DOMAIN catalog'[home[u]]
    BY DEF ListIsComplete, sessionVars, IsOpen, Existing
  <2>1. home[u] \in Paths /\ Locked(home[u]) /\ cfh[u] = DOMAIN catalog[home[u]]
    BY DEF Inv, TypeOK, Pointers, Opened, Locked, ListIsComplete, Existing
  <2> QED
    BY <2>1
<1> QED
  BY <1>1, <1>2, <1>3 DEF Inv

\* open() for writing recovers the database and creates what is missing.
LEMMA OpenReadWriteInv ==
  ASSUME Inv, NEW s \in Sessions, NEW p \in Paths, NEW names \in Requests,
         NEW createDb, NEW createCfs, ~Opened(s),
         OpenReadWrite(s, p, names, createDb, createCfs)
  PROVE  Inv' /\ Extends(catalog[p], catalog'[p])
<1>1. /\ Numbered(Recovered(p)) /\ Extends(catalog[p], Recovered(p))
      /\ DOMAIN Recovered(p) \subseteq Existing(p) \cup {Default}
  BY RecoveredMeans DEF Inv
<1>2. /\ Numbered(Created(p, names)) /\ Extends(Recovered(p), Created(p, names))
      /\ DOMAIN Created(p, names) = DOMAIN Recovered(p) \cup ToSet(names)
  BY <1>1, CreatedMeans
<1>3. /\ catalog' = [catalog EXCEPT ![p] = Created(p, names)]
      /\ catalog'[p] = Created(p, names)
  BY DEF OpenReadWrite, Inv, TypeOK
<1>4. /\ catalog' \in [Paths -> UNION {[ns -> Ids] : ns \in SUBSET Names}]
      /\ \A q \in Paths : Numbered(catalog'[q])
  BY <1>2, <1>3, CatalogStep
<1>5. Extends(catalog[p], catalog'[p])
  BY <1>1, <1>2, <1>3 DEF Extends
<1>6. ToSet(names) = Existing(p)'
  BY <1>1, <1>2, <1>3 DEF OpenReadWrite, Recovers, Existing
<1>7. \A q \in Paths : Existing(q) \subseteq Existing(q)'
  BY <1>3, <1>5 DEF Existing, Extends, Inv, TypeOK
<1>8. ToSet(names) \in SUBSET Names
  BY HandleAssumption DEF ToSet
<1>9. CallOK' /\ ~Locked(p) /\ Register(s, p, ToSet(names), None)
      /\ UNCHANGED <<store, pinned, batch>>
  BY DEF OpenReadWrite, Recovers, Replies, CallOK, Outcomes
<1>10. \A q \in Paths : q # p => catalog'[q] = catalog[q]
  BY <1>3 DEF Inv, TypeOK
<1> QED
  BY <1>4, <1>5, <1>6, <1>7, <1>8, <1>9, <1>10, RegisterInv

\* An open() that fails adds column families only to a database no one has
\* open, and makes no session.
LEMMA OpenReadWriteFailsInv ==
  ASSUME Inv, NEW s \in Sessions, NEW p \in Paths, NEW names \in Requests,
         NEW createDb, NEW createCfs,
         OpenReadWriteFails(s, p, names, createDb, createCfs)
  PROVE  Inv' /\ Extends(catalog[p], catalog'[p])
<1>1. Numbered(Recovered(p)) /\ Extends(catalog[p], Recovered(p))
  BY RecoveredMeans DEF Inv
<1>2. CallOK' /\ UNCHANGED <<store, sessionVars, pinned, batch>>
  BY DEF OpenReadWriteFails, Replies, CallOK, Outcomes
<1>3. /\ catalog' = [catalog EXCEPT ![p] = catalog'[p]]
      /\ Numbered(catalog'[p]) /\ Extends(catalog[p], catalog'[p])
      /\ catalog'[p] = catalog[p] \/ ~Locked(p)
  <2>1. CASE names # <<>> /\ createDb /\ ~Locked(p)
    BY <1>1, <2>1 DEF OpenReadWriteFails, Inv, TypeOK
  <2>2. CASE ~(names # <<>> /\ createDb /\ ~Locked(p))
    BY <2>2 DEF OpenReadWriteFails, Inv, TypeOK, Extends
  <2> QED
    BY <2>1, <2>2
<1>4. /\ catalog' \in [Paths -> UNION {[ns -> Ids] : ns \in SUBSET Names}]
      /\ \A q \in Paths : Numbered(catalog'[q])
  BY <1>3, CatalogStep
<1>5. \A q \in Paths : /\ Existing(q) \subseteq Existing(q)'
                       /\ catalog'[q] = catalog[q] \/ ~Locked(q)
  BY <1>3 DEF Existing, Extends, Inv, TypeOK
<1>6. /\ store' \in [Paths -> Stores] /\ pinned' \subseteq Sessions
      /\ batch' \in Seq(WriteRecords) /\ Len(batch') <= MaxBatch
  BY <1>2 DEF Inv, TypeOK
<1> QED
  BY <1>2, <1>3, <1>4, <1>5, <1>6, KeepInv

\* open() for reading takes the database as it is.
LEMMA OpenReadOnlyInv ==
  ASSUME Inv, NEW s \in Sessions, NEW p \in Paths, NEW names \in Requests, ~Opened(s),
         OpenReadOnly(s, p, names)
  PROVE  Inv' /\ catalog' = catalog
<1>1. CallOK' /\ UNCHANGED <<catalog, store, pinned, batch>>
  BY DEF OpenReadOnly, Replies, CallOK, Outcomes
<1>2. /\ catalog' \in [Paths -> UNION {[ns -> Ids] : ns \in SUBSET Names}]
      /\ \A q \in Paths : Numbered(catalog'[q]) /\ Existing(q)' = Existing(q)
      /\ store' \in [Paths -> Stores] /\ pinned' \subseteq Sessions
      /\ batch' \in Seq(WriteRecords) /\ Len(batch') <= MaxBatch
  BY <1>1 DEF Inv, TypeOK, Existing
<1>3. CASE UNCHANGED sessionVars
  BY <1>1, <1>2, <1>3, KeepInv
<1>4. CASE ToSet(names) \subseteq Existing(p) /\ Register(s, p, ToSet(names), store[p])
  <2>1. store[p] \in Stores /\ store[p] # None
    BY HandleAssumption DEF Inv, TypeOK
  <2>2. ToSet(names) \in SUBSET Names
    BY HandleAssumption DEF ToSet
  <2> QED
    BY <1>1, <1>2, <1>4, <2>1, <2>2, RegisterInv
<1> QED
  BY <1>3, <1>4 DEF OpenReadOnly

\* The three of them, with every answer to the options.
LEMMA OpenInv ==
  ASSUME Inv, NEW s \in Sessions, Open(s)
  PROVE  Inv' /\ \A p \in Paths : Extends(catalog[p], catalog'[p])
<1>1. PICK p \in Paths, names \in Requests :
         \/ OpenReadOnly(s, p, names)
         \/ \E createDb, createCfs \in BOOLEAN :
               \/ OpenReadWrite(s, p, names, createDb, createCfs)
               \/ OpenReadWriteFails(s, p, names, createDb, createCfs)
  BY DEF Open
<1>2. Inv' /\ Extends(catalog[p], catalog'[p])
  <2>1. ~Opened(s) /\ Extends(catalog[p], catalog[p])
    BY DEF Open, Extends
  <2> QED
    BY <1>1, <2>1, OpenReadOnlyInv, OpenReadWriteInv, OpenReadWriteFailsInv
<1>3. ASSUME NEW q \in Paths, q # p PROVE catalog'[q] = catalog[q]
  BY <1>1, <1>3 DEF OpenReadOnly, OpenReadWrite, OpenReadWriteFails, Inv, TypeOK
<1> QED
  BY <1>2, <1>3 DEF Extends

\* close() forgets the address and leaves the handles as they are.
LEMMA CloseInv ==
  ASSUME Inv, NEW s \in Sessions, Close(s)
  PROVE  Inv' /\ catalog' = catalog
<1>1. /\ ptr' = [ptr EXCEPT ![s] = None] /\ CallOK'
      /\ UNCHANGED <<catalog, store, home, cfh, at, view, pinned, batch>>
  BY DEF Close, Replies, CallOK, Outcomes
<1>2. TypeOK' /\ \A p \in Paths : Numbered(catalog'[p])
  BY <1>1 DEF Inv, TypeOK, CallOK
<1>3. NamesExist' /\ Pointers' /\ Distinct' /\ Views' /\ ListIsComplete'
  BY <1>1
  DEF Inv, TypeOK, NamesExist, Pointers, Distinct, Views, ListIsComplete, Opened, IsOpen,
      Existing
<1> QED
  BY <1>1, <1>2, <1>3 DEF Inv

-----------------------------------------------------------------------------
(* The other operations *)

\* A handle has an id in its own database, and what is written through it is
\* one write to a cell of its column family.
LEMMA HandleMeans ==
  ASSUME Inv, NEW o \in Sessions, NEW n \in Names, NEW k \in Keys, HasHandle(o, n),
         NEW v \in Values \cup {Absent}
  PROVE  /\ home[o] \in Paths /\ n \in Existing(home[o]) /\ IdOf(o, n) \in Ids
         /\ WriteOf(o, n, k, v) \in WriteRecords
<1>1. home[o] \in Paths /\ n \in Existing(home[o])
  BY DEF Inv, TypeOK, NamesExist, HasHandle, Opened
<1>2. IdOf(o, n) \in Ids
  BY <1>1 DEF Inv, Numbered, IdOf, Existing
<1> QED
  BY <1>1, <1>2 DEF WriteOf, CellOf, WriteRecords, Cells

\* An update of a database keeps it one, and is carried out or refused.
LEMMA ApplyMeans ==
  ASSUME Inv, NEW op, NEW s \in Sessions, NEW o \in Sessions, NEW ws \in Seq(WriteRecords),
         Opened(s), Apply(op, s, o, ws)
  PROVE  /\ store' \in [Paths -> Stores] /\ CallOK'
         /\ call'.reply \in {"ok", "RuntimeError"}
<1>1. home[s] \in Paths
  BY DEF Inv, TypeOK, Opened
<1>2. Overlay(store[home[s]], ws) \in Stores
  BY <1>1, OverlayStays DEF Inv, TypeOK
<1> QED
  BY <1>1, <1>2 DEF Apply, Inv, TypeOK, CallOK, Outcomes

\* A session's own handle reads a value.
LEMMA ReadMeans ==
  ASSUME Inv, NEW s \in Sessions, NEW o \in Sessions, NEW n \in Names, NEW k \in Keys,
         HasHandle(o, n), NEW r \in Read(s, o, n, k)
  PROVE  /\ r \in Values \cup {Absent, "killed"}
         /\ s = o => r \in Values \cup {Absent}
<1>1. CASE s # o
  BY <1>1 DEF Read
<1>2. CASE s = o
  <2>1. <<IdOf(o, n), k>> \in Ids \X Keys /\ home[s] \in Paths
    BY <1>2, HandleMeans
  <2>2. store[home[s]] \in Stores /\ view[s] \in Stores \cup {None}
    BY <2>1 DEF Inv, TypeOK
  <2>3. r = (IF view[s] = None THEN store[home[s]] ELSE view[s])[<<IdOf(o, n), k>>]
    BY <1>2 DEF Read
  <2>4. (IF view[s] = None THEN store[home[s]] ELSE view[s]) \in Stores
    BY <2>2
  <2> QED
    BY <2>1, <2>3, <2>4 DEF Stores
<1> QED
  BY <1>1, <1>2

\* What an operation is done through.
Operates(s, o, n, k) ==
    \/ \E v \in Values : Put(s, o, n, k, v)
    \/ DeleteKey(s, o, n, k)
    \/ Get(s, o, n, k)
    \/ CreateIterator(s, o)

Manages(s) == Write(s) \/ CompactRange(s) \/ Snapshot(s) \/ ReleaseSnapshot(s)

\* The steps there are.
LEMMA Steps ==
  ASSUME [Next]_vars
  PROVE  \/ \E s \in Sessions : Open(s)
         \/ \E s \in Sessions : Opened(s) /\ (Close(s) \/ Manages(s))
         \/ \E s, o \in Sessions, n \in Names, k \in Keys :
               Opened(s) /\ HasHandle(o, n) /\ Operates(s, o, n, k)
         \/ \E o \in Sessions, n \in Names, k \in Keys, v \in Values \cup {Absent} :
               HasHandle(o, n) /\ BatchAdd(o, n, k, v)
         \/ BatchClear
         \/ UNCHANGED vars
<1>1. CASE UNCHANGED vars
  BY <1>1
<1>2. CASE \E s \in Sessions : Open(s)
  BY <1>2
<1>3. CASE BatchClear
  BY <1>3
<1>4. ASSUME NEW o \in Sessions, NEW n \in Names, NEW k \in Keys, HasHandle(o, n),
             \/ \E v \in Values \cup {Absent} : BatchAdd(o, n, k, v)
             \/ \E s \in {u \in Sessions : Opened(u)} :
                   \/ \E v \in Values : Put(s, o, n, k, v)
                   \/ DeleteKey(s, o, n, k) \/ Get(s, o, n, k) \/ CreateIterator(s, o)
      PROVE  \/ \E v \in Values \cup {Absent} : BatchAdd(o, n, k, v)
             \/ \E s \in Sessions : Opened(s) /\ Operates(s, o, n, k)
  BY <1>4 DEF Operates
<1>5. ASSUME NEW s \in {u \in Sessions : Opened(u)},
             \/ Write(s) \/ CompactRange(s) \/ Snapshot(s) \/ ReleaseSnapshot(s) \/ Close(s)
      PROVE  \E u \in Sessions : Opened(u) /\ (Close(u) \/ Manages(u))
  BY <1>5 DEF Manages
<1> QED
  BY <1>1, <1>2, <1>3, <1>4, <1>5 DEF Next

\* An operation with a handle of any session, on any session.
LEMMA OperatesInv ==
  ASSUME Inv, NEW s \in Sessions, NEW o \in Sessions, NEW n \in Names, NEW k \in Keys,
         Opened(s), HasHandle(o, n), Operates(s, o, n, k)
  PROVE  Inv' /\ UNCHANGED <<catalog, sessionVars>>
<1>1. UNCHANGED <<catalog, sessionVars, pinned, batch>>
  BY DEF Operates, Put, DeleteKey, Get, CreateIterator
<1>2. store' \in [Paths -> Stores] /\ CallOK'
  <2>1. ASSUME NEW v \in Values \cup {Absent}, NEW op, Apply(op, s, o, <<WriteOf(o, n, k, v)>>)
        PROVE  store' \in [Paths -> Stores] /\ CallOK'
    <3>1. <<WriteOf(o, n, k, v)>> \in Seq(WriteRecords)
      BY HandleMeans
    <3> QED
      BY <2>1, <3>1, ApplyMeans
  <2>2. ASSUME NEW op, Refuse(op, s, o) PROVE store' \in [Paths -> Stores] /\ CallOK'
    BY <2>2 DEF Refuse, Inv, TypeOK, CallOK, Outcomes
  <2>3. ASSUME NEW v \in Values, Put(s, o, n, k, v)
        PROVE  store' \in [Paths -> Stores] /\ CallOK'
    BY <2>1, <2>2, <2>3 DEF Put
  <2>4. CASE DeleteKey(s, o, n, k)
    BY <2>1, <2>2, <2>4 DEF DeleteKey
  <2>5. CASE Get(s, o, n, k)
    BY <2>2, <2>5, ReadMeans DEF Get, Inv, TypeOK, CallOK, Outcomes
  <2>6. CASE CreateIterator(s, o)
    BY <2>2, <2>6 DEF CreateIterator, Inv, TypeOK, CallOK, Outcomes
  <2> QED
    BY <2>3, <2>4, <2>5, <2>6 DEF Operates
<1>3. /\ catalog' \in [Paths -> UNION {[ns -> Ids] : ns \in SUBSET Names}]
      /\ \A q \in Paths : Numbered(catalog'[q]) /\ Existing(q)' = Existing(q)
      /\ pinned' \subseteq Sessions /\ batch' \in Seq(WriteRecords) /\ Len(batch') <= MaxBatch
  BY <1>1 DEF Inv, TypeOK, Existing
<1> QED
  BY <1>1, <1>2, <1>3, KeepInv

\* The operations without a handle, which do not look whether there is a
\* database.
LEMMA ManagesInv ==
  ASSUME Inv, NEW s \in Sessions, Opened(s), Manages(s)
  PROVE  Inv' /\ UNCHANGED <<catalog, sessionVars>>
<1>1. UNCHANGED <<catalog, sessionVars, batch>> /\ pinned' \subseteq Sessions
  BY DEF Manages, Write, CompactRange, Snapshot, ReleaseSnapshot, Inv, TypeOK
<1>2. store' \in [Paths -> Stores] /\ CallOK'
  <2>1. CASE Write(s)
    <3>1. CASE IsOpen(s)
      <4>1. batch \in Seq(WriteRecords)
        BY DEF Inv, TypeOK
      <4> QED
        BY <2>1, <3>1, <4>1, ApplyMeans DEF Write
    <3>2. CASE ~IsOpen(s)
      BY <2>1, <3>2 DEF Write, Replies, Inv, TypeOK, CallOK, Outcomes
    <3> QED
      BY <3>1, <3>2
  <2>2. CASE CompactRange(s) \/ Snapshot(s) \/ ReleaseSnapshot(s)
    BY <2>2
    DEF CompactRange, Snapshot, ReleaseSnapshot, Replies, Inv, TypeOK, CallOK, Outcomes
  <2> QED
    BY <2>1, <2>2 DEF Manages
<1>3. /\ catalog' \in [Paths -> UNION {[ns -> Ids] : ns \in SUBSET Names}]
      /\ \A q \in Paths : Numbered(catalog'[q]) /\ Existing(q)' = Existing(q)
      /\ batch' \in Seq(WriteRecords) /\ Len(batch') <= MaxBatch
  BY <1>1 DEF Inv, TypeOK, Existing
<1> QED
  BY <1>1, <1>2, <1>3, KeepInv

\* A batch takes the handles of any session.
LEMMA BatchInv ==
  ASSUME Inv,
         \/ \E o \in Sessions, n \in Names, k \in Keys, v \in Values \cup {Absent} :
               HasHandle(o, n) /\ BatchAdd(o, n, k, v)
         \/ BatchClear
  PROVE  Inv' /\ UNCHANGED <<catalog, sessionVars>>
<1>1. UNCHANGED <<catalog, store, sessionVars, pinned>> /\ CallOK'
  BY DEF BatchAdd, BatchClear, Replies, CallOK, Outcomes
<1>2. batch' \in Seq(WriteRecords) /\ Len(batch') <= MaxBatch
  <2>1. CASE BatchClear
    BY <2>1, HandleAssumption DEF BatchClear
  <2>2. ASSUME NEW o \in Sessions, NEW n \in Names, NEW k \in Keys,
               NEW v \in Values \cup {Absent}, HasHandle(o, n), BatchAdd(o, n, k, v)
        PROVE  batch' \in Seq(WriteRecords) /\ Len(batch') <= MaxBatch
    <3>1. WriteOf(o, n, k, v) \in WriteRecords /\ batch \in Seq(WriteRecords)
      BY <2>2, HandleMeans DEF Inv, TypeOK
    <3>2. batch' = Append(batch, WriteOf(o, n, k, v)) /\ Len(batch) < MaxBatch
      BY <2>2 DEF BatchAdd
    <3> HIDE DEF WriteRecords
    <3>3. batch' \in Seq(WriteRecords) /\ Len(batch') = Len(batch) + 1
      BY <3>1, <3>2
    <3> QED
      BY <3>1, <3>2, <3>3, HandleAssumption
  <2> QED
    BY <2>1, <2>2
<1>3. /\ catalog' \in [Paths -> UNION {[ns -> Ids] : ns \in SUBSET Names}]
      /\ \A q \in Paths : Numbered(catalog'[q]) /\ Existing(q)' = Existing(q)
      /\ store' \in [Paths -> Stores] /\ pinned' \subseteq Sessions
  BY <1>1 DEF Inv, TypeOK, Existing
<1> QED
  BY <1>1, <1>2, <1>3, KeepInv

\* Inv is inductive, and no database ever loses a column family or the id of one.
LEMMA InvStep ==
  ASSUME Inv, [Next]_vars
  PROVE  Inv' /\ \A p \in Paths : Extends(catalog[p], catalog'[p])
<1>1. CASE UNCHANGED vars
  BY <1>1
  DEF vars, Inv, TypeOK, Numbered, NamesExist, Pointers, Distinct, Views, ListIsComplete,
      Opened, IsOpen, Existing, Extends
<1>2. catalog' = catalog => \A p \in Paths : Extends(catalog[p], catalog'[p])
  BY DEF Extends
<1> QED
  BY <1>1, <1>2, Steps, OpenInv, CloseInv, OperatesInv, ManagesInv, BatchInv

\* The invariant holds of every program, whatever handles it uses where.
THEOREM Invariance == Spec => []Inv
  BY InitInv, InvStep, PTL DEF Spec

\* No open, no failed open and no operation takes a column family from a
\* database or gives it another id: a handle and a batch can rely on theirs.
THEOREM ColumnFamiliesStay ==
  Spec => [][\A p \in Paths : Extends(catalog[p], catalog'[p])]_vars
<1>1. Inv /\ [Next]_vars => [\A p \in Paths : Extends(catalog[p], catalog'[p])]_vars
  BY InvStep
<1> QED
  BY <1>1, Invariance, PTL DEF Spec

\* Every variable keeps its type: column families have an id each, no batch
\* holds a write without one, and a call replies with a value or an outcome.
THEOREM TypeCorrect == Spec => []TypeOK
<1>1. Inv => TypeOK
  BY DEF Inv
<1> QED
  BY <1>1, Invariance, PTL

\* The column families a read-write session knows are all its database has.
THEOREM ListsEverything == Spec => []ListIsComplete
<1>1. Inv => ListIsComplete
  BY DEF Inv
<1> QED
  BY <1>1, Invariance, PTL

-----------------------------------------------------------------------------
(* What check_db decides *)

\* A handle passes check_db only on an open database, and only where its own
\* database is or was.
LEMMA CheckDbMeans ==
  ASSUME Inv, NEW s \in Sessions, NEW o \in Sessions, Opened(o), CheckDb(s, o)
  PROVE  /\ IsOpen(s)
         /\ at[s] = at[o]
         /\ o = s \/ ~IsOpen(o)
  BY DEF Inv, Pointers, Distinct, CheckDb, IsOpen

\* The steps that check_db lets through are those of the operations that take
\* a handle.
LEMMA AcceptedMeans ==
  ASSUME [Next]_vars, Accepted, ~UNCHANGED vars
  PROVE  \E s, o \in Sessions :
            /\ call'.session = s /\ call'.owner = o
            /\ Opened(o) /\ CheckDb(s, o)
            /\ UNCHANGED sessionVars
<1> USE DEF Accepted, HandleOps
<1>1. ASSUME NEW s \in Sessions, Open(s) \/ Close(s) \/ Manages(s) PROVE FALSE
  BY <1>1
  DEF Open, OpenReadOnly, OpenReadWrite, OpenReadWriteFails, Manages, Write, CompactRange,
      Snapshot, ReleaseSnapshot, Close, Replies, Apply
<1>2. ~BatchClear
  BY DEF BatchClear, Replies
<1>3. ASSUME NEW o \in Sessions, NEW n \in Names, NEW k \in Keys,
             NEW v \in Values \cup {Absent}
      PROVE  ~BatchAdd(o, n, k, v)
  BY DEF BatchAdd, Replies
<1>4. ASSUME NEW s \in Sessions, NEW o \in Sessions, NEW n \in Names, NEW k \in Keys,
             HasHandle(o, n), Operates(s, o, n, k)
      PROVE  /\ call'.session = s /\ call'.owner = o
             /\ Opened(o) /\ CheckDb(s, o)
             /\ UNCHANGED sessionVars
  <2>1. Opened(o)
    BY <1>4 DEF HasHandle
  <2>2. \A op \in HandleOps : ~Refuse(op, s, o)
    BY DEF Refuse
  <2>3. ASSUME NEW v \in Values, Put(s, o, n, k, v)
        PROVE  call'.session = s /\ call'.owner = o /\ CheckDb(s, o) /\ UNCHANGED sessionVars
    BY <2>2, <2>3 DEF Put, Apply
  <2>4. CASE DeleteKey(s, o, n, k)
    BY <2>1, <2>2, <2>4 DEF DeleteKey, Apply
  <2>5. CASE Get(s, o, n, k)
    BY <2>1, <2>2, <2>5 DEF Get
  <2>6. CASE CreateIterator(s, o)
    BY <2>1, <2>2, <2>6 DEF CreateIterator
  <2> QED
    BY <1>4, <2>1, <2>3, <2>4, <2>5, <2>6 DEF Operates
<1> QED
  BY <1>1, <1>2, <1>3, <1>4, Steps

\* check_db lets a call through only on an open database, and never with the
\* handle of another database that is open too.
THEOREM CheckDbSeparates == Spec => AcceptedHandles
<1>1. Inv /\ [Next]_vars =>
        [Accepted => /\ IsOpen(call'.session)
                     /\ call'.owner = call'.session \/ ~IsOpen(call'.owner)]_vars
  <2> SUFFICES ASSUME Inv, [Next]_vars, Accepted, ~UNCHANGED vars
               PROVE  /\ IsOpen(call'.session)
                      /\ call'.owner = call'.session \/ ~IsOpen(call'.owner)
    OBVIOUS
  <2> QED
    BY AcceptedMeans, CheckDbMeans
<1> QED
  BY <1>1, Invariance, PTL DEF Spec, AcceptedHandles

\* The same with an allocator that reuses no address.
LEMMA NoReuseInv == FreshSpec => [](Inv /\ NoReuse)
<1>1. Init => Inv /\ NoReuse
  BY InitInv DEF Init, NoReuse, Opened
<1>2. Inv /\ NoReuse /\ [Next /\ NoReuse']_vars => (Inv /\ NoReuse)'
  BY InvStep DEF NoReuse, Opened, vars
<1> QED
  BY <1>1, <1>2, PTL DEF FreshSpec

\* Without reuse, check_db lets through the handles of the session alone.
LEMMA CheckDbSuffices ==
  ASSUME Inv, NoReuse, NEW s \in Sessions, NEW o \in Sessions, Opened(o), CheckDb(s, o)
  PROVE  s = o
<1>1. IsOpen(s) /\ at[s] = at[o]
  BY CheckDbMeans
<1>2. Opened(s)
  BY <1>1 DEF Inv, Pointers
<1> QED
  BY <1>1, <1>2 DEF NoReuse

\* With an allocator that reuses no address, a call is let through only with a
\* handle of the session it is made on.
THEOREM CheckDbSufficesWithoutReuse == FreshSpec => StaleHandleRefused
<1>1. Inv /\ NoReuse /\ [Next /\ NoReuse']_vars
        => [Accepted => call'.owner = call'.session]_vars
  BY AcceptedMeans, CheckDbSuffices
<1> QED
  BY <1>1, NoReuseInv, PTL DEF FreshSpec, StaleHandleRefused

-----------------------------------------------------------------------------
(* What kills the process *)

\* Only a call on a database that is closed, or with the handle of one, can
\* kill the process.
THEOREM OnlyClosedKills == Spec => KilledNeedsClosed
<1> DEFINE Fatal == ~IsOpen(call'.session) \/ ~IsOpen(call'.owner)
<1>1. ASSUME Inv, [Next]_vars PROVE [Killed' => Fatal]_vars
  <2> SUFFICES ASSUME Killed', ~UNCHANGED vars PROVE Fatal
    OBVIOUS
  <2> USE DEF Killed
  <2>1. ASSUME NEW s \in Sessions, Open(s) \/ Close(s) PROVE FALSE
    BY <2>1 DEF Open, OpenReadOnly, OpenReadWrite, OpenReadWriteFails, Close, Replies
  <2>2. ASSUME NEW s \in Sessions, Opened(s), Manages(s) PROVE Fatal
    BY <2>2
    DEF Manages, Write, CompactRange, Snapshot, ReleaseSnapshot, Replies, Apply
  <2>3. ASSUME NEW s \in Sessions, NEW o \in Sessions, NEW n \in Names, NEW k \in Keys,
               HasHandle(o, n), Operates(s, o, n, k)
        PROVE  Fatal
    <3>1. \A op : ~Refuse(op, s, o)
      BY DEF Refuse
    <3>2. \A op, ws : ~Apply(op, s, o, ws)
      BY DEF Apply
    <3>3. Get(s, o, n, k) \/ CreateIterator(s, o)
      BY <2>3, <3>1, <3>2 DEF Operates, Put, DeleteKey
    <3>4. CheckDb(s, o) /\ s # o /\ call'.session = s /\ call'.owner = o
      <4>1. CASE Get(s, o, n, k)
        BY <2>3, <3>1, <4>1, <1>1, ReadMeans, HandleAssumption DEF Get
      <4>2. CASE CreateIterator(s, o)
        BY <3>1, <4>2 DEF CreateIterator
      <4> QED
        BY <3>3, <4>1, <4>2
    <3> QED
      BY <2>3, <3>4, <1>1, CheckDbMeans DEF HasHandle
  <2>4. ~BatchClear /\ \A o, n, k, v : ~BatchAdd(o, n, k, v)
    BY DEF BatchClear, BatchAdd, Replies
  <2> QED
    BY <1>1, <2>1, <2>2, <2>3, <2>4, Steps
<1> QED
  BY <1>1, Invariance, PTL DEF Spec, KilledNeedsClosed

-----------------------------------------------------------------------------
(* Read-only sessions *)

\* A read-only session never changes a database, whoever's handles and batch
\* it is given.
THEOREM ReadOnlyIsReadOnly == Spec => ReadOnlyNeverWrites
<1> DEFINE Quiet == call'.session # None /\ view'[call'.session] # None
                       => UNCHANGED <<store, catalog>>
<1>1. ASSUME Inv, [Next]_vars PROVE [Quiet]_vars
  <2>1. ASSUME NEW s \in Sessions, NEW p \in Paths, NEW names, NEW createDb, NEW createCfs,
               ~Opened(s),
               \/ OpenReadWrite(s, p, names, createDb, createCfs)
               \/ OpenReadWriteFails(s, p, names, createDb, createCfs)
        PROVE  Quiet
    <3>1. view[s] = None
      BY <1>1, <2>1 DEF Inv, Views
    <3>2. view'[s] = None /\ call'.session = s
      BY <1>1, <2>1, <3>1
      DEF Inv, TypeOK, OpenReadWrite, OpenReadWriteFails, Register, Replies, sessionVars
    <3> QED
      BY <3>2
  <2>2. ASSUME NEW s \in Sessions, Open(s) PROVE Quiet
    BY <2>1, <2>2 DEF Open, OpenReadOnly
  <2>3. ASSUME NEW s \in Sessions, NEW o \in Sessions, NEW op, NEW ws, Apply(op, s, o, ws),
               UNCHANGED <<view, catalog>>
        PROVE  Quiet
    BY <2>3 DEF Apply
  <2>4. ASSUME NEW s \in Sessions, Manages(s) \/ Close(s) PROVE Quiet
    BY <2>3, <2>4
    DEF Manages, Write, CompactRange, Snapshot, ReleaseSnapshot, Close, sessionVars
  <2>5. ASSUME NEW s \in Sessions, NEW o \in Sessions, NEW n \in Names, NEW k \in Keys,
               Operates(s, o, n, k)
        PROVE  Quiet
    BY <2>3, <2>5 DEF Operates, Put, DeleteKey, Get, CreateIterator, Refuse, sessionVars
  <2>6. ASSUME NEW o, NEW n, NEW k, NEW v, BatchClear \/ BatchAdd(o, n, k, v) PROVE Quiet
    BY <2>6 DEF BatchClear, BatchAdd
  <2> QED
    BY <1>1, <2>2, <2>4, <2>5, <2>6, Steps
<1> QED
  BY <1>1, Invariance, PTL DEF Spec, ReadOnlyNeverWrites
=============================================================================
