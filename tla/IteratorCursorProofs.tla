------------------------ MODULE IteratorCursorProofs ------------------------
(***************************************************************************)
(* What a DbIterator does for any keys and values, while other threads     *)
(* write to the database or close it: its types and what a closed one is,  *)
(* for any threads, and what a scan returns, for threads that take turns   *)
(* at __next__, as one thread alone always does.                           *)
(***************************************************************************)
EXTENDS IteratorCursor, TLAPS

\* The iterator is at an entry, and what __next__ has read was read at one.
AtEntries ==
    /\ pos # None => pos \in Present /\ ~failed
    /\ \A t \in Threads :
          /\ pc[t] \in {"value_valid", "value", "next"} => key[t] \in Keys
          /\ pc[t] = "next" => value[t] \in Values

Typed == TypeOK /\ AtEntries

\* The iterator is where __next__ saw it, and so is what was read there.
Steady ==
    \A t \in Threads :
        /\ pc[t] \in InNext => pos # None
        /\ pc[t] \in {"value_valid", "value", "next"} => key[t] = pos
        /\ pc[t] = "next" => value[t] = view[pos]

\* One thread at most is in __next__.
Alone == \A t, u \in Threads : pc[t] \in InNext /\ pc[u] \in InNext => t = u

\* A scan has returned what lies before the iterator, unless that has failed, and
\* in any case all that lies before the last pair.
Behind == {k \in AtOrAfter(from) : pos = None \/ k < pos}

Scanning ==
    /\ from # None => Lists(got, Passed)
    /\ from # None /\ ~failed => Lists(got, Behind) /\ (pos # None => from <= pos)
    /\ ended => from # None /\ pos = None

Inv == Typed /\ Alone /\ Steady /\ Scanning /\ NextMovesValid

\* No state the program starts in breaks the invariant.
LEMMA InitInv == Init => Inv
<1> SUFFICES ASSUME Init PROVE Inv
  OBVIOUS
<1>1. Typed
  <2>1. <<>> \in Seq(Keys \X Values)
    OBVIOUS
  <2>2. TypeOK
    BY <2>1 DEF Init, TypeOK
  <2>3. AtEntries
    BY DEF Init, AtEntries
  <2> QED
    BY <2>2, <2>3 DEF Typed
<1>2. Alone /\ Steady /\ Scanning /\ NextMovesValid
  BY DEF Init, Alone, Steady, Scanning, NextMovesValid, InNext
<1> QED
  BY <1>1, <1>2 DEF Inv

-----------------------------------------------------------------------------
(* Where the iterator goes *)

\* The engine's iterator goes to an entry, or nowhere.
LEMMA GoesInto ==
  ASSUME NEW ks \in SUBSET Present, GoesToFirst(ks) \/ GoesToLast(ks)
  PROVE  /\ pos' \in Keys \cup {None} /\ (pos' # None => pos' \in Present /\ ~failed')
         /\ failed' \in BOOLEAN
  BY DEF GoesToFirst, GoesToLast, Arrives, Fails, Present

\* All the places it is sent to are entries.
LEMMA Places ==
  \A k : /\ AtOrAfter(k) \in SUBSET Present /\ After(k) \in SUBSET Present
         /\ Before(k) \in SUBSET Present
  BY DEF AtOrAfter, After, Before

\* A seek or a single move: it goes to an entry, and no pair is left of the scan.
LEMMA MoveMeans ==
  ASSUME Typed, NEW t \in Threads,
         \/ SeekToFirst(t) \/ (\E k \in Keys : Seek(t, k)) \/ SeekToLast(t)
         \/ \E d \in {"next", "prev"} : Move(t, d)
  PROVE  /\ pc[t] = "idle" /\ UNCHANGED <<store, view, open, pc, key, value>>
         /\ pos' \in Keys \cup {None} /\ (pos' # None => pos' \in Present /\ ~failed')
         /\ failed' \in BOOLEAN
         /\ from' \in Keys \cup {None} /\ got' = <<>> /\ ended' = FALSE
         /\ misused' \in {misused, "caller"}
<1>1. CASE SeekToFirst(t) \/ (\E k \in Keys : Seek(t, k)) \/ SeekToLast(t)
  BY <1>1, Places, GoesInto
  DEF SeekToFirst, Seek, SeekToLast, Idle, StartScan, locals
<1>2. CASE \E d \in {"next", "prev"} : Move(t, d)
  BY <1>2, Places, GoesInto
  DEF Move, Idle, StartScan, locals, cursor, Typed, TypeOK, AtEntries
<1> QED
  BY <1>1, <1>2

-----------------------------------------------------------------------------
(* Any number of threads *)

\* Every step keeps the types, and what AtEntries says of them.
LEMMA TypedStep == Typed /\ [Next]_vars => Typed'
<1> SUFFICES ASSUME Typed, [Next]_vars PROVE Typed'
  OBVIOUS
<1> USE DEF Typed, TypeOK, AtEntries, Present
<1>1. ASSUME NEW t \in Threads,
             \/ SeekToFirst(t) \/ (\E k \in Keys : Seek(t, k)) \/ SeekToLast(t)
             \/ \E d \in {"next", "prev"} : Move(t, d)
      PROVE  Typed'
  <2>1. /\ UNCHANGED <<store, view, open, pc, key, value>>
        /\ pos' \in Keys \cup {None} /\ (pos' # None => pos' \in Present /\ ~failed')
        /\ failed' \in BOOLEAN
        /\ from' \in Keys \cup {None} /\ got' = <<>> /\ ended' = FALSE
        /\ misused' \in {misused, "caller"}
    BY <1>1, MoveMeans
  <2>2. Present' = Present
    BY <2>1
  <2>3. AtEntries'
    BY <2>1, <2>2
  <2>4. <<>> \in Seq(Keys \X Values)
    OBVIOUS
  <2> QED
    BY <2>1, <2>3, <2>4
<1>2. ASSUME NEW t \in Threads, NEW here, NEW there \in InNext,
             there \in {"key_valid", "key"} \/ (here = "value_valid" /\ there = "value"),
             Valid(t, here, there)
      PROVE  Typed'
  BY <1>2 DEF Valid, Goto, InNext, cursor
<1>3. ASSUME NEW t \in Threads, ReadKey(t) PROVE Typed'
  BY <1>3 DEF ReadKey, Goto, InNext, scan, cursor
<1>4. ASSUME NEW t \in Threads, ReadValue(t) PROVE Typed'
  <2>1. pos # None => view[pos] \in Values
    BY DEF Contents
  <2> QED
    BY <1>4, <2>1 DEF ReadValue, Goto, InNext, scan, cursor
<1>5. ASSUME NEW t \in Threads, Advance(t) PROVE Typed'
  <2>1. /\ pos' \in Keys \cup {None} /\ (pos' # None => pos' \in Present /\ ~failed')
        /\ failed' \in BOOLEAN
        /\ misused' \in {"no", "caller", "__next__"}
    BY <1>5, Places, GoesInto DEF Advance, cursor
  <2>2. got' \in Seq(Keys \X Values)
    <3>1. key[t] \in Keys /\ value[t] \in Values
      BY <1>5 DEF Advance
    <3>2. <<key[t], value[t]>> \in Keys \X Values
      BY <3>1
    <3>3. got' = got \/ got' = Append(got, <<key[t], value[t]>>)
      BY <1>5 DEF Advance
    <3>4. CASE got' = Append(got, <<key[t], value[t]>>)
      <4> HIDE DEF Typed, TypeOK, AtEntries, Present
      <4>1. got \in Seq(Keys \X Values)
        BY DEF Typed, TypeOK
      <4> QED
        BY <3>2, <3>4, <4>1
    <3> QED
      BY <3>3, <3>4
  <2>3. /\ pc' = [pc EXCEPT ![t] = "idle"]
        /\ UNCHANGED <<store, view, open, key, value, from, ended>>
    BY <1>5 DEF Advance, Goto
  <2> QED
    BY <2>1, <2>2, <2>3
<1>6. ASSUME NEW k \in Keys, NEW v \in Values \cup {Absent}, Write(k, v) PROVE Typed'
  BY <1>6 DEF Write, locals, scan, cursor, Contents
<1>7. CASE Close
  BY <1>7 DEF Close, locals, scan, cursor
<1>8. CASE UNCHANGED vars
  BY <1>8 DEF vars
<1> QED
  BY <1>1, <1>2, <1>3, <1>4, <1>5, <1>6, <1>7, <1>8 DEF Next, Proceed, InNext

\* Every variable keeps its type, and a pair that is returned has a value.
THEOREM TypeCorrect == Spec => []TypeOK
<1>1. Typed => TypeOK
  BY DEF Typed
<1>2. Init => Typed
  BY InitInv DEF Inv
<1> QED
  BY <1>1, <1>2, TypedStep, PTL DEF Spec

-----------------------------------------------------------------------------
(* Threads that take turns *)

\* Nothing that the invariant speaks of has changed.
LEMMA QuietStep ==
  ASSUME Inv, Typed', misused' # "__next__",
         UNCHANGED <<view, pos, failed, pc, key, value, from, got, ended>>
  PROVE  Inv'
  BY DEF Inv, Alone, Steady, NextMovesValid, Scanning, Passed, Behind, Lists, AtOrAfter,
         Present

\* A thread that uses the iterator does nothing to it, or no other thread is in
\* __next__.
LEMMA TurnMeans ==
  ASSUME Undisturbed, NEW t \in Threads, \A u \in Threads : u # t => pc'[u] = pc[u]
  PROVE  \/ UNCHANGED <<cursor, pc, scan>>
         \/ \A u \in Threads : u # t => pc[u] \notin InNext
  BY DEF Undisturbed

\* Where a seek from k puts the iterator, no entry at or after k is behind it.
LEMMA SeekStartsScan ==
  ASSUME NEW k \in Keys, GoesToFirst(AtOrAfter(k)), ~failed', from' = k, view' = view
  PROVE  Behind' = {} /\ (pos' # None => from' <= pos')
<1>1. Present' = Present /\ Present \subseteq Int /\ None \notin Present
  BY CursorAssumption DEF Present
<1>2. Behind' = {j \in Present : k <= j /\ (pos' = None \/ j < pos')}
  BY <1>1 DEF Behind, AtOrAfter
<1>3. CASE AtOrAfter(k) = {} /\ pos' = None
  BY <1>2, <1>3 DEF AtOrAfter
<1>4. CASE pos' \in AtOrAfter(k) /\ \A j \in AtOrAfter(k) : pos' <= j
  <2>1. pos' \in Int /\ k <= pos'
    BY <1>1, <1>4 DEF AtOrAfter
  <2>2. \A j \in Present : k <= j => ~(pos' = None \/ j < pos')
    BY <1>1, <1>4, <2>1 DEF AtOrAfter
  <2> QED
    BY <1>2, <2>1, <2>2
<1> QED
  BY <1>3, <1>4 DEF GoesToFirst, Arrives, Fails

\* Outside __next__ the program may move the iterator.
LEMMA MoveStep ==
  ASSUME Undisturbed, Inv, Typed', NEW t \in Threads,
         \/ SeekToFirst(t) \/ (\E k \in Keys : Seek(t, k)) \/ SeekToLast(t)
         \/ \E d \in {"next", "prev"} : Move(t, d)
  PROVE  Inv'
<1>1. /\ pc[t] = "idle" /\ UNCHANGED <<view, pc, key, value>>
      /\ got' = <<>> /\ ended' = FALSE /\ misused' \in {misused, "caller"}
  BY MoveMeans DEF Inv
<1>2. CASE UNCHANGED <<cursor, pc, scan>>
  BY <1>1, <1>2, QuietStep DEF Inv, NextMovesValid, scan, cursor
<1> SUFFICES ASSUME \A u \in Threads : u # t => pc[u] \notin InNext
             PROVE  Inv'
  BY <1>1, <1>2, TurnMeans
<1>3. Alone' /\ Steady' /\ NextMovesValid'
  BY <1>1 DEF Inv, Alone, Steady, InNext, NextMovesValid
<1>4. from' # None /\ ~failed' => Behind' = {} /\ (pos' # None => from' <= pos')
  <2>1. CASE SeekToFirst(t)
    <3>1. PICK k \in Keys : (\A j \in Keys : k <= j) /\ from' = k
      BY <2>1 DEF SeekToFirst, StartScan
    <3>2. Present = AtOrAfter(k)
      BY <3>1 DEF AtOrAfter, Present
    <3> QED
      BY <2>1, <3>1, <3>2, <1>1, SeekStartsScan DEF SeekToFirst
  <2>2. ASSUME NEW k \in Keys, Seek(t, k)
        PROVE  from' # None /\ ~failed' => Behind' = {} /\ (pos' # None => from' <= pos')
    BY <2>2, <1>1, SeekStartsScan DEF Seek, StartScan
  <2>3. CASE SeekToLast(t) \/ \E d \in {"next", "prev"} : Move(t, d)
    BY <2>3 DEF SeekToLast, Move, StartScan
  <2> QED
    BY <2>1, <2>2, <2>3
<1>5. Lists(<<>>, {})' /\ Passed' = {}
  BY <1>1 DEF Lists, Passed
<1> QED
  BY <1>1, <1>3, <1>4, <1>5 DEF Inv, Scanning

\* A pair beyond all the others may be appended to a listing.
LEMMA ListsAppend ==
  ASSUME Keys \subseteq Int, NEW pairs \in Seq(Keys \X Values), NEW ks \in SUBSET Keys,
         Lists(pairs, ks),
         NEW k \in Keys, \A j \in ks : j < k, NEW v \in Values, view[k] = v
  PROVE  Lists(Append(pairs, <<k, v>>), ks \cup {k})
<1> DEFINE longer == Append(pairs, <<k, v>>)
<1>1. /\ longer \in Seq(Keys \X Values) /\ Len(longer) = Len(pairs) + 1
      /\ \A i \in 1..Len(pairs) : longer[i] = pairs[i]
      /\ longer[Len(pairs) + 1] = <<k, v>>
  OBVIOUS
<1> HIDE DEF longer
<1>2. DOMAIN pairs = 1..Len(pairs) /\ DOMAIN longer = 1..(Len(pairs) + 1) /\ Len(pairs) \in Nat
  BY <1>1
<1>3. \A i \in DOMAIN pairs : pairs[i][1] \in ks
  BY DEF Lists
<1>4. {longer[i][1] : i \in DOMAIN longer} = ks \cup {k}
  <2>1. \A i \in DOMAIN longer : longer[i][1] \in ks \cup {k}
    BY <1>1, <1>2, <1>3
  <2>2. \A j \in ks : \E i \in DOMAIN pairs : pairs[i][1] = j
    BY DEF Lists
  <2>3. \A j \in ks \cup {k} : \E i \in DOMAIN longer : longer[i][1] = j
    BY <1>1, <1>2, <2>2
  <2> QED
    BY <2>1, <2>3
<1>5. \A i \in DOMAIN longer : longer[i][2] = view[longer[i][1]]
  BY <1>1, <1>2 DEF Lists
<1>6. \A i, j \in DOMAIN longer : i < j => longer[i][1] < longer[j][1]
  <2> SUFFICES ASSUME NEW i \in DOMAIN longer, NEW j \in DOMAIN longer, i < j
               PROVE  longer[i][1] < longer[j][1]
    OBVIOUS
  <2>1. CASE j \in DOMAIN pairs
    BY <1>1, <1>2, <2>1 DEF Lists
  <2>2. CASE j = Len(pairs) + 1
    <3>1. i \in DOMAIN pairs /\ longer[i][1] = pairs[i][1] /\ longer[j][1] = k
      BY <1>1, <1>2, <2>2
    <3> QED
      BY <1>3, <3>1
  <2> QED
    BY <1>2, <2>1, <2>2
<1> QED
  BY <1>4, <1>5, <1>6 DEF Lists, longer

\* __next__ appends what the iterator is at, and the iterator goes on to what
\* comes after it.
LEMMA AdvanceStep ==
  ASSUME Inv, Typed', NEW t \in Threads, Advance(t)
  PROVE  Scanning' /\ NextMovesValid'
<1> USE DEF Inv, Typed, TypeOK, AtEntries
<1>1. /\ pc[t] = "next" /\ pos \in Keys /\ pos \in Present
      /\ key[t] = pos /\ value[t] = view[pos] /\ value[t] \in Values /\ pos # None /\ ~failed
  BY DEF Advance, Steady, InNext
<1>2. UNCHANGED <<view, from, ended>> /\ ~ended
  BY <1>1 DEF Advance, Scanning
<1>3. CASE ~open
  BY <1>2, <1>3
  DEF Advance, Scanning, NextMovesValid, Passed, Behind, Lists, AtOrAfter, Present, cursor
<1>4. CASE open
  <2>1. GoesToFirst(After(pos)) /\ UNCHANGED misused
    BY <1>1, <1>4 DEF Advance
  <2>2. CASE from = None
    BY <1>2, <2>1, <2>2, <1>4
    DEF Advance, Scanning, NextMovesValid
  <2>3. CASE from # None
    <3>1. got' = Append(got, <<pos, value[t]>>)
      BY <1>1, <1>4, <2>3 DEF Advance
    <3>2. Lists(Append(got, <<pos, value[t]>>), Behind \cup {pos})
      <4>1. Behind \in SUBSET Keys /\ \A j \in Behind : j < pos
        BY <1>1, CursorAssumption DEF Behind, AtOrAfter, Present
      <4> QED
        BY <4>1, <1>1, <2>3, CursorAssumption, ListsAppend DEF Scanning
    <3>3. from \in Int /\ pos \in Int /\ from <= pos /\ Keys \subseteq Int
      BY <1>1, <2>3, CursorAssumption DEF Scanning
    <3>4. Passed' = Behind \cup {pos}
      <4>1. /\ \A i \in DOMAIN got' : got'[i][1] \in Behind \cup {pos}
            /\ \A j \in Behind \cup {pos} : \E i \in DOMAIN got' : got'[i][1] = j
        BY <3>1, <3>2 DEF Lists
      <4>2. Passed' = {k \in AtOrAfter(from) : \E i \in DOMAIN got' : k <= got'[i][1]}
        BY <1>2 DEF Passed, AtOrAfter, Present
      <4>3. AtOrAfter(from) \subseteq Int /\ Behind = {k \in AtOrAfter(from) : k < pos}
        BY <1>1, <3>3 DEF Behind, AtOrAfter, Present
      <4>4. pos \in AtOrAfter(from)
        BY <1>1, <3>3 DEF AtOrAfter
      <4>5. ASSUME NEW k \in Passed' PROVE k \in Behind \cup {pos}
        <5>1. PICK i \in DOMAIN got' : k \in AtOrAfter(from) /\ k <= got'[i][1]
          BY <4>2, <4>5
        <5>2. got'[i][1] \in Int /\ got'[i][1] <= pos
          BY <4>1, <4>3, <3>3
        <5>3. k < pos \/ k = pos
          BY <5>1, <5>2, <4>3, <3>3
        <5> QED
          BY <5>1, <5>3, <4>3
      <4>6. ASSUME NEW k \in Behind \cup {pos} PROVE k \in Passed'
        <5>1. PICK i \in DOMAIN got' : got'[i][1] = k
          BY <4>1
        <5>2. k \in AtOrAfter(from) /\ k <= k
          BY <4>3, <4>4
        <5> QED
          BY <5>1, <5>2, <4>2
      <4> QED
        BY <4>5, <4>6
    <3>5. Lists(got, Passed)'
      BY <3>1, <3>2, <3>4, <1>2 DEF Lists
    <3>6. ASSUME ~failed'
          PROVE  Behind' = Behind \cup {pos} /\ (pos' # None => from' <= pos')
      <4>1. CASE After(pos) = {} /\ pos' = None
        <5>1. \A k \in Present : k <= pos
          BY <4>1, <3>3 DEF Present, After
        <5>2. Behind' = {k \in Present : from <= k}
          BY <4>1, <1>2 DEF Behind, AtOrAfter, Present
        <5>3. Behind = {k \in Present : from <= k /\ k < pos}
          BY <1>1 DEF Behind, AtOrAfter, Present
        <5>4. Present \subseteq Int
          BY <3>3 DEF Present
        <5>5. \A k \in Present : from <= k <=> (from <= k /\ k < pos) \/ k = pos
          BY <5>1, <5>4, <1>1, <3>3
        <5>6. Behind' = Behind \cup {pos}
          BY <5>2, <5>3, <5>5, <1>1
        <5> QED
          BY <4>1, <5>6
      <4>2. CASE pos' \in After(pos) /\ \A j \in After(pos) : pos' <= j
        <5>1. pos' \in Keys /\ pos' # None /\ pos < pos' /\ pos' \in Int
          BY <4>2, <3>3, CursorAssumption DEF After, Present
        <5>2. \A k \in Present : k < pos' <=> k <= pos
          BY <4>2, <5>1, <1>1, <3>3 DEF After, Present
        <5>3. Behind' = {k \in Present : from <= k /\ k < pos'}
          BY <5>1, <1>2 DEF Behind, AtOrAfter, Present
        <5>4. Behind = {k \in Present : from <= k /\ k < pos}
          BY <1>1 DEF Behind, AtOrAfter, Present
        <5>5. Present \subseteq Int
          BY <3>3 DEF Present
        <5>6. \A k \in Present : from <= k /\ k < pos' <=> (from <= k /\ k < pos) \/ k = pos
          BY <5>2, <5>5, <1>1, <3>3
        <5>7. Behind' = Behind \cup {pos}
          BY <5>3, <5>4, <5>6, <1>1
        <5> QED
          BY <5>1, <5>7, <1>2, <3>3
      <4> QED
        BY <2>1, <3>6, <4>1, <4>2 DEF GoesToFirst, Arrives, Fails
    <3>7. ASSUME ~failed' PROVE Lists(got, Behind)'
      BY <3>1, <3>2, <3>6, <3>7, <1>2 DEF Lists
    <3> QED
      BY <3>5, <3>6, <3>7, <1>2, <2>1 DEF Scanning, NextMovesValid
  <2> QED
    BY <2>2, <2>3
<1> QED
  BY <1>3, <1>4

\* The steps of __next__.
LEMMA NextStep ==
  ASSUME Undisturbed, Inv, Typed', NEW t \in Threads,
         Valid(t, "idle", "key_valid") \/ Proceed(t)
  PROVE  Inv'
<1>1. \A u \in Threads : u # t => pc'[u] = pc[u]
  BY DEF Inv, Typed, TypeOK, Proceed, Valid, ReadKey, ReadValue, Advance, Goto
<1>2. CASE UNCHANGED <<cursor, pc, scan>>
  <2>1. UNCHANGED <<view, key, value, misused>>
    BY <1>2 DEF Inv, Typed, TypeOK, Proceed, Valid, ReadKey, ReadValue, Advance, Goto
  <2> QED
    BY <1>2, <2>1, QuietStep DEF Inv, NextMovesValid, scan, cursor
<1>3. ASSUME \A u \in Threads : u # t => pc[u] \notin InNext PROVE Inv'
  <2> USE <1>1, <1>3
      DEF Inv, Typed, TypeOK, Alone, Steady, InNext, Goto, NextMovesValid, scan,
          cursor, Scanning, Passed, Behind, Lists, AtOrAfter, Present
  <2>1. ASSUME NEW here, NEW there,
               <<here, there>> \in {<<"idle", "key_valid">>, <<"key_valid", "key">>,
                                    <<"value_valid", "value">>},
               Valid(t, here, there)
        PROVE  Inv'
    BY <2>1 DEF Valid
  <2>2. CASE ReadKey(t)
    BY <2>2 DEF ReadKey
  <2>3. CASE ReadValue(t)
    BY <2>3 DEF ReadValue
  <2>4. CASE Advance(t)
    <3>1. pc' = [pc EXCEPT ![t] = "idle"] /\ UNCHANGED <<view, key, value>>
      BY <2>4 DEF Advance
    <3>2. Scanning' /\ NextMovesValid'
      BY <2>4, AdvanceStep
    <3> QED
      BY <3>1, <3>2
  <2> QED
    BY <2>1, <2>2, <2>3, <2>4 DEF Proceed
<1> QED
  BY <1>1, <1>2, <1>3, TurnMeans

\* If the threads take turns, Inv is inductive.
LEMMA InvStep == Inv /\ [Next /\ Undisturbed]_vars => Inv'
<1> SUFFICES ASSUME Inv, [Next /\ Undisturbed]_vars PROVE Inv'
  OBVIOUS
<1>1. Typed'
  BY TypedStep DEF Inv
<1>2. ASSUME UNCHANGED <<view, pos, failed, pc, key, value, from, got, ended, misused>> PROVE Inv'
  BY <1>1, <1>2, QuietStep DEF Inv, NextMovesValid
<1>3. ASSUME NEW k \in Keys, NEW v \in Values \cup {Absent}, Write(k, v) PROVE Inv'
  BY <1>2, <1>3 DEF Write, locals, scan, cursor
<1>4. CASE Close
  BY <1>2, <1>4 DEF Close, locals, scan, cursor
<1>5. CASE UNCHANGED vars
  BY <1>2, <1>5 DEF vars
<1> QED
  BY <1>1, <1>3, <1>4, <1>5, MoveStep, NextStep DEF Next

\* The invariant holds as long as the threads take turns.
THEOREM Invariance == TurnsSpec => []Inv
  BY InitInv, InvStep, PTL DEF TurnsSpec

\* Nothing that the rest of the program does, writing and closing, disturbs a
\* single thread in __next__.
LEMMA OneThreadTakesTurns ==
  ASSUME \A t, u \in Threads : t = u
  PROVE  Spec => TurnsSpec
<1>1. Init => Typed
  BY InitInv DEF Inv
<1>2. Typed /\ [Next]_vars => [Next /\ Undisturbed]_vars
  <2> SUFFICES ASSUME Typed, Next, NEW t \in Threads, pc[t] \in InNext
               PROVE  pc'[t] # pc[t] \/ UNCHANGED <<cursor, pc, scan>>
    BY DEF Undisturbed
  <2>1. pc[t] # "idle"
    BY DEF InNext
  <2>2. ASSUME NEW u \in Threads, Proceed(u) PROVE pc'[t] # pc[t]
    BY <2>2 DEF Typed, TypeOK, Proceed, Valid, ReadKey, ReadValue, Advance, Goto
  <2>3. ASSUME NEW u \in Threads
        PROVE  /\ ~SeekToFirst(u) /\ ~SeekToLast(u) /\ ~Valid(u, "idle", "key_valid")
               /\ \A k \in Keys : ~Seek(u, k)
               /\ \A d \in {"next", "prev"} : ~Move(u, d)
    BY <2>1 DEF SeekToFirst, SeekToLast, Seek, Move, Valid, Idle
  <2>4. ASSUME NEW k \in Keys, NEW v \in Values \cup {Absent}, Write(k, v) \/ Close
        PROVE  UNCHANGED <<cursor, pc, scan>>
    BY <2>4 DEF Write, Close, locals
  <2>5. CASE Close
    BY <2>5 DEF Close, locals
  <2>6. CASE UNCHANGED vars
    BY <2>6 DEF vars, scan, cursor
  <2> QED
    BY <2>2, <2>3, <2>4, <2>5, <2>6 DEF Next
<1> QED
  BY <1>1, <1>2, TypedStep, PTL DEF Spec, TurnsSpec

\* Used in turns, __next__ lists the pairs there were, in order, and neither
\* skips nor repeats one, whoever writes to the database meanwhile.
THEOREM TurnsFollowView == TurnsSpec => []ScanFollowsView
<1>1. Inv => ScanFollowsView
  BY DEF Inv, Scanning, ScanFollowsView
<1> QED
  BY <1>1, Invariance, PTL

\* ... and raises StopIteration only once it has returned every one, unless an
\* error in reading stopped it.
THEOREM TurnsHideOnlyErrors == TurnsSpec => []StopHidesOnlyErrors
<1>1. Inv => StopHidesOnlyErrors
  <2> SUFFICES ASSUME Inv, ended, ~failed PROVE from # None /\ Lists(got, AtOrAfter(from))
    BY DEF StopHidesOnlyErrors
  <2>1. from # None /\ Lists(got, Behind) /\ pos = None
    BY DEF Inv, Scanning
  <2>2. Behind = AtOrAfter(from)
    BY <2>1 DEF Behind
  <2> QED
    BY <2>1, <2>2
<1> QED
  BY <1>1, Invariance, PTL

\* A program that uses the iterator from one thread needs no lock for all this,
\* though others write to the database and one may close it in mid-loop.
THEOREM OneThreadNeedsNoLock ==
  ASSUME \A t, u \in Threads : t = u
  PROVE  Spec => [](ScanFollowsView /\ StopHidesOnlyErrors)
<1>1. Spec => TurnsSpec
  BY OneThreadTakesTurns
<1> QED
  BY <1>1, TurnsFollowView, TurnsHideOnlyErrors, PTL

\* Used in turns, __next__ never moves an iterator that is not valid.
THEOREM TurnsMoveValid == TurnsSpec => []NextMovesValid
<1>1. Inv => NextMovesValid
  BY DEF Inv
<1> QED
  BY <1>1, Invariance, PTL

-----------------------------------------------------------------------------
(* Closed iterators *)

\* Whatever the number of threads, a closed iterator stays closed and nothing
\* is read from it or moved in it.
THEOREM ClosedStaysInert == Spec => ClosedIsInert
<1>1. [Next]_vars => [~open => UNCHANGED <<open, pos, key, value, got>>]_vars
  <2> SUFFICES ASSUME [Next]_vars, ~UNCHANGED vars, ~open
               PROVE  UNCHANGED <<open, pos, key, value, got>>
    OBVIOUS
  <2>1. ASSUME NEW t \in Threads
        PROVE  /\ ~SeekToFirst(t) /\ ~SeekToLast(t)
               /\ \A k \in Keys : ~Seek(t, k)
               /\ \A d \in {"next", "prev"} : ~Move(t, d)
    BY DEF SeekToFirst, SeekToLast, Seek, Move
  <2>2. ASSUME NEW t \in Threads, Valid(t, "idle", "key_valid") \/ Proceed(t)
        PROVE  UNCHANGED <<open, pos, key, value, got>>
    BY <2>2 DEF Proceed, Valid, ReadKey, ReadValue, Advance, scan, cursor
  <2>3. ~Close
    BY DEF Close
  <2>4. ASSUME NEW k \in Keys, NEW v \in Values \cup {Absent}, Write(k, v)
        PROVE  UNCHANGED <<open, pos, key, value, got>>
    BY <2>4 DEF Write, locals, scan, cursor
  <2> QED
    BY <2>1, <2>2, <2>3, <2>4 DEF Next
<1> QED
  BY <1>1, PTL DEF Spec, ClosedIsInert
=============================================================================
