---------------------------- MODULE KeyValueStore ----------------------------
(***************************************************************************)
(* What the methods of RocksDB promise together: one value per cell, where *)
(* a cell is a database, a column family of it and a key; a call that      *)
(* returns has taken effect whole, a call that raises has had no effect.   *)
(***************************************************************************)
EXTENDS Naturals

CONSTANTS
    Cells,              \* every <<database, column family, key>>
    Values,
    Absent              \* what an absent key reads as

VARIABLES
    contents,           \* the value of each cell
    call                \* the last call: what it asked for and its reply

vars == <<contents, call>>

Init == contents = [c \in Cells |-> Absent]

\* The last of the writes to a cell is the one that stays.
Overwritten(writes) ==
    [c \in Cells |->
        LET on == {i \in DOMAIN writes : writes[i].cell = c}
        IN  IF on = {} THEN contents[c]
            ELSE writes[CHOOSE i \in on : \A j \in on : j <= i].value]

Writing == call'.op \in {"put", "delete", "write"} /\ call'.reply = "ok"
Reading == call'.op = "get" /\ call'.reply \in Values \cup {Absent}

Write == Writing /\ contents' = Overwritten(call'.writes)
Read  == Reading /\ call'.reply = contents[call'.cell] /\ UNCHANGED contents
Other == ~Writing /\ ~Reading /\ UNCHANGED contents

Next == Write \/ Read \/ Other

Spec == Init /\ [][Next]_vars
=============================================================================
