----------------------------- MODULE AtomicOpen -----------------------------
(***************************************************************************)
(* What opening a database promises, with or without the names of its      *)
(* column families: a session for writing is there at once, alone, and     *)
(* knows every column family; a session for reading knows some of them.    *)
(* One that was asked for without names knows all the column families that *)
(* there were throughout the call, and none, but the default one, that was *)
(* never there.                                                            *)
(***************************************************************************)
CONSTANTS Clients, Names, Default, Other, None

VARIABLES
    disk,               \* the column families of the database, {} if none
    known,              \* those that each client's session knows, {} if it
                        \* has none
    writer,             \* who has the database open for writing
    asking,             \* the clients in the middle of opening without names
    during              \* what there was at some and at every moment of that

vars == <<disk, known, writer, asking, during>>

Unseen == [ever |-> {}, still |-> {}]

Init ==
    /\ disk = {}
    /\ known = [c \in Clients |-> {}]
    /\ writer = None
    /\ asking = {}
    /\ during = [c \in Clients |-> Unseen]

Watch ==
    during' = [c \in Clients |->
        IF c \notin asking' THEN Unseen
        ELSE IF c \notin asking THEN [ever |-> disk', still |-> disk']
        ELSE [ever |-> during[c].ever \cup disk', still |-> during[c].still \cap disk']]

Ask(c) ==
    /\ known[c] = {}
    /\ asking' = asking \cup {c}
    /\ UNCHANGED <<disk, known, writer>>

\* A session that knows ns answers the call that c is in.
Answers(c, ns) ==
    /\ known[c] = {} /\ Default \in ns
    /\ c \in asking => /\ during[c].still \subseteq ns
                       /\ ns \subseteq during[c].ever \cup {Default}
    /\ known' = [known EXCEPT ![c] = ns]
    /\ asking' = asking \ {c}

OpenForWriting(c) ==
    /\ writer = None
    /\ disk \subseteq disk' /\ disk' \subseteq Names
    /\ Answers(c, disk')
    /\ writer' = c

OpenForReading(c) ==
    /\ \E ns \in SUBSET disk : Answers(c, ns)
    /\ UNCHANGED <<disk, writer>>

\* A call that fails may leave a database behind where there was none, and
\* nothing else.
Fail(c) ==
    /\ known[c] = {}
    /\ asking' = asking \ {c}
    /\ \/ UNCHANGED disk
       \/ writer = None /\ disk = {} /\ disk' = {Default}
    /\ UNCHANGED <<known, writer>>

Close(c) ==
    /\ known[c] # {}
    /\ known' = [known EXCEPT ![c] = {}]
    /\ writer' = IF writer = c THEN None ELSE writer
    /\ UNCHANGED <<disk, asking>>

\* Another process opens the database, works on it, closes it, and deletes it
\* while no one has it open for writing.
OtherOpens == writer = None /\ writer' = Other /\ disk' = disk \cup {Default}

OtherWrites ==
    /\ writer = Other /\ writer' = Other
    /\ \E n \in Names \ {Default} : disk' \in {disk \cup {n}, disk \ {n}}

OtherCloses == writer = Other /\ writer' = None /\ disk' = disk

OtherDestroys == writer = None /\ writer' = None /\ disk' = {}

Next ==
    /\ \/ \E c \in Clients :
             Ask(c) \/ OpenForWriting(c) \/ OpenForReading(c) \/ Fail(c) \/ Close(c)
       \/ /\ OtherOpens \/ OtherWrites \/ OtherCloses \/ OtherDestroys
          /\ UNCHANGED <<known, asking>>
    /\ Watch

Spec == Init /\ [][Next]_vars
=============================================================================
