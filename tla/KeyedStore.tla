----------------------------- MODULE KeyedStore -----------------------------
(***************************************************************************)
(* What an INDEXED file promises the program, with no slots, no indexes    *)
(* and no cursor: a set of records with unique keys, and a status for each *)
(* call that is decided by that set alone.  IndexedFile implements it.     *)
(***************************************************************************)
EXTENDS Integers, FileAnswers

CONSTANTS PrimaryKeys, AlternateKeys, Probes, Access, AltDuplicates, OpenModes

VARIABLES
  records,   \* the alternate key of each primary key present
  volatile,  \* keys whose record a crash would lose
  opened,    \* the open mode, or "Closed"
  reference, \* the key of reference: 1 primary, 2 alternate
  answer     \* what the last call returned

vars == <<records, volatile, opened, reference, answer>>

Relations == {"EQ", "GT", "GE", "LT", "LE"}
NoRecord == [pk |-> 0, alt |-> 0]
Present == DOMAIN records
Record(k) == [pk |-> k, alt |-> records[k]]

(* The two orders of the records: 1 by primary key, 2 by alternate key. *)
KeyIn(i, k) == IF i = 1 THEN k ELSE records[k]

Readable == opened \in {"Input", "IoMode"}
Writable == opened \in {"Output", "Extend", "IoMode"}

Says(op, status) == answer' = [op |-> op, status |-> status, rec |-> NoRecord]
Gives(op, status, k) == answer' = [op |-> op, status |-> status, rec |-> Record(k)]
Only(op, status) == Says(op, status) /\ UNCHANGED <<records, volatile, opened, reference>>

(* Another present record has this alternate key. *)
AltTaken(k, a) == ~AltDuplicates /\ \E j \in Present \ {k} : records[j] = a

(* Status 02 exactly when another record shares the key that was read. *)
Shared(i, k) == \E j \in Present \ {k} : KeyIn(i, j) = KeyIn(i, k)
FoundStatus(i, k) ==
  IF i = 2 /\ AltDuplicates /\ Shared(i, k) THEN FsDuplicateAltSuccess ELSE FsOk

Init ==
  /\ records = [k \in {} |-> 0]
  /\ volatile = {}
  /\ opened = "Closed"
  /\ reference = 1
  /\ answer = [op |-> "close", status |-> FsOk, rec |-> NoRecord]

Open(m) ==
  /\ opened = "Closed"
  /\ \E s \in {FsOk, FsOptionalCreated} : Says("open", s)
  /\ opened' = m
  /\ reference' = 1
  /\ records' = IF m = "Output" THEN [k \in {} |-> 0] ELSE records
  /\ UNCHANGED volatile

OpenRefused ==
  \/ opened = "Closed" /\ Present = {} /\ Only("open", FsNotFound)
  \/ opened # "Closed" /\ Only("open", FsAlreadyOpen)

Close ==
  /\ opened # "Closed"
  /\ Says("close", FsOk)
  /\ opened' = "Closed"
  /\ reference' = 1
  /\ volatile' = {}
  /\ UNCHANGED records

Crash ==
  /\ opened # "Closed"
  /\ Says("crash", FsOk)
  /\ opened' = "Closed"
  /\ reference' = 1
  /\ volatile' = {}
  /\ records' = [k \in Present \ volatile |-> records[k]]

(* A WRITE adds exactly the record it was given, or says why it cannot. *)
Insert(k, a) ==
  /\ Writable
  /\ Says("write", FsOk)
  /\ k \notin Present /\ ~AltTaken(k, a)
  /\ records' = [j \in Present \cup {k} |-> IF j = k THEN a ELSE records[j]]
  /\ volatile' \in IF opened = "IoMode" THEN {{}} ELSE {{}, {k}}
  /\ UNCHANGED <<opened, reference>>

InsertRefused(k, a) ==
  /\ Writable
  /\ \/ Only("write", FsDuplicateKey) /\ (k \in Present \/ AltTaken(k, a))
     \/ /\ Only("write", FsSequenceError)
        /\ Access = "Sequential" /\ \E j \in Present : j >= k

(* A REWRITE replaces exactly the record with its primary key. *)
Update(k, a) ==
  /\ opened = "IoMode"
  /\ Says("rewrite", FsOk)
  /\ k \in Present /\ ~AltTaken(k, a)
  /\ records' = [records EXCEPT ![k] = a]
  /\ UNCHANGED <<volatile, opened, reference>>

UpdateRefused(k, a) ==
  /\ opened = "IoMode"
  /\ \/ Only("rewrite", FsDuplicateKey) /\ k \in Present /\ AltTaken(k, a)
     \/ Only("rewrite", FsRecNotFound) /\ k \notin Present
     \/ Only("rewrite", FsRewriteWithoutRead)

(* A DELETE removes exactly one record, or none. *)
Remove(k) ==
  /\ opened = "IoMode"
  /\ Says("delete", FsOk)
  /\ k \in Present
  /\ records' = [j \in Present \ {k} |-> records[j]]
  /\ UNCHANGED <<volatile, opened, reference>>

RemoveNothing == opened = "IoMode" /\ Only("delete", FsRecNotFound)

(* A keyed READ gives a record with the lowest key that matches. *)
Matching(i, p) == {k \in Present : KeyIn(i, k) \in p[1]..p[2]}

Fetch(i, p, k) ==
  /\ Readable
  /\ k \in Matching(i, p)
  /\ \A j \in Matching(i, p) : KeyIn(i, k) <= KeyIn(i, j)
  /\ Gives("readKey", FoundStatus(i, k), k)
  /\ reference' = i
  /\ UNCHANGED <<records, volatile, opened>>

FetchNothing(i, p) ==
  Readable /\ Only("readKey", FsRecNotFound) /\ Matching(i, p) = {}

(* READ NEXT gives a present record, or reports the end. *)
Scan(k) ==
  /\ Readable
  /\ k \in Present
  /\ Gives("readNext", FoundStatus(reference, k), k)
  /\ UNCHANGED <<records, volatile, opened, reference>>

ScanEnd == Readable /\ \E s \in {FsAtEnd, FsNoValidNextRecord} : Only("readNext", s)

(* START succeeds exactly when some record stands in the relation. *)
Related(i, p, rel, k) ==
  \/ rel = "EQ" /\ KeyIn(i, k) \in p[1]..p[2]
  \/ rel = "GT" /\ KeyIn(i, k) > p[2]
  \/ rel = "GE" /\ KeyIn(i, k) >= p[1]
  \/ rel = "LT" /\ KeyIn(i, k) < p[1]
  \/ rel = "LE" /\ KeyIn(i, k) <= p[2]

Position(i, p, rel) ==
  /\ opened # "Closed"
  /\ Says("start", FsOk)
  /\ \E k \in Present : Related(i, p, rel, k)
  /\ reference' = i
  /\ UNCHANGED <<records, volatile, opened>>

PositionNothing(i, p, rel) ==
  /\ opened # "Closed"
  /\ Only("start", FsRecNotFound)
  /\ ~ \E k \in Present : Related(i, p, rel, k)

Denied ==
  \/ ~Readable /\ \E op \in {"readNext", "readKey"} : Only(op, FsReadNotPermitted)
  \/ ~Writable /\ Only("write", FsWriteNotPermitted)
  \/ opened # "IoMode" /\ \E op \in {"rewrite", "delete"} : Only(op, FsIoModeRequired)
  \/ opened = "Closed" /\ \E op \in {"close", "start"} : Only(op, FsNotOpen)

Next ==
  \/ \E m \in OpenModes : Open(m)
  \/ OpenRefused \/ Close \/ Crash \/ RemoveNothing \/ ScanEnd \/ Denied
  \/ \E k \in PrimaryKeys, a \in AlternateKeys :
       Insert(k, a) \/ InsertRefused(k, a) \/ Update(k, a) \/ UpdateRefused(k, a)
  \/ \E k \in PrimaryKeys : Remove(k) \/ Scan(k)
  \/ \E i \in 1..2, p \in Probes :
       \/ FetchNothing(i, p)
       \/ \E k \in PrimaryKeys : Fetch(i, p, k)
       \/ \E rel \in Relations : Position(i, p, rel) \/ PositionNothing(i, p, rel)

Spec == Init /\ [][Next]_vars
=============================================================================
