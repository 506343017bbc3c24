--------------------------- MODULE RecordSequence ---------------------------
(***************************************************************************)
(* What a sequential, line-sequential or relative file promises, with no   *)
(* bytes: a sequence of slots, each empty or a record, and a place in it,  *)
(* the number of slots behind the next READ NEXT.  RecordFile implements   *)
(* it.  A call by record number that fails leaves place and the record     *)
(* number the program is told anywhere: `sure` says they still agree.      *)
(***************************************************************************)
EXTENDS Integers, Sequences, SequencesExt, FiniteSetsExt, FileAnswers

CONSTANTS NoRecord, Records, Numbers

VARIABLES
  records,   \* the slots
  durable,   \* how many of them a crash cannot take
  shut,      \* closed WITH LOCK
  opened,    \* the open mode, or "Closed"
  place,
  sure,
  selected,  \* REWRITE has a record to replace
  ended,     \* AT END was returned
  answer     \* the last call: the record number and the record it was given,
             \* or the record it delivered, and its status

vars == <<records, durable, shut, opened, place, sure, selected, ended, answer>>

SaysOf(op, n, status) ==
  answer' = [op |-> op, number |-> n, status |-> status, record |-> NoRecord]
Says(op, status) == SaysOf(op, 0, status)
GivesOf(op, n, r) == answer' = [op |-> op, number |-> n, status |-> FsOk, record |-> r]
Gives(op, r) == GivesOf(op, 0, r)

Live == {n \in DOMAIN records : records[n] # NoRecord}
Ahead == {n \in Live : n > place}

(* The calls by record number; there is no record 0. *)
ByNumber == {"read", "writeAt", "deleteAt", "start"}

(* Refused calls change nothing. *)
Refused ==
  /\ \E op \in {"open", "close", "readNext", "write", "rewrite", "delete"} \cup ByNumber :
       \E status \in {FsNotFound, FsLocked, FsAlreadyOpen, FsNotOpen, FsReadNotPermitted,
                      FsWriteNotPermitted, FsIoModeRequired, FsRewriteWithoutRead,
                      FsRecordLengthMismatch, FsRecNotFound, FsIoError} :
         /\ Says(op, status)
         /\ status = FsLocked => shut
         /\ status = FsAlreadyOpen => opened # "Closed"
         /\ status = FsNotOpen => opened = "Closed"
         /\ status = FsNotFound => records = <<>>
         /\ status = FsRecNotFound => op \in ByNumber
         /\ status = FsRewriteWithoutRead => opened = "IoMode" /\ ~selected
  /\ UNCHANGED <<records, durable, shut, opened, place, sure, selected, ended>>

Writing(m) == m \in {"Output", "Extend"}

Rewound == sure' = TRUE /\ selected' = FALSE /\ ended' = FALSE

Open ==
  /\ opened = "Closed" /\ ~shut
  /\ \E m \in {"Input", "Output", "IoMode", "Extend"} :
       opened' = m /\ records' = IF m = "Output" THEN <<>> ELSE records
  /\ durable' = Len(records')
  /\ place' = IF Writing(opened') THEN Len(records') ELSE 0
  /\ \E s \in {FsOk, FsOptionalCreated} : Says("open", s)
  /\ Rewound
  /\ UNCHANGED shut

(* CLOSE and STOP RUN keep every record. *)
Close ==
  /\ opened' = "Closed"
  /\ \/ Says("close", FsOk) /\ opened # "Closed" /\ (shut => shut')
     \/ Says("stop", FsOk) /\ ~shut'
  /\ durable' = Len(records) /\ place' = 0
  /\ Rewound
  /\ UNCHANGED records

(* A crash takes a number of the last records, never one in the middle. *)
Crash ==
  /\ opened # "Closed"
  /\ opened' = "Closed" /\ ~shut'
  /\ \E n \in durable..Len(records) : records' = SubSeq(records, 1, n)
  /\ durable' = Len(records') /\ place' = 0
  /\ Says("crash", FsOk)
  /\ Rewound

ReadNext ==
  /\ opened \in {"Input", "IoMode"}
  /\ \/ /\ Ahead # {}
        /\ Gives("readNext", records[Min(Ahead)])
        /\ place' = Min(Ahead)
        /\ selected' = TRUE /\ ended' = FALSE
     \/ /\ Ahead = {}
        /\ IF ended /\ place >= Len(records)
             THEN Says("readNext", FsNoValidNextRecord) /\ UNCHANGED place
             ELSE Says("readNext", FsAtEnd) /\ place' = Max({place, Len(records)})
        /\ selected' = FALSE /\ ended' = TRUE
  /\ UNCHANGED <<records, durable, shut, opened, sure>>

(* A call that found nothing where it looked. *)
Astray(op, n, status) ==
  /\ SaysOf(op, n, status)
  /\ place' \in Nat /\ sure' \in BOOLEAN
  /\ selected' \in {selected, FALSE}
  /\ UNCHANGED <<records, durable, shut, opened, ended>>

Read(n) ==
  /\ opened \in {"Input", "IoMode"}
  /\ \/ /\ n \in Live
        /\ GivesOf("read", n, records[n])
        /\ place' = n /\ sure' = TRUE /\ selected' = TRUE /\ ended' = FALSE
        /\ UNCHANGED <<records, durable, shut, opened>>
     \/ n \notin Live /\ Astray("read", n, FsRecNotFound)

Satisfying(relation, n) ==
  {m \in Live : CASE relation = "EQ" -> m = n
                  [] relation = "GT" -> m > n
                  [] relation = "GE" -> m >= n
                  [] relation = "LT" -> m < n
                  [] relation = "LE" -> m <= n}

(* The next READ NEXT delivers the nearest record that satisfies it. *)
Start(n, relation) ==
  /\ opened # "Closed"
  /\ LET S == Satisfying(relation, n)
     IN  \/ /\ S # {}
            /\ place' = (IF relation \in {"LT", "LE"} THEN Max(S) ELSE Min(S)) - 1
            /\ sure' = TRUE /\ selected' = FALSE /\ ended' = FALSE
            /\ SaysOf(relation, n, FsOk)
            /\ UNCHANGED <<records, durable, shut, opened>>
         \/ S = {} /\ Astray(relation, n, FsRecNotFound)

(* The slots with r in slot n; the slots in between are empty. *)
With(n, r) ==
  [m \in 1..Max({n, Len(records)}) |->
     IF m = n THEN r ELSE IF m \in DOMAIN records THEN records[m] ELSE NoRecord]

(* OPEN OUTPUT and EXTEND add a record: their place is behind the last     *)
(* one. In I-O mode the next slot is taken, whatever is in it.             *)
Write(r) ==
  /\ opened \in {"Output", "Extend", "IoMode"}
  /\ records' = With(place + 1, r) /\ place' = place + 1
  /\ durable' \in durable..Len(records')
  /\ Gives("write", r)
  /\ UNCHANGED <<shut, opened, sure, selected, ended>>

(* By record number a record is never written over another one. *)
WriteAt(n, r) ==
  /\ opened \in {"Output", "IoMode"}
  /\ \/ /\ n \notin Live
        /\ records' = With(n, r) /\ durable' = Len(records')
        /\ place' = n /\ sure' = TRUE /\ selected' = FALSE
        /\ GivesOf("writeAt", n, r)
        /\ UNCHANGED <<shut, opened, ended>>
     \/ n \in Live /\ Astray("writeAt", n, FsDuplicateKey)

(* REWRITE replaces the record that was delivered last, or the one written *)
(* last over it; DELETE without a key empties the slot behind place.       *)
Rewrite(r) ==
  /\ opened = "IoMode" /\ selected
  /\ \E n \in Numbers :
       /\ sure => n = Max({place, 1})
       /\ records' = With(n, r)
       /\ place' = n /\ sure' \in BOOLEAN /\ (sure /\ place > 0 => sure')
  /\ durable' = Len(records')
  /\ Gives("rewrite", r)
  /\ UNCHANGED <<shut, opened, selected, ended>>

Delete ==
  /\ opened = "IoMode"
  /\ \E n \in Numbers :
       /\ sure => n = Max({place, 1})
       /\ records' = With(n, NoRecord)
       /\ place' = n /\ sure' \in BOOLEAN /\ (sure /\ place > 0 => sure')
  /\ durable' = Len(records')
  /\ Says("delete", FsOk)
  /\ UNCHANGED <<shut, opened, selected, ended>>

DeleteAt(n) ==
  /\ opened = "IoMode"
  /\ records' = With(n, NoRecord) /\ durable' = Len(records')
  /\ place' = n /\ sure' = TRUE /\ selected' = FALSE
  /\ SaysOf("deleteAt", n, FsOk)
  /\ UNCHANGED <<shut, opened, ended>>

Init ==
  /\ records = <<>> /\ durable = 0 /\ shut = FALSE /\ opened = "Closed"
  /\ place = 0 /\ sure = TRUE /\ selected = FALSE /\ ended = FALSE
  /\ answer = [op |-> "stop", number |-> 0, status |-> FsOk, record |-> NoRecord]

Next ==
  \/ Refused \/ Open \/ Close \/ Crash \/ ReadNext \/ Delete
  \/ \E r \in Records : Write(r) \/ Rewrite(r)
  \/ \E n \in Numbers :
       \/ Read(n) \/ DeleteAt(n)
       \/ \E relation \in {"EQ", "GT", "GE", "LT", "LE"} : Start(n, relation)
       \/ \E r \in Records : WriteAt(n, r)

Spec == Init /\ [][Next]_vars
=============================================================================
