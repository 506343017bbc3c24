----------------------------- MODULE RecordFile -----------------------------
(***************************************************************************)
(* Sequential, line-sequential and relative files (cobol-runtime/src/      *)
(* file_io.rs): one file, its bytes, and the handle of the process that    *)
(* has it open.  Nothing but the position in the bytes and a record        *)
(* counter tells the runtime where it is, so both are kept as the code     *)
(* keeps them, and a record is what the runtime makes of the bytes.        *)
(*                                                                         *)
(* A unit is one byte of a line-sequential file and four of any other, the *)
(* size of the length field in front of a record of varying length.        *)
(***************************************************************************)
EXTENDS Integers, Sequences, SequencesExt, FiniteSetsExt, FileAnswers

CONSTANTS
  Width,      \* the length of the record area, in units
  Kinds,      \* the kinds of file the program may have, see the assumptions
  MaxRecords  \* bound: the record slots a file may grow to; the record number
              \* the program is told may go one further

Zero == 0
NewLine == 10
Space == 32
LengthField(n) == 100 + n

Sequential == "Sequential"
LineSequential == "LineSequential"
Relative == "Relative"

(* texts: what the program writes; keyed: it has a RELATIVE KEY; locking:  *)
(* it closes WITH LOCK.                                                    *)
ASSUME KindsAssumption ==
  /\ Width \in Nat \ {0} /\ MaxRecords \in Nat
  /\ \A k \in Kinds :
       /\ k.organization \in {Sequential, LineSequential, Relative}
       /\ k.access \in {"Sequential", "Dynamic"}
       /\ k.varying \in BOOLEAN /\ k.keyed \in BOOLEAN /\ k.optional \in BOOLEAN /\ k.locking \in BOOLEAN
       /\ k.varying => k.organization = Sequential
       /\ k.keyed => k.organization = Relative
       /\ k.access = "Dynamic" => k.keyed
       /\ k.modes \subseteq {"Input", "Output", "IoMode", "Extend"}
ASSUME TextsAssumption ==
  \A k \in Kinds : \A t \in k.texts :
    t \in Seq(Nat) /\ Len(t) \in 1..Width /\ (~k.varying => Len(t) = Width)

VARIABLES
  kind,           \* the kind of this file; never changes
  exists,         \* the file is in the file system
  bytes,          \* its units, with those still in the BufWriter
  safe,           \* how many of them are out of the BufWriter
  locked,         \* closed WITH LOCK in this process
  mode,           \* the open mode, or "Closed"
  position,       \* of the next unit that is read or written
  currentRecord,  \* the record number the program is told
  lastReadValid,
  atEndSeen,
  reply           \* the last call: the record number it was given, the record
                  \* it was given or delivered, and its status

store == <<exists, bytes, safe>>
cursor == <<position, currentRecord, lastReadValid, atEndSeen>>
vars == <<kind, store, locked, mode, cursor, reply>>

NoRecord == [text |-> <<>>, length |-> 0]

AnswerOf(op, n, status) ==
  reply' = [op |-> op, number |-> n, status |-> status, record |-> NoRecord]
Answer(op, status) == AnswerOf(op, 0, status)
DeliverOf(op, n, r) ==
  reply' = [op |-> op, number |-> n, status |-> FsOk, record |-> r]
Deliver(op, r) == DeliverOf(op, 0, r)

Refuse(op, status) ==
  Answer(op, status) /\ UNCHANGED <<kind, store, locked, mode, cursor>>

----------------------------------------------------------------------------
(* Bytes and records *)

IsRelative == kind.organization = Relative
Writing == mode = "Extend" \/ (mode = "Output" /\ ~IsRelative)   \* a BufWriter

Padded(t) == [n \in 1..Width |-> IF n \in DOMAIN t THEN t[n] ELSE Space]

Trimmed(t) ==
  LET kept == {n \in DOMAIN t : t[n] # Space}
  IN  IF kept = {} THEN <<>> ELSE SubSeq(t, 1, Max(kept))

(* The units WRITE puts into the file for a record. *)
Framed(t) ==
  CASE kind.organization = LineSequential -> Append(Trimmed(t), NewLine)
    [] kind.varying -> <<LengthField(Len(t))>> \o t
    [] OTHER -> t

Record(t) == [text |-> Padded(t), length |-> Len(t)]
Found(t, next) == [found |-> TRUE, record |-> Record(t), next |-> next]
Nothing(next) == [found |-> FALSE, record |-> NoRecord, next |-> next]

(* The record a READ will make of what WRITE is given. *)
Stored(t) == Record(IF kind.organization = LineSequential THEN Trimmed(t) ELSE t)

Larger(m, n) == IF m > n THEN m ELSE n

FixedAt(b, p) ==
  IF p + Width <= Len(b) THEN Found(SubSeq(b, p + 1, p + Width), p + Width)
  ELSE Nothing(Larger(p, Len(b)))

(* Units that are no length field are taken for a length no file has. *)
VaryingAt(b, p) ==
  LET n == IF b[p + 1] = Zero THEN 0 ELSE b[p + 1] - LengthField(0)
  IN  IF p < Len(b) /\ n >= 0 /\ p + 1 + n <= Len(b)
        THEN Found(SubSeq(b, p + 2, p + 1 + n), p + 1 + n)
        ELSE Nothing(Len(b))

LineAt(b, p) ==
  LET ends == {n \in (p + 1)..Len(b) : b[n] = NewLine}
      last == Min(ends \cup {Len(b) + 1})
  IN  IF p < Len(b) THEN Found(SubSeq(b, p + 1, last - 1), IF ends = {} THEN Len(b) ELSE last)
      ELSE Nothing(p)

RecordAt(b, p) ==
  CASE kind.organization = LineSequential -> LineAt(b, p)
    [] kind.varying -> IF p < Len(b) THEN VaryingAt(b, p) ELSE Nothing(p)
    [] OTHER -> FixedAt(b, p)

(* The slots of a relative file. A slot of binary zeros holds no record. *)
Slots(b) == Len(b) \div Width
Slot(b, n) == SubSeq(b, (n - 1) * Width + 1, n * Width)
Offset(n) == (n - 1) * Width
Deleted == [n \in 1..Width |-> Zero]
Present(b, n) == n \in 1..Slots(b) /\ Slot(b, n) # Deleted

(* A write at p, over what is there; a gap is filled with zeros. *)
WrittenAt(b, p, t) ==
  [n \in 1..Larger(Len(b), p + Len(t)) |->
     IF n \in (p + 1)..(p + Len(t)) THEN t[n - p] ELSE IF n <= Len(b) THEN b[n] ELSE Zero]

Fits(b) == Len(b) <= MaxRecords * (Width + (IF kind.varying THEN 1 ELSE 0))

Counted == currentRecord' <= MaxRecords + 1

Store(b) == bytes' = b /\ safe' = Len(b)

----------------------------------------------------------------------------
(* OPEN, CLOSE and the end of the process *)

(* Variant for a mutant: the record read before CLOSE stays selected. *)
RewoundSelected ==
  /\ position' = 0 /\ currentRecord' = 0 /\ atEndSeen' = FALSE
  /\ UNCHANGED lastReadValid

Rewound ==
  /\ position' = 0 /\ currentRecord' = 0
  /\ lastReadValid' = FALSE /\ atEndSeen' = FALSE

(* The BufWriter died inside a record: its length is there, its text not. *)
Torn(b) ==
  kind.varying /\ b # <<>> /\ Last(b) > LengthField(0)

Open(m) ==
  /\ mode = "Closed" /\ ~locked
  /\ exists \/ m = "Output" \/ kind.optional
  /\ m = "Extend" => ~Torn(bytes)      \* left out: a torn file is extended
  /\ exists' = TRUE
  /\ Store(IF m = "Output" THEN <<>> ELSE bytes)
  /\ mode' = m
  /\ Rewound
  /\ Answer("open", IF exists \/ m = "Output" THEN FsOk ELSE FsOptionalCreated)
  /\ UNCHANGED <<kind, locked>>

OpenRefused(m) ==
  \/ locked /\ Refuse("open", FsLocked)
  \/ ~locked /\ mode # "Closed" /\ Refuse("open", FsAlreadyOpen)
  \/ /\ ~locked /\ mode = "Closed" /\ ~exists /\ m # "Output" /\ ~kind.optional
     /\ Refuse("open", FsNotFound)

Close(lock) ==
  /\ mode # "Closed"
  /\ mode' = "Closed" /\ locked' = (locked \/ lock)
  /\ safe' = Len(bytes)
  /\ Rewound
  /\ Answer("close", FsOk)
  /\ UNCHANGED <<kind, exists, bytes>>

CloseUnopened == mode = "Closed" /\ Refuse("close", FsNotOpen)

(* STOP RUN: close_all_files flushes every BufWriter. The registry of locked *)
(* files dies with the process.                                            *)
StopRun ==
  /\ mode' = "Closed" /\ locked' = FALSE
  /\ safe' = Len(bytes)
  /\ Rewound
  /\ Answer("stop", FsOk)
  /\ UNCHANGED <<kind, exists, bytes>>

Crash ==
  /\ mode # "Closed"
  /\ mode' = "Closed" /\ locked' = FALSE
  /\ Store(SubSeq(bytes, 1, safe))
  /\ Rewound
  /\ Answer("crash", FsOk)
  /\ UNCHANGED <<kind, exists>>

----------------------------------------------------------------------------
(* READ *)

Readable == mode \in {"Input", "IoMode"}

(* AT END once, then 46 until a READ or a START finds a record. *)
MarkAtEnd(seen) ==
  /\ lastReadValid' = FALSE /\ atEndSeen' = TRUE
  /\ Answer("readNext", IF seen THEN FsNoValidNextRecord ELSE FsAtEnd)

Selected == lastReadValid' = TRUE /\ atEndSeen' = FALSE

ReadNextRecord ==
  /\ Readable /\ ~IsRelative
  /\ LET r == RecordAt(bytes, position)
     IN  /\ position' = r.next
         /\ \/ /\ r.found
               /\ currentRecord' = currentRecord + 1
               /\ Selected
               /\ Deliver("readNext", r.record)
            \/ /\ ~r.found
               /\ MarkAtEnd(atEndSeen)
               /\ UNCHANGED currentRecord
  /\ UNCHANGED <<kind, store, locked, mode>>

(* Variant for a mutant: only slots that are not empty are counted. *)
ReadNextSlotUncounted ==
  /\ Readable /\ IsRelative
  /\ LET ahead == (position \div Width + 1)..Slots(bytes)
         live == {n \in ahead : Present(bytes, n)}
     IN  \/ /\ live # {}
            /\ position' = Min(live) * Width
            /\ currentRecord' = currentRecord + 1
            /\ Selected
            /\ Deliver("readNext", Record(Slot(bytes, Min(live))))
         \/ /\ live = {}
            /\ position' = Larger(position, Len(bytes))
            /\ MarkAtEnd(atEndSeen /\ ahead = {})
            /\ UNCHANGED currentRecord
  /\ UNCHANGED <<kind, store, locked, mode>>

(* Deleted slots are read and counted on the way. *)
ReadNextSlot ==
  /\ Readable /\ IsRelative
  /\ LET ahead == (position \div Width + 1)..Slots(bytes)
         live == {n \in ahead : Present(bytes, n)}
     IN  \/ /\ live # {}
            /\ position' = Min(live) * Width
            /\ currentRecord' = currentRecord + Min(live) - Min(ahead) + 1 /\ Counted
            /\ Selected
            /\ Deliver("readNext", Record(Slot(bytes, Min(live))))
         \/ /\ live = {}
            /\ position' = Larger(position, Len(bytes))
            /\ currentRecord' = currentRecord + Cardinality(ahead) /\ Counted
            /\ MarkAtEnd(atEndSeen /\ ahead = {})
  /\ UNCHANGED <<kind, store, locked, mode>>

(* The record with relative number n. A READ that finds none has moved all *)
(* the same, but the record number has not.                                *)
ReadRelative(n) ==
  /\ Readable
  /\ LET r == FixedAt(bytes, Offset(n))
     IN  \/ /\ Present(bytes, n)
            /\ position' = n * Width /\ currentRecord' = n
            /\ Selected
            /\ DeliverOf("read", n, r.record)
         \/ /\ ~Present(bytes, n)
            /\ position' = IF r.found THEN r.next ELSE Larger(Offset(n), Len(bytes))
            /\ lastReadValid' = FALSE
            /\ AnswerOf("read", n, FsRecNotFound)
            /\ UNCHANGED <<currentRecord, atEndSeen>>
  /\ UNCHANGED <<kind, store, locked, mode>>

(* Variant for a mutant: what the other statements are answered. *)
ReadRefusedNotOpen == ~Readable /\ Refuse("readNext", FsNotOpen)

ReadRefused == ~Readable /\ Refuse("readNext", FsReadNotPermitted)

(* Record number 0 is refused before the file is looked at. *)
ReadZero == Readable /\ Refuse("read", FsRecNotFound)

----------------------------------------------------------------------------
(* WRITE *)

Writable == mode \in {"Output", "Extend"} \/ (mode = "IoMode" /\ IsRelative)

(* How much leaves the BufWriter: a line at once; of other records nothing, *)
(* or what was there before this one, or before its text.                   *)
SafeAfterWrite(t) ==
  IF kind.organization = LineSequential THEN {Len(bytes) + Len(Framed(t))}
  ELSE {safe, Len(bytes), Len(bytes) + Len(Framed(t)) - Len(t)}

WriteNext(t) ==
  /\ Writable
  /\ LET at == IF Writing THEN Len(bytes) ELSE position
     IN  /\ bytes' = WrittenAt(bytes, at, Framed(t))
         /\ position' = at + Len(Framed(t))
  /\ Fits(bytes')
  /\ IF Writing THEN safe' \in SafeAfterWrite(t) ELSE safe' = Len(bytes')
  /\ currentRecord' = currentRecord + 1 /\ Counted
  /\ Deliver("write", Stored(t))
  /\ UNCHANGED <<kind, exists, locked, mode, lastReadValid, atEndSeen>>

WriteRefused == ~Writable /\ Refuse("write", FsWriteNotPermitted)

(* Variant for a mutant: the slot is not looked at. *)
OccupiedNever(n) == FALSE

Occupied(n) == Present(bytes, n)

(* A slot in use is left alone, but it has been read to find that out. *)
WriteRelative(n, t) ==
  /\ mode \in {"Output", "IoMode"}
  /\ position' = n * Width
  /\ \/ /\ Occupied(n)
        /\ AnswerOf("writeAt", n, FsDuplicateKey)
        /\ UNCHANGED <<store, currentRecord, lastReadValid>>
     \/ /\ ~Occupied(n)
        /\ Store(WrittenAt(bytes, Offset(n), t)) /\ Fits(bytes')
        /\ currentRecord' = n /\ lastReadValid' = FALSE
        /\ DeliverOf("writeAt", n, Stored(t))
        /\ UNCHANGED exists
  /\ UNCHANGED <<kind, locked, mode, atEndSeen>>

WriteRelativeRefused ==
  mode \in {"Closed", "Input", "Extend"} /\ Refuse("writeAt", FsWriteNotPermitted)

WriteZero == mode \in {"Output", "IoMode"} /\ Refuse("writeAt", FsRecNotFound)

----------------------------------------------------------------------------
(* REWRITE and DELETE *)

Before(n) == IF n > 0 THEN n - 1 ELSE 0      \* saturating_sub(1)

(* Variant for a mutant: the place of the next record. *)
CurrentOffsetAfter == currentRecord * Width

CurrentOffset == Before(currentRecord) * Width

Overwrite(t) ==
  /\ Store(WrittenAt(bytes, CurrentOffset, t))
  /\ position' = CurrentOffset + Len(t)

RewriteStatus(t) ==
  CASE mode # "IoMode" -> FsIoModeRequired
    [] mode = "IoMode" /\ ~lastReadValid -> FsRewriteWithoutRead
    [] mode = "IoMode" /\ lastReadValid /\ Len(t) # Width -> FsRecordLengthMismatch
    [] OTHER -> FsOk

Rewrite(t) ==
  /\ RewriteStatus(t) = FsOk
  /\ Overwrite(t) /\ Fits(bytes')
  /\ Deliver("rewrite", Record(t))
  /\ UNCHANGED <<kind, exists, locked, mode, currentRecord, lastReadValid, atEndSeen>>

RewriteRefused(t) == RewriteStatus(t) # FsOk /\ Refuse("rewrite", RewriteStatus(t))

(* Without a RELATIVE KEY: the current record, read or not. *)
Delete ==
  /\ mode = "IoMode"
  /\ Overwrite(Deleted) /\ Fits(bytes')
  /\ Answer("delete", FsOk)
  /\ UNCHANGED <<kind, exists, locked, mode, currentRecord, lastReadValid, atEndSeen>>

DeleteRelative(n) ==
  /\ mode = "IoMode"
  /\ Store(WrittenAt(bytes, Offset(n), Deleted)) /\ Fits(bytes')
  /\ position' = n * Width /\ currentRecord' = n /\ lastReadValid' = FALSE
  /\ AnswerOf("deleteAt", n, FsOk)
  /\ UNCHANGED <<kind, exists, locked, mode, atEndSeen>>

DeleteRefused == mode # "IoMode" /\ Refuse("delete", FsIoModeRequired)

DeleteZero == mode = "IoMode" /\ Refuse("deleteAt", FsRecNotFound)

----------------------------------------------------------------------------
(* START *)

Relations == {"EQ", "GT", "GE", "LT", "LE"}

(* The slots START looks into, in the order of the search. *)
Searched(n, relation) ==
  CASE relation = "EQ" -> n..n
    [] relation = "GT" -> (n + 1)..Slots(bytes)
    [] relation = "GE" -> n..Slots(bytes)
    [] relation = "LT" -> 1..Min({n - 1, Slots(bytes)})
    [] relation = "LE" -> 1..Min({n, Slots(bytes)})

Backward(relation) == relation \in {"LT", "LE"}

First(slots, relation) == IF Backward(relation) THEN Max(slots) ELSE Min(slots)
Final(slots, relation) == IF Backward(relation) THEN Min(slots) ELSE Max(slots)

(* A search that fails ends at the last slot it looked into. *)
StartRelative(n, relation) ==
  /\ mode \in {"Input", "IoMode", "Output"}
  /\ LET searched == IF bytes = <<>> THEN {} ELSE Searched(n, relation)
         live == {m \in searched : Present(bytes, m)}
     IN  \/ /\ live # {}
            /\ position' = Offset(First(live, relation))
            /\ currentRecord' = First(live, relation) - 1
            /\ lastReadValid' = FALSE /\ atEndSeen' = FALSE
            /\ AnswerOf(relation, n, FsOk)
         \/ /\ live = {}
            /\ position' = IF searched = {} THEN position
                           ELSE Offset(Final(searched, relation))
            /\ AnswerOf(relation, n, FsRecNotFound)
            /\ UNCHANGED <<currentRecord, lastReadValid, atEndSeen>>
  /\ UNCHANGED <<kind, store, locked, mode>>

StartRefused ==
  \/ mode = "Closed" /\ Refuse("start", FsNotOpen)
  \/ mode = "Extend" /\ Refuse("start", FsIoError)

StartZero == mode # "Closed" /\ Refuse("start", FsRecNotFound)

----------------------------------------------------------------------------
(* The program *)

Numbers == 1..(MaxRecords + 1)

(* The calls the generated code makes for a file of each kind. *)
Calls ==
  \/ \E m \in kind.modes : Open(m) \/ OpenRefused(m)
  \/ \E lock \in {FALSE, kind.locking} : Close(lock)
  \/ CloseUnopened \/ StopRun \/ Crash
  \/ ReadNextRecord \/ ReadNextSlot \/ ReadRefused
  \/ \E t \in kind.texts : Rewrite(t) \/ RewriteRefused(t)

SequentialCalls ==
  /\ kind.access = "Sequential"
  /\ \/ \E t \in kind.texts : WriteNext(t)
     \/ WriteRefused
     \/ IsRelative /\ ~kind.keyed /\ Delete

KeyedCalls ==
  /\ kind.keyed
  /\ \/ \E n \in Numbers :
          DeleteRelative(n) \/ \E relation \in Relations : StartRelative(n, relation)
     \/ StartRefused \/ DeleteRefused \/ StartZero \/ DeleteZero

DynamicCalls ==
  /\ kind.access = "Dynamic"
  /\ \/ \E n \in Numbers : ReadRelative(n) \/ \E t \in kind.texts : WriteRelative(n, t)
     \/ WriteRelativeRefused \/ ReadZero \/ WriteZero

Init ==
  /\ kind \in Kinds
  /\ exists = FALSE /\ bytes = <<>> /\ safe = 0
  /\ locked = FALSE /\ mode = "Closed"
  /\ position = 0 /\ currentRecord = 0 /\ lastReadValid = FALSE /\ atEndSeen = FALSE
  /\ reply = [op |-> "stop", number |-> 0, status |-> FsOk, record |-> NoRecord]

Next == Calls \/ SequentialCalls \/ KeyedCalls \/ DynamicCalls

Spec == Init /\ [][Next]_vars

----------------------------------------------------------------------------
(* Properties *)

Operations ==
  {"open", "close", "stop", "crash", "readNext", "read", "write", "writeAt", "rewrite",
   "delete", "deleteAt", "start"} \cup Relations

(* A record is wholly in the file or in the BufWriter, and a selected      *)
(* record has a number.                                                    *)
TypeOK ==
  /\ kind \in Kinds /\ locked \in BOOLEAN /\ exists \in BOOLEAN
  /\ \A n \in DOMAIN bytes : bytes[n] \in Nat
  /\ Fits(bytes)
  /\ ~exists => bytes = <<>>
  /\ safe \in 0..Len(bytes) /\ (~Writing => safe = Len(bytes))
  /\ mode \in {"Closed", "Input", "Output", "IoMode", "Extend"}
  /\ mode = "Closed" => ~lastReadValid
  /\ position \in Nat /\ currentRecord \in Nat
  /\ lastReadValid \in BOOLEAN /\ atEndSeen \in BOOLEAN
  /\ lastReadValid => currentRecord > 0 /\ ~Writing
  /\ reply.op \in Operations /\ reply.status \in Statuses

(* Every call is answered as the generated code is promised, given the     *)
(* mode the file was open in.                                              *)
Statement(op) ==
  CASE op \in {"readNext", "read"} -> "read"
    [] op \in {"write", "writeAt"} -> "write"
    [] op \in {"delete", "deleteAt"} -> "delete"
    [] op \in Relations \cup {"start"} -> "start"
    [] OTHER -> op

AnswersAsPromised ==
  [][reply'.op \in {"stop", "crash"} \/ reply'.status \in Answers(Statement(reply'.op), mode)]_vars

----------------------------------------------------------------------------
(***************************************************************************)
(* RecordFile implements RecordSequence: the bytes are parsed back into    *)
(* records, and the position into a number of slots.                       *)
(***************************************************************************)

(* The records in b from each position on, as READ NEXT would find them.   *)
RecordsFrom(b) ==
  LET from[p \in 0..Len(b)] ==
        LET r == RecordAt(b, p)
        IN  IF r.found THEN <<r.record>> \o from[r.next] ELSE <<>>
  IN  from

AbstractRecords ==
  IF IsRelative
    THEN [n \in 1..Slots(bytes) |->
            IF Present(bytes, n) THEN Record(Slot(bytes, n)) ELSE NoRecord]
    ELSE RecordsFrom(bytes)[0]

AbstractDurable ==
  IF IsRelative THEN safe \div Width ELSE Len(RecordsFrom(SubSeq(bytes, 1, safe))[0])

AbstractPlace ==
  CASE mode = "Closed" -> 0
    [] mode # "Closed" /\ Writing -> Len(AbstractRecords)
    [] mode # "Closed" /\ ~Writing /\ IsRelative -> position \div Width
    [] OTHER -> Len(AbstractRecords) - Len(RecordsFrom(bytes)[position])

AbstractSure == Writing \/ currentRecord = AbstractPlace

AllRecords ==
  LET Read(k, t) == Record(IF k.organization = LineSequential THEN Trimmed(t) ELSE t)
  IN  UNION {{Read(k, t) : t \in k.texts} : k \in Kinds}

Store_ == INSTANCE RecordSequence WITH
  Records <- AllRecords,
  records <- AbstractRecords,
  durable <- AbstractDurable,
  shut <- locked,
  opened <- mode,
  place <- AbstractPlace,
  sure <- AbstractSure,
  selected <- lastReadValid,
  ended <- atEndSeen,
  answer <- reply

(* What the bytes can give back: no REWRITE of a record of varying length  *)
(* or of a line, no new line in a line, and no record of binary zeros in a *)
(* relative file.                                                          *)
KindsKeepRecords ==
  \A k \in Kinds :
    /\ k.varying \/ k.organization = LineSequential => "IoMode" \notin k.modes
    /\ \A t \in k.texts :
         /\ k.organization = LineSequential => \A i \in DOMAIN t : t[i] # NewLine
         /\ k.organization = Relative => t # Deleted

(* Every call of a sequential, line-sequential or relative file answers as *)
(* the sequence of records does: what is written is what is read, padded,  *)
(* in order and with its length; READ NEXT passes over empty slots and     *)
(* nothing else; a call by record number touches that slot alone; and a    *)
(* crash takes only records still in the BufWriter, the last ones.         *)
ImplementsRecordSequence == Store_!Spec
=============================================================================
