---------------------------- MODULE IndexedFile ----------------------------
(***************************************************************************)
(* One INDEXED file of the runtime (cobol-runtime/src/file_io.rs), as the  *)
(* statements of one program drive it: the records on disk, the in-memory  *)
(* primary and alternate indexes built over them, and the cursor that READ *)
(* NEXT, REWRITE and DELETE share.  Every call runs under the FILE_TABLE   *)
(* mutex, so a call is one action.                                         *)
(*                                                                         *)
(* A record is its two keys.  Key values are naturals in the order of      *)
(* their bytes; a key argument of READ or START is the interval of keys it *)
(* matches, one key for a full key, several for a shorter (generic) key.   *)
(* The offset of a record is the number of its slot, from 1; None is 0.    *)
(***************************************************************************)
EXTENDS SortedEntries, FileAnswers

CONSTANTS
  PrimaryKeys,    \* values of the RECORD KEY
  AlternateKeys,  \* values of the ALTERNATE RECORD KEY
  Probes,         \* key arguments <<lo, hi>> of READ and START
  Access,         \* ACCESS MODE: "Sequential", "Random" or "Dynamic"
  AltDuplicates,  \* the alternate key is declared WITH DUPLICATES
  Optional,       \* SELECT OPTIONAL
  OpenModes,      \* the OPEN modes the program uses
  MaxSlots        \* bound: slots the file may grow to

None == 0
Primary == 1
Alternate == 2
Indexes == {Primary, Alternate}
NotUnique(i) == i = Alternate /\ AltDuplicates

Records == [pk : PrimaryKeys, alt : AlternateKeys]
Erased == [pk |-> 0, alt |-> 0]     \* a record of binary zeros
KeyOf(i, r) == IF i = Primary THEN r.pk ELSE r.alt

ASSUME KeysAssumption ==
  /\ PrimaryKeys \subseteq Nat /\ AlternateKeys \subseteq Nat
  /\ PrimaryKeys # {} /\ AlternateKeys # {}
  /\ Erased \notin Records
  /\ Probes \subseteq Nat \X Nat
ASSUME ModesAssumption ==
  /\ Access \in {"Sequential", "Random", "Dynamic"}
  /\ AltDuplicates \in BOOLEAN /\ Optional \in BOOLEAN
  /\ OpenModes \subseteq {"Input", "Output", "IoMode", "Extend"}
  /\ MaxSlots \in Nat

VARIABLES
  exists,         \* the file is in the file system
  disk,           \* its slots, in offset order
  buffered,       \* how many of its last slots are still in the BufWriter
  mode,           \* the open mode, or "Closed"
  indices,        \* for each index, its sorted entries [key, offset]
  currentIndex,   \* the index READ NEXT follows
  currentRecord,  \* position (from 0) in that index of the next record
  currentOffset,  \* offset of the record last read, or None
  lastReadValid,
  atEndSeen,
  reply           \* what the last call returned: the call, its status and,
                  \* for a READ, the record it delivered

cursor == <<currentIndex, currentRecord, currentOffset, lastReadValid, atEndSeen>>
store == <<exists, disk, buffered>>
vars == <<store, mode, indices, cursor, reply>>

Answer(op, status) == reply' = [op |-> op, status |-> status, rec |-> Erased]
Deliver(op, status, r) == reply' = [op |-> op, status |-> status, rec |-> r]

(* A call that returns early changes nothing but what it returns. *)
Refuse(op, status) == Answer(op, status) /\ UNCHANGED <<store, mode, indices, cursor>>

----------------------------------------------------------------------------
(* Index entries *)

Live(d) == {o \in DOMAIN d : d[o] # Erased}

EntryAt(i, d, o) == [key |-> KeyOf(i, d[o]), offset |-> o]

LiveEntries(i, d) == {EntryAt(i, d, o) : o \in Live(d)}

BuildEntries(i, d) == Sorted(LiveEntries(i, d))

CapTo(n, limit) == IF n <= limit THEN n ELSE limit

(* Variant for a mutant: only the following entry is compared. *)
SuccessStatusIgnoringPrevious(i, n) ==
  LET e == indices[i]
  IN  IF NotUnique(i) /\ n + 1 \in DOMAIN e /\ e[n + 1].key = e[n].key
        THEN FsDuplicateAltSuccess ELSE FsOk

(* 02 tells the program that other records share the key just read. *)
SuccessStatus(i, n) ==
  LET e == indices[i]
      shares(m) == m \in DOMAIN e /\ e[m].key = e[n].key
  IN  IF NotUnique(i) /\ (shares(n - 1) \/ shares(n + 1))
        THEN FsDuplicateAltSuccess ELSE FsOk

Readable == mode \in {"Input", "IoMode"}
Writable == mode \in {"Output", "Extend", "IoMode"}

----------------------------------------------------------------------------
(* OPEN and CLOSE *)

(* The scan builds an index only through a handle that can read. *)
OpenedIndices(m, d) ==
  [i \in Indexes |-> IF m \in {"Input", "IoMode"} THEN BuildEntries(i, d) ELSE << >>]

FreshCursor ==
  /\ currentIndex' = Primary
  /\ currentRecord' = 0
  /\ currentOffset' = None
  /\ lastReadValid' = FALSE
  /\ atEndSeen' = FALSE

OpenFile(m) ==
  /\ mode = "Closed"
  /\ exists \/ m = "Output" \/ Optional
  /\ exists' = TRUE
  /\ disk' = IF m = "Output" THEN << >> ELSE disk
  /\ mode' = m
  /\ indices' = OpenedIndices(m, disk')
  /\ FreshCursor
  /\ Answer("open", IF exists \/ m = "Output" THEN FsOk ELSE FsOptionalCreated)
  /\ UNCHANGED buffered

OpenMissing(m) ==
  /\ mode = "Closed"
  /\ ~exists /\ m # "Output" /\ ~Optional
  /\ Refuse("open", FsNotFound)

OpenTwice == mode # "Closed" /\ Refuse("open", FsAlreadyOpen)

Close ==
  /\ mode # "Closed"
  /\ mode' = "Closed"
  /\ buffered' = 0
  /\ indices' = [i \in Indexes |-> << >>]
  /\ FreshCursor
  /\ Answer("close", FsOk)
  /\ UNCHANGED <<exists, disk>>

CloseUnopened == mode = "Closed" /\ Refuse("close", FsNotOpen)

(* The process dies: what the BufWriter still held never reaches the file. *)
Crash ==
  /\ mode # "Closed"
  /\ mode' = "Closed"
  /\ disk' = SubSeq(disk, 1, Len(disk) - buffered)
  /\ buffered' = 0
  /\ indices' = [i \in Indexes |-> << >>]
  /\ FreshCursor
  /\ Answer("crash", FsOk)
  /\ UNCHANGED exists

----------------------------------------------------------------------------
(* READ and START *)

(* Variant for a mutant: a READ that leaves the end-of-file flag set. *)
SelectRecordStillAtEnd(o) ==
  /\ currentOffset' = o
  /\ lastReadValid' = TRUE
  /\ UNCHANGED atEndSeen

(* A READ that found the record at offset o. *)
SelectRecord(o) ==
  /\ currentOffset' = o
  /\ lastReadValid' = TRUE
  /\ atEndSeen' = FALSE

ReadNextRecord ==
  LET e == indices[currentIndex]
      n == currentRecord + 1
      o == e[n].offset
  IN  /\ Readable
      /\ currentRecord < Len(e)
      /\ currentRecord' = currentRecord + 1
      /\ SelectRecord(o)
      /\ Deliver("readNext", SuccessStatus(currentIndex, n), disk[o])
      /\ UNCHANGED <<store, mode, indices, currentIndex>>

(* mark_at_end: AT END once, then no valid next record. *)
ReadNextAtEnd ==
  /\ Readable
  /\ currentRecord >= Len(indices[currentIndex])
  /\ lastReadValid' = FALSE
  /\ atEndSeen' = TRUE
  /\ Answer("readNext", IF atEndSeen THEN FsNoValidNextRecord ELSE FsAtEnd)
  /\ UNCHANGED <<store, mode, indices, currentIndex, currentRecord, currentOffset>>

Lower(i, p) == LowerBound(indices[i], p[1])
Upper(i, p) == UpperBound(indices[i], p[2])

ReadKeyFound(i, p) ==
  LET n == Lower(i, p)
      o == indices[i][n + 1].offset
  IN  /\ Readable
      /\ Lower(i, p) < Upper(i, p)
      /\ currentIndex' = i
      /\ currentRecord' = n + 1
      /\ SelectRecord(o)
      /\ Deliver("readKey", SuccessStatus(i, n + 1), disk[o])
      /\ UNCHANGED <<store, mode, indices>>

ReadKeyNotFound(i, p) ==
  /\ Readable
  /\ Lower(i, p) >= Upper(i, p)
  /\ lastReadValid' = FALSE
  /\ Answer("readKey", FsRecNotFound)
  /\ UNCHANGED <<store, mode, indices, currentIndex, currentRecord, currentOffset, atEndSeen>>

ReadDenied ==
  /\ ~Readable
  /\ \E op \in {"readNext", "readKey"} : Refuse(op, FsReadNotPermitted)

(* The position (from 0) START selects, for each relation of the key. *)
StartTarget(i, p, rel, n) ==
  \/ rel = "EQ" /\ n = Lower(i, p) /\ n < Upper(i, p)
  \/ rel = "GT" /\ n = Upper(i, p) /\ n < Len(indices[i])
  \/ rel = "GE" /\ n = Lower(i, p) /\ n < Len(indices[i])
  \/ rel = "LT" /\ n = Lower(i, p) - 1 /\ n >= 0
  \/ rel = "LE" /\ n = Upper(i, p) - 1 /\ n >= 0

Relations == {"EQ", "GT", "GE", "LT", "LE"}

StartFound(i, p, rel) ==
  /\ mode # "Closed"
  /\ \E n \in 0..MaxSlots :
       /\ StartTarget(i, p, rel, n)
       /\ currentIndex' = i
       /\ currentRecord' = n
       /\ currentOffset' = None
  /\ Answer("start", FsOk)
  /\ UNCHANGED <<store, mode, indices, lastReadValid, atEndSeen>>

StartNotFound(i, p, rel) ==
  /\ mode # "Closed"
  /\ ~ \E n \in 0..MaxSlots : StartTarget(i, p, rel, n)
  /\ Refuse("start", FsRecNotFound)

StartUnopened == mode = "Closed" /\ Refuse("start", FsNotOpen)

----------------------------------------------------------------------------
(* WRITE *)

(* Variants for mutants: the first key compared; the alternate unchecked. *)
OutOfSequenceWithFirst(r) ==
  Access = "Sequential" /\ indices[Primary] # << >> /\ indices[Primary][1].key >= r.pk
DuplicatesPrimaryKey(r) == HasKey(indices[Primary], r.pk)

OutOfSequence(r) ==
  LET e == indices[Primary]
  IN  Access = "Sequential" /\ e # << >> /\ e[Len(e)].key >= r.pk

DuplicatesKey(r) ==
  \E i \in Indexes : ~NotUnique(i) /\ HasKey(indices[i], KeyOf(i, r))

(* Where the record goes: a handle opened to append reports position 0     *)
(* until its first write has reached the file.                             *)
WriteOffset == IF mode = "Extend" /\ currentRecord = 0 THEN 1 ELSE Len(disk) + 1

(* After the records with an equal key when duplicates are allowed. *)
InsertEntry(i, e, r, o) ==
  InsertAfter(e,
              IF NotUnique(i) THEN UpperBound(e, KeyOf(i, r)) ELSE LowerBound(e, KeyOf(i, r)),
              [key |-> KeyOf(i, r), offset |-> o])

WriteRecord(r) ==
  /\ Writable
  /\ ~OutOfSequence(r) /\ ~DuplicatesKey(r)
  /\ Len(disk) < MaxSlots
  /\ disk' = Append(disk, r)
  /\ buffered' \in IF mode = "IoMode" THEN {0} ELSE {0, 1}
  /\ indices' = [i \in Indexes |-> InsertEntry(i, indices[i], r, WriteOffset)]
  /\ currentRecord' = currentRecord + 1
  /\ Answer("write", FsOk)
  /\ UNCHANGED <<exists, mode, currentIndex, currentOffset, lastReadValid, atEndSeen>>

WriteOutOfSequence(r) ==
  Writable /\ OutOfSequence(r) /\ Refuse("write", FsSequenceError)

WriteDuplicate(r) ==
  /\ Writable
  /\ ~OutOfSequence(r) /\ DuplicatesKey(r)
  /\ Refuse("write", FsDuplicateKey)

WriteDenied == ~Writable /\ Refuse("write", FsWriteNotPermitted)

----------------------------------------------------------------------------
(* REWRITE and DELETE *)

(* REWRITE puts the record after its equals in an index with duplicates. *)
MoveToEndOfEquals(e, k, o) ==
  LET rest == RemovePosition(e, CHOOSE j \in PositionsOf(e, o) : TRUE)
  IN  InsertAfter(rest, UpperBound(rest, k), [key |-> k, offset |-> o])

RewrittenIndices(r, o) ==
  [i \in Indexes |->
     LET e == BuildEntries(i, [disk EXCEPT ![o] = r])
     IN  IF NotUnique(i) THEN MoveToEndOfEquals(e, KeyOf(i, r), o) ELSE e]

NextOffset ==
  LET e == indices[currentIndex]
  IN  IF currentRecord < Len(e) THEN e[currentRecord + 1].offset ELSE None

(* Variant for a mutant: the position is kept, not the record. *)
PositionKept(e, next) == CapTo(currentRecord, Len(e))

(* The cursor stays on the record it pointed at, wherever that now is. *)
RepositionedRecord(e, next) ==
  IF PositionsOf(e, next) # {}
    THEN (CHOOSE j \in PositionsOf(e, next) : TRUE) - 1
    ELSE CapTo(currentRecord, Len(e))

ClashesWithOther(r, o) ==
  \E i \in Indexes :
    /\ ~NotUnique(i)
    /\ HasKey(indices[i], KeyOf(i, r))
    /\ OffsetOf(indices[i], KeyOf(i, r)) # o

Known(r) == HasKey(indices[Primary], r.pk)
OffsetOfRecord(r) == OffsetOf(indices[Primary], r.pk)

RewriteRecord(r) ==
  LET o == OffsetOfRecord(r)
  IN  /\ mode = "IoMode" /\ lastReadValid /\ Known(r)
      /\ ~ClashesWithOther(r, o)
      /\ disk' = [disk EXCEPT ![o] = r]
      /\ indices' = RewrittenIndices(r, o)
      /\ currentRecord' = RepositionedRecord(indices'[currentIndex], NextOffset)
      /\ Answer("rewrite", FsOk)
      /\ UNCHANGED <<exists, buffered, mode, currentIndex, currentOffset, lastReadValid, atEndSeen>>

RewriteClash(r) ==
  /\ mode = "IoMode" /\ lastReadValid /\ Known(r)
  /\ ClashesWithOther(r, OffsetOfRecord(r))
  /\ Refuse("rewrite", FsDuplicateKey)

RewriteUnknown(r) ==
  mode = "IoMode" /\ lastReadValid /\ ~Known(r) /\ Refuse("rewrite", FsRecNotFound)

RewriteWithoutRead ==
  mode = "IoMode" /\ ~lastReadValid /\ Refuse("rewrite", FsRewriteWithoutRead)

(* Variants for mutants: one index rebuilt; the cursor not repositioned. *)
PrimaryRebuilt(d) == [indices EXCEPT ![Primary] = BuildEntries(Primary, d)]
CursorNotMoved(o, e) == currentRecord

RebuiltIndices(d) == [i \in Indexes |-> BuildEntries(i, d)]

(* The cursor goes where the deleted record was in the active index. *)
CursorAfterDelete(o, e) ==
  LET here == PositionsOf(indices[currentIndex], o)
  IN  CapTo(IF here = {} THEN currentRecord ELSE (CHOOSE j \in here : TRUE) - 1, Len(e))

(* delete_indexed_at_offset: zero the slot, rebuild, reposition. *)
DeleteAt(o) ==
  /\ disk' = [disk EXCEPT ![o] = Erased]
  /\ indices' = RebuiltIndices(disk')
  /\ currentRecord' = CursorAfterDelete(o, indices'[currentIndex])
  /\ currentOffset' = None
  /\ lastReadValid' = FALSE
  /\ Answer("delete", FsOk)
  /\ UNCHANGED <<exists, buffered, mode, currentIndex, atEndSeen>>

(* cobol_file_delete_record: the record named by the primary key in the    *)
(* record area, which is what the compiler emits for DELETE.               *)
DeleteRecord(r) == mode = "IoMode" /\ Known(r) /\ DeleteAt(OffsetOfRecord(r))

DeleteUnknown(r) ==
  /\ mode = "IoMode" /\ ~Known(r)
  /\ lastReadValid' = FALSE
  /\ Answer("delete", FsRecNotFound)
  /\ UNCHANGED <<store, mode, indices, currentIndex, currentRecord, currentOffset, atEndSeen>>

(* cobol_file_delete: the record last read. *)
DeleteCurrent ==
  /\ mode = "IoMode"
  /\ IF currentOffset = None THEN Refuse("delete", FsRecNotFound) ELSE DeleteAt(currentOffset)

(* Variant for a mutant: the record read is looked for before the mode. *)
UpdateDeniedAsUnread ==
  mode # "IoMode" /\ \E op \in {"rewrite", "delete"} : Refuse(op, FsRewriteWithoutRead)

UpdateDenied ==
  mode # "IoMode" /\ \E op \in {"rewrite", "delete"} : Refuse(op, FsIoModeRequired)

----------------------------------------------------------------------------
Init ==
  /\ exists \in BOOLEAN
  /\ disk = << >>
  /\ buffered = 0
  /\ mode = "Closed"
  /\ indices = [i \in Indexes |-> << >>]
  /\ currentIndex = Primary
  /\ currentRecord = 0
  /\ currentOffset = None
  /\ lastReadValid = FALSE
  /\ atEndSeen = FALSE
  /\ reply = [op |-> "close", status |-> FsOk, rec |-> Erased]

Open == \/ \E m \in OpenModes : OpenFile(m) \/ OpenMissing(m)
        \/ OpenTwice

Read == \/ ReadNextRecord \/ ReadNextAtEnd \/ ReadDenied
        \/ \E i \in Indexes, p \in Probes : ReadKeyFound(i, p) \/ ReadKeyNotFound(i, p)

Start == \/ StartUnopened
         \/ \E i \in Indexes, p \in Probes, rel \in Relations :
              StartFound(i, p, rel) \/ StartNotFound(i, p, rel)

Write == \/ WriteDenied
         \/ \E r \in Records : WriteRecord(r) \/ WriteOutOfSequence(r) \/ WriteDuplicate(r)

Rewrite == \/ RewriteWithoutRead
           \/ \E r \in Records : RewriteRecord(r) \/ RewriteClash(r) \/ RewriteUnknown(r)

Delete == DeleteCurrent \/ \E r \in Records : DeleteRecord(r) \/ DeleteUnknown(r)

Next == \/ Open \/ Close \/ CloseUnopened \/ Crash
        \/ Read \/ Start \/ Write \/ Rewrite \/ Delete \/ UpdateDenied

Spec == Init /\ [][Next]_vars

----------------------------------------------------------------------------
(* Properties *)

Entries == [key : PrimaryKeys \cup AlternateKeys, offset : 1..MaxSlots]
Operations == {"open", "close", "crash", "readNext", "readKey", "start", "write",
               "rewrite", "delete"}

(* The variables have their types, and the cursor never points outside the *)
(* index it follows or at a slot the file does not have.                   *)
TypeOK ==
  /\ exists \in BOOLEAN
  /\ disk \in Seq(Records \cup {Erased}) /\ Len(disk) <= MaxSlots
  /\ buffered \in 0..1 /\ buffered <= Len(disk)
  /\ mode \in OpenModes \cup {"Closed"}
  /\ indices \in [Indexes -> Seq(Entries)]
  /\ currentIndex \in Indexes
  /\ currentRecord \in 0..Len(indices[currentIndex])
  /\ currentOffset \in 0..Len(disk)
  /\ lastReadValid \in BOOLEAN
  /\ atEndSeen \in BOOLEAN
  /\ reply \in [op : Operations, status : Statuses, rec : Records \cup {Erased}]

(* Whatever sequence of writes, rewrites and deletes ran, each index of an *)
(* open file lists every record of the file once, under the key it has on  *)
(* disk, in key order; so no read misses a record or finds a stale one.    *)
IndexesMatchDisk ==
  mode \in {"Input", "Output", "IoMode"} =>
    \A i \in Indexes : IsSorted(indices[i]) /\ Enumerates(indices[i], LiveEntries(i, disk))

(* No two records of the file share the primary key, nor the alternate key *)
(* unless it is declared WITH DUPLICATES: in programs without OPEN EXTEND. *)
KeysUnique ==
  \A i \in Indexes, o1, o2 \in Live(disk) :
    ~NotUnique(i) /\ KeyOf(i, disk[o1]) = KeyOf(i, disk[o2]) => o1 = o2

(* The flags REWRITE and READ NEXT consult agree with the cursor: the file *)
(* never counts as both at end and positioned on a record, and the offset  *)
(* DELETE would erase is that of a record that exists.                     *)
CursorConsistent ==
  /\ ~(lastReadValid /\ atEndSeen)
  /\ currentOffset # None => currentOffset \in Live(disk)

(* What an update between two READ NEXTs does to the scan.  REWRITE never  *)
(* moves it: the next record is the same record, also when that one, or    *)
(* its place among equal keys, is what changed.  DELETE, of whatever       *)
(* record, resumes it right behind the deleted one: the next key is the    *)
(* one that stood there.  A WRITE whose key comes before the next record   *)
(* does not move it.  (Any other WRITE steps over the next record.)        *)
KeyAt(e, n) == {e[m].key : m \in {n} \cap DOMAIN e}

ScanKeepsPlaceStep ==
  LET e == indices[currentIndex]
  IN  mode = "IoMode" /\ reply'.status = FsOk =>
        /\ reply'.op = "rewrite" => NextOffset' = NextOffset
        /\ reply'.op = "delete" =>
             \A n \in DOMAIN e :
               disk'[e[n].offset] = Erased =>
                 KeyAt(indices'[currentIndex'], currentRecord' + 1) = KeyAt(e, n + 1)
        /\ reply'.op = "write" =>
             \A k \in KeyAt(e, currentRecord + 1) :
               KeyOf(currentIndex, disk'[Len(disk')]) < k => NextOffset' = NextOffset

ScanKeepsPlace == [][ScanKeepsPlaceStep]_vars

(* With ACCESS SEQUENTIAL the file is in ascending order of its primary    *)
(* key, over all its sessions, the REWRITEs and DELETEs of the I-O ones    *)
(* and crashes: the last entry of the index is all status 21 looks at.  It *)
(* holds of programs that do not OPEN EXTEND, where WRITE sees no earlier  *)
(* record.                                                                 *)
LoadedInKeyOrder ==
  Access = "Sequential" =>
    \A o1, o2 \in Live(disk) : o1 < o2 => disk[o1].pk < disk[o2].pk

(* Records with equal alternate keys are read in the order in which they   *)
(* got that key: an update of one record leaves the order of the others    *)
(* alone.  The code's own notes say so of REWRITE; it does not hold, for   *)
(* the next REWRITE or DELETE rebuilds the index in the order of the file. *)
PutBefore(o1, o2) ==
  \E m, n \in DOMAIN indices[Alternate] :
    m < n /\ indices[Alternate][m].offset = o1 /\ indices[Alternate][n].offset = o2

EqualsKeepOrderStep ==
  mode' = "IoMode" /\ disk' # disk =>
    \A o1, o2 \in Live(disk) :
      /\ disk[o1].alt = disk[o2].alt
      /\ disk'[o1] = disk[o1] /\ disk'[o2] = disk[o2]
      /\ PutBefore(o1, o2)
      => PutBefore(o1, o2)'

EqualsKeepOrder == [][EqualsKeepOrderStep]_vars

(* Every call is answered as the generated code is promised, given the     *)
(* mode the file was open in.                                              *)
Statement(op) == IF op \in {"readNext", "readKey"} THEN "read" ELSE op

AnswersAsPromised ==
  [][reply'.op = "crash" \/ reply'.status \in Answers(Statement(reply'.op), mode)]_vars

----------------------------------------------------------------------------
(* IndexedFile implements KeyedStore: forget the slots, the indexes and    *)
(* the cursor, and what the program sees is a keyed set of records.  This  *)
(* needs the indexes and the disk to agree at every call.  It holds of     *)
(* programs that do not OPEN EXTEND, where WRITE sees no earlier record.   *)
StoredKeys == {disk[o].pk : o \in Live(disk)}
StoredAlternate(k) == disk[CHOOSE o \in Live(disk) : disk[o].pk = k].alt

Keyed == INSTANCE KeyedStore WITH
  records <- [k \in StoredKeys |-> StoredAlternate(k)],
  volatile <- {disk[o].pk : o \in (Len(disk) - buffered + 1)..Len(disk)},
  opened <- mode,
  reference <- currentIndex,
  answer <- reply

(* Every call of an indexed file answers as the keyed store does: what is  *)
(* written is what is later found, by either key and across CLOSE and      *)
(* OPEN; 02, 22 and 23 are returned exactly when the records call for      *)
(* them; and a crash loses at most the last WRITE of an OPEN OUTPUT.       *)
ImplementsKeyedStore == Keyed!Spec
=============================================================================
