----------------------------- MODULE SortMerge ------------------------------
(***************************************************************************)
(* SORT, MERGE, RELEASE and RETURN: the C code that cobol-codegen emits    *)
(* for them (stmt.rs) on the sort buffers and the merge of the runtime     *)
(* (sort_merge.rs).  A statement is a record                               *)
(*   [verb, keys, using, giving]                                           *)
(* where using is empty when there is an INPUT PROCEDURE and giving when   *)
(* there is an OUTPUT PROCEDURE.  What a procedure does, RELEASE, RETURN   *)
(* and leaving, is up to the program.  A file is the sequence of its       *)
(* records.  The generated code looks at no status of OPEN and WRITE: a    *)
(* file that does not open (absent, or closed WITH LOCK) is an empty one   *)
(* to read, and takes nothing.                                             *)
(***************************************************************************)
EXTENDS SortKeys

CONSTANTS Files, Records, Statements,
          InitialDisks,      \* what the files may hold before the first statement
          LockedChoices,     \* the sets of files that may be closed WITH LOCK
          InitialCapacity,   \* records the area of USING is made for (64 in the code)
          MaxReleased,       \* bound: records an INPUT PROCEDURE releases
          Absent, Free, None,  \* no file, no buffer in a slot, no record in hand
          AtEnd                \* status 10 of RETURN

ASSUME CapacityAssumption == InitialCapacity \in Nat \ {0} /\ MaxReleased \in Nat

(* Every key names bytes of the record.                                    *)
ASSUME StatementsAssumption ==
  \A s \in Statements :
    /\ s.verb \in {"Sort", "Merge"} /\ s.using \in Seq(Files) /\ s.giving \in Seq(Files)
    /\ Len(s.keys) \in Nat
    /\ \A i \in 1..Len(s.keys) :
         /\ s.keys[i].ascending \in BOOLEAN
         /\ \A r \in Records : Stored(s.keys[i], r[s.keys[i].field]) \in Seq(0..255) \ {<<>>}

ASSUME FilesAssumption ==
  /\ InitialDisks \subseteq [Files -> Seq(Records) \cup {Absent}]
  /\ LockedChoices \subseteq SUBSET Files

Buffers == [records : Seq(Records), readIndex : Nat]

ASSUME DistinctAssumption ==
  /\ Absent \notin Seq(Records) /\ Free \notin Buffers
  /\ None \notin Records /\ AtEnd \notin Records

VARIABLES disk,        \* the records of each file, or Absent
          locked,      \* the files OPEN refuses
          buffers,     \* SORT_BUFFERS: per slot a buffer or Free
          sortBufId,   \* _sort_buf_id, the slot RELEASE and RETURN use (from 0)
          statement,   \* the statement under way
          phase,       \* where its C code is
          file,        \* the number of the file in hand
          place,       \* records read of each USING file
          area,        \* _sort_buf or _merge_buf, its first count records
          capacity,    \* records the area has room for
          heads,       \* the record in hand of each input of cobol_merge, or None
          taken,       \* history: the input records, in the order they came
          returned     \* history: what RETURN answered in this statement

vars == <<disk, locked, buffers, sortBufId, statement, phase, file, place, area, capacity,
          heads, taken, returned>>

Phases == {"Idle", "Reading", "Input", "Merging", "Copying", "Giving", "Draining", "Output"}

Contents(f) == IF disk[f] = Absent \/ f \in locked THEN <<>> ELSE disk[f]

(* OPEN OUTPUT, a loop of WRITE, CLOSE.                                    *)
Give(f, records) == IF f \in locked THEN disk ELSE [disk EXCEPT ![f] = records]

Buffer(records) == [records |-> records, readIndex |-> 0]

(* cobol_sort_buffer_init: the first free slot, or a new one.              *)
FreeSlots == {i \in 1..Len(buffers) : buffers[i] = Free}
Slot == IF FreeSlots # {} THEN CHOOSE i \in FreeSlots : \A j \in FreeSlots : i <= j
                          ELSE Len(buffers) + 1

Take(records) ==
  /\ buffers' = IF Slot > Len(buffers) THEN Append(buffers, Buffer(records))
                                       ELSE [buffers EXCEPT ![Slot] = Buffer(records)]
  /\ sortBufId' = Slot - 1

Live == sortBufId + 1 \in 1..Len(buffers) /\ buffers[sortBufId + 1] # Free
Current == buffers[sortBufId + 1]

(* Variant for a mutant: the buffer is not given back.                     *)
KeepBuffer == buffers' = buffers

FreeBuffer == buffers' = IF sortBufId + 1 \in 1..Len(buffers)
                           THEN [buffers EXCEPT ![sortBufId + 1] = Free] ELSE buffers

Keys == statement.keys
Using == statement.using
Giving == statement.giving
HasInput(s) == s.verb = "Sort" /\ s.using = <<>>
HasOutput(s) == s.giving = <<>>
Merges(s) == s.verb = "Merge" /\ s.giving # <<>>

NoStatement == [verb |-> "None", keys |-> <<>>, using |-> <<>>, giving |-> <<>>]

Ends == /\ phase' = "Idle" /\ statement' = NoStatement
        /\ file' = 0 /\ place' = <<>> /\ area' = <<>> /\ capacity' = InitialCapacity
        /\ heads' = <<>> /\ taken' = <<>> /\ returned' = <<>>

Init == /\ disk \in InitialDisks /\ locked \in LockedChoices
        /\ buffers = <<>> /\ sortBufId = 0
        /\ statement = NoStatement /\ phase = "Idle"
        /\ file = 0 /\ place = <<>> /\ area = <<>> /\ capacity = InitialCapacity
        /\ heads = <<>> /\ taken = <<>> /\ returned = <<>>

(* COBOL asks of the inputs of a MERGE that they are in order.             *)
MayRun(s) == s.verb = "Merge" => \A i \in 1..Len(s.using) :
                                   Contents(s.using[i]) = InOrder(s.keys, Contents(s.using[i]))

-----------------------------------------------------------------------------
(* SORT with USING, and MERGE with OUTPUT PROCEDURE: all files into one    *)
(* area.                                                                   *)
StartReading(s) ==
  /\ phase = "Idle" /\ MayRun(s) /\ ~HasInput(s) /\ ~Merges(s)
  /\ statement' = s /\ phase' = "Reading" /\ file' = 1
  /\ place' = [i \in 1..Len(s.using) |-> 0]
  /\ UNCHANGED <<disk, locked, buffers, sortBufId, area, capacity, heads, taken, returned>>

(* Variant for a mutant: the area grows one record late.                   *)
ReadUsingGrowsLate ==
  /\ phase = "Reading" /\ file <= Len(Using)
  /\ place[file] < Len(Contents(Using[file]))
  /\ LET record == Contents(Using[file])[place[file] + 1]
     IN  /\ area' = Append(area, record)
         /\ taken' = Append(taken, record)
  /\ place' = [place EXCEPT ![file] = @ + 1]
  /\ capacity' = IF Len(area') > capacity THEN capacity * 2 ELSE capacity
  /\ UNCHANGED <<disk, locked, buffers, sortBufId, statement, phase, file, heads, returned>>

ReadUsing ==
  /\ phase = "Reading" /\ file <= Len(Using)
  /\ place[file] < Len(Contents(Using[file]))
  /\ LET record == Contents(Using[file])[place[file] + 1]
     IN  /\ area' = Append(area, record)
         /\ taken' = Append(taken, record)
  /\ place' = [place EXCEPT ![file] = @ + 1]
  /\ capacity' = IF Len(area') >= capacity THEN capacity * 2 ELSE capacity
  /\ UNCHANGED <<disk, locked, buffers, sortBufId, statement, phase, file, heads, returned>>

CloseUsing ==
  /\ phase = "Reading" /\ file <= Len(Using)
  /\ place[file] = Len(Contents(Using[file]))
  /\ file' = file + 1
  /\ UNCHANGED <<disk, locked, buffers, sortBufId, statement, phase, place, area, capacity,
                 heads, taken, returned>>

(* cobol_sort on the area; for an OUTPUT PROCEDURE the records go on into  *)
(* a buffer.                                                               *)
SortArea ==
  /\ phase = "Reading" /\ file > Len(Using)
  /\ area' = Sorted(Keys, area)
  /\ IF HasOutput(statement) THEN Take(area') /\ phase' = "Output"
                             ELSE UNCHANGED <<buffers, sortBufId>> /\ phase' = "Giving"
  /\ file' = 1
  /\ UNCHANGED <<disk, locked, statement, place, capacity, heads, taken, returned>>

GiveArea ==
  /\ phase = "Giving" /\ file <= Len(Giving)
  /\ disk' = Give(Giving[file], area)
  /\ file' = file + 1
  /\ UNCHANGED <<locked, buffers, sortBufId, statement, phase, place, area, capacity, heads,
                 taken, returned>>

EndGiving ==
  /\ phase = "Giving" /\ file > Len(Giving)
  /\ Ends
  /\ UNCHANGED <<disk, locked, buffers, sortBufId>>

-----------------------------------------------------------------------------
(* SORT with INPUT PROCEDURE: RELEASE fills a buffer of the runtime.       *)
StartInput(s) ==
  /\ phase = "Idle" /\ HasInput(s)
  /\ statement' = s /\ phase' = "Input"
  /\ Take(<<>>)
  /\ UNCHANGED <<disk, locked, file, place, area, capacity, heads, taken, returned>>

Release(record) ==
  /\ phase = "Input" /\ Len(taken) < MaxReleased
  /\ buffers' = IF Live THEN [buffers EXCEPT ![sortBufId + 1].records = Append(@, record)]
                        ELSE buffers
  /\ taken' = Append(taken, record)
  /\ UNCHANGED <<disk, locked, sortBufId, statement, phase, file, place, area, capacity, heads,
                 returned>>

(* cobol_sort_buffer_sort.                                                 *)
EndInput ==
  /\ phase = "Input"
  /\ buffers' = IF Live THEN [buffers EXCEPT ![sortBufId + 1] =
                                Buffer(Sorted(Keys, Current.records))]
                        ELSE buffers
  /\ phase' = IF HasOutput(statement) THEN "Output" ELSE "Draining"
  /\ file' = 1
  /\ UNCHANGED <<disk, locked, sortBufId, statement, place, area, capacity, heads, taken,
                 returned>>

(* GIVING after an INPUT PROCEDURE: cobol_sort_buffer_return up to its end *)
(* for each file, and nothing sets the read index back.                    *)
GiveBuffer ==
  /\ phase = "Draining" /\ file <= Len(Giving)
  /\ disk' = Give(Giving[file],
                  SubSeq(Current.records, Current.readIndex + 1, Len(Current.records)))
  /\ buffers' = [buffers EXCEPT ![sortBufId + 1].readIndex = Len(Current.records)]
  /\ file' = file + 1
  /\ UNCHANGED <<locked, sortBufId, statement, phase, place, area, capacity, heads, taken,
                 returned>>

EndDraining ==
  /\ phase = "Draining" /\ file > Len(Giving)
  /\ FreeBuffer
  /\ Ends
  /\ UNCHANGED <<disk, locked, sortBufId>>

-----------------------------------------------------------------------------
(* RETURN: 10 behind the last record, as on a buffer that is not there.    *)
Answer == IF Live /\ Current.readIndex < Len(Current.records)
            THEN Current.records[Current.readIndex + 1] ELSE AtEnd

(* Variant for a mutant: the read index also passes the end.               *)
ReturnPastEnd ==
  /\ phase = "Output" /\ Len(returned) < Len(taken) + 2
  /\ returned' = Append(returned, Answer)
  /\ buffers' = IF Live THEN [buffers EXCEPT ![sortBufId + 1].readIndex = @ + 1] ELSE buffers
  /\ UNCHANGED <<disk, locked, sortBufId, statement, phase, file, place, area, capacity, heads,
                 taken>>

Return ==
  /\ phase = "Output" /\ Len(returned) < Len(taken) + 2
  /\ returned' = Append(returned, Answer)
  /\ buffers' = IF Answer # AtEnd THEN [buffers EXCEPT ![sortBufId + 1].readIndex = @ + 1]
                                  ELSE buffers
  /\ UNCHANGED <<disk, locked, sortBufId, statement, phase, file, place, area, capacity, heads,
                 taken>>

EndOutput ==
  /\ phase = "Output"
  /\ FreeBuffer
  /\ Ends
  /\ UNCHANGED <<disk, locked, sortBufId>>

-----------------------------------------------------------------------------
(* MERGE with GIVING: cobol_merge takes records from the open inputs.      *)
Head_(i, n) == IF n < Len(Contents(Using[i])) THEN Contents(Using[i])[n + 1] ELSE None

StartMerging(s) ==
  /\ phase = "Idle" /\ MayRun(s) /\ Merges(s)
  /\ statement' = s /\ phase' = "Merging"
  /\ disk' = Give(s.giving[1], <<>>)
  /\ place' = [i \in 1..Len(s.using) |-> 1]
  /\ heads' = [i \in 1..Len(s.using) |->
                 IF Contents(s.using[i]) = <<>> THEN None ELSE Contents(s.using[i])[1]]
  /\ taken' = FlattenSeq([i \in 1..Len(s.using) |-> Contents(s.using[i])])
  /\ UNCHANGED <<locked, buffers, sortBufId, file, area, capacity, returned>>

InHand == {i \in 1..Len(Using) : heads[i] # None}

(* Variant for a mutant: among equals the last input.                      *)
BestLast == CHOOSE i \in InHand :
              /\ \A j \in InHand : j < i => ~Precedes(Keys, heads[j], heads[i])
              /\ \A j \in InHand : j > i => Precedes(Keys, heads[i], heads[j])

(* The first input that no later one is before.                            *)
Best == CHOOSE i \in InHand :
          /\ \A j \in InHand : j < i => Precedes(Keys, heads[i], heads[j])
          /\ \A j \in InHand : j > i => ~Precedes(Keys, heads[j], heads[i])

(* Variant for a mutant: a WRITE that fails is tried again.                *)
MergeRecordTriesAgain ==
  /\ phase = "Merging" /\ InHand # {}
  /\ IF Giving[1] \in locked
       THEN UNCHANGED <<disk, place, heads, phase, file>>
       ELSE /\ disk' = [disk EXCEPT ![Giving[1]] = Append(@, heads[Best])]
            /\ heads' = [heads EXCEPT ![Best] = Head_(Best, place[Best])]
            /\ place' = [place EXCEPT ![Best] = @ + 1]
            /\ UNCHANGED <<phase, file>>
  /\ UNCHANGED <<locked, buffers, sortBufId, statement, area, capacity, taken, returned>>

(* A WRITE that fails ends the merge.                                      *)
MergeRecord ==
  /\ phase = "Merging" /\ InHand # {}
  /\ IF Giving[1] \in locked
       THEN phase' = "Copying" /\ file' = 2 /\ UNCHANGED <<disk, place, heads>>
       ELSE /\ disk' = [disk EXCEPT ![Giving[1]] = Append(@, heads[Best])]
            /\ heads' = [heads EXCEPT ![Best] = Head_(Best, place[Best])]
            /\ place' = [place EXCEPT ![Best] = @ + 1]
            /\ UNCHANGED <<phase, file>>
  /\ UNCHANGED <<locked, buffers, sortBufId, statement, area, capacity, taken, returned>>

EndMerging ==
  /\ phase = "Merging" /\ InHand = {}
  /\ phase' = "Copying" /\ file' = 2
  /\ UNCHANGED <<disk, locked, buffers, sortBufId, statement, place, area, capacity, heads,
                 taken, returned>>

(* The other GIVING files are copies of the first, read again.             *)
CopyGiving ==
  /\ phase = "Copying" /\ file <= Len(Giving)
  /\ disk' = Give(Giving[file], Contents(Giving[1]))
  /\ file' = file + 1
  /\ UNCHANGED <<locked, buffers, sortBufId, statement, phase, place, area, capacity, heads,
                 taken, returned>>

EndCopying ==
  /\ phase = "Copying" /\ file > Len(Giving)
  /\ Ends
  /\ UNCHANGED <<disk, locked, buffers, sortBufId>>

-----------------------------------------------------------------------------
Step == \/ ReadUsing \/ CloseUsing \/ SortArea \/ GiveArea \/ EndGiving
        \/ GiveBuffer \/ EndDraining
        \/ MergeRecord \/ EndMerging \/ CopyGiving \/ EndCopying

Next == \/ Step
        \/ \E s \in Statements : StartReading(s) \/ StartInput(s) \/ StartMerging(s)
        \/ \E record \in Records : Release(record)
        \/ EndInput \/ Return \/ EndOutput

(* The C code of a statement runs on; a procedure need not end.            *)
Spec == Init /\ [][Next]_vars /\ WF_vars(Step)

-----------------------------------------------------------------------------
(* Types; the slots of SORT_BUFFERS hold buffers whose read index is       *)
(* inside their records.                                                   *)
TypeOK ==
  /\ \A f \in Files : disk[f] = Absent \/ disk[f] \in Seq(Records)
  /\ locked \subseteq Files
  /\ \A i \in 1..Len(buffers) :
       buffers[i] # Free => buffers[i].readIndex \in 0..Len(buffers[i].records)
  /\ sortBufId \in Nat
  /\ statement \in Statements \cup {NoStatement} /\ phase \in Phases
  /\ file \in Nat /\ capacity \in Nat
  /\ area \in Seq(Records) /\ taken \in Seq(Records)
  /\ returned \in Seq(Records \cup {AtEnd})

(* The bytes of the keys compare as the values they stand for.  (They do   *)
(* not for COMP of more than eight digits, which compares as text.)        *)
KeysCompareAsValues ==
  \A s \in Statements : \A r, q \in Records : Precedes(s.keys, r, q) <=> ValueBefore(s.keys, r, q)

(* The first GIVING file is no other one after an INPUT PROCEDURE, and no  *)
(* USING file of a MERGE, as COBOL asks.                                   *)
FilesApart ==
  \A s \in Statements :
    /\ HasInput(s) => \A i \in 1..Len(s.giving) : i # 1 => s.giving[i] # s.giving[1]
    /\ Merges(s) => \A i \in 1..Len(s.using) : s.using[i] # s.giving[1]

Opens(f) == f \notin locked
Wanted == InOrder(Keys, taken)
Holds(f) == Opens(f) => disk[f] = Wanted

(* When SORT or MERGE has written a GIVING file it holds every input       *)
(* record, by the values of the keys, equal ones in the order of the USING *)
(* files and of their records: what cobol_sort, the buffer and the k-way   *)
(* merge of cobol_merge each make of the bytes.  (One GIVING file after an *)
(* INPUT PROCEDURE, and copies of a first file that could be written: the  *)
(* README says what happens to the others.)                                *)
GivingInOrder ==
  /\ phase \in {"Giving", "Draining"} /\ file > 1 =>
       \A i \in 1..(file - 1) : (phase = "Giving" \/ i = 1) => Holds(Giving[i])
  /\ phase = "Copying" /\ Opens(Giving[1]) => \A i \in 1..(file - 1) : Holds(Giving[i])

(* RETURN delivers the records in that order, each once, and AT END after  *)
(* the last and not before.                                                *)
ReturnsInOrder ==
  \A i \in 1..Len(returned) :
    returned[i] = IF i <= Len(taken) THEN Wanted[i] ELSE AtEnd

(* READ writes into the area before the code looks at the room left: there *)
(* is room for one more record at every READ.                              *)
RoomToRead == phase = "Reading" => Len(area) < capacity

(* A slot of SORT_BUFFERS is taken exactly while a procedure of a          *)
(* statement may use it (or GIVING drains it), and it is the one           *)
(* _sort_buf_id names: no statement leaves one behind, and none runs on    *)
(* the buffer of an earlier one.                                           *)
BuffersGivenBack ==
  \A i \in 1..Len(buffers) :
    buffers[i] # Free <=> phase \in {"Input", "Draining", "Output"} /\ i = sortBufId + 1

(* The areas that SORT and MERGE keep records in: types, room for the next *)
(* READ, buffers taken and given back, and RETURN never past the last      *)
(* record of one (emit_sort and SORT_BUFFERS).                             *)
AreasCorrect == TypeOK /\ RoomToRead /\ BuffersGivenBack

(* Outside its procedures a statement comes to its end.                    *)
Finishes == phase # "Idle" ~> phase \in {"Idle", "Input", "Output"}
=============================================================================
