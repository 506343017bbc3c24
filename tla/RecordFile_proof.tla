--------------------------- MODULE RecordFile_proof ---------------------------
(***************************************************************************)
(* Theorems about RecordFile, for any kinds of file, any record width and  *)
(* any number of records: its types, the answers of its calls, and, for    *)
(* kinds whose bytes can give the records back, that it implements         *)
(* RecordSequence: every call maps to a step of the sequence of records.   *)
(***************************************************************************)
EXTENDS RecordFile, SequenceLemmas

(* The bytes of a file that does not exist are written by nobody: an open  *)
(* file exists.                                                            *)
StoreOK ==
  /\ bytes \in Seq(Nat) /\ Fits(bytes)
  /\ ~exists => bytes = <<>>
  /\ mode # "Closed" => exists
  /\ safe \in 0..Len(bytes) /\ (~Writing => safe = Len(bytes))

CursorOK ==
  /\ mode = "Closed" => ~lastReadValid
  /\ position \in Nat /\ currentRecord \in Nat
  /\ lastReadValid \in BOOLEAN /\ atEndSeen \in BOOLEAN
  /\ lastReadValid => currentRecord > 0 /\ ~Writing

HandleOK ==
  /\ kind \in Kinds /\ locked \in BOOLEAN /\ exists \in BOOLEAN
  /\ mode \in {"Closed", "Input", "Output", "IoMode", "Extend"}

IInv == HandleOK /\ StoreOK /\ CursorOK

Told == reply.op \in Operations /\ reply.status \in Statuses

-----------------------------------------------------------------------------
(* Sizes and places *)

LEMMA KindProperties ==
  ASSUME NEW k \in Kinds
  PROVE  /\ Width \in Nat /\ Width > 0 /\ MaxRecords \in Nat
         /\ k.organization \in {Sequential, LineSequential, Relative}
         /\ Sequential # LineSequential /\ Sequential # Relative /\ LineSequential # Relative
         /\ k.varying => k.organization = Sequential
         /\ k.keyed => k.organization = Relative
         /\ k.access = "Dynamic" => k.keyed
         /\ k.modes \subseteq {"Input", "Output", "IoMode", "Extend"}
<1>1. /\ Width \in Nat /\ Width > 0 /\ MaxRecords \in Nat
      /\ Sequential # LineSequential /\ Sequential # Relative /\ LineSequential # Relative
  BY KindsAssumption DEF Sequential, LineSequential, Relative
<1>2. QED
  BY <1>1, KindsAssumption, Zenon

LEMMA Products ==
  ASSUME NEW a \in Nat, NEW b \in Nat
  PROVE  a * b \in Nat
OBVIOUS

LEMMA Quotients ==
  ASSUME NEW a \in Nat, NEW b \in Nat, b > 0
  PROVE  a \div b \in Nat
OBVIOUS

LEMMA Places ==
  ASSUME HandleOK, StoreOK
  PROVE  /\ Slots(bytes) \in Nat
         /\ \A n \in Nat : n * Width \in Nat
         /\ \A n \in Nat : n > 0 => Offset(n) \in Nat
         /\ \A n \in Nat : Before(n) \in Nat /\ Before(n) * Width \in Nat
         /\ Fits(<<>>)
<1>1. Width \in Nat /\ Width > 0 /\ MaxRecords \in Nat /\ Len(bytes) \in Nat
  BY KindProperties DEF HandleOK, StoreOK
<1>2. \A n \in Nat : n * Width \in Nat
  BY <1>1, Products
<1>3. \A n \in Nat : n > 0 => n - 1 \in Nat
  OBVIOUS
<1>4. \A n \in Nat : Before(n) \in Nat
  BY DEF Before
<1>5. Slots(bytes) \in Nat
  BY <1>1, Quotients DEF Slots
<1>6. Fits(<<>>)
  <2>1. \A w \in Nat : MaxRecords * w \in Nat
    BY <1>1, Products
  <2>2. Width + (IF kind.varying THEN 1 ELSE 0) \in Nat
    BY <1>1
  <2>3. Len(<<>>) = 0
    OBVIOUS
  <2>4. QED
    BY <2>1, <2>2, <2>3 DEF Fits
<1>7. QED
  BY <1>2, <1>3, <1>4, <1>5, <1>6 DEF Offset

(* What a write leaves in the file. *)
LEMMA WrittenBytes ==
  ASSUME NEW b \in Seq(Nat), NEW p \in Nat, NEW t \in Seq(Nat)
  PROVE  /\ WrittenAt(b, p, t) \in Seq(Nat)
         /\ Len(WrittenAt(b, p, t)) = Larger(Len(b), p + Len(t))
<1> DEFINE n == Larger(Len(b), p + Len(t))
<1>1. n \in Nat
  BY DEF Larger
<1>2. \A i \in 1..n : (IF i \in (p + 1)..(p + Len(t)) THEN t[i - p]
                       ELSE IF i <= Len(b) THEN b[i] ELSE Zero) \in Nat
  BY DEF Zero
<1>3. WrittenAt(b, p, t) = [i \in 1..n |->
         IF i \in (p + 1)..(p + Len(t)) THEN t[i - p] ELSE IF i <= Len(b) THEN b[i] ELSE Zero]
  BY DEF WrittenAt
<1> HIDE DEF n
<1>4. WrittenAt(b, p, t) \in [1..n -> Nat]
  BY <1>2, <1>3
<1>5. QED
  BY <1>1, <1>4, FunctionIsSequence DEF n

(* What WRITE puts into the file: a line with its end, a length and a text,*)
(* or the text.                                                            *)
LEMMA FramedText ==
  ASSUME HandleOK, NEW t \in kind.texts
  PROVE  /\ Framed(t) \in Seq(Nat)
         /\ kind.organization # LineSequential => Len(Framed(t)) - Len(t) \in {0, 1}
<1>1. t \in Seq(Nat) /\ Len(t) \in Nat
  <2>1. t \in Seq(Nat)
    BY TextsAssumption DEF HandleOK
  <2>2. QED
    BY <2>1
<1>2. CASE kind.organization = LineSequential
  <2> DEFINE kept == {n \in DOMAIN t : t[n] # Space}
  <2>1. ASSUME kept # {} PROVE SubSeq(t, 1, Max(kept)) \in Seq(Nat)
    <3>1. kept \in SUBSET Nat /\ \A n \in kept : n <= Len(t)
      BY <1>1
    <3>2. Max(kept) \in kept
      BY <1>1, <2>1, <3>1, MaxIsGreatest
    <3>3. Max(kept) \in 0..Len(t)
      BY <3>1, <3>2, <1>1
    <3>4. QED
      BY <1>1, <3>3, PrefixProperties
  <2>2. Trimmed(t) \in Seq(Nat)
    BY <2>1 DEF Trimmed
  <2>3. Framed(t) = Append(Trimmed(t), NewLine) /\ NewLine \in Nat
    BY <1>2, KindProperties DEF Framed, NewLine, HandleOK
  <2> HIDE DEF kept
  <2>4. QED
    BY <1>2, <2>2, <2>3
<1>3. CASE kind.organization # LineSequential /\ kind.varying
  <2>1. LengthField(Len(t)) \in Nat
    BY <1>1 DEF LengthField
  <2>2. Framed(t) = <<LengthField(Len(t))>> \o t
    BY <1>3 DEF Framed
  <2>3. QED
    BY <1>1, <2>1, <2>2
<1>4. CASE kind.organization # LineSequential /\ ~kind.varying
  <2>1. Framed(t) = t
    BY <1>4 DEF Framed
  <2>2. QED
    BY <1>1, <2>1
<1>5. QED
  BY <1>2, <1>3, <1>4

-----------------------------------------------------------------------------
(* The invariant *)

LEMMA SameFile ==
  ASSUME IInv, UNCHANGED <<kind, store, locked, mode, cursor>>
  PROVE  IInv'
BY DEF IInv, HandleOK, StoreOK, CursorOK, store, cursor, Writing, IsRelative, Fits

(* A step that leaves the bytes alone. *)
LEMMA SameStore ==
  ASSUME IInv, kind' = kind, bytes' = bytes, safe' = safe, exists' = exists, mode' = mode
  PROVE  StoreOK'
BY DEF IInv, StoreOK, Writing, IsRelative, Fits

LEMMA OpenInv ==
  ASSUME IInv, NEW m \in kind.modes, Open(m)
  PROVE  IInv'
<1>1. /\ kind' = kind /\ locked' = locked /\ exists' = TRUE /\ mode' = m
      /\ bytes' = (IF m = "Output" THEN <<>> ELSE bytes) /\ safe' = Len(bytes')
      /\ position' = 0 /\ currentRecord' = 0 /\ lastReadValid' = FALSE /\ atEndSeen' = FALSE
  BY DEF Open, Store, Rewound
<1>2. HandleOK'
  BY <1>1, KindProperties DEF IInv, HandleOK
<1>3. bytes' \in Seq(Nat) /\ Fits(bytes')
  <2>1. bytes \in Seq(Nat) /\ Fits(bytes) /\ <<>> \in Seq(Nat) /\ Fits(<<>>)
    BY Places DEF IInv, StoreOK
  <2>2. QED
    BY <1>1, <2>1
<1>4. StoreOK'
  BY <1>1, <1>3 DEF StoreOK, Fits
<1>5. CursorOK'
  BY <1>1 DEF CursorOK
<1>6. QED
  BY <1>2, <1>4, <1>5 DEF IInv

LEMMA ClosedInv ==
  ASSUME IInv, kind' = kind, exists' = exists, mode' = "Closed", locked' \in BOOLEAN, Rewound,
         bytes' \in Seq(Nat), safe' = Len(bytes'), Fits(bytes'), bytes = <<>> => bytes' = <<>>
  PROVE  IInv'
<1>1. HandleOK'
  BY DEF IInv, HandleOK
<1>2. StoreOK'
  BY DEF IInv, StoreOK, Fits
<1>3. CursorOK'
  BY DEF CursorOK, Rewound
<1>4. QED
  BY <1>1, <1>2, <1>3 DEF IInv

LEMMA CloseInv ==
  ASSUME IInv, (\E lock \in {FALSE, kind.locking} : Close(lock)) \/ StopRun
  PROVE  IInv'
<1>1. /\ kind' = kind /\ exists' = exists /\ bytes' = bytes /\ mode' = "Closed" /\ Rewound
      /\ safe' = Len(bytes)
  BY DEF Close, StopRun
<1>2. locked' \in BOOLEAN
  BY Zenon DEF Close, StopRun
<1>3. QED
  BY <1>1, <1>2, ClosedInv DEF IInv, StoreOK

LEMMA CrashInv ==
  ASSUME IInv, Crash
  PROVE  IInv'
<1>1. /\ kind' = kind /\ exists' = exists /\ mode' = "Closed" /\ locked' = FALSE /\ Rewound
      /\ bytes' = SubSeq(bytes, 1, safe) /\ safe' = Len(bytes')
  BY DEF Crash, Store
<1>2. bytes \in Seq(Nat) /\ safe \in 0..Len(bytes) /\ Fits(bytes)
  BY DEF IInv, StoreOK
<1>3. bytes' \in Seq(Nat) /\ Len(bytes') = safe
  BY <1>1, <1>2, PrefixProperties
<1>4. Fits(bytes')
  <2> DEFINE limit == MaxRecords * (Width + (IF kind.varying THEN 1 ELSE 0))
  <2>1. limit \in Nat
    <3>1. Width + (IF kind.varying THEN 1 ELSE 0) \in Nat /\ MaxRecords \in Nat
      BY KindProperties DEF IInv, HandleOK
    <3>2. QED
      BY <3>1, Products
  <2>2. Len(bytes) <= limit
    BY <1>2 DEF Fits
  <2> HIDE DEF limit
  <2>3. Len(bytes') <= limit
    BY <1>2, <1>3, <2>1, <2>2
  <2>4. QED
    BY <2>3 DEF limit, Fits
<1>5. bytes = <<>> => bytes' = <<>>
  BY <1>2, <1>3
<1>6. QED
  BY <1>1, <1>3, <1>4, <1>5, ClosedInv

(* Where a READ that looks for a record ends up. *)
LEMMA NextPlace ==
  ASSUME HandleOK, StoreOK, NEW p \in Nat
  PROVE  RecordAt(bytes, p).next \in Nat /\ FixedAt(bytes, p).next \in Nat
<1>1. Width \in Nat /\ bytes \in Seq(Nat) /\ Len(bytes) \in Nat
  BY KindProperties DEF HandleOK, StoreOK
<1>2. FixedAt(bytes, p).next \in Nat
  BY <1>1 DEF FixedAt, Found, Nothing, Larger
<1>3. p < Len(bytes) => VaryingAt(bytes, p).next \in Nat
  <2> DEFINE n == IF bytes[p + 1] = Zero THEN 0 ELSE bytes[p + 1] - LengthField(0)
  <2>1. p < Len(bytes) => n \in Int
    BY <1>1 DEF LengthField
  <2> HIDE DEF n
  <2>2. VaryingAt(bytes, p)
          = IF p < Len(bytes) /\ n >= 0 /\ p + 1 + n <= Len(bytes)
              THEN Found(SubSeq(bytes, p + 2, p + 1 + n), p + 1 + n) ELSE Nothing(Len(bytes))
    BY DEF VaryingAt, n
  <2>3. QED
    BY <1>1, <2>1, <2>2 DEF Found, Nothing
<1>4. LineAt(bytes, p).next \in Nat
  <2> DEFINE ends == {n \in (p + 1)..Len(bytes) : bytes[n] = NewLine}
             last == Min(ends \cup {Len(bytes) + 1})
  <2>1. last \in Nat
    <3>1. ends \cup {Len(bytes) + 1} \in SUBSET Nat
      BY <1>1
    <3> HIDE DEF ends
    <3>2. QED
      BY <3>1, MinIsLeast
  <2> HIDE DEF last
  <2>2. LineAt(bytes, p)
          = IF p < Len(bytes)
              THEN Found(SubSeq(bytes, p + 1, last - 1), IF ends = {} THEN Len(bytes) ELSE last)
              ELSE Nothing(p)
    BY DEF LineAt, last
  <2> HIDE DEF ends
  <2>3. QED
    BY <1>1, <2>1, <2>2 DEF Found, Nothing
<1>5. p >= Len(bytes) => Nothing(p).next = p
  BY DEF Nothing
<1>6. QED
  BY <1>1, <1>2, <1>3, <1>4, <1>5 DEF RecordAt

(* A file that may be read has no BufWriter. *)
LEMMA ReadInv ==
  ASSUME IInv, Readable, kind' = kind, bytes' = bytes, safe' = safe, exists' = exists,
         locked' = locked, mode' = mode, position' \in Nat, currentRecord' \in Nat,
         lastReadValid' \in BOOLEAN, atEndSeen' \in BOOLEAN, lastReadValid' => currentRecord' > 0
  PROVE  IInv'
<1>1. ~Writing' /\ mode' # "Closed"
  BY DEF Readable, Writing
<1>2. CursorOK'
  BY <1>1 DEF CursorOK
<1>3. QED
  BY <1>2, SameStore DEF IInv, HandleOK

LEMMA ReadNextRecordInv ==
  ASSUME IInv, ReadNextRecord
  PROVE  IInv'
<1> DEFINE r == RecordAt(bytes, position)
<1>1. /\ kind' = kind /\ bytes' = bytes /\ safe' = safe /\ exists' = exists
      /\ locked' = locked /\ mode' = mode
  BY DEF ReadNextRecord, store
<1>2. position' \in Nat
  <2>1. position' = r.next
    BY DEF ReadNextRecord
  <2>2. QED
    BY <2>1, NextPlace DEF IInv, CursorOK
<1>3. /\ \/ /\ currentRecord' = currentRecord + 1 /\ lastReadValid' = TRUE /\ atEndSeen' = FALSE
         \/ /\ currentRecord' = currentRecord /\ lastReadValid' = FALSE /\ atEndSeen' = TRUE
      /\ Readable
  <2>1. CASE r.found
    BY <2>1 DEF ReadNextRecord, Selected
  <2>2. CASE ~r.found
    BY <2>2 DEF ReadNextRecord, MarkAtEnd
  <2>3. Readable
    BY DEF ReadNextRecord
  <2>4. QED
    BY <2>1, <2>2, <2>3
<1>4. currentRecord \in Nat
  BY DEF IInv, CursorOK
<1>5. /\ currentRecord' \in Nat /\ lastReadValid' \in BOOLEAN /\ atEndSeen' \in BOOLEAN
      /\ lastReadValid' => currentRecord' > 0
  <2>1. CASE lastReadValid' = TRUE /\ atEndSeen' = FALSE /\ currentRecord' = currentRecord + 1
    <3>1. currentRecord' \in Nat /\ currentRecord' > 0
      BY <1>4, <2>1
    <3>2. QED
      BY <2>1, <3>1
  <2>2. CASE lastReadValid' = FALSE /\ atEndSeen' = TRUE /\ currentRecord' = currentRecord
    BY <1>4, <2>2
  <2>3. QED
    BY <1>3, <2>1, <2>2
<1>6. QED
  BY <1>1, <1>2, <1>3, <1>5, ReadInv

LEMMA ReadNextSlotInv ==
  ASSUME IInv, ReadNextSlot
  PROVE  IInv'
<1> DEFINE ahead == (position \div Width + 1)..Slots(bytes)
           live == {n \in ahead : Present(bytes, n)}
<1>1. /\ kind' = kind /\ bytes' = bytes /\ safe' = safe /\ exists' = exists
      /\ locked' = locked /\ mode' = mode
  BY DEF ReadNextSlot, store
<1>2. /\ Width \in Nat /\ Width > 0 /\ Len(bytes) \in Nat /\ Slots(bytes) \in Nat
      /\ position \in Nat /\ position \div Width \in Nat /\ currentRecord \in Nat
  <2>1. Width \in Nat /\ Width > 0
    BY KindProperties DEF IInv, HandleOK
  <2>2. Len(bytes) \in Nat /\ Slots(bytes) \in Nat /\ position \in Nat /\ currentRecord \in Nat
    BY Places DEF IInv, StoreOK, CursorOK
  <2>3. QED
    BY <2>1, <2>2, Quotients
<1>3. ahead \in SUBSET Nat /\ live \subseteq ahead /\ (\A n \in ahead : n > 0) /\ Cardinality(ahead) \in Nat
  <2>1. IsFiniteSet(ahead)
    BY <1>2, FS_Interval
  <2>2. Cardinality(ahead) \in Nat
    BY <2>1, FS_CardinalityType
  <2>3. QED
    BY <1>2, <2>2
<1> HIDE DEF ahead, live
<1>4. CASE live # {}
  <2>1. /\ Min(live) \in ahead /\ Min(ahead) \in ahead /\ Min(ahead) <= Min(live)
    BY <1>3, <1>4, MinIsLeast
  <2>2. Min(live) \in Nat /\ Min(live) > 0 /\ Min(ahead) \in Nat
    BY <1>3, <2>1
  <2>3. /\ Readable
        /\ position' = Min(live) * Width /\ currentRecord' = currentRecord + Min(live) - Min(ahead) + 1
        /\ lastReadValid' = TRUE /\ atEndSeen' = FALSE
    BY <1>4 DEF ReadNextSlot, Selected, ahead, live
  <2>4. position' \in Nat
    BY <2>2, <2>3, <1>2, Products
  <2>5. currentRecord' \in Nat /\ currentRecord' > 0
    BY <1>2, <2>1, <2>2, <2>3
  <2>6. QED
    BY <1>1, <2>3, <2>4, <2>5, ReadInv
<1>5. CASE live = {}
  <2>1. /\ position' = Larger(position, Len(bytes)) /\ currentRecord' = currentRecord + Cardinality(ahead)
        /\ lastReadValid' = FALSE /\ atEndSeen' = TRUE
    BY <1>5 DEF ReadNextSlot, MarkAtEnd, ahead, live
  <2>2. position' \in Nat /\ currentRecord' \in Nat /\ Readable
    BY <1>2, <1>3, <2>1 DEF Larger, ReadNextSlot
  <2>3. QED
    BY <1>1, <2>1, <2>2, ReadInv
<1>6. QED
  BY <1>4, <1>5

LEMMA ReadRelativeInv ==
  ASSUME IInv, NEW n \in Nat, n > 0, ReadRelative(n)
  PROVE  IInv'
<1> DEFINE r == FixedAt(bytes, Offset(n))
<1>1. /\ kind' = kind /\ bytes' = bytes /\ safe' = safe /\ exists' = exists
      /\ locked' = locked /\ mode' = mode /\ Readable
  BY DEF ReadRelative, store
<1>2. /\ n * Width \in Nat /\ Offset(n) \in Nat /\ Len(bytes) \in Nat
      /\ currentRecord \in Nat /\ atEndSeen \in BOOLEAN
  BY Places DEF IInv, StoreOK, CursorOK
<1>3. r.next \in Nat
  BY <1>2, NextPlace DEF IInv
<1>4. /\ position' \in Nat
      /\ \/ /\ currentRecord' = n /\ lastReadValid' = TRUE /\ atEndSeen' = FALSE
         \/ /\ currentRecord' = currentRecord /\ lastReadValid' = FALSE /\ atEndSeen' = atEndSeen
  <2>1. CASE Present(bytes, n)
    BY <1>2, <2>1 DEF ReadRelative, Selected
  <2>2. CASE ~Present(bytes, n)
    <3> DEFINE p == Larger(Offset(n), Len(bytes))
    <3>1. p \in Nat
      BY <1>2 DEF Larger
    <3>2. position' = IF r.found THEN r.next ELSE p
      BY <2>2 DEF ReadRelative
    <3> HIDE DEF p, r
    <3>3. position' \in Nat
      BY <1>3, <3>1, <3>2
    <3>4. QED
      BY <2>2, <3>3 DEF ReadRelative
  <2>3. QED
    BY <2>1, <2>2
<1>5. /\ currentRecord' \in Nat /\ lastReadValid' \in BOOLEAN /\ atEndSeen' \in BOOLEAN
      /\ lastReadValid' => currentRecord' > 0
  BY <1>2, <1>4
<1>6. QED
  BY <1>1, <1>4, <1>5, ReadInv

-----------------------------------------------------------------------------
(* WRITE, REWRITE, DELETE, START *)

LEMMA WriteNextInv ==
  ASSUME IInv, NEW t \in kind.texts, WriteNext(t)
  PROVE  IInv'
<1> DEFINE at == IF Writing THEN Len(bytes) ELSE position
<1>1. /\ kind' = kind /\ exists' = exists /\ locked' = locked /\ mode' = mode
      /\ lastReadValid' = lastReadValid /\ atEndSeen' = atEndSeen
      /\ currentRecord' = currentRecord + 1
      /\ bytes' = WrittenAt(bytes, at, Framed(t)) /\ position' = at + Len(Framed(t))
      /\ Fits(bytes')
      /\ IF Writing THEN safe' \in SafeAfterWrite(t) ELSE safe' = Len(bytes')
      /\ Writable
  BY DEF WriteNext
<1>2. Framed(t) \in Seq(Nat) /\ t \in Seq(Nat) /\ (kind.organization # LineSequential => Len(Framed(t)) - Len(t) \in {0, 1})
  BY FramedText, TextsAssumption DEF IInv, HandleOK
<1>3. /\ bytes \in Seq(Nat) /\ Len(bytes) \in Nat /\ position \in Nat /\ currentRecord \in Nat
      /\ safe \in 0..Len(bytes) /\ exists \in BOOLEAN /\ (mode # "Closed" => exists)
  BY DEF IInv, StoreOK, CursorOK, HandleOK
<1>4. at \in Nat
  BY <1>3
<1>5. exists
  BY <1>1, <1>3 DEF Writable
<1>6. /\ bytes' \in Seq(Nat)
      /\ Len(bytes') = Larger(Len(bytes), at + Len(Framed(t)))
  BY <1>1, <1>2, <1>3, <1>4, WrittenBytes
<1>7. safe' \in 0..Len(bytes') /\ (~Writing => safe' = Len(bytes'))
  <2>1. CASE Writing
    <3>1. Len(bytes') = Len(bytes) + Len(Framed(t))
      BY <1>2, <1>3, <1>6, <2>1 DEF Larger
    <3>2. safe' \in SafeAfterWrite(t)
      BY <1>1, <2>1
    <3>3. CASE kind.organization = LineSequential
      BY <1>2, <1>3, <3>1, <3>2, <3>3, <2>1 DEF SafeAfterWrite
    <3>4. CASE kind.organization # LineSequential
      <4>1. safe' \in {safe, Len(bytes), Len(bytes) + Len(Framed(t)) - Len(t)}
        BY <3>2, <3>4 DEF SafeAfterWrite
      <4>2. Len(t) \in Nat /\ Len(Framed(t)) \in Nat
        BY <1>2
      <4>3. QED
        BY <1>2, <1>3, <3>1, <3>4, <4>1, <4>2, <2>1
    <3>5. QED
      BY <3>3, <3>4
  <2>2. CASE ~Writing
    BY <1>1, <1>6, <2>2
  <2>3. QED
    BY <2>1, <2>2
<1>8. StoreOK'
  BY <1>1, <1>5, <1>6, <1>7 DEF StoreOK, Writing, IsRelative, Fits
<1>9. CursorOK'
  BY <1>1, <1>2, <1>3, <1>4 DEF IInv, CursorOK, Writing, IsRelative
<1>10. QED
  BY <1>1, <1>8, <1>9 DEF IInv, HandleOK

(* A write into a file that no BufWriter stands before. *)
LEMMA OverwriteInv ==
  ASSUME IInv, NEW p \in Nat, NEW t \in Seq(Nat), Store(WrittenAt(bytes, p, t)), Fits(bytes'),
         kind' = kind, exists' = exists, locked' = locked, mode' = mode, mode # "Closed",
         position' \in Nat, currentRecord' \in Nat, lastReadValid' \in BOOLEAN, atEndSeen' \in BOOLEAN,
         lastReadValid' => currentRecord' > 0 /\ ~Writing
  PROVE  IInv'
<1>1. bytes' \in Seq(Nat) /\ safe' = Len(bytes')
  BY WrittenBytes DEF Store, IInv, StoreOK
<1>2. StoreOK'
  BY <1>1 DEF IInv, StoreOK, Fits
<1>3. CursorOK'
  BY DEF CursorOK, Writing, IsRelative
<1>4. QED
  BY <1>2, <1>3 DEF IInv, HandleOK

LEMMA WriteRelativeInv ==
  ASSUME IInv, kind.access = "Dynamic", NEW n \in Nat, n > 0, NEW t \in kind.texts, WriteRelative(n, t)
  PROVE  IInv'
<1>1. /\ kind' = kind /\ locked' = locked /\ mode' = mode /\ atEndSeen' = atEndSeen
      /\ mode \in {"Output", "IoMode"} /\ position' = n * Width
  BY DEF WriteRelative
<1>2. /\ n * Width \in Nat /\ Offset(n) \in Nat /\ t \in Seq(Nat) /\ atEndSeen \in BOOLEAN
      /\ currentRecord \in Nat /\ lastReadValid \in BOOLEAN
      /\ lastReadValid => currentRecord > 0 /\ ~Writing
  BY Places, TextsAssumption DEF IInv, CursorOK, HandleOK
<1>3. CASE Occupied(n)
  <2>1. /\ bytes' = bytes /\ safe' = safe /\ exists' = exists
        /\ currentRecord' = currentRecord /\ lastReadValid' = lastReadValid
    BY <1>3 DEF WriteRelative, store
  <2>2. CursorOK'
    BY <1>1, <1>2, <2>1 DEF CursorOK, Writing, IsRelative
  <2>3. QED
    BY <1>1, <2>1, <2>2, SameStore DEF IInv, HandleOK
<1>4. CASE ~Occupied(n)
  <2>1. /\ Store(WrittenAt(bytes, Offset(n), t)) /\ Fits(bytes') /\ exists' = exists
        /\ currentRecord' = n /\ lastReadValid' = FALSE
    BY <1>4 DEF WriteRelative
  <2>2. QED
    BY <1>1, <1>2, <2>1, OverwriteInv
<1>5. QED
  BY <1>3, <1>4

LEMMA UpdateInv ==
  ASSUME IInv,
         \/ \E t \in kind.texts : Rewrite(t)
         \/ Delete
         \/ \E n \in Nat : n > 0 /\ DeleteRelative(n)
  PROVE  IInv'
<1>1. /\ currentRecord \in Nat /\ lastReadValid \in BOOLEAN /\ atEndSeen \in BOOLEAN
      /\ CurrentOffset \in Nat /\ (lastReadValid => currentRecord > 0)
      /\ Width \in Nat
  BY Places, KindProperties DEF IInv, CursorOK, CurrentOffset, HandleOK
<1>2. Deleted \in Seq(Nat) /\ Len(Deleted) = Width
  <2>1. Deleted \in [1..Width -> Nat]
    BY DEF Deleted, Zero
  <2>2. QED
    BY <1>1, <2>1, FunctionIsSequence
<1>3. mode = "IoMode" => ~Writing /\ mode # "Closed"
  BY DEF Writing
<1>4. ASSUME NEW t \in Seq(Nat), Overwrite(t), mode = "IoMode", Fits(bytes'),
             UNCHANGED <<kind, exists, locked, mode, currentRecord, lastReadValid, atEndSeen>>
      PROVE  IInv'
  <2>1. Store(WrittenAt(bytes, CurrentOffset, t)) /\ position' = CurrentOffset + Len(t)
    BY <1>4 DEF Overwrite
  <2>2. position' \in Nat
    BY <1>1, <2>1
  <2>3. QED
    BY <1>1, <1>3, <1>4, <2>1, <2>2, OverwriteInv
<1>5. ASSUME NEW t \in kind.texts, Rewrite(t) PROVE IInv'
  <2>1. t \in Seq(Nat)
    BY TextsAssumption DEF IInv, HandleOK
  <2>2. mode = "IoMode"
    BY <1>5 DEF Rewrite, RewriteStatus, FsIoModeRequired, FsOk
  <2>3. QED
    BY <1>4, <1>5, <2>1, <2>2 DEF Rewrite
<1>6. CASE Delete
  BY <1>2, <1>4, <1>6 DEF Delete
<1>7. ASSUME NEW n \in Nat, n > 0, DeleteRelative(n) PROVE IInv'
  <2>1. Offset(n) \in Nat /\ n * Width \in Nat
    BY <1>7, Places DEF IInv
  <2>2. /\ mode = "IoMode" /\ kind' = kind /\ exists' = exists /\ locked' = locked /\ mode' = mode
        /\ Store(WrittenAt(bytes, Offset(n), Deleted)) /\ Fits(bytes')
        /\ position' = n * Width /\ currentRecord' = n /\ lastReadValid' = FALSE
        /\ atEndSeen' = atEndSeen
    BY <1>7 DEF DeleteRelative
  <2>3. QED
    BY <1>1, <1>2, <1>3, <2>1, <2>2, OverwriteInv
<1>8. QED
  BY <1>5, <1>6, <1>7

(* START looks only into slots, whose numbers start at 1. *)
LEMMA SearchedSlots ==
  ASSUME IInv, NEW n \in Nat, n > 0, NEW relation \in Relations
  PROVE  /\ Searched(n, relation) \in SUBSET Nat
         /\ \A m \in Searched(n, relation) : m > 0 /\ m <= n + Slots(bytes)
<1>1. Slots(bytes) \in Nat
  BY Places DEF IInv
<1>2. Min({n - 1, Slots(bytes)}) \in {n - 1, Slots(bytes)}
      /\ Min({n, Slots(bytes)}) \in {n, Slots(bytes)}
  <2>1. {n - 1, Slots(bytes)} \in SUBSET Nat /\ {n, Slots(bytes)} \in SUBSET Nat
    BY <1>1
  <2>2. QED
    BY <2>1, MinIsLeast
<1> DEFINE below == Min({n - 1, Slots(bytes)})
           upto == Min({n, Slots(bytes)})
<1>3. below \in Nat /\ below <= n + Slots(bytes) /\ upto \in Nat /\ upto <= n + Slots(bytes)
  BY <1>1, <1>2
<1>4. Searched(n, relation) \in {n..n, (n + 1)..Slots(bytes), n..Slots(bytes), 1..below, 1..upto}
  BY DEF Searched, Relations
<1> HIDE DEF below, upto
<1>5. QED
  BY <1>1, <1>3, <1>4

LEMMA StartRelativeInv ==
  ASSUME IInv, kind.keyed, NEW n \in Nat, n > 0, NEW relation \in Relations, StartRelative(n, relation)
  PROVE  IInv'
<1> DEFINE searched == IF bytes = <<>> THEN {} ELSE Searched(n, relation)
           live == {m \in searched : Present(bytes, m)}
<1>1. /\ kind' = kind /\ bytes' = bytes /\ safe' = safe /\ exists' = exists
      /\ locked' = locked /\ mode' = mode /\ mode \in {"Input", "IoMode", "Output"}
  BY DEF StartRelative, store
<1>2. /\ position \in Nat /\ currentRecord \in Nat /\ lastReadValid \in BOOLEAN /\ atEndSeen \in BOOLEAN
      /\ lastReadValid => currentRecord > 0 /\ ~Writing
  BY DEF IInv, CursorOK
<1>3. /\ searched \in SUBSET Nat /\ live \subseteq searched
      /\ \A m \in searched : m > 0 /\ m <= n + Slots(bytes)
  BY SearchedSlots
<1>4. n + Slots(bytes) \in Nat
  <2>1. Slots(bytes) \in Nat
    BY Places DEF IInv
  <2>2. QED
    BY <2>1
<1>5. ASSUME NEW S, S \subseteq searched, S # {}
      PROVE  /\ First(S, relation) \in S /\ First(S, relation) \in Nat /\ First(S, relation) > 0
             /\ Final(S, relation) \in Nat /\ Final(S, relation) > 0
  <2>1. S \in SUBSET Nat /\ \A m \in S : m > 0 /\ m <= n + Slots(bytes)
    BY <1>3, <1>5
  <2>2. Min(S) \in S /\ Max(S) \in S
    BY <1>4, <1>5, <2>1, MinIsLeast, MaxIsGreatest
  <2>3. QED
    BY <2>1, <2>2 DEF First, Final
<1>6. CASE live # {}
  <2>1. /\ position' = Offset(First(live, relation)) /\ currentRecord' = First(live, relation) - 1
        /\ lastReadValid' = FALSE /\ atEndSeen' = FALSE
    BY <1>6 DEF StartRelative
  <2> HIDE DEF live
  <2>2. First(live, relation) \in Nat /\ First(live, relation) > 0
    BY <1>3, <1>5, <1>6
  <2>3. position' \in Nat /\ currentRecord' \in Nat
    <3>1. Offset(First(live, relation)) \in Nat
      BY <2>2, Places DEF IInv
    <3>2. QED
      BY <2>1, <2>2, <3>1
  <2>4. CursorOK'
    BY <1>1, <2>1, <2>3 DEF CursorOK
  <2>5. QED
    BY <1>1, <2>4, SameStore DEF IInv, HandleOK
<1>7. CASE live = {}
  <2>1. /\ position' = (IF searched = {} THEN position ELSE Offset(Final(searched, relation)))
        /\ currentRecord' = currentRecord /\ lastReadValid' = lastReadValid /\ atEndSeen' = atEndSeen
    BY <1>7 DEF StartRelative
  <2> HIDE DEF searched, live
  <2>2. position' \in Nat
    <3>1. CASE searched = {}
      BY <1>2, <2>1, <3>1
    <3>2. CASE searched # {}
      BY <1>5, <2>1, <3>2, Places DEF IInv
    <3>3. QED
      BY <3>1, <3>2
  <2>3. CursorOK'
    BY <1>1, <1>2, <2>1, <2>2 DEF CursorOK, Writing, IsRelative
  <2>4. QED
    BY <1>1, <2>3, SameStore DEF IInv, HandleOK
<1>8. QED
  BY <1>6, <1>7

LEMMA InvStep == IInv /\ [Next]_vars => IInv'
<1> SUFFICES ASSUME IInv, [Next]_vars PROVE IInv'
  OBVIOUS
<1>1. \A op, status : Refuse(op, status) => IInv'
  BY SameFile DEF Refuse
<1>2. CASE UNCHANGED vars
  BY <1>2, SameFile DEF vars, store, cursor
<1>3. CASE Calls
  <2>1. ASSUME NEW m \in kind.modes, Open(m) \/ OpenRefused(m) PROVE IInv'
    BY <1>1, <2>1, OpenInv DEF OpenRefused
  <2>2. CASE CloseUnopened \/ ReadRefused \/ \E t \in kind.texts : RewriteRefused(t)
    BY <1>1, <2>2 DEF CloseUnopened, ReadRefused, RewriteRefused
  <2>3. QED
    BY <1>3, <2>1, <2>2, CloseInv, CrashInv, ReadNextRecordInv, ReadNextSlotInv, UpdateInv DEF Calls
<1>4. CASE SequentialCalls
  BY <1>1, <1>4, WriteNextInv, UpdateInv DEF SequentialCalls, WriteRefused
<1>5. \A n \in Numbers : n \in Nat /\ n > 0
  BY KindsAssumption DEF Numbers
<1>6. CASE KeyedCalls
  BY <1>1, <1>5, <1>6, StartRelativeInv, UpdateInv
     DEF KeyedCalls, StartRefused, DeleteRefused, StartZero, DeleteZero
<1>7. CASE DynamicCalls
  BY <1>1, <1>5, <1>7, ReadRelativeInv, WriteRelativeInv
     DEF DynamicCalls, WriteRelativeRefused, ReadZero, WriteZero
<1>8. QED
  BY <1>2, <1>3, <1>4, <1>6, <1>7 DEF Next

-----------------------------------------------------------------------------
(* What a call may answer *)

Promised == reply'.op \in {"stop", "crash"} \/ reply'.status \in Answers(Statement(reply'.op), mode)

LEMMA CallTold ==
  ASSUME NEW op \in Operations, NEW status \in Statuses, NEW n, NEW r,
         \/ Answer(op, status) \/ AnswerOf(op, n, status) \/ Refuse(op, status)
         \/ status = FsOk /\ (Deliver(op, r) \/ DeliverOf(op, n, r)),
         op \in {"stop", "crash"} \/ status \in Answers(Statement(op), mode)
  PROVE  Told' /\ Promised
<1>1. reply'.op = op /\ reply'.status = status
  BY DEF Answer, AnswerOf, Refuse, Deliver, DeliverOf
<1>2. QED
  BY <1>1 DEF Told, Promised

LEMMA StatementsNamed ==
  /\ Statement("open") = "open" /\ Statement("close") = "close" /\ Statement("rewrite") = "rewrite"
  /\ Statement("readNext") = "read" /\ Statement("read") = "read"
  /\ Statement("write") = "write" /\ Statement("writeAt") = "write"
  /\ Statement("delete") = "delete" /\ Statement("deleteAt") = "delete"
  /\ Statement("start") = "start" /\ \A relation \in Relations : Statement(relation) = "start"
  /\ {"open", "close", "stop", "crash", "readNext", "read", "write", "writeAt", "rewrite",
      "delete", "deleteAt", "start"} \cup Relations \subseteq Operations
BY DEF Statement, Relations, Operations

LEMMA ReadsTold ==
  ASSUME ReadNextRecord \/ ReadNextSlot \/ ReadRefused \/ \E n : ReadRelative(n)
  PROVE  Told' /\ Promised
<1>1. Answers("read", mode) = ReadAnswers(mode)
  BY DEF Answers
<1>2. ASSUME Readable, NEW r, NEW n, \/ Deliver("readNext", r) \/ DeliverOf("read", n, r)
                                     \/ AnswerOf("read", n, FsRecNotFound) \/ MarkAtEnd(TRUE) \/ MarkAtEnd(FALSE)
      PROVE  Told' /\ Promised
  <2>1. {FsOk, FsAtEnd, FsRecNotFound, FsNoValidNextRecord} \subseteq ReadAnswers(mode) \cap Statuses
    BY <1>2 DEF Readable, ReadAnswers, Statuses
  <2>2. QED
    BY <1>1, <1>2, <2>1, StatementsNamed, CallTold DEF MarkAtEnd
<1>3. CASE ReadNextRecord
  BY <1>2, <1>3 DEF ReadNextRecord, MarkAtEnd
<1>4. CASE ReadNextSlot
  BY <1>2, <1>4 DEF ReadNextSlot, MarkAtEnd
<1>5. ASSUME NEW n, ReadRelative(n) PROVE Told' /\ Promised
  BY <1>2, <1>5 DEF ReadRelative
<1>6. CASE ReadRefused
  <2>1. FsReadNotPermitted \in ReadAnswers(mode) \cap Statuses
    BY <1>6 DEF ReadRefused, Readable, ReadAnswers, Statuses
  <2>2. QED
    BY <1>1, <1>6, <2>1, StatementsNamed, CallTold DEF ReadRefused
<1>7. QED
  BY <1>3, <1>4, <1>5, <1>6

LEMMA OpensTold ==
  ASSUME \/ \E m : Open(m) \/ OpenRefused(m)
         \/ \E lock : Close(lock)
         \/ CloseUnopened \/ StopRun \/ Crash
  PROVE  Told' /\ Promised
<1>1. Answers("open", mode) = OpenAnswers(mode) /\ Answers("close", mode) = CloseAnswers(mode)
  BY DEF Answers
<1>2. ASSUME NEW m, Open(m) PROVE Told' /\ Promised
  <2>1. {FsOk, FsOptionalCreated} \subseteq OpenAnswers(mode) \cap Statuses
    BY <1>2 DEF Open, OpenAnswers, Statuses
  <2>2. PICK status \in {FsOk, FsOptionalCreated} : Answer("open", status)
    BY <1>2 DEF Open
  <2>3. QED
    BY <1>1, <2>1, <2>2, StatementsNamed, CallTold
<1>3. ASSUME NEW m, OpenRefused(m) PROVE Told' /\ Promised
  <2>1. PICK status : Refuse("open", status) /\ status \in OpenAnswers(mode) \cap Statuses
    BY <1>3 DEF OpenRefused, OpenAnswers, Statuses
  <2>2. QED
    BY <1>1, <2>1, StatementsNamed, CallTold
<1>4. ASSUME NEW lock, Close(lock) PROVE Told' /\ Promised
  <2>1. FsOk \in CloseAnswers(mode) \cap Statuses
    BY <1>4 DEF Close, CloseAnswers, Statuses
  <2>2. QED
    BY <1>1, <1>4, <2>1, StatementsNamed, CallTold DEF Close
<1>5. CASE CloseUnopened
  <2>1. FsNotOpen \in CloseAnswers(mode) \cap Statuses
    BY <1>5 DEF CloseUnopened, CloseAnswers, Statuses
  <2>2. QED
    BY <1>1, <1>5, <2>1, StatementsNamed, CallTold DEF CloseUnopened
<1>6. CASE StopRun \/ Crash
  <2>1. FsOk \in Statuses
    BY DEF Statuses
  <2>2. QED
    BY <1>6, <2>1, StatementsNamed, CallTold DEF StopRun, Crash
<1>7. QED
  BY <1>2, <1>3, <1>4, <1>5, <1>6

LEMMA WritesTold ==
  ASSUME HandleOK,
         \/ \E t : WriteNext(t)
         \/ \E n, t : WriteRelative(n, t)
         \/ WriteRefused \/ WriteRelativeRefused
  PROVE  Told' /\ Promised
<1>1. Answers("write", mode) = WriteAnswers(mode)
  BY DEF Answers
<1>2. /\ FsWriteNotPermitted \in WriteAnswers(mode)
      /\ mode \in {"Output", "IoMode", "Extend"} => {FsOk, FsDuplicateKey} \subseteq WriteAnswers(mode)
      /\ {FsOk, FsDuplicateKey, FsWriteNotPermitted} \subseteq Statuses
  BY DEF WriteAnswers, Statuses
<1>3. ASSUME NEW t, WriteNext(t) PROVE Told' /\ Promised
  <2>1. mode \in {"Output", "IoMode", "Extend"} /\ Deliver("write", Stored(t))
    BY <1>3 DEF WriteNext, Writable
  <2>2. QED
    BY <1>1, <1>2, <2>1, StatementsNamed, CallTold
<1>4. ASSUME NEW n, NEW t, WriteRelative(n, t) PROVE Told' /\ Promised
  <2>1. /\ mode \in {"Output", "IoMode", "Extend"}
        /\ AnswerOf("writeAt", n, FsDuplicateKey) \/ DeliverOf("writeAt", n, Stored(t))
    BY <1>4 DEF WriteRelative
  <2>2. QED
    BY <1>1, <1>2, <2>1, StatementsNamed, CallTold
<1>5. CASE WriteRefused \/ WriteRelativeRefused
  BY <1>1, <1>2, <1>5, StatementsNamed, CallTold DEF WriteRefused, WriteRelativeRefused
<1>6. QED
  BY <1>3, <1>4, <1>5

LEMMA UpdatesTold ==
  ASSUME \/ \E t : Rewrite(t) \/ RewriteRefused(t)
         \/ Delete \/ DeleteRefused
         \/ \E n : DeleteRelative(n)
  PROVE  Told' /\ Promised
<1>1. Answers("rewrite", mode) = RewriteAnswers(mode) /\ Answers("delete", mode) = DeleteAnswers(mode)
  BY DEF Answers
<1>2. ASSUME NEW t PROVE RewriteStatus(t) \in RewriteAnswers(mode) \cap Statuses
  BY DEF RewriteStatus, RewriteAnswers, Statuses
<1>3. ASSUME NEW t, Rewrite(t) PROVE Told' /\ Promised
  <2>1. Deliver("rewrite", Record(t)) /\ FsOk \in RewriteAnswers(mode) \cap Statuses
    BY <1>2, <1>3 DEF Rewrite
  <2>2. QED
    BY <1>1, <2>1, StatementsNamed, CallTold
<1>4. ASSUME NEW t, RewriteRefused(t) PROVE Told' /\ Promised
  <2>1. Refuse("rewrite", RewriteStatus(t))
    BY <1>4 DEF RewriteRefused
  <2>2. QED
    BY <1>1, <1>2, <2>1, StatementsNamed, CallTold
<1>5. ASSUME NEW n, Delete \/ DeleteRelative(n) PROVE Told' /\ Promised
  <2>1. FsOk \in DeleteAnswers(mode) \cap Statuses
    BY <1>5 DEF Delete, DeleteRelative, DeleteAnswers, Statuses
  <2>2. Answer("delete", FsOk) \/ AnswerOf("deleteAt", n, FsOk)
    BY <1>5 DEF Delete, DeleteRelative
  <2>3. QED
    BY <1>1, <2>1, <2>2, StatementsNamed, CallTold
<1>6. CASE DeleteRefused
  <2>1. FsIoModeRequired \in DeleteAnswers(mode) \cap Statuses
    BY <1>6 DEF DeleteRefused, DeleteAnswers, Statuses
  <2>2. QED
    BY <1>1, <1>6, <2>1, StatementsNamed, CallTold DEF DeleteRefused
<1>7. QED
  BY <1>3, <1>4, <1>5, <1>6

LEMMA StartsTold ==
  ASSUME StartRefused \/ \E n : \E relation \in Relations : StartRelative(n, relation)
  PROVE  Told' /\ Promised
<1>1. Answers("start", mode) = StartAnswers(mode)
  BY DEF Answers
<1>2. ASSUME NEW n, NEW relation \in Relations, StartRelative(n, relation) PROVE Told' /\ Promised
  <2>1. {FsOk, FsRecNotFound} \subseteq StartAnswers(mode) \cap Statuses
    BY <1>2 DEF StartRelative, StartAnswers, Statuses
  <2>2. AnswerOf(relation, n, FsOk) \/ AnswerOf(relation, n, FsRecNotFound)
    BY <1>2 DEF StartRelative
  <2>3. QED
    BY <1>1, <2>1, <2>2, StatementsNamed, CallTold
<1>3. CASE StartRefused
  <2>1. PICK status \in {FsNotOpen, FsIoError} : Refuse("start", status) /\ status \in StartAnswers(mode)
    BY <1>3 DEF StartRefused, StartAnswers
  <2>2. {FsNotOpen, FsIoError} \subseteq Statuses
    BY DEF Statuses
  <2>3. QED
    BY <1>1, <2>1, <2>2, StatementsNamed, CallTold
<1>4. QED
  BY <1>2, <1>3

LEMMA ZeroTold ==
  ASSUME HandleOK, ReadZero \/ WriteZero \/ DeleteZero \/ StartZero
  PROVE  Told' /\ Promised
<1>1. FsRecNotFound \in Statuses
  BY DEF Statuses
<1>2. CASE ReadZero
  <2>1. FsRecNotFound \in Answers("read", mode)
    BY <1>2 DEF ReadZero, Readable, Answers, ReadAnswers
  <2>2. QED
    BY <1>1, <1>2, <2>1, StatementsNamed, CallTold DEF ReadZero
<1>3. CASE WriteZero
  <2>1. FsRecNotFound \in Answers("write", mode)
    BY <1>3 DEF WriteZero, Answers, WriteAnswers
  <2>2. QED
    BY <1>1, <1>3, <2>1, StatementsNamed, CallTold DEF WriteZero
<1>4. CASE DeleteZero
  <2>1. FsRecNotFound \in Answers("delete", mode)
    BY <1>4 DEF DeleteZero, Answers, DeleteAnswers
  <2>2. QED
    BY <1>1, <1>4, <2>1, StatementsNamed, CallTold DEF DeleteZero
<1>5. CASE StartZero
  <2>1. FsRecNotFound \in Answers("start", mode)
    BY <1>5 DEF StartZero, Answers, StartAnswers
  <2>2. QED
    BY <1>1, <1>5, <2>1, StatementsNamed, CallTold DEF StartZero
<1>6. QED
  BY <1>2, <1>3, <1>4, <1>5

LEMMA EveryCallTold == IInv /\ Next => Told' /\ Promised
<1> SUFFICES ASSUME IInv, Next PROVE Told' /\ Promised
  OBVIOUS
<1>1. HandleOK
  BY DEF IInv
<1>2. CASE Calls
  BY <1>2, OpensTold, ReadsTold, UpdatesTold DEF Calls
<1>3. CASE SequentialCalls
  BY <1>1, <1>3, WritesTold, UpdatesTold DEF SequentialCalls
<1>4. CASE KeyedCalls
  BY <1>1, <1>4, UpdatesTold, StartsTold, ZeroTold DEF KeyedCalls
<1>5. CASE DynamicCalls
  BY <1>1, <1>5, ReadsTold, WritesTold, ZeroTold DEF DynamicCalls
<1>6. QED
  BY <1>2, <1>3, <1>4, <1>5 DEF Next

-----------------------------------------------------------------------------
(* Theorems *)

LEMMA InvariantHolds == Spec => [](IInv /\ Told)
<1>1. Init => IInv /\ Told
  <2>1. ASSUME Init PROVE HandleOK /\ StoreOK /\ CursorOK /\ Told
    <3>1. HandleOK
      BY <2>1 DEF Init, HandleOK
    <3>2. Fits(<<>>)
      <4>1. /\ Width + (IF kind.varying THEN 1 ELSE 0) \in Nat /\ MaxRecords \in Nat
        BY KindsAssumption
      <4>2. QED
        BY <4>1, Products DEF Fits
    <3>3. StoreOK
      BY <2>1, <3>2 DEF Init, StoreOK
    <3>4. CursorOK
      BY <2>1 DEF Init, CursorOK
    <3>5. Told
      BY <2>1 DEF Init, Told, Operations, Statuses
    <3>6. QED
      BY <3>1, <3>3, <3>4, <3>5
  <2>2. QED
    BY <2>1 DEF IInv
<1>2. IInv /\ Told /\ [Next]_vars => (IInv /\ Told)'
  <2>1. Told /\ UNCHANGED vars => Told'
    BY DEF Told, vars
  <2>2. QED
    BY <2>1, InvStep, EveryCallTold
<1>3. QED
  BY <1>1, <1>2, PTL DEF Spec

(* A record is wholly in the file or in the BufWriter, what is out of the  *)
(* BufWriter is part of the file, and the record that REWRITE may replace  *)
(* has a number, whatever calls a program makes and wherever it crashes    *)
(* (cobol-runtime/src/file_io.rs, sequential and relative files).          *)
THEOREM FileTypeCorrect == Spec => []TypeOK
<1>1. IInv /\ Told => TypeOK
  BY DEF IInv, HandleOK, StoreOK, CursorOK, Told, TypeOK
<1>2. QED
  BY <1>1, InvariantHolds, PTL

(* Every call of a sequential or relative file is answered as the          *)
(* generated code is promised (FileAnswers), whatever came before it.      *)
THEOREM FileAnswersAsPromised == Spec => AnswersAsPromised
<1>1. IInv /\ [Next]_vars
        => [reply'.op \in {"stop", "crash"} \/ reply'.status \in Answers(Statement(reply'.op), mode)]_vars
  BY EveryCallTold DEF Promised
<1>2. QED
  BY <1>1, InvariantHolds, PTL DEF Spec, AnswersAsPromised

-----------------------------------------------------------------------------
(* RecordFile implements RecordSequence.  The invariant is strengthened    *)
(* with what the bytes are: units of the texts that were written, or       *)
(* slots, with the position at one of them.                                *)

-----------------------------------------------------------------------------
(* Multiples of the record width *)

LEMMA Multiples ==
  ASSUME NEW w \in Nat, w > 0, NEW a \in Nat, NEW b \in Nat
  PROVE  /\ a * w \in Nat /\ (a + 1) * w = a * w + w
         /\ a < b => a * w + w <= b * w
         /\ a <= b <=> a * w <= b * w
         /\ (a * w) \div w = a
<1>1. a * w \in Nat /\ b * w \in Nat /\ (a + 1) * w = a * w + w
  OBVIOUS
<1>2. ASSUME NEW c \in Nat, NEW d \in Nat, c < d PROVE c * w + w <= d * w
  <2>1. PICK e \in Nat : d = c + 1 + e
    <3>1. d - c - 1 \in Nat /\ d = c + 1 + (d - c - 1)
      BY <1>2
    <3>2. QED
      BY <3>1
  <2>2. d * w = c * w + w + e * w /\ e * w \in Nat /\ c * w \in Nat
    BY <2>1
  <2>3. QED
    BY <2>2
<1>3. a <= b <=> a * w <= b * w
  <2>1. a < b => a * w + w <= b * w
    BY <1>2
  <2>2. b < a => b * w + w <= a * w
    BY <1>2
  <2>3. QED
    BY <1>1, <2>1, <2>2
<1>4. (a * w) \div w = a
  OBVIOUS
<1>5. QED
  BY <1>1, <1>2, <1>3, <1>4

LEMMA WidthPositive == Width \in Nat /\ Width > 0 /\ MaxRecords \in Nat
BY KindsAssumption

LEMMA SameUnits ==
  ASSUME NEW X, NEW s \in Seq(X), NEW t \in Seq(X), Len(s) = Len(t), \A i \in 1..Len(s) : s[i] = t[i]
  PROVE  s = t
OBVIOUS

LEMMA LargerOf ==
  ASSUME NEW a \in Nat, NEW b \in Nat
  PROVE  Larger(a, b) \in Nat /\ Larger(a, b) >= a /\ Larger(a, b) >= b /\ Larger(a, b) \in {a, b}
BY DEF Larger

LEMMA MaxIsLarger ==
  ASSUME NEW a \in Nat, NEW b \in Nat
  PROVE  Max({a, b}) = Larger(a, b)
BY MaxOfTwo DEF Larger

LEMMA SlotUnits ==
  ASSUME NEW b \in Seq(Nat), NEW n \in Nat, n > 0, n * Width <= Len(b)
  PROVE  /\ Slot(b, n) \in Seq(Nat) /\ Len(Slot(b, n)) = Width
         /\ \A i \in 1..Width : /\ (n - 1) * Width + i \in 1..Len(b)
                               /\ Slot(b, n)[i] = b[(n - 1) * Width + i]
<1>1. PICK k \in Nat : n = k + 1
  <2>1. n - 1 \in Nat /\ n = (n - 1) + 1
    OBVIOUS
  <2>2. QED
    BY <2>1
<1>2. n - 1 = k /\ k * Width \in Nat /\ n * Width = k * Width + Width /\ Width \in Nat /\ Len(b) \in Nat
  BY <1>1, WidthPositive, Multiples
<1> DEFINE p == k * Width
<1>3. Slot(b, n) = SubSeq(b, p + 1, p + Width)
  BY <1>2 DEF Slot
<1> HIDE DEF p
<1>4. p \in Nat /\ p + Width <= Len(b) /\ (n - 1) * Width = p
  BY <1>2 DEF p
<1>5. /\ SubSeq(b, p + 1, p + Width) \in Seq(Nat) /\ Len(SubSeq(b, p + 1, p + Width)) = Width
      /\ \A i \in 1..Width : p + i \in 1..Len(b) /\ SubSeq(b, p + 1, p + Width)[i] = b[p + i]
  BY <1>2, <1>4
<1>6. QED
  BY <1>3, <1>4, <1>5

LEMMA SlotsOf ==
  ASSUME NEW b \in Seq(Nat), NEW s \in Nat, Len(b) = s * Width
  PROVE  /\ Slots(b) = s
         /\ \A n \in 1..s : n \in Nat /\ n > 0 /\ n * Width <= Len(b)
<1>1. Slots(b) = s
  BY WidthPositive, Multiples DEF Slots
<1>2. ASSUME NEW n \in 1..s PROVE n * Width <= s * Width
  BY WidthPositive, Multiples
<1>3. QED
  BY <1>1, <1>2

(* A slot is written: it alone changes, and slots that come into being     *)
(* before it hold no record.                                               *)
LEMMA SlotWritten ==
  ASSUME NEW b \in Seq(Nat), NEW s \in Nat, Len(b) = s * Width, NEW n \in Nat, n > 0,
         NEW t \in Seq(Nat), Len(t) = Width
  PROVE  LET c == WrittenAt(b, (n - 1) * Width, t)
         IN  /\ c \in Seq(Nat) /\ Len(c) = Larger(s, n) * Width /\ Slots(c) = Larger(s, n)
             /\ Slot(c, n) = t
             /\ \A m \in 1..s : m # n => Slot(c, m) = Slot(b, m)
             /\ \A m \in (s + 1)..(n - 1) : Slot(c, m) = Deleted
<1> DEFINE p == (n - 1) * Width
           c == WrittenAt(b, p, t)
<1>1. /\ p \in Nat /\ p + Width = n * Width /\ n * Width \in Nat /\ s * Width \in Nat
      /\ Width \in Nat /\ Width > 0 /\ Len(b) \in Nat
  <2>1. n - 1 \in Nat /\ (n - 1) + 1 = n
    OBVIOUS
  <2>2. QED
    BY <2>1, WidthPositive, Multiples
<1>2. c \in Seq(Nat) /\ Len(c) = Larger(Len(b), p + Width)
  BY <1>1, WrittenBytes
<1>3. Larger(s, n) \in Nat /\ Len(c) = Larger(s, n) * Width
  <2>1. s <= n <=> s * Width <= n * Width
    BY WidthPositive, Multiples
  <2>2. QED
    BY <1>1, <1>2, <2>1 DEF Larger
<1>4. Slots(c) = Larger(s, n)
  BY <1>2, <1>3, SlotsOf
<1>5. \A i \in 1..Len(c) :
        c[i] = IF i \in (p + 1)..(p + Width) THEN t[i - p] ELSE IF i <= Len(b) THEN b[i] ELSE Zero
  BY <1>1, <1>2 DEF WrittenAt
<1> HIDE DEF c, p
<1>6. ASSUME NEW m \in Nat, m > 0, m <= Larger(s, n)
      PROVE  /\ Slot(c, m) \in Seq(Nat) /\ Len(Slot(c, m)) = Width
             /\ \A i \in 1..Width : /\ (m - 1) * Width + i \in 1..Len(c)
                                   /\ Slot(c, m)[i] = c[(m - 1) * Width + i]
  <2>1. m * Width <= Len(c)
    <3>1. \A q \in Nat : m <= q => m * Width <= q * Width
      BY <1>6, WidthPositive, Multiples
    <3>2. QED
      BY ONLY <1>3, <1>6, <3>1
  <2>2. QED
    BY <1>2, <1>6, <2>1, SlotUnits
<1>7. n <= Larger(s, n) /\ s <= Larger(s, n)
  BY DEF Larger
<1>8. Slot(c, n) = t
  <2>1. ASSUME NEW i \in 1..Width PROVE Slot(c, n)[i] = t[i]
    <3>1. p + i \in 1..Len(c) /\ Slot(c, n)[i] = c[p + i]
      BY <1>6, <1>7 DEF p
    <3>2. p + i \in (p + 1)..(p + Width) /\ (p + i) - p = i
      BY <1>1
    <3>3. QED
      BY <1>5, <3>1, <3>2
  <2>2. Slot(c, n) \in Seq(Nat) /\ Len(Slot(c, n)) = Width
    BY <1>6, <1>7
  <2>3. QED
    BY <2>1, <2>2, SameUnits
<1>9. ASSUME NEW m \in Nat, m > 0, m <= Larger(s, n), m # n, NEW i \in 1..Width
      PROVE  /\ m <= s <=> (m - 1) * Width + i <= Len(b)
             /\ (m - 1) * Width + i \notin (p + 1)..(p + Width)
             /\ (m - 1) * Width + i \in 1..Len(c)
  <2>1. PICK k \in Nat : m = k + 1
    <3>1. m - 1 \in Nat /\ m = (m - 1) + 1
      BY <1>9
    <3>2. QED
      BY <3>1
  <2>2. PICK l \in Nat : n = l + 1
    <3>1. n - 1 \in Nat /\ n = (n - 1) + 1
      OBVIOUS
    <3>2. QED
      BY <3>1
  <2>3. m - 1 = k /\ n - 1 = l /\ p = l * Width /\ k * Width \in Nat /\ k # l
    BY <1>9, <2>1, <2>2, WidthPositive, Multiples DEF p
  <2>4. /\ k < l => k * Width + Width <= l * Width
        /\ l < k => l * Width + Width <= k * Width
        /\ k < s => k * Width + Width <= s * Width
        /\ s <= k => s * Width <= k * Width
    BY WidthPositive, Multiples
  <2> DEFINE x == k * Width
             y == l * Width
             z == s * Width
  <2>5. x \in Nat /\ y \in Nat /\ z \in Nat /\ Len(b) = z /\ p = y /\ (m - 1) * Width = x
    BY <1>1, <2>3
  <2>6. (k < l => x + Width <= y) /\ (l < k => y + Width <= x) /\ (k < s => x + Width <= z) /\ (s <= k => z <= x)
    BY <2>4
  <2>7. (m - 1) * Width + i \in 1..Len(c)
    BY <1>6, <1>9
  <2> HIDE DEF x, y, z
  <2>8. x + i \notin (y + 1)..(y + Width)
    BY <1>1, <2>3, <2>5, <2>6
  <2>9. m <= s <=> x + i <= z
    BY <1>1, <2>1, <2>5, <2>6
  <2>10. QED
    BY <2>5, <2>7, <2>8, <2>9
<1>10. ASSUME NEW m \in 1..s, m # n PROVE Slot(c, m) = Slot(b, m)
  <2>1. m \in Nat /\ m > 0 /\ m <= Larger(s, n) /\ m * Width <= Len(b)
    BY <1>7, <1>3, WidthPositive, Multiples
  <2>2. ASSUME NEW i \in 1..Width PROVE Slot(c, m)[i] = Slot(b, m)[i]
    <3>1. /\ (m - 1) * Width + i <= Len(b) /\ (m - 1) * Width + i \notin (p + 1)..(p + Width)
          /\ (m - 1) * Width + i \in 1..Len(c)
      BY <1>9, <1>10, <2>1
    <3>2. Slot(c, m)[i] = c[(m - 1) * Width + i] /\ Slot(b, m)[i] = b[(m - 1) * Width + i]
      BY <1>6, <2>1, SlotUnits
    <3>3. QED
      BY <1>5, <3>1, <3>2
  <2>3. /\ Slot(c, m) \in Seq(Nat) /\ Slot(b, m) \in Seq(Nat)
        /\ Len(Slot(c, m)) = Width /\ Len(Slot(b, m)) = Width
    BY <1>6, <2>1, SlotUnits
  <2>4. QED
    BY <2>2, <2>3, SameUnits
<1>11. ASSUME NEW m \in (s + 1)..(n - 1) PROVE Slot(c, m) = Deleted
  <2>1. m \in Nat /\ m > 0 /\ m <= Larger(s, n) /\ m # n /\ ~(m <= s)
    BY <1>7, <1>3
  <2>2. ASSUME NEW i \in 1..Width PROVE Slot(c, m)[i] = Zero
    <3>1. /\ ~((m - 1) * Width + i <= Len(b)) /\ (m - 1) * Width + i \notin (p + 1)..(p + Width)
          /\ (m - 1) * Width + i \in 1..Len(c)
      BY <1>9, <2>1
    <3>2. Slot(c, m)[i] = c[(m - 1) * Width + i]
      BY <1>6, <2>1
    <3>3. QED
      BY <1>5, <3>1, <3>2
  <2>3. Deleted \in Seq(Nat) /\ Len(Deleted) = Width /\ \A i \in 1..Width : Deleted[i] = Zero
    BY <1>1 DEF Deleted, Zero
  <2>4. Slot(c, m) \in Seq(Nat) /\ Len(Slot(c, m)) = Width
    BY <1>6, <2>1
  <2>5. QED
    BY <2>2, <2>3, <2>4, SameUnits
<1>12. QED
  BY <1>2, <1>3, <1>4, <1>8, <1>10, <1>11 DEF c, p

(* The records of a relative file with the units b. *)
SlotRecord(b, n) == IF Present(b, n) THEN Record(Slot(b, n)) ELSE NoRecord
RecordsIn(b) == [n \in 1..Slots(b) |-> SlotRecord(b, n)]

(* RecordsFrom, Writing and the mapping of RecordFile, of given values of  *)
(* its variables.                                                          *)
RecAt(k, b, p) ==
  CASE k.organization = LineSequential -> LineAt(b, p)
    [] k.varying -> IF p < Len(b) THEN VaryingAt(b, p) ELSE Nothing(p)
    [] OTHER -> FixedAt(b, p)

From(k, b) ==
  LET from[p \in 0..Len(b)] ==
        LET r == RecAt(k, b, p)
        IN  IF r.found THEN <<r.record>> \o from[r.next] ELSE <<>>
  IN  from

RecordsOf(k, b) == IF k.organization = Relative THEN RecordsIn(b) ELSE From(k, b)[0]

DurableOf(k, b, s) ==
  IF k.organization = Relative THEN s \div Width ELSE Len(From(k, SubSeq(b, 1, s))[0])

WritingIn(k, m) == m = "Extend" \/ (m = "Output" /\ ~(k.organization = Relative))

PlaceOf(k, b, m, p) ==
  CASE m = "Closed" -> 0
    [] m # "Closed" /\ WritingIn(k, m) -> Len(RecordsOf(k, b))
    [] m # "Closed" /\ ~WritingIn(k, m) /\ k.organization = Relative -> p \div Width
    [] OTHER -> Len(RecordsOf(k, b)) - Len(From(k, b)[p])

SureOf(k, b, m, p, n) == WritingIn(k, m) \/ n = PlaceOf(k, b, m, p)

(* The mapping, of the values before and after a step.                     *)
LEMMA MappedBytes ==
  /\ AbstractRecords = RecordsOf(kind, bytes)
  /\ AbstractRecords' = RecordsOf(kind', bytes')
<1>1. RecordsFrom(bytes) = From(kind, bytes)
  BY DEF From, RecAt, RecordsFrom, RecordAt
<1>2. RecordsFrom(bytes)' = From(kind', bytes')
  BY DEF From, RecAt, RecordsFrom, RecordAt
<1>3. AbstractRecords = RecordsOf(kind, bytes)
  BY <1>1 DEF RecordsOf, RecordsIn, SlotRecord, AbstractRecords, IsRelative
<1>4. AbstractRecords' = RecordsOf(kind', bytes')
  BY <1>2 DEF RecordsOf, RecordsIn, SlotRecord, AbstractRecords, IsRelative
<1>5. QED
  BY <1>3, <1>4

LEMMA MappedHandle ==
  /\ AbstractDurable = DurableOf(kind, bytes, safe)
  /\ AbstractDurable' = DurableOf(kind', bytes', safe')
  /\ AbstractPlace = PlaceOf(kind, bytes, mode, position)
  /\ AbstractPlace' = PlaceOf(kind', bytes', mode', position')
  /\ AbstractSure = SureOf(kind, bytes, mode, position, currentRecord)
  /\ AbstractSure' = SureOf(kind', bytes', mode', position', currentRecord')
<1>1. \A b : RecordsFrom(b) = From(kind, b)
  BY DEF From, RecAt, RecordsFrom, RecordAt
<1>2. RecordsFrom(bytes)' = From(kind', bytes')
  BY DEF From, RecAt, RecordsFrom, RecordAt
<1>3. RecordsFrom(SubSeq(bytes, 1, safe))' = From(kind', SubSeq(bytes', 1, safe'))
  BY DEF From, RecAt, RecordsFrom, RecordAt
<1>4. Writing = WritingIn(kind, mode) /\ Writing' = WritingIn(kind', mode')
  BY DEF Writing, WritingIn, IsRelative
<1>5. AbstractDurable = DurableOf(kind, bytes, safe)
  BY <1>1 DEF AbstractDurable, DurableOf, IsRelative
<1>6. AbstractDurable' = DurableOf(kind', bytes', safe')
  BY <1>3 DEF AbstractDurable, DurableOf, IsRelative
<1>7. AbstractPlace = PlaceOf(kind, bytes, mode, position)
  BY <1>1, <1>4, MappedBytes DEF AbstractPlace, PlaceOf, IsRelative
<1>8. AbstractPlace' = PlaceOf(kind', bytes', mode', position')
  BY <1>2, <1>4, MappedBytes DEF AbstractPlace, PlaceOf, IsRelative
<1>9. AbstractSure = SureOf(kind, bytes, mode, position, currentRecord)
  BY <1>4, <1>7 DEF AbstractSure, SureOf
<1>10. AbstractSure' = SureOf(kind', bytes', mode', position', currentRecord')
  BY <1>4, <1>8 DEF AbstractSure, SureOf
<1>11. QED
  BY <1>5, <1>6, <1>7, <1>8, <1>9, <1>10

(* What the abstract file of a state is. *)
Shows(records, durable, place, sure) ==
  /\ AbstractRecords = records /\ AbstractDurable = durable
  /\ AbstractPlace = place /\ AbstractSure = sure

-----------------------------------------------------------------------------
(* The slots of a relative file                                            *)

LEMMA RecordsInType ==
  ASSUME NEW b \in Seq(Nat), NEW s \in Nat, Len(b) = s * Width
  PROVE  /\ DOMAIN RecordsIn(b) = 1..s /\ Len(RecordsIn(b)) = s
         /\ \E X : RecordsIn(b) \in Seq(X)
         /\ \A n \in 1..s : RecordsIn(b)[n] = SlotRecord(b, n)
<1>1. Slots(b) = s
  BY SlotsOf
<1> DEFINE X == {SlotRecord(b, n) : n \in 1..s}
<1>2. RecordsIn(b) \in [1..s -> X] /\ \A n \in 1..s : RecordsIn(b)[n] = SlotRecord(b, n)
  BY <1>1 DEF RecordsIn
<1> HIDE DEF X
<1>3. RecordsIn(b) \in Seq(X) /\ Len(RecordsIn(b)) = s
  BY <1>2, FunctionIsSequence
<1>4. QED
  BY <1>2, <1>3

(* A record of any text is a record. *)
LEMMA RecordIsNone ==
  ASSUME NEW t \in Seq(Nat)
  PROVE  Record(t) # NoRecord
<1>1. Padded(t) \in [1..Width -> Nat]
  BY WidthPositive DEF Padded, Space
<1>2. Padded(t) \in Seq(Nat) /\ Len(Padded(t)) = Width
  BY <1>1, WidthPositive, FunctionIsSequence
<1>3. Padded(t) # <<>>
  BY <1>2, WidthPositive
<1>4. Record(t).text = Padded(t) /\ NoRecord.text = <<>>
  BY DEF Record, NoRecord
<1>5. QED
  BY <1>3, <1>4

LEMMA LiveSlots ==
  ASSUME NEW b \in Seq(Nat), NEW s \in Nat, Len(b) = s * Width
  PROVE  /\ \A n \in 1..s : RecordsIn(b)[n] # NoRecord <=> Present(b, n)
         /\ \A n \in 1..s : Present(b, n) => RecordsIn(b)[n] = Record(Slot(b, n))
         /\ {n \in DOMAIN RecordsIn(b) : RecordsIn(b)[n] # NoRecord} = {n \in 1..s : Present(b, n)}
         /\ \A n : Present(b, n) => n \in 1..s
<1>1. /\ Slots(b) = s /\ DOMAIN RecordsIn(b) = 1..s
      /\ \A n \in 1..s : RecordsIn(b)[n] = SlotRecord(b, n)
  BY SlotsOf, RecordsInType
<1>2. ASSUME NEW n \in 1..s PROVE Record(Slot(b, n)) # NoRecord
  BY SlotsOf, SlotUnits, RecordIsNone
<1>3. \A n \in 1..s : /\ RecordsIn(b)[n] # NoRecord <=> Present(b, n)
                      /\ Present(b, n) => RecordsIn(b)[n] = Record(Slot(b, n))
  BY <1>1, <1>2 DEF SlotRecord
<1>4. \A n : Present(b, n) => n \in 1..s
  BY <1>1 DEF Present
<1>5. QED
  BY <1>1, <1>3, <1>4

(* The records rs with r in slot n. *)
Put(rs, n, r) ==
  [m \in 1..Larger(n, Len(rs)) |->
     IF m = n THEN r ELSE IF m \in DOMAIN rs THEN rs[m] ELSE NoRecord]

LEMMA PutIsWith ==
  ASSUME NEW n \in Nat, NEW r, NEW rs, AbstractRecords = rs, Len(rs) \in Nat
  PROVE  Store_!With(n, r) = Put(rs, n, r)
<1>1. Store_!Max({n, Len(rs)}) = Larger(n, Len(rs))
  BY MaxIsLarger DEF Store_!Max, Max
<1>2. QED
  BY <1>1 DEF Store_!With, Put

(* A write over a slot puts its record there, and nothing else.            *)
LEMMA RecordsWritten ==
  ASSUME NEW b \in Seq(Nat), NEW s \in Nat, Len(b) = s * Width, NEW n \in Nat, n > 0,
         NEW t \in Seq(Nat), Len(t) = Width
  PROVE  RecordsIn(WrittenAt(b, (n - 1) * Width, t))
           = Put(RecordsIn(b), n, IF t = Deleted THEN NoRecord ELSE Record(t))
<1> DEFINE c == WrittenAt(b, (n - 1) * Width, t)
           l == Larger(n, s)
           r == IF t = Deleted THEN NoRecord ELSE Record(t)
<1>1. /\ c \in Seq(Nat) /\ Len(c) = l * Width /\ Slots(c) = l /\ Slot(c, n) = t
      /\ \A m \in 1..s : m # n => Slot(c, m) = Slot(b, m)
      /\ \A m \in (s + 1)..(n - 1) : Slot(c, m) = Deleted
  <2>1. Larger(s, n) = l
    BY DEF Larger
  <2>2. QED
    BY <2>1, SlotWritten
<1>2. l \in Nat /\ n <= l /\ s <= l /\ l \in {n, s}
  BY LargerOf
<1>3. Slots(b) = s /\ Len(RecordsIn(b)) = s /\ DOMAIN RecordsIn(b) = 1..s
      /\ \A m \in 1..s : RecordsIn(b)[m] = SlotRecord(b, m)
  BY SlotsOf, RecordsInType
<1> HIDE DEF c, l
<1>4. ASSUME NEW m \in 1..l
      PROVE  SlotRecord(c, m) = IF m = n THEN r ELSE IF m \in 1..s THEN RecordsIn(b)[m] ELSE NoRecord
  <2>1. CASE m = n
    <3>1. SlotRecord(c, m) = r
      BY <1>1, <2>1 DEF SlotRecord, Present
    <3>2. QED
      BY <2>1, <3>1
  <2>2. CASE m # n /\ m \in 1..s
    <3>1. SlotRecord(c, m) = SlotRecord(b, m)
      BY <1>1, <1>3, <2>2 DEF SlotRecord, Present
    <3>2. QED
      BY <1>3, <2>2, <3>1
  <2>3. CASE m # n /\ m \notin 1..s
    <3>1. m \in (s + 1)..(n - 1)
      BY <1>2, <2>3
    <3>2. SlotRecord(c, m) = NoRecord
      BY <1>1, <3>1 DEF SlotRecord, Present
    <3>3. QED
      BY <2>3, <3>2
  <2>4. QED
    BY <2>1, <2>2, <2>3
<1>5. RecordsIn(c) = [m \in 1..l |-> SlotRecord(c, m)]
  BY <1>1 DEF RecordsIn
<1>6. Put(RecordsIn(b), n, r)
        = [m \in 1..l |-> IF m = n THEN r ELSE IF m \in 1..s THEN RecordsIn(b)[m] ELSE NoRecord]
  BY <1>3 DEF Put, l
<1>7. RecordsIn(c) = Put(RecordsIn(b), n, r)
  BY <1>4, <1>5, <1>6
<1>8. QED
  BY <1>7 DEF c

(* The first slots of the bytes hold the first records.                    *)
LEMMA RecordsPrefix ==
  ASSUME NEW b \in Seq(Nat), NEW s \in Nat, Len(b) = s * Width, NEW k \in Nat, k <= s
  PROVE  /\ SubSeq(b, 1, k * Width) \in Seq(Nat) /\ Len(SubSeq(b, 1, k * Width)) = k * Width
         /\ RecordsIn(SubSeq(b, 1, k * Width)) = SubSeq(RecordsIn(b), 1, k)
<1> DEFINE q == k * Width
           c == SubSeq(b, 1, q)
<1>1. q \in Nat /\ q <= Len(b)
  BY WidthPositive, Multiples
<1>2. c \in Seq(Nat) /\ Len(c) = q /\ \A i \in 1..q : c[i] = b[i]
  BY <1>1, PrefixProperties
<1> HIDE DEF c
<1>3. Slots(c) = k /\ Slots(b) = s
  BY <1>2, SlotsOf
<1>4. ASSUME NEW n \in 1..k PROVE Slot(c, n) = Slot(b, n)
  <2>1. n \in Nat /\ n > 0 /\ n * Width <= Len(c) /\ n \in 1..s
    BY <1>2, SlotsOf
  <2>2. n * Width <= Len(b)
    BY <2>1, SlotsOf
  <2>3. ASSUME NEW i \in 1..Width PROVE Slot(c, n)[i] = Slot(b, n)[i]
    <3>1. (n - 1) * Width + i \in 1..Len(c) /\ Slot(c, n)[i] = c[(n - 1) * Width + i]
      BY <1>2, <2>1, SlotUnits
    <3>2. Slot(b, n)[i] = b[(n - 1) * Width + i]
      BY <2>1, <2>2, SlotUnits
    <3>3. QED
      BY <1>2, <3>1, <3>2
  <2>4. QED
    BY <1>2, <2>1, <2>2, <2>3, SlotUnits, SameUnits
<1>5. \A n \in 1..k : SlotRecord(c, n) = SlotRecord(b, n)
  BY <1>3, <1>4 DEF SlotRecord, Present
<1>6. /\ Len(RecordsIn(c)) = k /\ \A n \in 1..k : RecordsIn(c)[n] = SlotRecord(c, n)
      /\ Len(RecordsIn(b)) = s /\ \A n \in 1..s : RecordsIn(b)[n] = SlotRecord(b, n)
  BY <1>2, RecordsInType
<1>7. PICK X, Y : RecordsIn(c) \in Seq(X) /\ RecordsIn(b) \in Seq(Y)
  BY <1>2, RecordsInType
<1>8. SubSeq(RecordsIn(b), 1, k) \in Seq(Y) /\ Len(SubSeq(RecordsIn(b), 1, k)) = k
      /\ \A n \in 1..k : SubSeq(RecordsIn(b), 1, k)[n] = RecordsIn(b)[n]
  BY <1>6, <1>7, PrefixProperties
<1>9. RecordsIn(c) = SubSeq(RecordsIn(b), 1, k)
  <2>1. RecordsIn(c) \in Seq(X \cup Y) /\ SubSeq(RecordsIn(b), 1, k) \in Seq(X \cup Y)
    BY <1>7, <1>8
  <2>2. \A n \in 1..k : RecordsIn(c)[n] = SubSeq(RecordsIn(b), 1, k)[n]
    BY <1>5, <1>6, <1>8
  <2>3. QED
    BY <1>6, <1>8, <2>1, <2>2, SameUnits
<1>10. QED
  BY <1>2, <1>9 DEF c

-----------------------------------------------------------------------------
(* What READ NEXT finds from a place on *)

(* A function that is given by its values further on exists. *)
IsReading(f, N, found, next, rec) ==
  f = [p \in 0..N |-> IF found[p] THEN <<rec[p]>> \o f[next[p]] ELSE <<>>]

LEMMA ReadingExists ==
  ASSUME NEW N \in Nat, NEW found, NEW next, NEW rec,
         \A p \in 0..N : found[p] => next[p] \in (p + 1)..N
  PROVE  \E f : IsReading(f, N, found, next, rec)
<1> DEFINE Reads(f, m) ==
             \A p \in m..N : f[p] = IF found[p] THEN <<rec[p]>> \o f[next[p]] ELSE <<>>
           T == {n \in Nat : n <= N => \E f : Reads(f, N - n)}
<1>1. 0 \in T
  <2> DEFINE f == [p \in 0..N |-> <<>>]
  <2>1. ASSUME NEW p \in N..N PROVE f[p] = IF found[p] THEN <<rec[p]>> \o f[next[p]] ELSE <<>>
    <3>1. p \in 0..N /\ ~(\E q \in (p + 1)..N : TRUE)
      OBVIOUS
    <3>2. ~found[p]
      BY <3>1
    <3>3. QED
      BY <3>1, <3>2
  <2>2. N - 0 = N
    OBVIOUS
  <2>3. QED
    BY <2>1, <2>2
<1>2. ASSUME NEW n \in T PROVE n + 1 \in T
  <2>1. n \in Nat /\ n + 1 \in Nat
    OBVIOUS
  <2>2. ASSUME n + 1 <= N PROVE \E f : Reads(f, N - (n + 1))
    <3>1. PICK g : Reads(g, N - n)
      BY <1>2, <2>1, <2>2
    <3> DEFINE m == N - (n + 1)
               x == IF found[m] THEN <<rec[m]>> \o g[next[m]] ELSE <<>>
               f == [p \in 0..N |-> IF p = m THEN x ELSE g[p]]
    <3>2. m \in 0..N /\ m + 1 = N - n /\ m \notin (m + 1)..N
      BY <2>1, <2>2
    <3> HIDE DEF Reads
    <3>3. ASSUME NEW p \in m..N PROVE f[p] = IF found[p] THEN <<rec[p]>> \o f[next[p]] ELSE <<>>
      <4>1. p \in 0..N /\ (p = m \/ p \in (m + 1)..N)
        BY <3>2
      <4>2. found[p] => next[p] \in 0..N /\ next[p] # m
        BY <3>2, <4>1
      <4>3. found[p] => f[next[p]] = g[next[p]]
        BY <4>2
      <4>4. CASE p = m
        <5>1. f[p] = x
          BY <4>1, <4>4
        <5>2. QED
          BY <4>3, <4>4, <5>1
      <4>5. CASE p # m
        <5>1. f[p] = g[p] /\ p \in (N - n)..N
          BY <3>2, <4>1, <4>5
        <5>2. QED
          BY <3>1, <4>3, <5>1 DEF Reads
      <4>6. QED
        BY <4>4, <4>5
    <3> HIDE DEF f, m
    <3>4. Reads(f, m)
      BY <3>3 DEF Reads
    <3>5. QED
      BY <3>4 DEF m
  <2> HIDE DEF Reads
  <2>3. QED
    BY <2>1, <2>2
<1>3. T = Nat
  <2>1. T \in SUBSET Nat
    OBVIOUS
  <2> HIDE DEF T
  <2>2. QED
    BY <1>1, <1>2, <2>1, SetInduction
<1>4. PICK g : Reads(g, 0)
  <2>1. N <= N /\ N - N = 0
    OBVIOUS
  <2> HIDE DEF Reads
  <2>2. \A n \in Nat : n <= N => \E f : Reads(f, N - n)
    BY <1>3
  <2>3. QED
    BY <2>1, <2>2
<1> DEFINE f == [p \in 0..N |-> g[p]]
<1>5. f = [p \in 0..N |-> IF found[p] THEN <<rec[p]>> \o f[next[p]] ELSE <<>>]
  <2>1. ASSUME NEW p \in 0..N PROVE f[p] = IF found[p] THEN <<rec[p]>> \o f[next[p]] ELSE <<>>
    <3>1. found[p] => next[p] \in 0..N
      OBVIOUS
    <3>2. QED
      BY <1>4, <3>1
  <2>2. QED
    BY <2>1
<1>6. QED
  BY <1>5, Zenon DEF IsReading

LEMMA NextIsFurther ==
  ASSUME NEW k \in Kinds, NEW b \in Seq(Nat), NEW p \in 0..Len(b), RecAt(k, b, p).found
  PROVE  RecAt(k, b, p).next \in (p + 1)..Len(b)
<1>1. Len(b) \in Nat /\ Width \in Nat /\ Width > 0
  BY WidthPositive
<1>2. ASSUME LineAt(b, p).found PROVE LineAt(b, p).next \in (p + 1)..Len(b)
  <2> DEFINE ends == {n \in (p + 1)..Len(b) : b[n] = NewLine}
             last == Min(ends \cup {Len(b) + 1})
  <2>1. ends \cup {Len(b) + 1} \in SUBSET Nat /\ ends \cup {Len(b) + 1} # {}
    BY <1>1
  <2>2. last \in ends \cup {Len(b) + 1} /\ \A n \in ends : last <= n
    BY <2>1, MinIsLeast
  <2>3. ends # {} => last \in ends
    BY <1>1, <2>2
  <2> HIDE DEF last
  <2>4. p < Len(b)
    BY <1>2 DEF LineAt, Nothing
  <2>5. LineAt(b, p).next = IF ends = {} THEN Len(b) ELSE last
    BY <2>4 DEF LineAt, Found, last
  <2>6. QED
    BY <1>1, <2>3, <2>4, <2>5
<1>3. ASSUME p < Len(b), VaryingAt(b, p).found PROVE VaryingAt(b, p).next \in (p + 1)..Len(b)
  <2> DEFINE n == IF b[p + 1] = Zero THEN 0 ELSE b[p + 1] - LengthField(0)
  <2>1. b[p + 1] \in Nat
    BY <1>1, <1>3
  <2>2. n \in Int
    BY <2>1 DEF LengthField
  <2>3. n >= 0 /\ p + 1 + n <= Len(b)
    BY <1>3 DEF VaryingAt, Nothing
  <2>4. VaryingAt(b, p).next = p + 1 + n
    BY <1>3, <2>3 DEF VaryingAt, Found
  <2>5. QED
    BY <1>1, <2>2, <2>3, <2>4
<1>4. ASSUME FixedAt(b, p).found PROVE FixedAt(b, p).next \in (p + 1)..Len(b)
  <2>1. p + Width <= Len(b)
    BY <1>4 DEF FixedAt, Nothing
  <2>2. FixedAt(b, p).next = p + Width
    BY <2>1 DEF FixedAt, Found
  <2>3. QED
    BY <1>1, <2>1, <2>2
<1>5. ~Nothing(p).found
  BY DEF Nothing
<1>6. QED
  BY <1>2, <1>3, <1>4, <1>5 DEF RecAt

IsFrom(f, k, b) ==
  f = [p \in 0..Len(b) |-> LET r == RecAt(k, b, p)
                           IN  IF r.found THEN <<r.record>> \o f[r.next] ELSE <<>>]

(* What RecordsFrom finds at a place: the record there, and then what it   *)
(* finds behind it.                                                        *)
LEMMA FromSteps ==
  ASSUME NEW k \in Kinds, NEW b \in Seq(Nat), NEW p \in 0..Len(b)
  PROVE  /\ RecAt(k, b, p).found
              => From(k, b)[p] = <<RecAt(k, b, p).record>> \o From(k, b)[RecAt(k, b, p).next]
         /\ ~RecAt(k, b, p).found => From(k, b)[p] = <<>>
<1>1. From(k, b) = CHOOSE f : IsFrom(f, k, b)
  BY DEF From, IsFrom
<1>2. \E f : IsFrom(f, k, b)
  <2> DEFINE found == [q \in 0..Len(b) |-> RecAt(k, b, q).found]
             next == [q \in 0..Len(b) |-> RecAt(k, b, q).next]
             rec == [q \in 0..Len(b) |-> RecAt(k, b, q).record]
  <2>1. \A q \in 0..Len(b) : found[q] => next[q] \in (q + 1)..Len(b)
    BY NextIsFurther
  <2>2. \A q \in 0..Len(b) : /\ found[q] = RecAt(k, b, q).found /\ next[q] = RecAt(k, b, q).next
                             /\ rec[q] = RecAt(k, b, q).record
    OBVIOUS
  <2>3. Len(b) \in Nat
    OBVIOUS
  <2> HIDE DEF found, next, rec
  <2>4. PICK f : IsReading(f, Len(b), found, next, rec)
    BY <2>1, <2>3, ReadingExists
  <2>5. f = [q \in 0..Len(b) |-> LET r == RecAt(k, b, q)
                                 IN  IF r.found THEN <<r.record>> \o f[r.next] ELSE <<>>]
    BY <2>2, <2>4 DEF IsReading
  <2>6. QED
    BY <2>5 DEF IsFrom
<1>3. IsFrom(From(k, b), k, b)
  BY <1>1, <1>2
<1> DEFINE F == From(k, b)
           e == [q \in 0..Len(b) |-> LET r == RecAt(k, b, q)
                                     IN  IF r.found THEN <<r.record>> \o F[r.next] ELSE <<>>]
<1>4. F = e
  BY <1>3 DEF IsFrom
<1> HIDE DEF F
<1>5. e[p] = IF RecAt(k, b, p).found THEN <<RecAt(k, b, p).record>> \o F[RecAt(k, b, p).next] ELSE <<>>
  OBVIOUS
<1> HIDE DEF e
<1>6. QED
  BY <1>4, <1>5 DEF F

-----------------------------------------------------------------------------
(* Files that are read from their start: a sequential or line-sequential   *)
(* file is a chain of units, one for each text that was written.           *)

IsLine(k) == k.organization = LineSequential
IsFixed(k) == ~IsLine(k) /\ ~k.varying

Unit(k, t) ==
  CASE IsLine(k) -> Append(t, NewLine)
    [] ~IsLine(k) /\ k.varying -> <<LengthField(Len(t))>> \o t
    [] OTHER -> t

Good(k, t) ==
  /\ t \in Seq(Nat)
  /\ IsLine(k) => \A i \in 1..Len(t) : t[i] # NewLine
  /\ k.varying => Len(t) > 0
  /\ IsFixed(k) => Len(t) = Width

(* What is left of a unit whose text the process did not live to write.    *)
Ended(k, b, e) ==
  \/ e = Len(b)
  \/ k.varying /\ e + 1 = Len(b) /\ b[Len(b)] > LengthField(0)

UnitAt(k, b, p, t) == \A j \in 1..Len(Unit(k, t)) : b[p + j] = Unit(k, t)[j]

(* b holds the texts ts; the first i of them are its first o[i] units.     *)
Holds(k, b, o, ts) ==
  /\ ts \in Seq(Seq(Nat)) /\ o \in [0..Len(ts) -> 0..Len(b)] /\ o[0] = 0
  /\ \A i \in 1..Len(ts) : /\ Good(k, ts[i]) /\ UnitAt(k, b, o[i - 1], ts[i])
                           /\ o[i] = o[i - 1] + Len(Unit(k, ts[i]))
  /\ \A i, j \in 0..Len(ts) : i <= j => o[i] <= o[j]
  /\ IsFixed(k) => \A i \in 0..Len(ts) : o[i] = i * Width
  /\ Ended(k, b, o[Len(ts)])

Recs(ts) == [i \in 1..Len(ts) |-> Record(ts[i])]
Rest(ts, i) == [j \in 1..(Len(ts) - i) |-> Record(ts[i + j])]

LEMMA SequentialKind ==
  ASSUME NEW k \in Kinds, k.organization # Relative
  PROVE  /\ k.varying => ~IsLine(k) /\ ~IsFixed(k)
         /\ IsLine(k) => ~k.varying /\ ~IsFixed(k)
         /\ k.varying \in BOOLEAN
BY KindsAssumption DEF IsLine, IsFixed, LineSequential, Sequential

LEMMA UnitOf ==
  ASSUME NEW k \in Kinds, k.organization # Relative, NEW t, Good(k, t)
  PROVE  /\ Unit(k, t) \in Seq(Nat) /\ Len(Unit(k, t)) \in Nat /\ Len(Unit(k, t)) > 0
         /\ t \in Seq(Nat) /\ Len(t) \in Nat
         /\ IsLine(k) => /\ Len(Unit(k, t)) = Len(t) + 1
                         /\ \A i \in 1..Len(t) : Unit(k, t)[i] = t[i]
                         /\ Unit(k, t)[Len(t) + 1] = NewLine
         /\ k.varying => /\ Len(Unit(k, t)) = Len(t) + 1
                         /\ \A i \in 1..Len(t) : Unit(k, t)[i + 1] = t[i]
                         /\ Unit(k, t)[1] = LengthField(Len(t))
         /\ IsFixed(k) => Unit(k, t) = t /\ Len(t) = Width
<1>1. t \in Seq(Nat) /\ Len(t) \in Nat
  BY DEF Good
<1>2. CASE IsLine(k)
  <2>1. Unit(k, t) = Append(t, NewLine) /\ ~k.varying /\ ~IsFixed(k)
    BY <1>2, SequentialKind DEF Unit
  <2>2. NewLine \in Nat
    BY DEF NewLine
  <2>3. QED
    BY <1>1, <2>1, <2>2
<1>3. CASE k.varying
  <2>1. Unit(k, t) = <<LengthField(Len(t))>> \o t /\ ~IsLine(k) /\ ~IsFixed(k)
    BY <1>3, SequentialKind DEF Unit
  <2>2. LengthField(Len(t)) \in Nat
    BY <1>1 DEF LengthField
  <2> DEFINE f == LengthField(Len(t))
  <2> HIDE DEF f
  <2>3. <<f>> \in Seq(Nat) /\ Len(<<f>>) = 1 /\ <<f>>[1] = f
    BY <2>2 DEF f
  <2>4. /\ <<f>> \o t \in Seq(Nat) /\ Len(<<f>> \o t) = 1 + Len(t)
        /\ \A i \in 1..(1 + Len(t)) : (<<f>> \o t)[i] = IF i <= 1 THEN <<f>>[i] ELSE t[i - 1]
    BY <1>1, <2>3, ConcatProperties
  <2>5. \A i \in 1..Len(t) : (<<f>> \o t)[i + 1] = t[i]
    BY <1>1, <2>4
  <2>6. (<<f>> \o t)[1] = f
    BY <1>1, <2>3, <2>4
  <2>7. QED
    BY <1>1, <2>1, <2>4, <2>5, <2>6 DEF f
<1>4. CASE IsFixed(k)
  <2>1. Unit(k, t) = t /\ Len(t) = Width /\ ~IsLine(k) /\ ~k.varying
    BY <1>4 DEF Unit, IsFixed, Good
  <2>2. QED
    BY <1>1, <1>4, <2>1, WidthPositive
<1>5. QED
  BY <1>2, <1>3, <1>4 DEF IsFixed

(* READ finds the text of a unit where it begins.                          *)
LEMMA ReadBack ==
  ASSUME NEW k \in Kinds, k.organization # Relative, NEW b \in Seq(Nat), NEW p \in Nat,
         NEW t, Good(k, t), UnitAt(k, b, p, t), p + Len(Unit(k, t)) <= Len(b)
  PROVE  RecAt(k, b, p) = Found(t, p + Len(Unit(k, t)))
<1> DEFINE l == Len(t)
<1>1. t \in Seq(Nat) /\ l \in Nat /\ Len(b) \in Nat
  BY UnitOf
<1>2. CASE IsLine(k)
  <2> DEFINE ends == {n \in (p + 1)..Len(b) : b[n] = NewLine}
             last == Min(ends \cup {Len(b) + 1})
             e == p + l + 1
  <2>1. Len(Unit(k, t)) = l + 1 /\ (\A i \in 1..l : b[p + i] = t[i]) /\ b[p + (l + 1)] = NewLine
    <3>1. /\ Len(Unit(k, t)) = l + 1 /\ Unit(k, t)[l + 1] = NewLine
          /\ \A i \in 1..l : Unit(k, t)[i] = t[i]
      BY <1>2, UnitOf
    <3>2. l + 1 \in 1..(l + 1) /\ \A i \in 1..l : i \in 1..(l + 1)
      BY <1>1
    <3> HIDE DEF l
    <3>3. QED
      BY <3>1, <3>2 DEF UnitAt
  <2>2. e \in Nat /\ e <= Len(b) /\ p + (l + 1) = e
    BY <1>1, <2>1
  <2>3. e \in ends
    BY <2>1, <2>2
  <2>4. ASSUME NEW n \in ends PROVE e <= n
    <3>1. CASE n < e
      <4>1. n - p \in 1..l /\ p + (n - p) = n
        BY <1>1, <3>1
      <4>2. b[n] = t[n - p] /\ t[n - p] # NewLine
        BY <1>2, <2>1, <4>1 DEF Good
      <4>3. QED
        BY <4>2
    <3>2. QED
      BY <1>1, <2>2, <3>1
  <2>5. ends \cup {Len(b) + 1} \in SUBSET Nat /\ ends \cup {Len(b) + 1} # {}
    BY <1>1
  <2>6. last \in ends \cup {Len(b) + 1} /\ \A n \in ends \cup {Len(b) + 1} : last <= n
    BY <2>5, MinIsLeast
  <2>7. last = e
    <3>1. last <= e /\ last \in Nat /\ e <= last
      BY <1>1, <2>2, <2>3, <2>4, <2>5, <2>6
    <3>2. QED
      BY <2>2, <3>1
  <2> HIDE DEF last
  <2>8. SubSeq(b, p + 1, e - 1) = t
    <3>1. /\ SubSeq(b, p + 1, p + l) \in Seq(Nat) /\ Len(SubSeq(b, p + 1, p + l)) = l
          /\ \A i \in 1..l : SubSeq(b, p + 1, p + l)[i] = b[p + i]
      BY <1>1, <2>2
    <3>2. e - 1 = p + l
      BY <1>1
    <3>3. QED
      BY <1>1, <2>1, <3>1, <3>2, SameUnits
  <2>9. LineAt(b, p) = Found(SubSeq(b, p + 1, last - 1), IF ends = {} THEN Len(b) ELSE last)
    <3>1. p < Len(b)
      BY <1>1, <2>2
    <3>2. QED
      BY <3>1 DEF LineAt, last
  <2>10. p + Len(Unit(k, t)) = e /\ ends # {}
    BY <2>1, <2>2, <2>3
  <2>11. LineAt(b, p) = Found(t, e)
    BY <2>7, <2>8, <2>9, <2>10
  <2>12. RecAt(k, b, p) = LineAt(b, p)
    <3>1. k.organization = LineSequential /\ ~k.varying
      BY <1>2, SequentialKind DEF IsLine
    <3> HIDE DEF ends, e
    <3>2. QED
      BY ONLY <3>1 DEF RecAt
  <2>13. QED
    BY <2>10, <2>11, <2>12
<1>3. CASE k.varying
  <2>1. /\ Len(Unit(k, t)) = l + 1 /\ l > 0
        /\ \A i \in 1..l : b[p + (i + 1)] = t[i]
        /\ b[p + 1] = LengthField(l)
    <3>1. /\ Len(Unit(k, t)) = l + 1 /\ Unit(k, t)[1] = LengthField(l)
          /\ \A i \in 1..l : Unit(k, t)[i + 1] = t[i]
      BY <1>3, UnitOf
    <3>2. 1 \in 1..(l + 1) /\ \A i \in 1..l : i + 1 \in 1..(l + 1)
      BY <1>1
    <3>3. QED
      BY <1>3, <3>1, <3>2 DEF UnitAt, Good
  <2> DEFINE n == IF b[p + 1] = Zero THEN 0 ELSE b[p + 1] - LengthField(0)
  <2>2. n = l
    BY <1>1, <2>1 DEF LengthField, Zero
  <2>3. p < Len(b) /\ p + 1 + l <= Len(b) /\ p + Len(Unit(k, t)) = p + 1 + l
    BY <1>1, <2>1
  <2>4. SubSeq(b, p + 2, p + 1 + l) = t
    <3>1. /\ SubSeq(b, p + 2, p + 1 + l) \in Seq(Nat) /\ Len(SubSeq(b, p + 2, p + 1 + l)) = l
          /\ \A i \in 1..l : SubSeq(b, p + 2, p + 1 + l)[i] = b[p + (i + 1)]
      BY <1>1, <2>3
    <3>2. QED
      BY <1>1, <2>1, <3>1, SameUnits
  <2> HIDE DEF n
  <2>5. VaryingAt(b, p) = Found(SubSeq(b, p + 2, p + 1 + n), p + 1 + n)
    <3>1. n >= 0 /\ p + 1 + n <= Len(b)
      BY <1>1, <2>2, <2>3
    <3>2. QED
      BY <2>3, <3>1 DEF VaryingAt, n
  <2>6. k.organization # LineSequential
    BY <1>3, SequentialKind DEF IsLine
  <2>7. QED
    BY <1>3, <2>2, <2>3, <2>4, <2>5, <2>6 DEF RecAt
<1>4. CASE IsFixed(k)
  <2>1. Unit(k, t) = t /\ l = Width /\ \A i \in 1..l : b[p + i] = t[i]
    BY <1>4, UnitOf DEF UnitAt
  <2>2. SubSeq(b, p + 1, p + l) = t
    <3>1. /\ SubSeq(b, p + 1, p + l) \in Seq(Nat) /\ Len(SubSeq(b, p + 1, p + l)) = l
          /\ \A i \in 1..l : SubSeq(b, p + 1, p + l)[i] = b[p + i]
      BY <1>1, <2>1
    <3>2. QED
      BY <1>1, <2>1, <3>1, SameUnits
  <2>3. FixedAt(b, p) = Found(t, p + l)
    BY <2>1, <2>2 DEF FixedAt
  <2>4. QED
    BY <1>4, <2>1, <2>3 DEF RecAt, IsFixed, IsLine
<1>5. QED
  BY <1>2, <1>3, <1>4 DEF IsFixed

(* Behind the last of them it finds none.                                  *)
LEMMA EndFinds ==
  ASSUME NEW k \in Kinds, k.organization # Relative, NEW b \in Seq(Nat), NEW e \in Nat, Ended(k, b, e)
  PROVE  /\ ~RecAt(k, b, e).found /\ RecAt(k, b, e).next = Len(b) /\ e \in 0..Len(b)
         /\ From(k, b)[e] = <<>> /\ From(k, b)[Len(b)] = <<>>
<1>1. Len(b) \in Nat /\ Width \in Nat /\ Width > 0 /\ ~(Len(b) < Len(b)) /\ ~(Len(b) + Width <= Len(b))
  BY WidthPositive
<1>2. ~RecAt(k, b, Len(b)).found /\ RecAt(k, b, Len(b)).next = Len(b)
  <2>1. RecAt(k, b, Len(b)) = Nothing(Len(b))
    BY <1>1 DEF RecAt, LineAt, FixedAt, Larger
  <2>2. QED
    BY <2>1 DEF Nothing
<1>3. ASSUME e # Len(b)
      PROVE  ~RecAt(k, b, e).found /\ RecAt(k, b, e).next = Len(b) /\ e \in 0..Len(b)
  <2>1. k.varying /\ e + 1 = Len(b) /\ b[Len(b)] > LengthField(0)
    BY <1>3 DEF Ended
  <2>2. e < Len(b) /\ b[e + 1] \in Nat /\ Len(b) \in 1..Len(b)
    BY <1>1, <2>1
  <2> DEFINE n == IF b[e + 1] = Zero THEN 0 ELSE b[e + 1] - LengthField(0)
  <2>3. n \in Nat /\ n > 0
    BY <2>1, <2>2 DEF LengthField, Zero
  <2>4. ~(e + 1 + n <= Len(b))
    BY <1>1, <2>1, <2>3
  <2> HIDE DEF n
  <2>5. VaryingAt(b, e) = Nothing(Len(b))
    BY <2>4 DEF VaryingAt, n
  <2>6. RecAt(k, b, e) = Nothing(Len(b))
    BY <2>1, <2>2, <2>5, SequentialKind DEF RecAt, IsLine
  <2>7. QED
    BY <1>1, <2>1, <2>6 DEF Nothing
<1>4. ~RecAt(k, b, e).found /\ RecAt(k, b, e).next = Len(b) /\ e \in 0..Len(b)
  BY <1>1, <1>2, <1>3
<1>5. Len(b) \in 0..Len(b)
  BY <1>1
<1>6. From(k, b)[e] = <<>>
  BY <1>4, FromSteps
<1>7. From(k, b)[Len(b)] = <<>>
  BY <1>2, <1>5, FromSteps
<1>8. QED
  BY <1>4, <1>6, <1>7

LEMMA RestSteps ==
  ASSUME NEW ts \in Seq(Seq(Nat))
  PROVE  /\ Len(ts) \in Nat /\ Rest(ts, Len(ts)) = <<>> /\ Rest(ts, 0) = Recs(ts)
         /\ \A i \in 0..Len(ts) : Len(Rest(ts, i)) = Len(ts) - i
         /\ \A i \in Nat : i < Len(ts) => Rest(ts, i) = <<Record(ts[i + 1])>> \o Rest(ts, i + 1)
<1> DEFINE n == Len(ts)
           X == {Record(ts[i]) : i \in 1..n}
<1>1. n \in Nat
  OBVIOUS
<1>2. ASSUME NEW i \in 0..n
      PROVE  /\ Rest(ts, i) \in Seq(X) /\ Len(Rest(ts, i)) = n - i
             /\ \A j \in 1..(n - i) : Rest(ts, i)[j] = Record(ts[i + j])
  <2>1. n - i \in Nat /\ \A j \in 1..(n - i) : i + j \in 1..n
    BY <1>1
  <2>2. \A j \in 1..(n - i) : Record(ts[i + j]) \in X
    BY <2>1
  <2> HIDE DEF X, n
  <2>3. Rest(ts, i) = [j \in 1..(n - i) |-> Record(ts[i + j])]
    BY DEF Rest, n
  <2>4. Rest(ts, i) \in [1..(n - i) -> X]
    BY <2>2, <2>3
  <2>5. QED
    BY <2>1, <2>3, <2>4, FunctionIsSequence
<1>3. Rest(ts, n) = <<>>
  <2>1. n \in 0..n /\ n - n = 0
    BY <1>1
  <2> HIDE DEF X, n
  <2>2. Rest(ts, n) \in Seq(X) /\ Len(Rest(ts, n)) = 0
    BY <1>2, <2>1
  <2>3. QED
    BY <2>2
<1>4. Rest(ts, 0) = Recs(ts)
  <2>1. n - 0 = n /\ \A j \in 1..n : 0 + j = j
    BY <1>1
  <2>2. QED
    BY <2>1 DEF Rest, Recs
<1>5. ASSUME NEW i \in Nat, i < n
      PROVE  Rest(ts, i) = <<Record(ts[i + 1])>> \o Rest(ts, i + 1)
  <2> DEFINE a == Record(ts[i + 1])
             r == Rest(ts, i + 1)
             q == Rest(ts, i)
  <2>1. i \in 0..n /\ i + 1 \in 0..n /\ i + 1 \in 1..n
    BY <1>1, <1>5
  <2>2. a \in X
    BY <2>1
  <2> HIDE DEF a, r, X, n
  <2>3. <<a>> \in Seq(X) /\ Len(<<a>>) = 1 /\ <<a>>[1] = a
    BY <2>2
  <2>4. /\ r \in Seq(X) /\ Len(r) = n - (i + 1)
        /\ \A j \in 1..(n - (i + 1)) : r[j] = Record(ts[(i + 1) + j])
    BY <1>2, <2>1 DEF r
  <2>5. /\ <<a>> \o r \in Seq(X) /\ Len(<<a>> \o r) = 1 + Len(r)
        /\ \A j \in 1..(1 + Len(r)) : (<<a>> \o r)[j] = IF j <= 1 THEN <<a>>[j] ELSE r[j - 1]
    BY <2>3, <2>4, ConcatProperties
  <2>6. q \in Seq(X) /\ Len(q) = n - i /\ \A j \in 1..(n - i) : q[j] = Record(ts[i + j])
    BY <1>2, <2>1
  <2>7. ASSUME NEW j \in 1..(n - i) PROVE (<<a>> \o r)[j] = q[j]
    <3>1. CASE j = 1
      BY <2>3, <2>4, <2>5, <2>6, <3>1, <1>1 DEF a
    <3>2. CASE j # 1
      <4>1. j - 1 \in 1..(n - (i + 1)) /\ (i + 1) + (j - 1) = i + j /\ ~(j <= 1) /\ j \in 1..(1 + Len(r))
        BY <1>1, <2>1, <2>4, <3>2
      <4>2. QED
        BY <2>4, <2>5, <2>6, <4>1
    <3>3. QED
      BY <3>1, <3>2
  <2>8. Len(<<a>> \o r) = n - i
    BY <1>1, <2>1, <2>4, <2>5
  <2> HIDE DEF q
  <2>9. q = <<a>> \o r
    BY <2>5, <2>6, <2>7, <2>8, SameUnits
  <2>10. QED
    BY <2>9 DEF a, r, q
<1>6. QED
  BY <1>1, <1>2, <1>3, <1>4, <1>5

(* What READ NEXT finds behind each unit: its text, and in the end nothing.*)
LEMMA NextUnit ==
  ASSUME NEW k \in Kinds, k.organization # Relative, NEW b \in Seq(Nat), NEW o, NEW ts,
         Holds(k, b, o, ts)
  PROVE  /\ Len(ts) \in Nat /\ ts \in Seq(Seq(Nat)) /\ \A i \in 0..Len(ts) : o[i] \in 0..Len(b)
         /\ \A i \in Nat : i < Len(ts) =>
              RecAt(k, b, o[i]) = Found(ts[i + 1], o[i + 1])
<1>1. Len(ts) \in Nat /\ ts \in Seq(Seq(Nat)) /\ Len(b) \in Nat /\ \A i \in 0..Len(ts) : o[i] \in 0..Len(b)
  <2>1. ts \in Seq(Seq(Nat)) /\ o \in [0..Len(ts) -> 0..Len(b)]
    BY DEF Holds
  <2>2. Len(ts) \in Nat /\ Len(b) \in Nat
    BY <2>1
  <2>3. \A i \in 0..Len(ts) : o[i] \in 0..Len(b)
    BY ONLY <2>1
  <2>4. QED
    BY <2>1, <2>2, <2>3
<1>2. ASSUME NEW i \in Nat, i < Len(ts)
      PROVE  RecAt(k, b, o[i]) = Found(ts[i + 1], o[i + 1])
  <2>1. i + 1 \in 1..Len(ts) /\ (i + 1) - 1 = i /\ i \in 0..Len(ts) /\ i + 1 \in 0..Len(ts)
    BY <1>1, <1>2
  <2>2. Good(k, ts[i + 1]) /\ UnitAt(k, b, o[i], ts[i + 1]) /\ o[i + 1] = o[i] + Len(Unit(k, ts[i + 1]))
    <3>1. /\ Good(k, ts[i + 1]) /\ UnitAt(k, b, o[(i + 1) - 1], ts[i + 1])
          /\ o[i + 1] = o[(i + 1) - 1] + Len(Unit(k, ts[i + 1]))
      BY <2>1 DEF Holds
    <3>2. QED
      BY <2>1, <3>1
  <2>3. o[i] \in Nat /\ o[i + 1] <= Len(b)
    <3>1. o[i] \in 0..Len(b) /\ o[i + 1] \in 0..Len(b)
      BY <1>1, <2>1
    <3>2. QED
      BY <1>1, <3>1
  <2>4. QED
    BY <2>2, <2>3, ReadBack
<1>3. QED
  BY <1>1, <1>2

LEMMA ReadsRest ==
  ASSUME NEW k \in Kinds, k.organization # Relative, NEW b \in Seq(Nat), NEW o, NEW ts,
         Holds(k, b, o, ts)
  PROVE  \A i \in 0..Len(ts) : From(k, b)[o[i]] = Rest(ts, i)
<1> DEFINE n == Len(ts)
           F == From(k, b)
           T == {m \in Nat : m <= n => F[o[n - m]] = Rest(ts, n - m)}
<1>1. n \in Nat /\ ts \in Seq(Seq(Nat)) /\ \A i \in 0..n : o[i] \in 0..Len(b)
  BY NextUnit
<1>2. 0 \in T
  <2>1. n - 0 = n /\ n \in 0..n
    BY <1>1
  <2>2. F[o[n]] = <<>>
    <3>1. Ended(k, b, o[n]) /\ o[n] \in Nat
      BY <1>1, <2>1 DEF Holds
    <3>2. QED
      BY <3>1, EndFinds
  <2>3. Rest(ts, n) = <<>>
    BY <1>1, RestSteps
  <2> HIDE DEF n, F
  <2>4. QED
    BY <2>1, <2>2, <2>3
<1>3. ASSUME NEW m \in T PROVE m + 1 \in T
  <2>1. m \in Nat /\ m + 1 \in Nat
    OBVIOUS
  <2>2. ASSUME m + 1 <= n PROVE F[o[n - (m + 1)]] = Rest(ts, n - (m + 1))
    <3> DEFINE i == n - (m + 1)
    <3>1. i \in Nat /\ i < n /\ i + 1 = n - m /\ i \in 0..n /\ m <= n
      BY <1>1, <2>1, <2>2
    <3>2. F[o[i + 1]] = Rest(ts, i + 1)
      BY <1>3, <3>1
    <3> HIDE DEF i, T
    <3>3. RecAt(k, b, o[i]) = Found(ts[i + 1], o[i + 1])
      BY <3>1, NextUnit
    <3>4. F[o[i]] = <<Record(ts[i + 1])>> \o F[o[i + 1]]
      <4>1. /\ RecAt(k, b, o[i]).found /\ RecAt(k, b, o[i]).record = Record(ts[i + 1])
            /\ RecAt(k, b, o[i]).next = o[i + 1] /\ o[i] \in 0..Len(b)
        BY <1>1, <3>1, <3>3 DEF Found
      <4>2. QED
        BY <4>1, FromSteps
    <3> HIDE DEF F
    <3>5. Rest(ts, i) = <<Record(ts[i + 1])>> \o Rest(ts, i + 1)
      BY <1>1, <3>1, RestSteps
    <3>6. QED
      BY <3>2, <3>4, <3>5 DEF i
  <2> HIDE DEF n, F
  <2>3. QED
    BY <2>1, <2>2
<1>4. T = Nat
  <2>1. T \in SUBSET Nat
    OBVIOUS
  <2> HIDE DEF T
  <2>2. QED
    BY <1>2, <1>3, <2>1, SetInduction
<1>5. ASSUME NEW i \in 0..n PROVE F[o[i]] = Rest(ts, i)
  <2>1. n - i \in Nat /\ n - i <= n /\ n - (n - i) = i
    BY <1>1
  <2> HIDE DEF n, F
  <2>2. QED
    BY <1>4, <2>1
<1>6. QED
  BY <1>5

(* The units of some texts are read back as these texts, from each of them *)
(* on.                                                                     *)
LEMMA RecordsRead ==
  ASSUME NEW k \in Kinds, k.organization # Relative, NEW b \in Seq(Nat), NEW o, NEW ts,
         Holds(k, b, o, ts)
  PROVE  /\ RecordsOf(k, b) = Recs(ts) /\ Len(Recs(ts)) = Len(ts) /\ Len(ts) \in Nat
         /\ \A i \in 0..Len(ts) : Len(From(k, b)[o[i]]) = Len(ts) - i
         /\ Len(From(k, b)[Len(b)]) = 0
         /\ Len(From(k, b)[0]) = Len(ts)
<1> DEFINE F == From(k, b)
<1>1. ts \in Seq(Seq(Nat)) /\ Len(ts) \in Nat /\ 0 \in 0..Len(ts) /\ o[0] = 0 /\ Len(ts) - 0 = Len(ts)
  BY NextUnit DEF Holds
<1>2. \A i \in 0..Len(ts) : F[o[i]] = Rest(ts, i) /\ Len(Rest(ts, i)) = Len(ts) - i
  <2>1. \A i \in 0..Len(ts) : F[o[i]] = Rest(ts, i)
    BY ReadsRest
  <2>2. \A i \in 0..Len(ts) : Len(Rest(ts, i)) = Len(ts) - i
    BY <1>1, RestSteps
  <2>3. QED
    BY <2>1, <2>2
<1>3. F[0] = Recs(ts) /\ Len(Recs(ts)) = Len(ts)
  BY <1>1, <1>2, RestSteps
<1>4. RecordsOf(k, b) = F[0]
  BY DEF RecordsOf
<1>5. F[Len(b)] = <<>>
  <2>1. Ended(k, b, o[Len(ts)]) /\ o[Len(ts)] \in Nat
    BY <1>1, NextUnit DEF Holds
  <2>2. QED
    BY <2>1, EndFinds
<1> HIDE DEF F
<1>6. Len(F[Len(b)]) = 0
  BY <1>5
<1>7. \A i \in 0..Len(ts) : Len(F[o[i]]) = Len(ts) - i
  BY <1>2
<1>8. QED
  BY <1>1, <1>3, <1>4, <1>6, <1>7 DEF F

(* A unit stays where it is when what is behind it changes.                *)
LEMMA SameUnit ==
  ASSUME NEW k \in Kinds, NEW b \in Seq(Nat), NEW c \in Seq(Nat), NEW p \in Nat, NEW t,
         Len(Unit(k, t)) \in Nat, UnitAt(k, b, p, t),
         \A j \in 1..(p + Len(Unit(k, t))) : c[j] = b[j]
  PROVE  UnitAt(k, c, p, t)
<1>1. \A j \in 1..Len(Unit(k, t)) : p + j \in 1..(p + Len(Unit(k, t)))
  OBVIOUS
<1>2. QED
  BY <1>1 DEF UnitAt

(* The facts of Holds, one by one.                                         *)
LEMMA HeldUnits ==
  ASSUME NEW k \in Kinds, k.organization # Relative, NEW b \in Seq(Nat), NEW o, NEW ts,
         Holds(k, b, o, ts)
  PROVE  /\ ts \in Seq(Seq(Nat)) /\ Len(ts) \in Nat /\ Len(b) \in Nat /\ o[0] = 0
         /\ \A i \in 0..Len(ts) : o[i] \in 0..Len(b) /\ o[i] \in Nat /\ o[i] <= Len(b)
         /\ \A i \in 1..Len(ts) :
              /\ Good(k, ts[i]) /\ UnitAt(k, b, o[i - 1], ts[i])
              /\ o[i] = o[i - 1] + Len(Unit(k, ts[i]))
              /\ Len(Unit(k, ts[i])) \in Nat /\ Len(Unit(k, ts[i])) > 0
         /\ \A i, j \in 0..Len(ts) : i <= j => o[i] <= o[j]
         /\ IsFixed(k) => \A i \in 0..Len(ts) : o[i] = i * Width
         /\ Ended(k, b, o[Len(ts)])
<1>1. ts \in Seq(Seq(Nat)) /\ Len(ts) \in Nat /\ Len(b) \in Nat /\ o[0] = 0
  BY NextUnit DEF Holds
<1>2. \A i \in 0..Len(ts) : o[i] \in 0..Len(b) /\ o[i] \in Nat /\ o[i] <= Len(b)
  <2>1. \A i \in 0..Len(ts) : o[i] \in 0..Len(b)
    BY NextUnit
  <2>2. QED
    BY <1>1, <2>1
<1>3. ASSUME NEW i \in 1..Len(ts)
      PROVE  /\ Good(k, ts[i]) /\ UnitAt(k, b, o[i - 1], ts[i])
             /\ o[i] = o[i - 1] + Len(Unit(k, ts[i]))
             /\ Len(Unit(k, ts[i])) \in Nat /\ Len(Unit(k, ts[i])) > 0
  <2>1. Good(k, ts[i]) /\ UnitAt(k, b, o[i - 1], ts[i]) /\ o[i] = o[i - 1] + Len(Unit(k, ts[i]))
    BY DEF Holds
  <2>2. QED
    BY <2>1, UnitOf
<1>4. /\ \A i, j \in 0..Len(ts) : i <= j => o[i] <= o[j]
      /\ IsFixed(k) => \A i \in 0..Len(ts) : o[i] = i * Width
      /\ Ended(k, b, o[Len(ts)])
  BY DEF Holds
<1>5. QED
  BY <1>1, <1>2, <1>3, <1>4

LEMMA HoldsNothing ==
  ASSUME NEW k \in Kinds, k.organization # Relative
  PROVE  Holds(k, <<>>, [i \in 0..0 |-> 0], <<>>)
<1> DEFINE o == [i \in 0..0 |-> 0]
<1>1. <<>> \in Seq(Seq(Nat)) /\ Len(<<>>) = 0 /\ 0..0 = {0} /\ 1..0 = {} /\ 0 \in 0..0 /\ 0 * Width = 0
  BY WidthPositive
<1>2. o \in [0..0 -> 0..0] /\ o[0] = 0
  BY <1>1
<1> HIDE DEF o
<1>3. Ended(k, <<>>, o[Len(<<>>)])
  BY <1>1, <1>2 DEF Ended
<1>4. Holds(k, <<>>, o, <<>>)
  BY <1>1, <1>2, <1>3 DEF Holds
<1>5. QED
  BY <1>4 DEF o

(* The first i texts are in the first o[i] units, and in a file of records *)
(* of varying length the length of the next one may follow.                *)
PrefixHeld(k, b, s, i, ts) ==
  /\ SubSeq(b, 1, s) \in Seq(Nat)
  /\ \E q, us : Holds(k, SubSeq(b, 1, s), q, us) /\ Len(us) = i /\ Recs(us) = SubSeq(Recs(ts), 1, i)

(* What a crash leaves, of whole units or with the length of one more, is  *)
(* the units of the first texts.                                           *)
LEMMA HoldsPrefix ==
  ASSUME NEW k \in Kinds, k.organization # Relative, NEW b \in Seq(Nat), NEW o, NEW ts,
         Holds(k, b, o, ts), NEW i \in 0..Len(ts), NEW s,
         s = o[i] \/ (k.varying /\ i < Len(ts) /\ s = o[i] + 1)
  PROVE  /\ s \in 0..Len(b) /\ SubSeq(b, 1, s) \in Seq(Nat) /\ Len(SubSeq(b, 1, s)) = s
         /\ PrefixHeld(k, b, s, i, ts)
<1> DEFINE c == SubSeq(b, 1, s)
           us == SubSeq(ts, 1, i)
           q == [j \in 0..i |-> o[j]]
<1>1. i \in Nat /\ i <= Len(ts) /\ o[i] \in Nat /\ o[i] <= Len(b) /\ Len(ts) \in Nat /\ Len(b) \in Nat
  BY HeldUnits
<1>2. ASSUME s # o[i]
      PROVE  k.varying /\ s = o[i] + 1 /\ s <= Len(b) /\ b[s] > LengthField(0)
  <2>1. k.varying /\ i < Len(ts) /\ s = o[i] + 1
    BY <1>2
  <2>2. i + 1 \in 1..Len(ts) /\ (i + 1) - 1 = i /\ i + 1 \in 0..Len(ts)
    BY <1>1, <2>1
  <2> DEFINE t == ts[i + 1]
             l == Len(Unit(k, t))
  <2>3. Good(k, t) /\ UnitAt(k, b, o[i], t) /\ o[i + 1] = o[i] + l /\ l \in Nat /\ l > 0
        /\ o[i + 1] <= Len(b)
    <3> DEFINE m == i + 1
    <3>1. m \in 1..Len(ts) /\ m - 1 = i /\ m \in 0..Len(ts)
      BY <2>2
    <3> HIDE DEF m
    <3>2. \A j \in 1..Len(ts) :
            /\ Good(k, ts[j]) /\ UnitAt(k, b, o[j - 1], ts[j]) /\ o[j] = o[j - 1] + Len(Unit(k, ts[j]))
            /\ Len(Unit(k, ts[j])) \in Nat /\ Len(Unit(k, ts[j])) > 0
      BY HeldUnits
    <3>3. /\ Good(k, ts[m]) /\ UnitAt(k, b, o[m - 1], ts[m]) /\ o[m] = o[m - 1] + Len(Unit(k, ts[m]))
          /\ Len(Unit(k, ts[m])) \in Nat /\ Len(Unit(k, ts[m])) > 0
      BY ONLY <3>1, <3>2
    <3>4. o[m] <= Len(b)
      BY <3>1, HeldUnits
    <3>5. QED
      BY <3>1, <3>3, <3>4 DEF m
  <2>4. Unit(k, t)[1] = LengthField(Len(t)) /\ Len(t) \in Nat /\ Len(t) > 0
    <3>1. Len(t) > 0
      BY <2>1, <2>3 DEF Good
    <3> HIDE DEF t, l
    <3>2. QED
      BY <2>1, <2>3, <3>1, UnitOf
  <2>5. b[o[i] + 1] = LengthField(Len(t))
    <3>1. 1 \in 1..l
      BY <2>3
    <3>2. QED
      BY <2>3, <2>4, <3>1 DEF UnitAt
  <2>6. LengthField(Len(t)) > LengthField(0)
    BY <2>4 DEF LengthField
  <2> HIDE DEF t, l
  <2>7. s <= Len(b)
    BY <1>1, <2>1, <2>3
  <2>8. QED
    BY <2>1, <2>5, <2>6, <2>7
<1>3. s \in 0..Len(b) /\ s \in Nat /\ o[i] <= s
  BY <1>1, <1>2
<1>4. c \in Seq(Nat) /\ Len(c) = s /\ \A j \in 1..s : c[j] = b[j]
  BY <1>3, PrefixProperties
<1>5. us \in Seq(Seq(Nat)) /\ Len(us) = i /\ \A j \in 1..i : us[j] = ts[j]
  BY HeldUnits, PrefixProperties
<1>6. \A j \in 0..i : q[j] = o[j] /\ j \in 0..Len(ts)
  BY <1>1
<1>7. \A j \in 0..i : q[j] \in 0..s
  <2>1. ASSUME NEW j \in 0..i PROVE q[j] \in 0..s
    <3>1. j \in 0..Len(ts) /\ j <= i
      BY <1>1
    <3>2. o[j] \in Nat /\ o[j] <= o[i]
      BY <3>1, HeldUnits
    <3>3. QED
      BY <1>1, <1>3, <1>6, <3>2
  <2>2. QED
    BY <2>1
<1>8. q \in [0..i -> 0..s] /\ q[0] = 0
  <2>1. q[0] = o[0]
    BY <1>1, <1>6
  <2>2. q[0] = 0
    BY <2>1, HeldUnits
  <2>3. QED
    BY <1>7, <2>2
<1> HIDE DEF c, us, q
<1>9. ASSUME NEW j \in 1..i
      PROVE  Good(k, us[j]) /\ UnitAt(k, c, q[j - 1], us[j]) /\ q[j] = q[j - 1] + Len(Unit(k, us[j]))
  <2>1. j \in 1..Len(ts) /\ j \in 0..i /\ j - 1 \in 0..i /\ us[j] = ts[j]
    BY <1>1, <1>5
  <2>2. /\ Good(k, ts[j]) /\ UnitAt(k, b, o[j - 1], ts[j]) /\ o[j] = o[j - 1] + Len(Unit(k, ts[j]))
        /\ Len(Unit(k, ts[j])) \in Nat
    BY <2>1, HeldUnits
  <2>3. q[j] = o[j] /\ q[j - 1] = o[j - 1] /\ q[j] <= s /\ q[j - 1] \in Nat
    BY <1>3, <1>6, <1>7, <2>1
  <2>4. \A m \in 1..(q[j - 1] + Len(Unit(k, ts[j]))) : c[m] = b[m]
    <3> DEFINE l == Len(Unit(k, ts[j]))
    <3>1. q[j - 1] + l = q[j] /\ q[j] <= s /\ q[j] \in Nat
      BY <1>6, <1>7, <2>1, <2>2, <2>3
    <3> HIDE DEF l
    <3>2. \A m \in 1..q[j] : m \in 1..s
      BY <1>3, <3>1
    <3>3. QED
      BY <1>4, <3>1, <3>2 DEF l
  <2>5. UnitAt(k, c, q[j - 1], ts[j])
    BY <1>4, <2>2, <2>3, <2>4, SameUnit
  <2>6. QED
    BY <2>1, <2>2, <2>3, <2>5
<1>10. \A j, m \in 0..i : j <= m => q[j] <= q[m]
  <2>1. ASSUME NEW j \in 0..i, NEW m \in 0..i, j <= m PROVE o[j] <= o[m]
    BY <1>6, <2>1, HeldUnits
  <2>2. QED
    BY <1>6, <2>1
<1>11. IsFixed(k) => \A j \in 0..i : q[j] = j * Width
  BY <1>6, HeldUnits
<1>12. Ended(k, c, q[i])
  <2>1. q[i] = o[i]
    BY <1>1, <1>6
  <2>2. CASE s = o[i]
    BY <1>4, <2>1, <2>2 DEF Ended
  <2>3. CASE s # o[i]
    <3>1. k.varying /\ s = o[i] + 1 /\ b[s] > LengthField(0) /\ s \in 1..s
      BY <1>1, <1>2, <2>3
    <3>2. c[s] = b[s]
      BY <1>4, <3>1
    <3>3. QED
      BY <1>4, <2>1, <3>1, <3>2 DEF Ended
  <2>4. QED
    BY <2>2, <2>3
<1>13. Holds(k, c, q, us)
  BY <1>4, <1>5, <1>8, <1>9, <1>10, <1>11, <1>12 DEF Holds
<1>14. Recs(us) = SubSeq(Recs(ts), 1, i)
  <2> DEFINE X == {Record(ts[j]) : j \in 1..Len(ts)}
  <2>1. Recs(ts) \in [1..Len(ts) -> X]
    BY DEF Recs
  <2>2. Recs(us) = [j \in 1..i |-> Record(us[j])]
    BY <1>5 DEF Recs
  <2>3. Recs(us) \in [1..i -> X]
    <3>1. \A j \in 1..i : j \in 1..Len(ts) /\ us[j] = ts[j]
      BY <1>1, <1>5
    <3>2. QED
      BY <2>2, <3>1
  <2> HIDE DEF X
  <2>4. Recs(ts) \in Seq(X) /\ Len(Recs(ts)) = Len(ts) /\ Recs(us) \in Seq(X) /\ Len(Recs(us)) = i
    BY <1>1, <2>1, <2>3, FunctionIsSequence
  <2>5. /\ SubSeq(Recs(ts), 1, i) \in Seq(X) /\ Len(SubSeq(Recs(ts), 1, i)) = i
        /\ \A j \in 1..i : SubSeq(Recs(ts), 1, i)[j] = Recs(ts)[j]
    BY <1>1, <2>4, PrefixProperties
  <2>6. \A j \in 1..i : Recs(us)[j] = Record(ts[j])
    BY <1>5, <2>2
  <2>7. \A j \in 1..i : Recs(ts)[j] = Record(ts[j])
    BY <1>1 DEF Recs
  <2>8. \A j \in 1..i : Recs(us)[j] = SubSeq(Recs(ts), 1, i)[j]
    BY <2>5, <2>6, <2>7
  <2> DEFINE r == Recs(us)
             p == SubSeq(Recs(ts), 1, i)
  <2>9. r \in Seq(X) /\ p \in Seq(X) /\ Len(r) = i /\ Len(p) = i /\ \A j \in 1..i : r[j] = p[j]
    BY <2>4, <2>5, <2>8
  <2> HIDE DEF r, p
  <2>10. r = p
    BY <2>9, SameUnits
  <2>11. QED
    BY <2>10 DEF r, p
<1>15. QED
  BY <1>3, <1>4, <1>5, <1>13, <1>14 DEF c, PrefixHeld

(* What a write at p leaves: its text there, and the rest as it was.       *)
LEMMA WrittenUnits ==
  ASSUME NEW b \in Seq(Nat), NEW p \in Nat, NEW t \in Seq(Nat), p <= Len(b)
  PROVE  /\ Len(b) \in Nat /\ Len(t) \in Nat
         /\ WrittenAt(b, p, t) \in Seq(Nat)
         /\ Len(WrittenAt(b, p, t)) = Larger(Len(b), p + Len(t))
         /\ \A j \in 1..Len(t) : WrittenAt(b, p, t)[p + j] = t[j]
         /\ \A j \in 1..Len(b) : j <= p \/ j > p + Len(t) => WrittenAt(b, p, t)[j] = b[j]
<1> DEFINE d == Len(b)
           l == Len(t)
           n == Larger(d, p + l)
           c == WrittenAt(b, p, t)
<1>1. d \in Nat /\ l \in Nat /\ n \in Nat /\ n >= d /\ n >= p + l
  BY DEF Larger
<1>2. c \in Seq(Nat) /\ Len(c) = n
  BY WrittenBytes
<1>3. c = [j \in 1..n |-> IF j \in (p + 1)..(p + l) THEN t[j - p] ELSE IF j <= d THEN b[j] ELSE Zero]
  BY DEF WrittenAt
<1>4. d \in Nat /\ l \in Nat
  BY <1>1
<1> HIDE DEF c, n, d, l
<1>5. \A j \in 1..l : c[p + j] = t[j]
  <2>1. ASSUME NEW j \in 1..l PROVE c[p + j] = t[j]
    <3>1. p + j \in 1..n /\ p + j \in (p + 1)..(p + l) /\ (p + j) - p = j
      BY <1>1
    <3>2. QED
      BY <1>3, <3>1
  <2>2. QED
    BY <2>1
<1>6. \A j \in 1..d : j <= p \/ j > p + l => c[j] = b[j]
  <2>1. ASSUME NEW j \in 1..d, j <= p \/ j > p + l PROVE c[j] = b[j]
    <3>1. j \in 1..n /\ j \notin (p + 1)..(p + l) /\ j <= d
      BY <1>1, <2>1
    <3>2. QED
      BY <1>3, <3>1
  <2>2. QED
    BY <2>1
<1>7. QED
  BY <1>1, <1>2, <1>5, <1>6 DEF c, n, d, l

(* A unit is added behind the last one.                                    *)
Longer(o, n, l) == [j \in 0..(n + 1) |-> IF j <= n THEN o[j] ELSE o[n] + l]

(* A unit written behind the last one.                                     *)
LEMMA HoldsLonger ==
  ASSUME NEW k \in Kinds, k.organization # Relative, NEW b \in Seq(Nat), NEW o, NEW ts,
         Holds(k, b, o, ts), o[Len(ts)] = Len(b), NEW t, Good(k, t)
  PROVE  LET c == WrittenAt(b, Len(b), Unit(k, t))
             q == Longer(o, Len(ts), Len(Unit(k, t)))
             us == Append(ts, t)
         IN  /\ c \in Seq(Nat) /\ Len(c) = Len(b) + Len(Unit(k, t)) /\ Len(us) = Len(ts) + 1
             /\ \A i \in 0..Len(ts) : q[i] = o[i]
             /\ q[Len(ts) + 1] = Len(c)
             /\ Holds(k, c, q, us)
<1> DEFINE n == Len(ts)
           u == Unit(k, t)
           l == Len(u)
           c == WrittenAt(b, Len(b), u)
           q == Longer(o, n, l)
           us == Append(ts, t)
           d == Len(b)
<1>1. n \in Nat /\ l \in Nat /\ l > 0 /\ u \in Seq(Nat) /\ d \in Nat /\ o[n] = d /\ t \in Seq(Nat)
      /\ ts \in Seq(Seq(Nat))
  BY HeldUnits, UnitOf
<1>2. c \in Seq(Nat) /\ Len(c) = d + l
  <2>1. c \in Seq(Nat) /\ Len(c) = Larger(d, d + l)
    BY <1>1, WrittenBytes
  <2> HIDE DEF c, d, l
  <2>2. Larger(d, d + l) = d + l
    BY <1>1 DEF Larger
  <2>3. QED
    BY <2>1, <2>2
<1>3. /\ \A j \in 1..d : c[j] = b[j]
      /\ \A j \in 1..l : c[d + j] = u[j]
  <2>1. /\ \A j \in 1..l : c[d + j] = u[j]
        /\ \A j \in 1..d : j <= d \/ j > d + l => c[j] = b[j]
    <3>1. d <= Len(b)
      BY <1>1
    <3> DEFINE e == d
    <3>2. e \in Nat /\ e <= Len(b) /\ u \in Seq(Nat) /\ c = WrittenAt(b, e, u)
      BY <1>1, <3>1
    <3> HIDE DEF e, u, c
    <3>3. /\ \A j \in 1..Len(u) : c[e + j] = u[j]
          /\ \A j \in 1..Len(b) : j <= e \/ j > e + Len(u) => c[j] = b[j]
      <4>1. b \in Seq(Nat)
        OBVIOUS
      <4>2. /\ \A j \in 1..Len(u) : WrittenAt(b, e, u)[e + j] = u[j]
            /\ \A j \in 1..Len(b) : j <= e \/ j > e + Len(u) => WrittenAt(b, e, u)[j] = b[j]
        BY ONLY <3>2, <4>1, WrittenUnits, Zenon
      <4>3. QED
        BY ONLY <3>2, <4>2, Zenon
    <3>4. QED
      BY <3>3 DEF e
  <2> HIDE DEF c, u, l, d
  <2>2. \A j \in 1..d : j <= d
    BY <1>1
  <2>3. QED
    BY <2>1, <2>2
<1>4. us \in Seq(Seq(Nat)) /\ Len(us) = n + 1 /\ us[n + 1] = t /\ \A j \in 1..n : us[j] = ts[j]
  BY <1>1
<1>5. (\A j \in 0..n : q[j] = o[j]) /\ q[n + 1] = d + l
  BY <1>1 DEF Longer
<1>6. \A j \in 0..n : o[j] \in Nat /\ o[j] <= d
  BY HeldUnits
<1>7. q \in [0..(n + 1) -> 0..Len(c)] /\ q[0] = 0
  <2>1. \A j \in 0..(n + 1) : q[j] \in 0..Len(c)
    <3>1. ASSUME NEW j \in 0..(n + 1) PROVE q[j] \in 0..Len(c)
      <4>1. CASE j \in 0..n
        <5>1. q[j] \in Nat /\ q[j] <= d
          BY <1>5, <1>6, <4>1
        <5> HIDE DEF q, d, l, n
        <5>2. QED
          BY <1>1, <1>2, <5>1
      <4>2. CASE j = n + 1
        <5>1. q[j] = d + l
          BY <1>5, <4>2
        <5> HIDE DEF q, d, l, n, c
        <5>2. QED
          BY <1>1, <1>2, <5>1
      <4>3. QED
        BY <1>1, <4>1, <4>2
    <3>2. QED
      BY <3>1
  <2>2. q[0] = o[0] /\ o[0] = 0
    BY <1>1, <1>5, HeldUnits
  <2>3. q = [j \in 0..(n + 1) |-> q[j]]
    BY DEF Longer
  <2> HIDE DEF q
  <2>4. QED
    BY <2>1, <2>2, <2>3
<1>8. ASSUME NEW j \in 1..(n + 1)
      PROVE  Good(k, us[j]) /\ UnitAt(k, c, q[j - 1], us[j]) /\ q[j] = q[j - 1] + Len(Unit(k, us[j]))
  <2>1. CASE j \in 1..n
    <3>1. j \in 0..n /\ j - 1 \in 0..n /\ us[j] = ts[j]
      BY <1>1, <1>4, <2>1
    <3>2. /\ Good(k, ts[j]) /\ UnitAt(k, b, o[j - 1], ts[j]) /\ o[j] = o[j - 1] + Len(Unit(k, ts[j]))
          /\ Len(Unit(k, ts[j])) \in Nat
      BY <2>1, HeldUnits
    <3>3. q[j] = o[j] /\ q[j - 1] = o[j - 1] /\ o[j] <= d /\ o[j - 1] \in Nat
      BY <1>5, <1>6, <3>1
    <3>4. \A m \in 1..(o[j - 1] + Len(Unit(k, ts[j]))) : c[m] = b[m]
      <4>1. o[j - 1] + Len(Unit(k, ts[j])) = o[j] /\ o[j] \in Nat
        BY <1>6, <3>1, <3>2
      <4>2. \A m \in 1..o[j] : m \in 1..d
        BY <1>1, <3>3, <4>1
      <4> HIDE DEF c
      <4>3. QED
        BY <1>3, <4>1, <4>2
    <3> HIDE DEF c
    <3>5. UnitAt(k, c, o[j - 1], ts[j])
      BY <1>2, <3>2, <3>3, <3>4, SameUnit
    <3>6. QED
      BY <3>1, <3>2, <3>3, <3>5
  <2>2. CASE j = n + 1
    <3>1. us[j] = t /\ j - 1 = n /\ q[n] = d /\ q[j] = d + l
      <4>1. n \in 0..n /\ j - 1 = n
        BY <1>1, <2>2
      <4> HIDE DEF us, q, n, d, l
      <4>2. QED
        BY <1>1, <1>4, <1>5, <2>2, <4>1
    <3>2. UnitAt(k, c, d, t)
      BY <1>3 DEF UnitAt
    <3> HIDE DEF c, q, us, d
    <3>3. QED
      BY <3>1, <3>2
  <2> HIDE DEF n, q, us, c, d, l, u
  <2>3. j \in 1..n \/ j = n + 1
    BY <1>1
  <2>4. QED
    BY <2>1, <2>2, <2>3
<1>9. ASSUME NEW j \in 0..(n + 1), NEW m \in 0..(n + 1), j <= m PROVE q[j] <= q[m]
  <2>1. CASE m = n + 1
    <3>1. j = n + 1 \/ j \in 0..n
      BY <1>1
    <3>2. q[j] = d + l \/ (q[j] \in Nat /\ q[j] <= d)
      BY <1>5, <1>6, <3>1
    <3>3. q[m] = d + l
      BY <1>5, <2>1
    <3>4. QED
      BY <1>1, <3>2, <3>3
  <2>2. CASE m # n + 1
    <3>1. j \in 0..n /\ m \in 0..n
      BY <1>1, <1>9, <2>2
    <3>2. o[j] <= o[m]
      BY <1>9, <3>1, HeldUnits
    <3>3. QED
      BY <1>5, <3>1, <3>2
  <2>3. QED
    BY <2>1, <2>2
<1>10. ASSUME IsFixed(k), NEW j \in 0..(n + 1) PROVE q[j] = j * Width
  <2>1. CASE j \in 0..n
    <3>1. q[j] = o[j] /\ o[j] = j * Width
      BY <1>5, <1>10, <2>1, HeldUnits
    <3>2. QED
      BY <3>1
  <2>2. CASE j = n + 1
    <3>1. o[n] = n * Width
      <4>1. n \in 0..n /\ \A m \in 0..n : o[m] = m * Width
        BY <1>1, <1>10, HeldUnits
      <4> HIDE DEF n
      <4>2. QED
        BY <4>1
    <3>2. l = Width
      BY <1>10, UnitOf
    <3>3. (n + 1) * Width = n * Width + Width
      BY <1>1, WidthPositive, Multiples
    <3>4. QED
      BY <1>1, <1>5, <2>2, <3>1, <3>2, <3>3
  <2>3. QED
    BY <1>1, <2>1, <2>2
<1>11. Ended(k, c, q[n + 1])
  BY <1>2, <1>5 DEF Ended
<1> HIDE DEF c, q, us, n
<1>12. Holds(k, c, q, us)
  BY <1>4, <1>7, <1>8, <1>9, <1>10, <1>11 DEF Holds
<1>13. QED
  BY <1>2, <1>4, <1>5, <1>12 DEF c, q, us, n

(* In a file of records of one length a text takes the place of another.   *)
ReplacedHeld(k, b, o, ts, i, t, us, p) ==
  LET c == WrittenAt(b, p, t)
  IN  /\ c \in Seq(Nat) /\ Len(c) = Len(b) /\ Len(us) = Len(ts)
      /\ \A j \in 1..Len(ts) : us[j] = IF j = i THEN t ELSE ts[j]
      /\ Holds(k, c, o, us)

(* A unit written over another of the same length.                         *)
LEMMA HoldsReplaced ==
  ASSUME NEW k \in Kinds, k.organization # Relative, IsFixed(k), NEW b \in Seq(Nat), NEW o, NEW ts,
         Holds(k, b, o, ts), NEW i \in 1..Len(ts), NEW t, Good(k, t), NEW us, us = [ts EXCEPT ![i] = t],
         NEW p, p = (i - 1) * Width
  PROVE  ReplacedHeld(k, b, o, ts, i, t, us, p)
<1> DEFINE n == Len(ts)
           d == Len(b)
           c == WrittenAt(b, p, t)
<1>1. /\ n \in Nat /\ d \in Nat /\ ts \in Seq(Seq(Nat)) /\ Width \in Nat /\ Width > 0
      /\ t \in Seq(Nat) /\ Len(t) = Width /\ Unit(k, t) = t
      /\ i \in Nat /\ i - 1 \in Nat /\ i \in 0..n /\ i - 1 \in 0..n /\ (i - 1) + 1 = i
  <2>1. n \in Nat /\ d \in Nat /\ ts \in Seq(Seq(Nat))
    BY HeldUnits
  <2>2. t \in Seq(Nat) /\ Len(t) = Width /\ Unit(k, t) = t
    BY UnitOf
  <2>3. QED
    BY <2>1, <2>2, WidthPositive
<1>2. /\ \A j \in 0..n : o[j] = j * Width /\ o[j] \in Nat /\ o[j] <= d
      /\ \A j \in 1..n : o[j] = o[j - 1] + Width
  <2>0. \A j \in 1..Len(ts) : Good(k, ts[j]) /\ o[j] = o[j - 1] + Len(Unit(k, ts[j]))
    BY HeldUnits
  <2>1. ASSUME NEW j \in 1..n PROVE o[j] = o[j - 1] + Width
    <3>1. o[j] = o[j - 1] + Len(Unit(k, ts[j])) /\ Good(k, ts[j])
      BY <2>0
    <3>2. Len(Unit(k, ts[j])) = Width
      BY <3>1, UnitOf
    <3>3. QED
      BY <3>1, <3>2
  <2>2. QED
    BY <2>1, HeldUnits
<1>3. p = o[i - 1] /\ p \in Nat /\ p + Width = o[i] /\ p + Width <= d
  BY <1>1, <1>2
<1>4. c \in Seq(Nat) /\ Len(c) = d
  <2>1. c \in Seq(Nat) /\ Len(c) = Larger(d, p + Width)
    BY <1>1, <1>3, WrittenBytes
  <2> HIDE DEF c, d
  <2>2. Larger(d, p + Width) = d
    <3>1. p + Width <= d /\ p + Width \in Nat /\ d \in Nat
      BY <1>1, <1>3
    <3> DEFINE x == p + Width
    <3> HIDE DEF x
    <3>2. Larger(d, x) = d
      BY ONLY <3>1 DEF Larger, x
    <3>3. QED
      BY <3>2 DEF x
  <2>3. QED
    BY <2>1, <2>2
<1>5. /\ \A j \in 1..Width : c[p + j] = t[j]
      /\ \A j \in 1..d : j <= p \/ j > p + Width => c[j] = b[j]
  <2>1. p <= d
    BY <1>1, <1>3
  <2>2. /\ \A j \in 1..Len(t) : c[p + j] = t[j]
        /\ \A j \in 1..Len(b) : j <= p \/ j > p + Len(t) => c[j] = b[j]
    BY <1>1, <1>3, <2>1, WrittenUnits
  <2>3. Len(t) = Width
    BY <1>1
  <2> HIDE DEF c
  <2>4. QED
    BY <2>2, <2>3
<1>6. us \in Seq(Seq(Nat)) /\ Len(us) = n /\ \A j \in 1..n : us[j] = IF j = i THEN t ELSE ts[j]
  BY <1>1
<1> HIDE DEF c
<1>7. ASSUME NEW j \in 1..n
      PROVE  Good(k, us[j]) /\ UnitAt(k, c, o[j - 1], us[j]) /\ o[j] = o[j - 1] + Len(Unit(k, us[j]))
  <2>1. CASE j = i
    <3>1. us[j] = t
      BY <1>6, <2>1
    <3>2. UnitAt(k, c, p, t)
      BY <1>1, <1>5 DEF UnitAt
    <3>3. QED
      BY <1>1, <1>3, <2>1, <3>1, <3>2
  <2>2. CASE j # i
    <3>1. us[j] = ts[j]
      BY <1>6, <2>2
    <3>2. /\ Good(k, ts[j]) /\ UnitAt(k, b, o[j - 1], ts[j]) /\ o[j] = o[j - 1] + Len(Unit(k, ts[j]))
      BY HeldUnits
    <3>3. Len(Unit(k, ts[j])) = Width
      BY <3>2, UnitOf
    <3>4. /\ j \in 0..n /\ j - 1 \in 0..n /\ (j <= i - 1 \/ i <= j - 1)
      BY <1>1, <2>2
    <3> DEFINE x == o[j - 1]
               y == o[j]
    <3>5. x \in Nat /\ y = x + Width /\ y <= d /\ (y <= p \/ p + Width <= x)
      <4>1. j <= i - 1 => o[j] <= o[i - 1]
        BY <1>1, <3>4, HeldUnits
      <4>2. i <= j - 1 => o[i] <= o[j - 1]
        BY <1>1, <3>4, HeldUnits
      <4>3. QED
        BY <1>2, <1>3, <3>4, <4>1, <4>2
    <3> HIDE DEF x, y, d
    <3>6. \A m \in 1..Width : x + m \in 1..d /\ (x + m <= p \/ x + m > p + Width)
      <4>1. d \in Nat /\ Width \in Nat /\ p \in Nat
        BY <1>1, <1>3
      <4>2. QED
        BY ONLY <3>5, <4>1
    <3>7. \A m \in 1..Width : c[x + m] = b[x + m]
      BY <1>5, <3>6
    <3>8. UnitAt(k, b, x, ts[j])
      BY <3>2 DEF x
    <3>9. UnitAt(k, c, x, ts[j])
      BY <3>3, <3>7, <3>8 DEF UnitAt
    <3>10. QED
      BY <3>1, <3>2, <3>9 DEF x
  <2>3. QED
    BY <2>1, <2>2
<1>8. Ended(k, c, o[n])
  <2>1. Ended(k, b, o[n]) /\ ~k.varying
    BY HeldUnits DEF IsFixed
  <2>2. QED
    BY <1>4, <2>1 DEF Ended
<1>9. o \in [0..n -> 0..Len(c)] /\ o[0] = 0
  <2>1. o \in [0..n -> 0..Len(b)] /\ o[0] = 0
    BY DEF Holds
  <2>2. QED
    BY <1>4, <2>1
<1>10. (\A j, m \in 0..n : j <= m => o[j] <= o[m]) /\ \A j \in 0..n : o[j] = j * Width
  BY HeldUnits
<1> HIDE DEF n
<1>11. Holds(k, c, o, us)
  BY <1>6, <1>7, <1>8, <1>9, <1>10 DEF Holds
<1>12. QED
  BY <1>4, <1>6, <1>11 DEF c, n, ReplacedHeld

(* The text a READ will find, of one that WRITE is given.                  *)
Text(k, t) == IF IsLine(k) THEN Trimmed(t) ELSE t

LEMMA TrimmedText ==
  ASSUME NEW t \in Seq(Nat)
  PROVE  /\ Trimmed(t) \in Seq(Nat) /\ Len(Trimmed(t)) \in 0..Len(t)
         /\ \A i \in 1..Len(Trimmed(t)) : Trimmed(t)[i] = t[i]
<1> DEFINE kept == {n \in DOMAIN t : t[n] # Space}
<1>1. Len(t) \in Nat
  OBVIOUS
<1>2. CASE kept = {}
  <2>1. Trimmed(t) = <<>>
    BY <1>2 DEF Trimmed
  <2>2. QED
    BY <1>1, <2>1
<1>3. CASE kept # {}
  <2> DEFINE m == Max(kept)
  <2>1. kept \in SUBSET Nat /\ \A n \in kept : n <= Len(t)
    BY <1>1
  <2>2. m \in kept
    BY <1>1, <1>3, <2>1, MaxIsGreatest
  <2>3. m \in 0..Len(t)
    BY <1>1, <2>1, <2>2
  <2>4. Trimmed(t) = SubSeq(t, 1, m)
    BY <1>3 DEF Trimmed
  <2> HIDE DEF m
  <2>5. /\ SubSeq(t, 1, m) \in Seq(Nat) /\ Len(SubSeq(t, 1, m)) = m
        /\ \A i \in 1..m : SubSeq(t, 1, m)[i] = t[i]
    BY <2>3, PrefixProperties
  <2>6. QED
    BY <2>3, <2>4, <2>5
<1>4. QED
  BY <1>2, <1>3

LEMMA TextUnit ==
  ASSUME KindsKeepRecords, NEW k \in Kinds, k.organization # Relative, NEW t \in k.texts
  PROVE  Good(k, Text(k, t))
<1>1. t \in Seq(Nat) /\ Len(t) \in 1..Width /\ (~k.varying => Len(t) = Width)
  BY TextsAssumption
<1>2. CASE IsLine(k)
  <2>1. \A i \in DOMAIN t : t[i] # NewLine
    BY <1>2 DEF KindsKeepRecords, IsLine
  <2> DEFINE u == Trimmed(t)
  <2>2. u \in Seq(Nat) /\ Len(u) \in 0..Len(t) /\ \A i \in 1..Len(u) : u[i] = t[i]
    BY <1>1, TrimmedText
  <2> HIDE DEF u
  <2>3. \A i \in 1..Len(u) : u[i] # NewLine
    BY <1>1, <2>1, <2>2
  <2>4. Text(k, t) = u
    BY <1>2 DEF Text, u
  <2>5. ~k.varying /\ ~IsFixed(k)
    BY <1>2, SequentialKind
  <2>6. QED
    BY <2>2, <2>3, <2>4, <2>5 DEF Good
<1>3. CASE ~IsLine(k)
  <2>1. Text(k, t) = t
    BY <1>3 DEF Text
  <2>2. Len(t) > 0
    BY <1>1
  <2>3. QED
    BY <1>1, <1>3, <2>1, <2>2 DEF Good, IsFixed
<1>4. QED
  BY <1>2, <1>3

LEMMA WrittenText ==
  ASSUME HandleOK, NEW t \in kind.texts
  PROVE  /\ Framed(t) = Unit(kind, Text(kind, t))
         /\ Stored(t) = Record(Text(kind, t))
         /\ kind.organization = Relative => Framed(t) = t /\ Text(kind, t) = t
         /\ Record(Text(kind, t)) \in AllRecords
<1>1. kind \in Kinds
  BY DEF HandleOK
<1>2. kind.varying => kind.organization # LineSequential /\ kind.organization # Relative
  BY <1>1, KindProperties
<1>3. Relative # LineSequential
  BY <1>1, KindProperties
<1>4. Framed(t) = Unit(kind, Text(kind, t))
  <2>1. CASE kind.organization = LineSequential
    <3>1. ~kind.varying
      BY <1>2, <2>1
    <3>2. QED
      BY <2>1, <3>1 DEF Framed, Unit, Text, IsLine
  <2>2. CASE kind.organization # LineSequential /\ kind.varying
    BY <2>2 DEF Framed, Unit, Text, IsLine
  <2>3. CASE kind.organization # LineSequential /\ ~kind.varying
    BY <2>3 DEF Framed, Unit, Text, IsLine
  <2>4. QED
    BY <2>1, <2>2, <2>3
<1>5. Stored(t) = Record(Text(kind, t))
  BY DEF Stored, Text, IsLine
<1>6. kind.organization = Relative => Framed(t) = t /\ Text(kind, t) = t
  BY <1>2, <1>3 DEF Framed, Text, IsLine
<1>7. Record(Text(kind, t)) \in AllRecords
  BY <1>1 DEF AllRecords, Text, IsLine
<1>8. QED
  BY <1>4, <1>5, <1>6, <1>7

-----------------------------------------------------------------------------
(* The invariant the refinement needs                                      *)

OpenModes == {"Input", "Output", "IoMode", "Extend"}

(* b holds the texts ts, i of them out of the BufWriter, and the next READ *)
(* finds the one behind the record number the program is told.             *)
SequenceOK(k, b, s, m, p, c, o, ts, i) ==
  /\ Holds(k, b, o, ts)
  /\ i \in 0..Len(ts)
  /\ \/ s = o[i]
     \/ k.varying /\ i < Len(ts) /\ s = o[i] + 1
     \/ i = Len(ts) /\ s = Len(b)
  /\ WritingIn(k, m) => o[Len(ts)] = Len(b)
  /\ ~WritingIn(k, m) => i = Len(ts) /\ s = Len(b)
  /\ m \in {"Input", "IoMode"} => c \in 0..Len(ts) /\ (p = o[c] \/ (c = Len(ts) /\ p = Len(b)))
  /\ m = "Closed" => c = 0

(* b has n slots, the first i of them are out of the BufWriter, and q are  *)
(* behind the position.                                                    *)
RelativeOK(b, s, m, p, c, n, i, q) ==
  /\ n \in Nat /\ i \in 0..n /\ q \in Nat
  /\ Len(b) = n * Width /\ s = i * Width /\ p = q * Width
  /\ m # "Extend" => i = n
  /\ c \in 0..(MaxRecords + 1)
  /\ m = "Closed" => c = 0

StateOK ==
  /\ mode = "Closed" \/ mode \in kind.modes
  /\ kind.organization # Relative =>
       \E o, ts, i : SequenceOK(kind, bytes, safe, mode, position, currentRecord, o, ts, i)
  /\ kind.organization = Relative =>
       \E n, i, q : RelativeOK(bytes, safe, mode, position, currentRecord, n, i, q)

(* The sequence of records that such bytes are.                            *)
LEMMA SequenceShows ==
  ASSUME NEW k \in Kinds, k.organization # Relative, NEW b \in Seq(Nat), NEW s, NEW p, NEW c,
         NEW o, NEW ts, NEW i, NEW m \in {"Closed"} \cup OpenModes,
         SequenceOK(k, b, s, m, p, c, o, ts, i)
  PROVE  /\ RecordsOf(k, b) = Recs(ts) /\ Len(Recs(ts)) = Len(ts) /\ Len(ts) \in Nat
         /\ DurableOf(k, b, s) = i
         /\ PlaceOf(k, b, m, p)
              = (IF m = "Closed" THEN 0 ELSE IF m \in {"Output", "Extend"} THEN Len(ts) ELSE c)
         /\ SureOf(k, b, m, p, c) = TRUE
<1>1. Holds(k, b, o, ts) /\ i \in 0..Len(ts)
  BY DEF SequenceOK
<1>2. /\ RecordsOf(k, b) = Recs(ts) /\ Len(Recs(ts)) = Len(ts) /\ Len(ts) \in Nat
      /\ \A j \in 0..Len(ts) : Len(From(k, b)[o[j]]) = Len(ts) - j
      /\ Len(From(k, b)[Len(b)]) = 0
      /\ Len(From(k, b)[0]) = Len(ts)
  BY <1>1, RecordsRead
<1>3. DurableOf(k, b, s) = i
  <2>1. DurableOf(k, b, s) = Len(From(k, SubSeq(b, 1, s))[0])
    BY DEF DurableOf
  <2>2. CASE s = o[i] \/ (k.varying /\ i < Len(ts) /\ s = o[i] + 1)
    <3> DEFINE d == SubSeq(b, 1, s)
    <3>1. PrefixHeld(k, b, s, i, ts)
      BY <1>1, <2>2, HoldsPrefix
    <3>5. d \in Seq(Nat)
      BY <3>1 DEF PrefixHeld
    <3>4. PICK q, us : Holds(k, d, q, us) /\ Len(us) = i
      BY <3>1 DEF PrefixHeld
    <3> HIDE DEF d
    <3>2. Len(From(k, d)[0]) = Len(us)
      BY <3>4, <3>5, RecordsRead
    <3>3. QED
      BY <2>1, <3>4, <3>2 DEF d
  <2>3. CASE i = Len(ts) /\ s = Len(b)
    <3>1. SubSeq(b, 1, s) = b
      BY <2>3
    <3>2. QED
      BY <1>2, <2>1, <2>3, <3>1
  <2>4. QED
    BY <2>2, <2>3 DEF SequenceOK
<1>4. WritingIn(k, m) <=> m \in {"Output", "Extend"}
  BY DEF WritingIn
<1>5. ASSUME m \in {"Input", "IoMode"} PROVE c \in Nat /\ Len(RecordsOf(k, b)) - Len(From(k, b)[p]) = c
  <2>1. c \in 0..Len(ts) /\ (p = o[c] \/ (c = Len(ts) /\ p = Len(b)))
    BY <1>5 DEF SequenceOK
  <2>2. Len(From(k, b)[p]) = Len(ts) - c
    <3>1. CASE p = o[c]
      BY <1>2, <2>1, <3>1
    <3>2. CASE c = Len(ts) /\ p = Len(b)
      <4>1. Len(ts) - c = 0
        BY <1>2, <3>2
      <4>2. QED
        BY <1>2, <3>2, <4>1
    <3>3. QED
      BY <2>1, <3>1, <3>2
  <2>3. QED
    BY <1>2, <2>1, <2>2
<1>6. PlaceOf(k, b, m, p)
        = (IF m = "Closed" THEN 0 ELSE IF m \in {"Output", "Extend"} THEN Len(ts) ELSE c)
  <2>1. CASE m = "Closed"
    BY <2>1 DEF PlaceOf
  <2>2. CASE m \in {"Output", "Extend"}
    <3>1. PlaceOf(k, b, m, p) = Len(RecordsOf(k, b))
      BY <1>4, <2>2 DEF PlaceOf
    <3>2. QED
      BY <1>2, <2>2, <3>1
  <2>3. CASE m \in {"Input", "IoMode"}
    <3>1. PlaceOf(k, b, m, p) = Len(RecordsOf(k, b)) - Len(From(k, b)[p])
      BY <1>4, <2>3 DEF PlaceOf
    <3>2. QED
      BY <1>5, <2>3, <3>1
  <2>4. QED
    BY <2>1, <2>2, <2>3 DEF OpenModes
<1>7. SureOf(k, b, m, p, c) = TRUE
  <2>1. m = "Closed" => c = 0
    BY DEF SequenceOK
  <2>2. QED
    BY <1>4, <1>6, <2>1 DEF SureOf, OpenModes
<1>8. QED
  BY <1>2, <1>3, <1>6, <1>7

(* The slots that such bytes are.                                          *)
LEMMA RelativeShows ==
  ASSUME NEW k \in Kinds, k.organization = Relative, NEW b \in Seq(Nat), NEW s, NEW p, NEW c,
         NEW n, NEW i, NEW q, NEW m \in {"Closed"} \cup OpenModes,
         RelativeOK(b, s, m, p, c, n, i, q)
  PROVE  /\ RecordsOf(k, b) = RecordsIn(b) /\ Len(RecordsIn(b)) = n
         /\ DurableOf(k, b, s) = i
         /\ PlaceOf(k, b, m, p)
              = (IF m = "Closed" THEN 0 ELSE IF m = "Extend" THEN n ELSE q)
         /\ SureOf(k, b, m, p, c)
              = (m = "Extend" \/ c = (IF m = "Closed" THEN 0 ELSE IF m = "Extend" THEN n ELSE q))
<1>1. n \in Nat /\ i \in 0..n /\ i \in Nat /\ q \in Nat /\ Len(b) = n * Width /\ s = i * Width /\ p = q * Width
  BY DEF RelativeOK
<1>2. RecordsOf(k, b) = RecordsIn(b) /\ Len(RecordsIn(b)) = n
  BY <1>1, RecordsInType DEF RecordsOf
<1>3. DurableOf(k, b, s) = i
  BY <1>1, WidthPositive, Multiples DEF DurableOf
<1>4. p \div Width = q
  BY <1>1, WidthPositive, Multiples
<1>5. WritingIn(k, m) <=> m = "Extend"
  BY DEF WritingIn
<1>6. PlaceOf(k, b, m, p) = (IF m = "Closed" THEN 0 ELSE IF m = "Extend" THEN n ELSE q)
  <2>1. CASE m = "Closed"
    BY <2>1 DEF PlaceOf
  <2>2. CASE m = "Extend"
    BY <1>2, <1>5, <2>2 DEF PlaceOf
  <2>3. CASE m # "Closed" /\ m # "Extend"
    BY <1>4, <1>5, <2>3 DEF PlaceOf
  <2>4. QED
    BY <2>1, <2>2, <2>3
<1>7. SureOf(k, b, m, p, c)
        = (m = "Extend" \/ c = (IF m = "Closed" THEN 0 ELSE IF m = "Extend" THEN n ELSE q))
  BY <1>5, <1>6 DEF SureOf
<1>8. QED
  BY <1>2, <1>3, <1>6, <1>7

-----------------------------------------------------------------------------
(* Calls and their answers as the sequence of records has them             *)

(* Both modules name the same statuses.                                    *)
LEMMA SequenceStatuses ==
  /\ Store_!FsOk = FsOk /\ Store_!FsOptionalCreated = FsOptionalCreated /\ Store_!FsAtEnd = FsAtEnd
  /\ Store_!FsDuplicateKey = FsDuplicateKey /\ Store_!FsRecNotFound = FsRecNotFound
  /\ Store_!FsIoError = FsIoError /\ Store_!FsNotFound = FsNotFound /\ Store_!FsLocked = FsLocked
  /\ Store_!FsAlreadyOpen = FsAlreadyOpen /\ Store_!FsNotOpen = FsNotOpen
  /\ Store_!FsRewriteWithoutRead = FsRewriteWithoutRead
  /\ Store_!FsRecordLengthMismatch = FsRecordLengthMismatch
  /\ Store_!FsNoValidNextRecord = FsNoValidNextRecord
  /\ Store_!FsReadNotPermitted = FsReadNotPermitted
  /\ Store_!FsWriteNotPermitted = FsWriteNotPermitted
  /\ Store_!FsIoModeRequired = FsIoModeRequired
BY DEF Store_!FsOk, FsOk, Store_!FsOptionalCreated, FsOptionalCreated, Store_!FsAtEnd, FsAtEnd,
       Store_!FsDuplicateKey, FsDuplicateKey, Store_!FsRecNotFound, FsRecNotFound,
       Store_!FsIoError, FsIoError, Store_!FsNotFound, FsNotFound, Store_!FsLocked, FsLocked,
       Store_!FsAlreadyOpen, FsAlreadyOpen, Store_!FsNotOpen, FsNotOpen,
       Store_!FsRewriteWithoutRead, FsRewriteWithoutRead,
       Store_!FsRecordLengthMismatch, FsRecordLengthMismatch,
       Store_!FsNoValidNextRecord, FsNoValidNextRecord,
       Store_!FsReadNotPermitted, FsReadNotPermitted,
       Store_!FsWriteNotPermitted, FsWriteNotPermitted,
       Store_!FsIoModeRequired, FsIoModeRequired

LEMMA SequenceAnswers ==
  /\ \A op, n, status : AnswerOf(op, n, status) => Store_!SaysOf(op, n, status)
  /\ \A op, status : Answer(op, status) => Store_!Says(op, status)
  /\ \A op, n, r : DeliverOf(op, n, r) => Store_!GivesOf(op, n, r)
  /\ \A op, r : Deliver(op, r) => Store_!Gives(op, r)
<1>1. \A op, n, status : AnswerOf(op, n, status) => Store_!SaysOf(op, n, status)
  BY DEF AnswerOf, Store_!SaysOf
<1>2. \A op, n, r : DeliverOf(op, n, r) => Store_!GivesOf(op, n, r)
  BY SequenceStatuses DEF DeliverOf, Store_!GivesOf
<1>3. QED
  BY <1>1, <1>2 DEF Answer, Deliver, Store_!Says, Store_!Gives

LEMMA SameShown ==
  ASSUME UNCHANGED <<kind, store, mode, cursor>>
  PROVE  /\ AbstractRecords' = AbstractRecords /\ AbstractDurable' = AbstractDurable
         /\ AbstractPlace' = AbstractPlace /\ AbstractSure' = AbstractSure
<1>1. /\ kind' = kind /\ bytes' = bytes /\ safe' = safe /\ mode' = mode
      /\ position' = position /\ currentRecord' = currentRecord
  BY DEF store, cursor
<1>2. QED
  BY <1>1, MappedBytes, MappedHandle

(* The calls that are refused.                                             *)
RefusedOps == {"open", "close", "readNext", "write", "writeAt", "rewrite", "delete", "start"}
RefusedStatuses == {FsNotFound, FsLocked, FsAlreadyOpen, FsNotOpen, FsReadNotPermitted,
                    FsWriteNotPermitted, FsIoModeRequired, FsRewriteWithoutRead,
                    FsRecordLengthMismatch, FsIoError}

LEMMA StatusesDiffer ==
  /\ FsLocked # FsAlreadyOpen /\ FsLocked # FsNotOpen /\ FsLocked # FsNotFound /\ FsLocked # FsRewriteWithoutRead
  /\ FsAlreadyOpen # FsNotOpen /\ FsAlreadyOpen # FsNotFound /\ FsAlreadyOpen # FsRewriteWithoutRead
  /\ FsNotOpen # FsNotFound /\ FsNotOpen # FsRewriteWithoutRead /\ FsNotFound # FsRewriteWithoutRead
  /\ \A s \in {FsReadNotPermitted, FsWriteNotPermitted, FsIoModeRequired, FsRecordLengthMismatch, FsIoError} :
       s \notin {FsLocked, FsAlreadyOpen, FsNotOpen, FsNotFound, FsRewriteWithoutRead}
BY DEF FsLocked, FsAlreadyOpen, FsNotOpen, FsNotFound, FsRewriteWithoutRead, FsReadNotPermitted,
       FsWriteNotPermitted, FsIoModeRequired, FsRecordLengthMismatch, FsIoError

(* A call that is refused changes nothing.                                 *)
LEMMA RefusedAs ==
  ASSUME NEW op \in RefusedOps, NEW status \in RefusedStatuses, Refuse(op, status),
         status = FsLocked => locked,
         status = FsAlreadyOpen => mode # "Closed",
         status = FsNotOpen => mode = "Closed",
         status = FsNotFound => AbstractRecords = <<>>,
         status = FsRewriteWithoutRead => mode = "IoMode" /\ ~lastReadValid
  PROVE  Store_!Refused
<1>1. Store_!Says(op, status)
  BY SequenceAnswers DEF Refuse
<1>2. UNCHANGED <<kind, store, locked, mode, cursor>>
  BY DEF Refuse
<1>3. /\ AbstractRecords' = AbstractRecords /\ AbstractDurable' = AbstractDurable
      /\ AbstractPlace' = AbstractPlace /\ AbstractSure' = AbstractSure
  BY <1>2, SameShown
<1>4. locked' = locked /\ mode' = mode /\ lastReadValid' = lastReadValid /\ atEndSeen' = atEndSeen
  BY <1>2 DEF cursor
<1>5. status # FsRecNotFound
  BY DEF RefusedStatuses, FsRecNotFound, FsNotFound, FsLocked, FsAlreadyOpen, FsNotOpen, FsReadNotPermitted,
         FsWriteNotPermitted, FsIoModeRequired, FsRewriteWithoutRead, FsRecordLengthMismatch, FsIoError
<1>6. QED
  BY <1>1, <1>3, <1>4, <1>5, SequenceStatuses
     DEF Store_!Refused, Store_!ByNumber, RefusedOps, RefusedStatuses

(* A call with the effect of OPEN on the records is an OPEN; the lemmas    *)
(* below say the same of the other calls.                                  *)
LEMMA OpenedAs ==
  ASSUME NEW m \in OpenModes, Open(m),
         AbstractRecords' = (IF m = "Output" THEN <<>> ELSE AbstractRecords),
         AbstractDurable' = Len(AbstractRecords'),
         AbstractPlace' = (IF m \in {"Output", "Extend"} THEN Len(AbstractRecords') ELSE 0),
         AbstractSure' = TRUE
  PROVE  Store_!Open
<1>1. mode = "Closed" /\ ~locked /\ mode' = m /\ locked' = locked /\ lastReadValid' = FALSE /\ atEndSeen' = FALSE
  BY DEF Open, Rewound
<1>2. \E s \in {FsOk, FsOptionalCreated} : Store_!Says("open", s)
  <2>1. \E s \in {FsOk, FsOptionalCreated} : Answer("open", s)
    BY DEF Open
  <2>2. QED
    BY <2>1, SequenceAnswers
<1>3. Store_!Rewound
  BY <1>1 DEF Store_!Rewound
<1>4. AbstractPlace' = (IF Store_!Writing(mode') THEN Len(AbstractRecords') ELSE 0)
  BY <1>1 DEF Store_!Writing
<1>5. QED
  BY <1>1, <1>2, <1>3, <1>4, SequenceStatuses DEF Store_!Open, OpenModes

LEMMA ClosedAs ==
  ASSUME (\E lock \in {FALSE, kind.locking} : Close(lock)) \/ StopRun,
         AbstractRecords' = AbstractRecords, AbstractDurable' = Len(AbstractRecords),
         AbstractPlace' = 0, AbstractSure' = TRUE
  PROVE  Store_!Close
<1>1. mode' = "Closed" /\ lastReadValid' = FALSE /\ atEndSeen' = FALSE
  BY DEF Close, StopRun, Rewound
<1>2. Store_!Rewound
  BY <1>1 DEF Store_!Rewound
<1>3. ASSUME NEW lock \in {FALSE, kind.locking}, Close(lock)
      PROVE  Store_!Says("close", FsOk) /\ mode # "Closed" /\ (locked => locked')
  <2>1. Store_!Says("close", FsOk) /\ mode # "Closed"
    BY <1>3, SequenceAnswers DEF Close
  <2>2. locked => locked'
    BY <1>3 DEF Close
  <2>3. QED
    BY <2>1, <2>2
<1>4. ASSUME StopRun PROVE Store_!Says("stop", FsOk) /\ ~locked'
  BY <1>4, SequenceAnswers DEF StopRun
<1>5. QED
  BY <1>1, <1>2, <1>3, <1>4, SequenceStatuses DEF Store_!Close

LEMMA CrashedAs ==
  ASSUME Crash, NEW n \in AbstractDurable..Len(AbstractRecords),
         AbstractRecords' = SubSeq(AbstractRecords, 1, n), AbstractDurable' = Len(AbstractRecords'),
         AbstractPlace' = 0, AbstractSure' = TRUE
  PROVE  Store_!Crash
<1>1. mode # "Closed" /\ mode' = "Closed" /\ ~locked' /\ lastReadValid' = FALSE /\ atEndSeen' = FALSE
  BY DEF Crash, Rewound
<1>2. Store_!Rewound
  BY <1>1 DEF Store_!Rewound
<1>3. Store_!Says("crash", FsOk)
  BY SequenceAnswers DEF Crash
<1>4. QED
  BY <1>1, <1>2, <1>3, SequenceStatuses DEF Store_!Crash

(* A call that finds nothing where it looks.                               *)
LEMMA AstrayAs ==
  ASSUME NEW op, NEW n, NEW status, AnswerOf(op, n, status),
         UNCHANGED <<kind, store, locked, mode, atEndSeen>>,
         lastReadValid' \in {lastReadValid, FALSE}, AbstractRecords' = AbstractRecords,
         AbstractDurable' = AbstractDurable, AbstractPlace' \in Nat, AbstractSure' \in BOOLEAN
  PROVE  Store_!Astray(op, n, status)
<1>1. Store_!SaysOf(op, n, status)
  BY SequenceAnswers
<1>2. QED
  BY <1>1 DEF Store_!Astray

LEMMA SlotsShown ==
  ASSUME NEW rs, AbstractRecords = rs, NEW p, AbstractPlace = p
  PROVE  /\ Store_!Live = {n \in DOMAIN rs : rs[n] # NoRecord}
         /\ Store_!Ahead = {n \in Store_!Live : n > p}
         /\ \A S : Store_!Min(S) = Min(S) /\ Store_!Max(S) = Max(S)
BY DEF Store_!Live, Store_!Ahead, Store_!Min, Min, Store_!Max, Max

LEMMA NextFoundAs ==
  ASSUME Readable, NEW r, Deliver("readNext", r), Selected,
         UNCHANGED <<kind, store, locked, mode>>,
         Store_!Ahead # {}, AbstractRecords[Store_!Min(Store_!Ahead)] = r,
         AbstractPlace' = Store_!Min(Store_!Ahead),
         AbstractRecords' = AbstractRecords, AbstractDurable' = AbstractDurable,
         AbstractSure' = AbstractSure
  PROVE  Store_!ReadNext
<1>1. Store_!Gives("readNext", r)
  BY SequenceAnswers
<1>2. lastReadValid' = TRUE /\ atEndSeen' = FALSE /\ mode \in {"Input", "IoMode"}
      /\ locked' = locked /\ mode' = mode
  BY DEF Selected, Readable
<1>3. QED
  BY <1>1, <1>2 DEF Store_!ReadNext

LEMMA NextMissingAs ==
  ASSUME Readable, NEW seen \in BOOLEAN, MarkAtEnd(seen), UNCHANGED <<kind, store, locked, mode>>,
         Store_!Ahead = {},
         seen <=> atEndSeen /\ AbstractPlace >= Len(AbstractRecords),
         seen => AbstractPlace' = AbstractPlace,
         ~seen => AbstractPlace' = Larger(AbstractPlace, Len(AbstractRecords)),
         AbstractPlace \in Nat, Len(AbstractRecords) \in Nat,
         AbstractRecords' = AbstractRecords, AbstractDurable' = AbstractDurable,
         AbstractSure' = AbstractSure
  PROVE  Store_!ReadNext
<1>1. /\ seen => Store_!Says("readNext", FsNoValidNextRecord)
      /\ ~seen => Store_!Says("readNext", FsAtEnd)
  BY SequenceAnswers DEF MarkAtEnd
<1>2. lastReadValid' = FALSE /\ atEndSeen' = TRUE /\ mode \in {"Input", "IoMode"}
      /\ locked' = locked /\ mode' = mode
  BY DEF MarkAtEnd, Readable
<1>3. Store_!Max({AbstractPlace, Len(AbstractRecords)}) = Larger(AbstractPlace, Len(AbstractRecords))
  BY MaxIsLarger DEF Store_!Max, Max
<1>4. CASE seen
  BY <1>1, <1>2, <1>4, SequenceStatuses DEF Store_!ReadNext
<1>5. CASE ~seen
  BY <1>1, <1>2, <1>3, <1>5, SequenceStatuses DEF Store_!ReadNext
<1>6. QED
  BY <1>4, <1>5

LEMMA WrittenAs ==
  ASSUME NEW r \in AllRecords, mode \in {"Output", "Extend", "IoMode"}, Deliver("write", r),
         UNCHANGED <<locked, mode, lastReadValid, atEndSeen>>,
         NEW rs, AbstractRecords = rs, Len(rs) \in Nat, AbstractPlace \in Nat,
         AbstractRecords' = Put(rs, AbstractPlace + 1, r), AbstractPlace' = AbstractPlace + 1,
         AbstractDurable' \in AbstractDurable..Len(AbstractRecords'),
         AbstractSure' = AbstractSure
  PROVE  Store_!Write(r)
<1>1. Store_!Gives("write", r)
  BY SequenceAnswers
<1>2. AbstractPlace + 1 \in Nat
  OBVIOUS
<1>3. Store_!With(AbstractPlace + 1, r) = Put(rs, AbstractPlace + 1, r)
  BY <1>2, PutIsWith
<1>4. QED
  BY <1>1, <1>3 DEF Store_!Write

LEMMA RewrittenAs ==
  ASSUME NEW r, mode = "IoMode", lastReadValid, Deliver("rewrite", r),
         UNCHANGED <<locked, mode, lastReadValid, atEndSeen>>, lastReadValid \in BOOLEAN,
         NEW rs, AbstractRecords = rs, Len(rs) \in Nat, AbstractPlace \in Nat, AbstractSure \in BOOLEAN,
         NEW n \in Numbers, n \in Nat, AbstractSure => n = Larger(AbstractPlace, 1),
         AbstractRecords' = Put(rs, n, r), AbstractPlace' = n, AbstractSure' \in BOOLEAN,
         AbstractSure /\ AbstractPlace > 0 => AbstractSure',
         AbstractDurable' = Len(AbstractRecords')
  PROVE  Store_!Rewrite(r)
<1>1. Store_!Gives("rewrite", r)
  BY SequenceAnswers
<1>2. Store_!With(n, r) = Put(rs, n, r)
  BY PutIsWith
<1>3. Store_!Max({AbstractPlace, 1}) = Larger(AbstractPlace, 1)
  BY MaxIsLarger DEF Store_!Max, Max
<1>4. QED
  BY <1>1, <1>2, <1>3 DEF Store_!Rewrite

-----------------------------------------------------------------------------
(* The calls of a sequential or line-sequential file                       *)

LEMMA RecsOfTexts ==
  ASSUME NEW ts \in Seq(Seq(Nat))
  PROVE  /\ Len(ts) \in Nat /\ Len(Recs(ts)) = Len(ts) /\ DOMAIN Recs(ts) = 1..Len(ts)
         /\ \A j \in 1..Len(ts) : Recs(ts)[j] = Record(ts[j]) /\ Recs(ts)[j] # NoRecord
<1>1. Len(ts) \in Nat /\ Rest(ts, 0) = Recs(ts) /\ Len(Rest(ts, 0)) = Len(ts) - 0
  <2>1. Len(ts) \in Nat /\ 0 \in 0..Len(ts)
    OBVIOUS
  <2>2. QED
    BY <2>1, RestSteps
<1>2. DOMAIN Recs(ts) = 1..Len(ts) /\ \A j \in 1..Len(ts) : Recs(ts)[j] = Record(ts[j])
  BY DEF Recs
<1>3. \A j \in 1..Len(ts) : Record(ts[j]) # NoRecord
  BY RecordIsNone
<1>4. QED
  BY <1>1, <1>2, <1>3

LEMMA RecsLonger ==
  ASSUME NEW ts \in Seq(Seq(Nat)), NEW t \in Seq(Nat)
  PROVE  Recs(Append(ts, t)) = Put(Recs(ts), Len(ts) + 1, Record(t))
<1> DEFINE n == Len(ts)
           us == Append(ts, t)
<1>1. n \in Nat /\ Len(us) = n + 1 /\ us[n + 1] = t /\ \A j \in 1..n : us[j] = ts[j]
  OBVIOUS
<1>2. Len(Recs(ts)) = n /\ DOMAIN Recs(ts) = 1..n /\ \A j \in 1..n : Recs(ts)[j] = Record(ts[j])
  BY RecsOfTexts
<1>3. Recs(us) = [j \in 1..(n + 1) |-> Record(us[j])]
  BY <1>1 DEF Recs
<1> HIDE DEF n, us
<1>4. Larger(n + 1, n) = n + 1
  BY <1>1 DEF Larger
<1>5. Put(Recs(ts), n + 1, Record(t))
        = [j \in 1..(n + 1) |-> IF j = n + 1 THEN Record(t)
                                ELSE IF j \in 1..n THEN Recs(ts)[j] ELSE NoRecord]
  BY <1>2, <1>4 DEF Put
<1>6. ASSUME NEW j \in 1..(n + 1)
      PROVE  Record(us[j]) = IF j = n + 1 THEN Record(t)
                             ELSE IF j \in 1..n THEN Recs(ts)[j] ELSE NoRecord
  <2>1. j = n + 1 \/ j \in 1..n
    BY <1>1
  <2>2. QED
    BY <1>1, <1>2, <2>1
<1>7. QED
  BY <1>3, <1>5, <1>6 DEF n, us

(* The texts us are ts, but for t at i. *)
ReplacedAt(ts, us, i, t) ==
  Len(us) = Len(ts) /\ \A j \in 1..Len(ts) : us[j] = IF j = i THEN t ELSE ts[j]

LEMMA RecsReplaced ==
  ASSUME NEW ts \in Seq(Seq(Nat)), NEW us, NEW i \in 1..Len(ts), NEW t, ReplacedAt(ts, us, i, t)
  PROVE  Recs(us) = Put(Recs(ts), i, Record(t))
<1> DEFINE n == Len(ts)
<1>0. Len(us) = n /\ \A j \in 1..n : us[j] = IF j = i THEN t ELSE ts[j]
  BY DEF ReplacedAt
<1>1. n \in Nat /\ Len(Recs(ts)) = n /\ DOMAIN Recs(ts) = 1..n
      /\ \A j \in 1..n : Recs(ts)[j] = Record(ts[j])
  BY RecsOfTexts
<1>2. Recs(us) = [j \in 1..n |-> Record(us[j])]
  BY <1>0 DEF Recs
<1>3. Larger(i, n) = n
  <2>1. i \in Nat /\ i <= n
    BY <1>1
  <2> HIDE DEF n
  <2>2. QED
    BY <1>1, <2>1 DEF Larger
<1>4. Put(Recs(ts), i, Record(t))
        = [j \in 1..n |-> IF j = i THEN Record(t)
                          ELSE IF j \in 1..n THEN Recs(ts)[j] ELSE NoRecord]
  BY <1>1, <1>3 DEF Put
<1>5. \A j \in 1..n : Record(us[j]) = IF j = i THEN Record(t)
                                      ELSE IF j \in 1..n THEN Recs(ts)[j] ELSE NoRecord
  BY <1>0, <1>1
<1>6. QED
  BY <1>2, <1>4, <1>5

(* The abstract file before and after a step.                              *)
SequencePlace(m, c, n) == IF m = "Closed" THEN 0 ELSE IF m \in {"Output", "Extend"} THEN n ELSE c

(* The records before and after a call.                                    *)
LEMMA SequenceBefore ==
  ASSUME IInv, kind.organization # Relative, NEW o, NEW ts, NEW i,
         SequenceOK(kind, bytes, safe, mode, position, currentRecord, o, ts, i)
  PROVE  /\ AbstractRecords = Recs(ts) /\ Len(Recs(ts)) = Len(ts) /\ Len(ts) \in Nat
         /\ ts \in Seq(Seq(Nat)) /\ AbstractDurable = i /\ i \in 0..Len(ts)
         /\ AbstractPlace = SequencePlace(mode, currentRecord, Len(ts))
         /\ AbstractSure = TRUE
         /\ kind \in Kinds /\ bytes \in Seq(Nat) /\ mode \in {"Closed"} \cup OpenModes
<1>1. kind \in Kinds /\ bytes \in Seq(Nat) /\ mode \in {"Closed"} \cup OpenModes
  BY DEF IInv, HandleOK, StoreOK, OpenModes
<1>2. ts \in Seq(Seq(Nat)) /\ i \in 0..Len(ts)
  BY DEF SequenceOK, Holds
<1>3. /\ RecordsOf(kind, bytes) = Recs(ts) /\ Len(Recs(ts)) = Len(ts) /\ Len(ts) \in Nat
      /\ DurableOf(kind, bytes, safe) = i
      /\ PlaceOf(kind, bytes, mode, position) = SequencePlace(mode, currentRecord, Len(ts))
      /\ SureOf(kind, bytes, mode, position, currentRecord) = TRUE
  BY <1>1, SequenceShows DEF SequencePlace
<1>4. QED
  BY <1>1, <1>2, <1>3, MappedBytes, MappedHandle

LEMMA SequenceAfter ==
  ASSUME IInv', kind' = kind, kind.organization # Relative, mode' = "Closed" \/ mode' \in kind.modes,
         NEW o, NEW ts, NEW i,
         SequenceOK(kind, bytes', safe', mode', position', currentRecord', o, ts, i)
  PROVE  /\ AbstractRecords' = Recs(ts) /\ Len(Recs(ts)) = Len(ts) /\ Len(ts) \in Nat
         /\ AbstractDurable' = i
         /\ AbstractPlace' = SequencePlace(mode', currentRecord', Len(ts))
         /\ AbstractSure' = TRUE
         /\ StateOK'
<1>1. kind \in Kinds /\ bytes' \in Seq(Nat) /\ mode' \in {"Closed"} \cup OpenModes
  BY DEF IInv, HandleOK, StoreOK, OpenModes
<1>2. /\ RecordsOf(kind, bytes') = Recs(ts) /\ Len(Recs(ts)) = Len(ts) /\ Len(ts) \in Nat
      /\ DurableOf(kind, bytes', safe') = i
      /\ PlaceOf(kind, bytes', mode', position') = SequencePlace(mode', currentRecord', Len(ts))
      /\ SureOf(kind, bytes', mode', position', currentRecord') = TRUE
  BY <1>1, SequenceShows DEF SequencePlace
<1>3. StateOK'
  BY DEF StateOK
<1>4. QED
  BY <1>2, <1>3, MappedBytes, MappedHandle

LEMMA OpenSequence ==
  ASSUME IInv, IInv', kind.organization # Relative, NEW o, NEW ts, NEW i,
         SequenceOK(kind, bytes, safe, mode, position, currentRecord, o, ts, i),
         NEW m \in kind.modes, Open(m)
  PROVE  StateOK' /\ Store_!Open
<1>1. /\ kind' = kind /\ mode' = m /\ bytes' = (IF m = "Output" THEN <<>> ELSE bytes) /\ safe' = Len(bytes')
      /\ position' = 0 /\ currentRecord' = 0 /\ (m = "Extend" => ~Torn(bytes))
  BY DEF Open, Store, Rewound
<1>2. m \in OpenModes /\ kind \in Kinds /\ bytes \in Seq(Nat)
  BY KindProperties DEF IInv, HandleOK, StoreOK, OpenModes
<1>3. /\ AbstractRecords = Recs(ts) /\ ts \in Seq(Seq(Nat)) /\ Len(ts) \in Nat
      /\ Holds(kind, bytes, o, ts)
  BY SequenceBefore DEF SequenceOK
<1>4. CASE m = "Output"
  <2> DEFINE q == [j \in 0..0 |-> 0]
  <2>1. Holds(kind, <<>>, q, <<>>) /\ q[0] = 0
    BY <1>2, HoldsNothing
  <2> HIDE DEF q
  <2>2. bytes' = <<>> /\ safe' = 0 /\ Len(<<>>) = 0 /\ 0 \in 0..0
    BY <1>1, <1>4
  <2>3. WritingIn(kind, m)
    BY <1>4 DEF WritingIn
  <2>4. SequenceOK(kind, bytes', safe', mode', position', currentRecord', q, <<>>, 0)
    BY <1>1, <1>4, <2>1, <2>2, <2>3 DEF SequenceOK
  <2>5. /\ AbstractRecords' = Recs(<<>>) /\ Len(Recs(<<>>)) = 0 /\ AbstractDurable' = 0
        /\ AbstractPlace' = SequencePlace(m, 0, 0) /\ AbstractSure' = TRUE /\ StateOK'
    BY <1>1, <2>2, <2>4, SequenceAfter
  <2>6. Recs(<<>>) = <<>>
    BY <2>2 DEF Recs
  <2>7. AbstractPlace' = (IF m \in {"Output", "Extend"} THEN Len(AbstractRecords') ELSE 0)
    BY <1>4, <2>5 DEF SequencePlace
  <2>8. Store_!Open
    BY <1>2, <1>4, <2>5, <2>6, <2>7, OpenedAs
  <2>9. QED
    BY <2>5, <2>8
<1>5. CASE m # "Output"
  <2>1. bytes' = bytes /\ safe' = Len(bytes)
    BY <1>1, <1>5
  <2>2. 0 \in 0..Len(ts) /\ o[0] = 0 /\ Len(ts) \in 0..Len(ts)
    BY <1>3 DEF Holds
  <2>3. WritingIn(kind, m) => o[Len(ts)] = Len(bytes)
    <3>1. SUFFICES ASSUME m = "Extend" PROVE o[Len(ts)] = Len(bytes)
      BY <1>5 DEF WritingIn
    <3>2. Ended(kind, bytes, o[Len(ts)])
      BY <1>3 DEF Holds
    <3>3. SUFFICES ASSUME kind.varying, o[Len(ts)] + 1 = Len(bytes), bytes[Len(bytes)] > LengthField(0)
                   PROVE  FALSE
      BY <3>2 DEF Ended
    <3>4. o[Len(ts)] \in Nat
      BY <1>2, <1>3, HeldUnits, <2>2
    <3>5. bytes # <<>>
      BY <1>2, <3>3, <3>4
    <3>6. QED
      BY <1>1, <3>1, <3>3, <3>5 DEF Torn, Last
  <2>4. SequenceOK(kind, bytes', safe', mode', position', currentRecord', o, ts, Len(ts))
    BY <1>1, <1>3, <2>1, <2>2, <2>3 DEF SequenceOK
  <2>5. /\ AbstractRecords' = Recs(ts) /\ Len(Recs(ts)) = Len(ts) /\ AbstractDurable' = Len(ts)
        /\ AbstractPlace' = SequencePlace(m, 0, Len(ts)) /\ AbstractSure' = TRUE /\ StateOK'
    BY <1>1, <2>4, SequenceAfter
  <2>6. AbstractPlace' = (IF m \in {"Output", "Extend"} THEN Len(AbstractRecords') ELSE 0)
    BY <2>5 DEF SequencePlace
  <2>7. Store_!Open
    BY <1>2, <1>3, <1>5, <2>5, <2>6, OpenedAs
  <2>8. QED
    BY <2>5, <2>7
<1>6. QED
  BY <1>4, <1>5

LEMMA CloseSequence ==
  ASSUME IInv, IInv', kind.organization # Relative, NEW o, NEW ts, NEW i,
         SequenceOK(kind, bytes, safe, mode, position, currentRecord, o, ts, i),
         (\E lock \in {FALSE, kind.locking} : Close(lock)) \/ StopRun
  PROVE  StateOK' /\ Store_!Close
<1>1. /\ kind' = kind /\ mode' = "Closed" /\ bytes' = bytes /\ safe' = Len(bytes)
      /\ position' = 0 /\ currentRecord' = 0
  BY DEF Close, StopRun, Rewound
<1>2. /\ AbstractRecords = Recs(ts) /\ Len(ts) \in Nat /\ Holds(kind, bytes, o, ts)
  BY SequenceBefore DEF SequenceOK
<1>3. Len(ts) \in 0..Len(ts)
  BY <1>2
<1>4. SequenceOK(kind, bytes', safe', mode', position', currentRecord', o, ts, Len(ts))
  BY <1>1, <1>2, <1>3 DEF SequenceOK, WritingIn
<1>5. /\ AbstractRecords' = Recs(ts) /\ Len(Recs(ts)) = Len(ts) /\ AbstractDurable' = Len(ts)
      /\ AbstractPlace' = 0 /\ AbstractSure' = TRUE /\ StateOK'
  BY <1>1, <1>4, SequenceAfter DEF SequencePlace
<1>6. Store_!Close
  BY <1>2, <1>5, ClosedAs
<1>7. QED
  BY <1>5, <1>6

LEMMA WholeRecords ==
  ASSUME NEW ts \in Seq(Seq(Nat))
  PROVE  SubSeq(Recs(ts), 1, Len(ts)) = Recs(ts)
<1> DEFINE X == {Record(ts[j]) : j \in 1..Len(ts)}
<1>1. Recs(ts) \in [1..Len(ts) -> X] /\ Len(ts) \in Nat
  BY DEF Recs
<1> HIDE DEF X
<1>2. Recs(ts) \in Seq(X) /\ Len(Recs(ts)) = Len(ts)
  BY <1>1, FunctionIsSequence
<1>3. QED
  BY <1>1, <1>2

LEMMA CrashSequence ==
  ASSUME IInv, IInv', kind.organization # Relative, NEW o, NEW ts, NEW i,
         SequenceOK(kind, bytes, safe, mode, position, currentRecord, o, ts, i), Crash
  PROVE  StateOK' /\ Store_!Crash
<1>1. /\ kind' = kind /\ mode' = "Closed" /\ bytes' = SubSeq(bytes, 1, safe) /\ safe' = Len(bytes')
      /\ position' = 0 /\ currentRecord' = 0
  BY DEF Crash, Store, Rewound
<1>2. /\ AbstractRecords = Recs(ts) /\ Len(ts) \in Nat /\ Holds(kind, bytes, o, ts)
      /\ kind \in Kinds /\ bytes \in Seq(Nat) /\ ts \in Seq(Seq(Nat)) /\ Len(Recs(ts)) = Len(ts)
      /\ AbstractDurable = i /\ i \in 0..Len(ts)
  BY SequenceBefore DEF SequenceOK
<1>3. \E q, us : Holds(kind, bytes', q, us) /\ Len(us) = i /\ Recs(us) = SubSeq(Recs(ts), 1, i)
  <2>1. CASE safe = o[i] \/ (kind.varying /\ i < Len(ts) /\ safe = o[i] + 1)
    <3>1. PrefixHeld(kind, bytes, safe, i, ts)
      BY <1>2, <2>1, HoldsPrefix
    <3>2. QED
      BY <1>1, <3>1 DEF PrefixHeld
  <2>2. CASE i = Len(ts) /\ safe = Len(bytes)
    <3>1. SubSeq(bytes, 1, safe) = bytes
      BY <1>2, <2>2
    <3>2. Recs(ts) = SubSeq(Recs(ts), 1, i)
      BY <1>2, <2>2, WholeRecords
    <3>3. QED
      BY <1>1, <1>2, <2>2, <3>1, <3>2
  <2>3. QED
    BY <2>1, <2>2 DEF SequenceOK
<1>4. PICK q, us : Holds(kind, bytes', q, us) /\ Len(us) = i /\ Recs(us) = SubSeq(Recs(ts), 1, i)
  BY <1>3
<1>5. i \in 0..i /\ i \in Nat /\ i <= Len(ts) /\ i \in i..Len(ts)
  BY <1>2
<1>6. SequenceOK(kind, bytes', safe', mode', position', currentRecord', q, us, i)
  BY <1>1, <1>4, <1>5 DEF SequenceOK, WritingIn
<1>7. /\ AbstractRecords' = Recs(us) /\ Len(Recs(us)) = i /\ AbstractDurable' = i
      /\ AbstractPlace' = 0 /\ AbstractSure' = TRUE /\ StateOK'
  BY <1>1, <1>4, <1>6, SequenceAfter DEF SequencePlace
<1>8. Store_!Crash
  BY <1>2, <1>4, <1>5, <1>7, CrashedAs
<1>9. QED
  BY <1>7, <1>8

LEMMA ReadSequence ==
  ASSUME IInv, IInv', StateOK, kind.organization # Relative, NEW o, NEW ts, NEW i,
         SequenceOK(kind, bytes, safe, mode, position, currentRecord, o, ts, i),
         ReadNextRecord
  PROVE  StateOK' /\ Store_!ReadNext
<1> DEFINE n == Len(ts)
           c == currentRecord
           r == RecAt(kind, bytes, position)
<1>1. /\ mode \in {"Input", "IoMode"} /\ UNCHANGED <<kind, store, locked, mode>>
      /\ position' = r.next
      /\ \/ r.found /\ currentRecord' = c + 1 /\ Selected /\ Deliver("readNext", r.record)
         \/ ~r.found /\ MarkAtEnd(atEndSeen) /\ UNCHANGED currentRecord
  <2>1. RecordAt(bytes, position) = r
    BY DEF RecordAt, RecAt
  <2>2. QED
    BY <2>1 DEF ReadNextRecord, Readable
<1>2. /\ AbstractRecords = Recs(ts) /\ Len(Recs(ts)) = n /\ n \in Nat /\ ts \in Seq(Seq(Nat))
      /\ AbstractDurable = i /\ AbstractPlace = c /\ AbstractSure = TRUE
      /\ kind \in Kinds /\ bytes \in Seq(Nat)
  BY <1>1, SequenceBefore DEF SequencePlace
<1>3. ~WritingIn(kind, mode) /\ mode # "Closed"
  BY <1>1 DEF WritingIn
<1>4. /\ Holds(kind, bytes, o, ts) /\ i = n /\ safe = Len(bytes)
      /\ c \in 0..n /\ (position = o[c] \/ (c = n /\ position = Len(bytes)))
  BY <1>1, <1>3 DEF SequenceOK
<1>5. kind' = kind /\ bytes' = bytes /\ safe' = safe /\ mode' = mode /\ locked' = locked
      /\ (mode' = "Closed" \/ mode' \in kind.modes)
  BY <1>1 DEF store, StateOK
<1>6. /\ \A j \in 0..n : o[j] \in 0..Len(bytes)
      /\ \A j \in Nat : j < n => RecAt(kind, bytes, o[j]) = Found(ts[j + 1], o[j + 1])
  <2>1. \A j \in 0..n : o[j] \in 0..Len(bytes)
    BY <1>2, <1>4, NextUnit
  <2>2. ASSUME NEW j \in Nat, j < n PROVE RecAt(kind, bytes, o[j]) = Found(ts[j + 1], o[j + 1])
    <3> HIDE DEF c, r
    <3>1. Holds(kind, bytes, o, ts) /\ kind \in Kinds /\ bytes \in Seq(Nat) /\ j < Len(ts)
      BY <1>2, <1>4, <2>2
    <3>2. QED
      BY <3>1, NextUnit
  <2>3. QED
    BY <2>1, <2>2
<1>7. /\ Store_!Live = {j \in DOMAIN Recs(ts) : Recs(ts)[j] # NoRecord}
      /\ Store_!Ahead = {j \in Store_!Live : j > c} /\ \A S : Store_!Min(S) = Min(S)
  BY <1>2, SlotsShown
<1>8. Store_!Ahead = (c + 1)..n
  <2>1. Store_!Live = 1..n
    BY <1>2, <1>7, RecsOfTexts
  <2> HIDE DEF c, n
  <2>2. {j \in 1..n : j > c} = (c + 1)..n
    BY <1>2, <1>4
  <2>3. QED
    BY <1>7, <2>1, <2>2
<1> HIDE DEF n, c, r
<1>9. CASE c < n
  <2>1. position = o[c] /\ c \in Nat /\ c + 1 \in 0..n /\ c + 1 \in 1..n
    BY <1>2, <1>4, <1>9
  <2>2. r = Found(ts[c + 1], o[c + 1])
    BY <1>6, <1>9, <2>1 DEF r
  <2>3. r.found /\ r.record = Record(ts[c + 1]) /\ r.next = o[c + 1]
    BY <2>2 DEF Found
  <2>4. /\ position' = o[c + 1] /\ currentRecord' = c + 1 /\ Selected
        /\ Deliver("readNext", Record(ts[c + 1]))
    BY <1>1, <2>3
  <2>5. SequenceOK(kind, bytes', safe', mode', position', currentRecord', o, ts, i)
    BY <1>3, <1>4, <1>5, <2>1, <2>4 DEF SequenceOK, n
  <2>6. /\ AbstractRecords' = Recs(ts) /\ AbstractDurable' = i /\ AbstractPlace' = c + 1
        /\ AbstractSure' = TRUE /\ StateOK'
    BY <1>1, <1>5, <2>4, <2>5, SequenceAfter DEF SequencePlace
  <2>7. Store_!Ahead # {} /\ Store_!Min(Store_!Ahead) = c + 1
    <3>1. (c + 1)..n \in SUBSET Nat /\ (c + 1)..n # {}
      <4>1. c \in Nat /\ n \in Nat /\ c < n
        BY <1>2, <1>9, <2>1
      <4>2. QED
        BY ONLY <4>1
    <3>2. Min((c + 1)..n) \in (c + 1)..n /\ \A j \in (c + 1)..n : Min((c + 1)..n) <= j
      BY <3>1, MinIsLeast
    <3>3. c + 1 \in (c + 1)..n
      BY <1>2, <2>1
    <3>4. Min((c + 1)..n) = c + 1
      BY <1>2, <2>1, <3>2, <3>3
    <3>5. QED
      BY <1>7, <1>8, <3>1, <3>4
  <2>8. Recs(ts)[c + 1] = Record(ts[c + 1])
    BY <1>2, <2>1, RecsOfTexts DEF n
  <2>9. Store_!ReadNext
    BY <1>1, <1>2, <2>4, <2>6, <2>7, <2>8, NextFoundAs DEF Readable
  <2>10. QED
    BY <2>6, <2>9
<1>10. CASE ~(c < n)
  <2>1. c = n /\ c \in 0..n /\ (position = o[n] \/ position = Len(bytes)) /\ o[n] \in Nat
    BY <1>2, <1>4, <1>6, <1>10
  <2>2. ~r.found /\ r.next = Len(bytes)
    <3>1. Ended(kind, bytes, o[n]) /\ Ended(kind, bytes, Len(bytes)) /\ Len(bytes) \in Nat
      BY <1>2, <1>4 DEF Holds, Ended, n
    <3>2. CASE position = o[n]
      BY <1>2, <2>1, <3>1, <3>2, EndFinds DEF r
    <3>3. CASE position = Len(bytes)
      BY <1>2, <3>1, <3>3, EndFinds DEF r
    <3>4. QED
      BY <2>1, <3>2, <3>3
  <2>3. position' = Len(bytes) /\ currentRecord' = c /\ MarkAtEnd(atEndSeen)
    BY <1>1, <2>2 DEF c
  <2>4. SequenceOK(kind, bytes', safe', mode', position', currentRecord', o, ts, i)
    BY <1>3, <1>4, <1>5, <2>1, <2>3 DEF SequenceOK, n
  <2>5. /\ AbstractRecords' = Recs(ts) /\ AbstractDurable' = i /\ AbstractPlace' = c
        /\ AbstractSure' = TRUE /\ StateOK'
    BY <1>1, <1>5, <2>3, <2>4, SequenceAfter DEF SequencePlace
  <2>6. Store_!Ahead = {}
    BY <1>2, <1>8, <2>1
  <2>7. atEndSeen \in BOOLEAN
    BY DEF IInv, CursorOK
  <2>8. c >= n /\ c \in Nat /\ Larger(c, n) = c
    BY <1>2, <2>1 DEF Larger
  <2>9. Store_!ReadNext
    BY <1>1, <1>2, <2>3, <2>5, <2>6, <2>7, <2>8, NextMissingAs DEF Readable
  <2>10. QED
    BY <2>5, <2>9
<1>11. QED
  BY <1>9, <1>10

LEMMA WriteSequence ==
  ASSUME KindsKeepRecords, IInv, IInv', StateOK, kind.organization # Relative, NEW o, NEW ts, NEW i,
         SequenceOK(kind, bytes, safe, mode, position, currentRecord, o, ts, i),
         NEW t \in kind.texts, WriteNext(t)
  PROVE  StateOK' /\ \E r \in AllRecords : Store_!Write(r)
<1> DEFINE n == Len(ts)
           x == Text(kind, t)
           u == Unit(kind, x)
           l == Len(u)
           q == Longer(o, n, l)
           us == Append(ts, x)
<1>1. mode \in {"Output", "Extend"}
  BY DEF WriteNext, Writable, IsRelative
<1>2. /\ AbstractRecords = Recs(ts) /\ Len(Recs(ts)) = n /\ n \in Nat /\ ts \in Seq(Seq(Nat))
      /\ AbstractDurable = i /\ AbstractPlace = n /\ AbstractSure = TRUE
      /\ kind \in Kinds /\ bytes \in Seq(Nat) /\ i \in 0..n /\ Len(bytes) \in Nat
  <2>1. /\ AbstractRecords = Recs(ts) /\ Len(Recs(ts)) = n /\ n \in Nat /\ ts \in Seq(Seq(Nat))
        /\ AbstractDurable = i /\ AbstractPlace = SequencePlace(mode, currentRecord, n)
        /\ AbstractSure = TRUE /\ kind \in Kinds /\ bytes \in Seq(Nat) /\ i \in 0..n
    BY SequenceBefore
  <2>2. Len(bytes) \in Nat
    BY <2>1
  <2>3. QED
    BY <1>1, <2>1, <2>2 DEF SequencePlace
<1>3. WritingIn(kind, mode) /\ Writing
  BY <1>1 DEF WritingIn, Writing, IsRelative
<1>4. Good(kind, x) /\ Framed(t) = u /\ Stored(t) = Record(x) /\ Record(x) \in AllRecords
  BY <1>2, TextUnit, WrittenText DEF IInv
<1>5. x \in Seq(Nat) /\ l \in Nat /\ l > 0
  BY <1>2, <1>4, UnitOf
<1>6. /\ kind' = kind /\ locked' = locked /\ mode' = mode /\ lastReadValid' = lastReadValid
      /\ atEndSeen' = atEndSeen /\ bytes' = WrittenAt(bytes, Len(bytes), u)
      /\ safe' \in SafeAfterWrite(t) /\ Deliver("write", Record(x))
  BY <1>3, <1>4 DEF WriteNext
<1>7. /\ Holds(kind, bytes, o, ts) /\ o[n] = Len(bytes)
      /\ \/ safe = o[i]
         \/ kind.varying /\ i < n /\ safe = o[i] + 1
         \/ i = n /\ safe = Len(bytes)
  BY <1>3 DEF SequenceOK
<1>8. /\ Len(bytes') = Len(bytes) + l /\ Len(us) = n + 1
      /\ \A j \in 0..n : q[j] = o[j]
      /\ q[n + 1] = Len(bytes')
      /\ Holds(kind, bytes', q, us)
  BY <1>2, <1>4, <1>6, <1>7, HoldsLonger
<1>9. Recs(us) = Put(Recs(ts), n + 1, Record(x))
  BY <1>2, <1>5, RecsLonger
<1>10. \E j \in i..(n + 1) : \/ safe' = q[j]
                             \/ kind.varying /\ j < n + 1 /\ safe' = q[j] + 1
  <2> HIDE DEF q, us, n, l, u, x
  <2>1. i \in 0..n /\ n \in 0..n /\ i \in i..(n + 1) /\ n \in i..(n + 1) /\ n + 1 \in i..(n + 1)
    BY <1>2
  <2>2. CASE safe' = safe
    <3>1. safe' = q[i] \/ (kind.varying /\ i < n + 1 /\ safe' = q[i] + 1)
      BY <1>2, <1>7, <1>8, <2>1, <2>2
    <3>2. QED
      BY <2>1, <3>1
  <2>3. CASE safe' = Len(bytes)
    <3>1. safe' = q[n]
      BY <1>7, <1>8, <2>1, <2>3
    <3>2. QED
      BY <2>1, <3>1
  <2>4. CASE safe' = Len(bytes) + Len(Framed(t))
    <3>1. safe' = q[n + 1]
      BY <1>4, <1>8, <2>4 DEF l
    <3>2. QED
      BY <2>1, <3>1
  <2>5. CASE ~IsLine(kind) /\ safe' = Len(bytes) + Len(Framed(t)) - Len(t)
    <3>1. x = t
      BY <2>5 DEF Text, x
    <3>2. CASE kind.varying
      <4>1. Len(Framed(t)) = Len(t) + 1 /\ Len(t) \in Nat
        BY <1>2, <1>4, <3>1, <3>2, UnitOf DEF u
      <4>2. safe' = Len(bytes) + 1
        BY <1>2, <2>5, <4>1
      <4>3. kind.varying /\ n < n + 1 /\ safe' = q[n] + 1
        BY <1>2, <1>7, <1>8, <2>1, <3>2, <4>2
      <4>4. QED
        BY <2>1, <4>3
    <3>3. CASE ~kind.varying
      <4>1. IsFixed(kind)
        BY <2>5, <3>3 DEF IsFixed
      <4>2. Framed(t) = t /\ Len(t) \in Nat
        BY <1>2, <1>4, <3>1, <4>1, UnitOf DEF u
      <4>3. safe' = Len(bytes)
        BY <1>2, <2>5, <4>2
      <4>4. QED
        BY <2>3, <4>3
    <3>4. QED
      BY <3>2, <3>3
  <2>6. QED
    BY <1>6, <2>2, <2>3, <2>4, <2>5 DEF SafeAfterWrite, IsLine
<1>11. PICK j \in i..(n + 1) : \/ safe' = q[j]
                               \/ kind.varying /\ j < n + 1 /\ safe' = q[j] + 1
  BY <1>10
<1> HIDE DEF q, us, n, l, u, x
<1>12. SequenceOK(kind, bytes', safe', mode', position', currentRecord', q, us, j)
  <2>1. j \in 0..Len(us)
    BY <1>2, <1>8
  <2>2. q[Len(us)] = Len(bytes') /\ (kind.varying /\ j < n + 1 => kind.varying /\ j < Len(us))
    BY <1>8
  <2>3. mode' \notin {"Input", "IoMode", "Closed"} /\ WritingIn(kind, mode')
    BY <1>1, <1>3, <1>6
  <2>4. QED
    BY <1>8, <1>11, <2>1, <2>2, <2>3 DEF SequenceOK
<1>13. /\ AbstractRecords' = Recs(us) /\ Len(Recs(us)) = n + 1 /\ AbstractDurable' = j
       /\ AbstractPlace' = n + 1 /\ AbstractSure' = TRUE /\ StateOK'
  <2>1. mode' = "Closed" \/ mode' \in kind.modes
    BY <1>6 DEF StateOK
  <2>2. QED
    BY <1>1, <1>6, <1>8, <1>12, <2>1, SequenceAfter DEF SequencePlace
<1>14. Store_!Write(Record(x))
  <2>1. AbstractRecords' = Put(Recs(ts), AbstractPlace + 1, Record(x))
    BY <1>2, <1>9, <1>13
  <2>2. AbstractDurable' \in AbstractDurable..Len(AbstractRecords')
    BY <1>2, <1>13
  <2>3. AbstractPlace \in Nat /\ Len(Recs(ts)) \in Nat /\ AbstractPlace' = AbstractPlace + 1
    BY <1>2, <1>13
  <2>4. UNCHANGED <<locked, mode, lastReadValid, atEndSeen>>
    BY <1>6
  <2>5. mode \in {"Output", "Extend", "IoMode"} /\ AbstractSure' = AbstractSure
    BY <1>1, <1>2, <1>13
  <2>6. QED
    BY <1>2, <1>4, <1>6, <2>1, <2>2, <2>3, <2>4, <2>5, WrittenAs
<1>15. QED
  BY <1>4, <1>13, <1>14

LEMMA RewriteSequence ==
  ASSUME KindsKeepRecords, IInv, IInv', StateOK, kind.organization # Relative, NEW o, NEW ts, NEW i,
         SequenceOK(kind, bytes, safe, mode, position, currentRecord, o, ts, i),
         NEW t \in kind.texts, Rewrite(t)
  PROVE  StateOK' /\ \E r \in AllRecords : Store_!Rewrite(r)
<1> DEFINE n == Len(ts)
           c == currentRecord
           us == [ts EXCEPT ![c] = t]
<1>1. mode = "IoMode" /\ lastReadValid /\ Len(t) = Width
  <2>1. RewriteStatus(t) = FsOk
    BY DEF Rewrite
  <2>2. FsIoModeRequired # FsOk /\ FsRewriteWithoutRead # FsOk /\ FsRecordLengthMismatch # FsOk
    BY DEF FsIoModeRequired, FsOk, FsRewriteWithoutRead, FsRecordLengthMismatch
  <2>3. QED
    BY <2>1, <2>2 DEF RewriteStatus
<1>2. /\ AbstractRecords = Recs(ts) /\ Len(Recs(ts)) = n /\ n \in Nat /\ ts \in Seq(Seq(Nat))
      /\ AbstractDurable = i /\ AbstractPlace = c /\ AbstractSure = TRUE
      /\ kind \in Kinds /\ bytes \in Seq(Nat) /\ i \in 0..n /\ Len(bytes) \in Nat
  <2>1. /\ AbstractRecords = Recs(ts) /\ Len(Recs(ts)) = n /\ n \in Nat /\ ts \in Seq(Seq(Nat))
        /\ AbstractDurable = i /\ AbstractPlace = SequencePlace(mode, currentRecord, n)
        /\ AbstractSure = TRUE /\ kind \in Kinds /\ bytes \in Seq(Nat) /\ i \in 0..n
    BY SequenceBefore
  <2>2. Len(bytes) \in Nat
    BY <2>1
  <2>3. QED
    BY <1>1, <2>1, <2>2 DEF SequencePlace
<1>3. IsFixed(kind) /\ ~kind.varying
  BY <1>1, <1>2 DEF StateOK, KindsKeepRecords, IsFixed, IsLine
<1>4. Text(kind, t) = t /\ Good(kind, t) /\ Record(t) \in AllRecords
  <2>1. Text(kind, t) = t
    BY <1>3 DEF Text, IsFixed
  <2>2. QED
    BY <1>2, <2>1, TextUnit, WrittenText DEF IInv
<1>5. ~WritingIn(kind, mode)
  BY <1>1 DEF WritingIn
<1>6. /\ Holds(kind, bytes, o, ts) /\ i = n /\ safe = Len(bytes) /\ c \in 0..n
  BY <1>1, <1>5 DEF SequenceOK
<1>7. c \in 1..n /\ c > 0 /\ c \in Nat
  BY <1>1, <1>2, <1>6 DEF IInv, CursorOK
<1>8. /\ kind' = kind /\ locked' = locked /\ mode' = mode /\ lastReadValid' = lastReadValid
      /\ atEndSeen' = atEndSeen /\ currentRecord' = c /\ Deliver("rewrite", Record(t))
      /\ bytes' = WrittenAt(bytes, (c - 1) * Width, t) /\ safe' = Len(bytes')
      /\ position' = (c - 1) * Width + Width
  <2>1. CurrentOffset = (c - 1) * Width
    BY <1>7 DEF CurrentOffset, Before
  <2>2. QED
    BY <1>1, <2>1 DEF Rewrite, Overwrite, Store
<1>9. /\ Len(bytes') = Len(bytes) /\ Len(us) = n
      /\ \A j \in 1..n : us[j] = IF j = c THEN t ELSE ts[j]
      /\ Holds(kind, bytes', o, us)
  <2> DEFINE p == (c - 1) * Width
             b == WrittenAt(bytes, p, t)
  <2>1. /\ Len(b) = Len(bytes) /\ Len(us) = n
        /\ \A j \in 1..n : us[j] = IF j = c THEN t ELSE ts[j]
        /\ Holds(kind, b, o, us)
    <3>1. us = [ts EXCEPT ![c] = t]
      OBVIOUS
    <3>2. p = (c - 1) * Width
      OBVIOUS
    <3> HIDE DEF us, c, p
    <3>3. /\ kind \in Kinds /\ kind.organization # Relative /\ IsFixed(kind) /\ bytes \in Seq(Nat)
          /\ Holds(kind, bytes, o, ts) /\ c \in 1..Len(ts) /\ Good(kind, t)
          /\ us = [ts EXCEPT ![c] = t] /\ p = (c - 1) * Width
      BY <1>2, <1>3, <1>4, <1>6, <1>7, <3>1, <3>2 DEF n
    <3>4. ReplacedHeld(kind, bytes, o, ts, c, t, us, p)
      BY ONLY <3>3, HoldsReplaced
    <3>5. Len(b) = Len(bytes) /\ Holds(kind, b, o, us)
      BY <3>4 DEF ReplacedHeld
    <3>6. Len(us) = n /\ \A j \in 1..n : us[j] = IF j = c THEN t ELSE ts[j]
      BY <1>2, <3>3 DEF n
    <3>7. QED
      BY <3>5, <3>6
  <2>2. QED
    BY <1>8, <2>1
<1>10. o[c] = c * Width /\ (c - 1) * Width + Width = c * Width
  <2>1. o[c] = c * Width
    BY <1>2, <1>3, <1>6, HeldUnits
  <2>2. c - 1 \in Nat /\ (c - 1) + 1 = c
    BY <1>7
  <2>3. QED
    BY <2>1, <2>2, WidthPositive, Multiples
<1> HIDE DEF us, n, c
<1>11. Recs(us) = Put(Recs(ts), c, Record(t))
  <2>1. ts \in Seq(Seq(Nat)) /\ c \in 1..Len(ts) /\ ReplacedAt(ts, us, c, t)
    BY <1>2, <1>7, <1>9 DEF n, ReplacedAt
  <2>2. QED
    BY <2>1, RecsReplaced
<1>12. SequenceOK(kind, bytes', safe', mode', position', currentRecord', o, us, n)
  <2>1. n \in 0..n /\ c \in 0..n
    BY <1>2, <1>6
  <2>2. QED
    BY <1>1, <1>5, <1>8, <1>9, <1>10, <2>1 DEF SequenceOK
<1>13. /\ AbstractRecords' = Recs(us) /\ Len(Recs(us)) = n /\ AbstractDurable' = n
       /\ AbstractPlace' = c /\ AbstractSure' = TRUE /\ StateOK'
  <2>1. mode' = "Closed" \/ mode' \in kind.modes
    BY <1>8 DEF StateOK
  <2>2. QED
    BY <1>1, <1>8, <1>9, <1>12, <2>1, SequenceAfter DEF SequencePlace
<1>14. c \in Numbers
  <2>1. n * Width <= Len(bytes)
    <3>1. n \in 0..n /\ \A j \in 0..n : o[j] = j * Width /\ o[j] <= Len(bytes)
      BY <1>2, <1>3, <1>6, HeldUnits DEF n
    <3>2. QED
      BY <3>1
  <2>2. Len(bytes) <= MaxRecords * Width
    <3>1. Width + 0 = Width
      BY WidthPositive
    <3>2. QED
      BY <1>3, <3>1 DEF IInv, StoreOK, Fits
  <2>3. n <= MaxRecords
    <3>1. n * Width <= MaxRecords * Width
      <4>1. n * Width \in Nat /\ MaxRecords * Width \in Nat
        BY <1>2, WidthPositive, Multiples
      <4>2. QED
        BY <1>2, <2>1, <2>2, <4>1
    <3>2. QED
      BY <1>2, <3>1, WidthPositive, Multiples
  <2>4. QED
    BY <1>2, <1>7, <2>3, WidthPositive DEF Numbers
<1>15. Store_!Rewrite(Record(t))
  <2>1. Larger(c, 1) = c
    BY <1>7 DEF Larger
  <2>2. AbstractPlace \in Nat /\ Len(Recs(ts)) \in Nat /\ AbstractSure \in BOOLEAN /\ AbstractSure' \in BOOLEAN
    BY <1>2, <1>7, <1>13
  <2>3. lastReadValid \in BOOLEAN
    BY DEF IInv, CursorOK
  <2>4. UNCHANGED <<locked, mode, lastReadValid, atEndSeen>>
    BY <1>8
  <2>5. AbstractRecords' = Put(Recs(ts), c, Record(t)) /\ AbstractPlace' = c
        /\ AbstractDurable' = Len(AbstractRecords')
    BY <1>11, <1>13
  <2>6. QED
    BY <1>1, <1>2, <1>7, <1>8, <1>13, <1>14, <2>1, <2>2, <2>3, <2>4, <2>5, RewrittenAs
<1>16. QED
  BY <1>4, <1>13, <1>15

-----------------------------------------------------------------------------
(* The calls of a relative file                                            *)

RelativePlace(m, n, q) == IF m = "Closed" THEN 0 ELSE IF m = "Extend" THEN n ELSE q

(* The slots before and after a call.                                      *)
LEMMA RelativeBefore ==
  ASSUME IInv, kind.organization = Relative, NEW n, NEW i, NEW q,
         RelativeOK(bytes, safe, mode, position, currentRecord, n, i, q)
  PROVE  /\ AbstractRecords = RecordsIn(bytes) /\ Len(RecordsIn(bytes)) = n
         /\ AbstractDurable = i
         /\ AbstractPlace = RelativePlace(mode, n, q)
         /\ AbstractSure = (mode = "Extend" \/ currentRecord = RelativePlace(mode, n, q))
         /\ n \in Nat /\ i \in 0..n /\ q \in Nat /\ currentRecord \in 0..(MaxRecords + 1)
         /\ Len(bytes) = n * Width /\ position = q * Width /\ safe = i * Width
         /\ kind \in Kinds /\ bytes \in Seq(Nat) /\ mode \in {"Closed"} \cup OpenModes
<1>1. kind \in Kinds /\ bytes \in Seq(Nat) /\ mode \in {"Closed"} \cup OpenModes
  BY DEF IInv, HandleOK, StoreOK, OpenModes
<1>2. /\ RecordsOf(kind, bytes) = RecordsIn(bytes) /\ Len(RecordsIn(bytes)) = n
      /\ DurableOf(kind, bytes, safe) = i
      /\ PlaceOf(kind, bytes, mode, position) = RelativePlace(mode, n, q)
      /\ SureOf(kind, bytes, mode, position, currentRecord)
           = (mode = "Extend" \/ currentRecord = RelativePlace(mode, n, q))
  BY <1>1, RelativeShows DEF RelativePlace
<1>3. /\ n \in Nat /\ i \in 0..n /\ q \in Nat /\ currentRecord \in 0..(MaxRecords + 1)
      /\ Len(bytes) = n * Width /\ position = q * Width /\ safe = i * Width
  BY DEF RelativeOK
<1>4. QED
  BY <1>1, <1>2, <1>3, MappedBytes, MappedHandle

LEMMA RelativeAfter ==
  ASSUME IInv', kind' = kind, kind.organization = Relative, mode' = "Closed" \/ mode' \in kind.modes,
         NEW n, NEW i, NEW q,
         RelativeOK(bytes', safe', mode', position', currentRecord', n, i, q)
  PROVE  /\ AbstractRecords' = RecordsIn(bytes') /\ Len(RecordsIn(bytes')) = n
         /\ AbstractDurable' = i
         /\ AbstractPlace' = RelativePlace(mode', n, q)
         /\ AbstractSure' = (mode' = "Extend" \/ currentRecord' = RelativePlace(mode', n, q))
         /\ StateOK'
<1>1. kind \in Kinds /\ bytes' \in Seq(Nat) /\ mode' \in {"Closed"} \cup OpenModes
  BY DEF IInv, HandleOK, StoreOK, OpenModes
<1>2. /\ RecordsOf(kind, bytes') = RecordsIn(bytes') /\ Len(RecordsIn(bytes')) = n
      /\ DurableOf(kind, bytes', safe') = i
      /\ PlaceOf(kind, bytes', mode', position') = RelativePlace(mode', n, q)
      /\ SureOf(kind, bytes', mode', position', currentRecord')
           = (mode' = "Extend" \/ currentRecord' = RelativePlace(mode', n, q))
  BY <1>1, RelativeShows DEF RelativePlace
<1>3. StateOK'
  BY DEF StateOK
<1>4. QED
  BY <1>2, <1>3, MappedBytes, MappedHandle

LEMMA NoSlots == RecordsIn(<<>>) = <<>> /\ Len(<<>>) = 0 /\ 0 * Width = 0 /\ 0 \in 0..(MaxRecords + 1)
<1>1. <<>> \in Seq(Nat) /\ Len(<<>>) = 0
  OBVIOUS
<1>2. 0 * Width = 0 /\ 0 \in 0..(MaxRecords + 1)
  BY WidthPositive
<1>3. RecordsIn(<<>>) = [n \in 1..0 |-> SlotRecord(<<>>, n)]
  BY <1>1, <1>2, SlotsOf DEF RecordsIn
<1>4. QED
  BY <1>1, <1>2, <1>3

LEMMA OpenRelative ==
  ASSUME IInv, IInv', kind.organization = Relative, NEW n, NEW i, NEW q,
         RelativeOK(bytes, safe, mode, position, currentRecord, n, i, q),
         NEW m \in kind.modes, Open(m)
  PROVE  StateOK' /\ Store_!Open
<1>1. /\ kind' = kind /\ mode' = m /\ bytes' = (IF m = "Output" THEN <<>> ELSE bytes) /\ safe' = Len(bytes')
      /\ position' = 0 /\ currentRecord' = 0
  BY DEF Open, Store, Rewound
<1>2. m \in OpenModes
  BY KindProperties DEF IInv, HandleOK, OpenModes
<1>3. /\ AbstractRecords = RecordsIn(bytes) /\ Len(RecordsIn(bytes)) = n /\ n \in Nat
      /\ Len(bytes) = n * Width
  BY RelativeBefore
<1>4. CASE m = "Output"
  <2>1. bytes' = <<>> /\ safe' = 0
    BY <1>1, <1>4
  <2>2. RelativeOK(bytes', safe', mode', position', currentRecord', 0, 0, 0)
    BY <1>1, <2>1, NoSlots DEF RelativeOK
  <2>3. /\ AbstractRecords' = <<>> /\ AbstractDurable' = 0 /\ AbstractPlace' = 0
        /\ AbstractSure' = TRUE /\ StateOK'
    BY <1>1, <1>4, <2>1, <2>2, NoSlots, RelativeAfter DEF RelativePlace
  <2>4. Store_!Open
    BY <1>2, <1>4, <2>3, OpenedAs
  <2>5. QED
    BY <2>3, <2>4
<1>5. CASE m # "Output"
  <2>1. bytes' = bytes /\ safe' = n * Width
    BY <1>1, <1>3, <1>5
  <2>2. n \in 0..n
    BY <1>3
  <2>3. RelativeOK(bytes', safe', mode', position', currentRecord', n, n, 0)
    BY <1>1, <1>3, <2>1, <2>2, NoSlots DEF RelativeOK
  <2>4. /\ AbstractRecords' = RecordsIn(bytes) /\ AbstractDurable' = n
        /\ AbstractPlace' = (IF m = "Closed" THEN 0 ELSE IF m = "Extend" THEN n ELSE 0)
        /\ AbstractSure' = TRUE /\ StateOK'
    BY <1>1, <2>1, <2>3, RelativeAfter DEF RelativePlace
  <2>5. Store_!Open
    BY <1>2, <1>3, <1>5, <2>4, OpenedAs
  <2>6. QED
    BY <2>4, <2>5
<1>6. QED
  BY <1>4, <1>5

LEMMA CloseRelative ==
  ASSUME IInv, IInv', kind.organization = Relative, NEW n, NEW i, NEW q,
         RelativeOK(bytes, safe, mode, position, currentRecord, n, i, q),
         (\E lock \in {FALSE, kind.locking} : Close(lock)) \/ StopRun
  PROVE  StateOK' /\ Store_!Close
<1>1. /\ kind' = kind /\ mode' = "Closed" /\ bytes' = bytes /\ safe' = Len(bytes)
      /\ position' = 0 /\ currentRecord' = 0
  BY DEF Close, StopRun, Rewound
<1>2. /\ AbstractRecords = RecordsIn(bytes) /\ Len(RecordsIn(bytes)) = n /\ n \in Nat
      /\ Len(bytes) = n * Width /\ n \in 0..n
  <2>1. /\ AbstractRecords = RecordsIn(bytes) /\ Len(RecordsIn(bytes)) = n /\ n \in Nat
        /\ Len(bytes) = n * Width
    BY RelativeBefore
  <2>2. QED
    BY <2>1
<1>3. RelativeOK(bytes', safe', mode', position', currentRecord', n, n, 0)
  BY <1>1, <1>2, NoSlots DEF RelativeOK
<1>4. /\ AbstractRecords' = RecordsIn(bytes) /\ AbstractDurable' = n /\ AbstractPlace' = 0
      /\ AbstractSure' = TRUE /\ StateOK'
  BY <1>1, <1>3, RelativeAfter DEF RelativePlace
<1>5. Store_!Close
  BY <1>2, <1>4, ClosedAs
<1>6. QED
  BY <1>4, <1>5

LEMMA CrashRelative ==
  ASSUME IInv, IInv', kind.organization = Relative, NEW n, NEW i, NEW q,
         RelativeOK(bytes, safe, mode, position, currentRecord, n, i, q), Crash
  PROVE  StateOK' /\ Store_!Crash
<1>1. /\ kind' = kind /\ mode' = "Closed" /\ bytes' = SubSeq(bytes, 1, safe) /\ safe' = Len(bytes')
      /\ position' = 0 /\ currentRecord' = 0
  BY DEF Crash, Store, Rewound
<1>2. /\ AbstractRecords = RecordsIn(bytes) /\ Len(RecordsIn(bytes)) = n /\ n \in Nat /\ AbstractDurable = i
      /\ i \in 0..n /\ Len(bytes) = n * Width /\ safe = i * Width /\ bytes \in Seq(Nat)
  BY RelativeBefore
<1>3. i \in Nat /\ i <= n /\ i \in 0..i /\ i \in i..n
  BY <1>2
<1>4. Len(bytes') = i * Width /\ RecordsIn(bytes') = SubSeq(RecordsIn(bytes), 1, i)
  BY <1>1, <1>2, <1>3, RecordsPrefix
<1>5. RelativeOK(bytes', safe', mode', position', currentRecord', i, i, 0)
  BY <1>1, <1>3, <1>4, NoSlots DEF RelativeOK
<1>6. /\ AbstractRecords' = SubSeq(RecordsIn(bytes), 1, i) /\ AbstractDurable' = i /\ Len(AbstractRecords') = i
      /\ AbstractPlace' = 0 /\ AbstractSure' = TRUE /\ StateOK'
  BY <1>1, <1>4, <1>5, RelativeAfter DEF RelativePlace
<1>7. Store_!Crash
  BY <1>2, <1>3, <1>6, CrashedAs
<1>8. QED
  BY <1>6, <1>7

LEMMA ReadAs ==
  ASSUME Readable, NEW n, n \in Store_!Live, NEW r, AbstractRecords[n] = r, DeliverOf("read", n, r), Selected,
         UNCHANGED <<kind, store, locked, mode>>,
         AbstractPlace' = n, AbstractSure' = TRUE,
         AbstractRecords' = AbstractRecords, AbstractDurable' = AbstractDurable
  PROVE  Store_!Read(n)
<1>1. Store_!GivesOf("read", n, r)
  BY SequenceAnswers
<1>2. lastReadValid' = TRUE /\ atEndSeen' = FALSE /\ mode \in {"Input", "IoMode"}
      /\ locked' = locked /\ mode' = mode
  BY DEF Selected, Readable
<1>3. QED
  BY <1>1, <1>2 DEF Store_!Read

(* The slots that hold a record, and the last place the slots reach.       *)
LEMMA RelativeLive ==
  ASSUME IInv, kind.organization = Relative, NEW n, NEW i, NEW q,
         RelativeOK(bytes, safe, mode, position, currentRecord, n, i, q)
  PROVE  /\ Slots(bytes) = n
         /\ Store_!Live = {m \in 1..n : Present(bytes, m)}
         /\ \A m : Present(bytes, m) => m \in 1..n
         /\ \A m : Present(bytes, m) => AbstractRecords[m] = Record(Slot(bytes, m))
         /\ Store_!Ahead = {m \in Store_!Live : m > RelativePlace(mode, n, q)}
         /\ \A S : Store_!Min(S) = Min(S) /\ Store_!Max(S) = Max(S)
<1>1. /\ AbstractRecords = RecordsIn(bytes) /\ n \in Nat /\ Len(bytes) = n * Width /\ bytes \in Seq(Nat)
      /\ AbstractPlace = RelativePlace(mode, n, q)
  BY RelativeBefore
<1>2. Slots(bytes) = n
  BY <1>1, SlotsOf
<1>3. /\ \A m \in 1..n : Present(bytes, m) => RecordsIn(bytes)[m] = Record(Slot(bytes, m))
      /\ {m \in DOMAIN RecordsIn(bytes) : RecordsIn(bytes)[m] # NoRecord} = {m \in 1..n : Present(bytes, m)}
      /\ \A m : Present(bytes, m) => m \in 1..n
  BY <1>1, LiveSlots
<1>4. /\ Store_!Live = {m \in DOMAIN RecordsIn(bytes) : RecordsIn(bytes)[m] # NoRecord}
      /\ Store_!Ahead = {m \in Store_!Live : m > RelativePlace(mode, n, q)}
      /\ \A S : Store_!Min(S) = Min(S) /\ Store_!Max(S) = Max(S)
  BY <1>1, SlotsShown
<1>5. QED
  BY <1>1, <1>2, <1>3, <1>4

(* A step that leaves the bytes alone and the file open for READ.          *)
LEMMA MovedRelative ==
  ASSUME IInv, IInv', kind.organization = Relative, NEW n, NEW i, NEW q,
         RelativeOK(bytes, safe, mode, position, currentRecord, n, i, q), StateOK,
         UNCHANGED <<kind, store, locked, mode>>, mode \in {"Input", "IoMode", "Output"},
         NEW p \in Nat, position' = p * Width, currentRecord' \in 0..(MaxRecords + 1)
  PROVE  /\ AbstractRecords' = AbstractRecords /\ AbstractDurable' = AbstractDurable
         /\ AbstractPlace' = p /\ AbstractSure' = (currentRecord' = p) /\ StateOK'
<1>1. /\ AbstractRecords = RecordsIn(bytes) /\ AbstractDurable = i
  BY RelativeBefore
<1>2. /\ kind' = kind /\ bytes' = bytes /\ safe' = safe /\ mode' = mode
      /\ (mode' = "Closed" \/ mode' \in kind.modes)
  BY DEF store, StateOK
<1>3. RelativeOK(bytes', safe', mode', position', currentRecord', n, i, p)
  BY <1>2 DEF RelativeOK
<1>4. /\ AbstractRecords' = RecordsIn(bytes) /\ AbstractDurable' = i /\ AbstractPlace' = RelativePlace(mode, n, p)
      /\ AbstractSure' = (mode = "Extend" \/ currentRecord' = RelativePlace(mode, n, p)) /\ StateOK'
  BY <1>2, <1>3, RelativeAfter
<1>5. RelativePlace(mode, n, p) = p /\ mode # "Extend"
  BY DEF RelativePlace
<1>6. QED
  BY <1>1, <1>4, <1>5

LEMMA ReadSlot ==
  ASSUME IInv, IInv', StateOK, kind.organization = Relative, NEW n, NEW i, NEW q,
         RelativeOK(bytes, safe, mode, position, currentRecord, n, i, q),
         ReadNextSlot
  PROVE  StateOK' /\ Store_!ReadNext
<1> DEFINE ahead == (q + 1)..n
           live == {m \in ahead : Present(bytes, m)}
           c == currentRecord
           d == currentRecord'
           k == Min(live)
<1>1. /\ n \in Nat /\ q \in Nat /\ c \in 0..(MaxRecords + 1) /\ c \in Nat /\ position = q * Width
      /\ Len(bytes) = n * Width /\ Width \in Nat /\ Width > 0 /\ MaxRecords \in Nat
      /\ AbstractRecords = RecordsIn(bytes) /\ Len(AbstractRecords) = n
  <2>1. /\ n \in Nat /\ q \in Nat /\ c \in 0..(MaxRecords + 1) /\ position = q * Width
        /\ Len(bytes) = n * Width /\ AbstractRecords = RecordsIn(bytes) /\ Len(AbstractRecords) = n
    BY RelativeBefore
  <2>2. QED
    BY <2>1, WidthPositive DEF IInv, CursorOK
<1>2. mode \in {"Input", "IoMode"} /\ Readable /\ UNCHANGED <<kind, store, locked, mode>>
  BY DEF ReadNextSlot, Readable
<1>3. position \div Width = q /\ Slots(bytes) = n
  BY <1>1, Multiples, RelativeLive
<1>4. /\ \/ /\ live # {}
            /\ position' = k * Width
            /\ d = c + k - Min(ahead) + 1 /\ Counted
            /\ Selected
            /\ Deliver("readNext", Record(Slot(bytes, k)))
         \/ /\ live = {}
            /\ position' = Larger(position, Len(bytes))
            /\ d = c + Cardinality(ahead) /\ Counted
            /\ MarkAtEnd(atEndSeen /\ ahead = {})
  BY <1>3 DEF ReadNextSlot
<1>5. /\ AbstractPlace = q /\ AbstractSure = (c = q)
  <2>1. /\ AbstractPlace = RelativePlace(mode, n, q)
        /\ AbstractSure = (mode = "Extend" \/ c = RelativePlace(mode, n, q))
    BY RelativeBefore
  <2>2. RelativePlace(mode, n, q) = q /\ mode # "Extend"
    BY <1>2 DEF RelativePlace
  <2>3. QED
    BY <2>1, <2>2
<1>6. Store_!Ahead = live /\ \A S : Store_!Min(S) = Min(S)
  <2>1. /\ Store_!Ahead = {m \in {j \in 1..n : Present(bytes, j)} : m > q} /\ \A S : Store_!Min(S) = Min(S)
    <3>1. RelativePlace(mode, n, q) = q
      BY <1>2 DEF RelativePlace
    <3>2. QED
      BY <3>1, RelativeLive
  <2>2. \A m : m \in 1..n /\ m > q <=> m \in (q + 1)..n
    BY <1>1
  <2>3. QED
    BY <2>1, <2>2
<1>7. live \subseteq ahead /\ ahead \in SUBSET Nat
  BY <1>1
<1>8. d \in Nat => d \in 0..(MaxRecords + 1) \/ ~Counted
  BY <1>1 DEF Counted
<1> HIDE DEF live, c, d, k
<1>9. CASE live # {}
  <2>1. k \in live /\ Min(ahead) = q + 1 /\ k \in ahead
    <3>1. k \in live
      BY <1>7, <1>9, MinIsLeast DEF k
    <3>2. Min(ahead) \in ahead /\ \A m \in ahead : Min(ahead) <= m
      BY <1>7, <3>1, MinIsLeast
    <3>3. q + 1 \in ahead
      BY <1>1, <1>7, <3>1
    <3>4. QED
      BY <1>1, <1>7, <3>1, <3>2, <3>3
  <2> HIDE DEF ahead
  <2>2. /\ position' = k * Width /\ d = c + k - Min(ahead) + 1 /\ Counted /\ Selected
        /\ Deliver("readNext", Record(Slot(bytes, k)))
    BY <1>4, <1>9
  <2>3. k \in Nat /\ k > q
    BY <1>1, <2>1 DEF ahead
  <2>4. d \in Nat /\ (d = k <=> c = q)
    BY <1>1, <2>1, <2>2, <2>3
  <2>5. d \in 0..(MaxRecords + 1)
    BY <1>8, <2>2, <2>4
  <2>6. /\ AbstractRecords' = AbstractRecords /\ AbstractDurable' = AbstractDurable
        /\ AbstractPlace' = k /\ AbstractSure' = (d = k) /\ StateOK'
    BY <1>2, <2>2, <2>3, <2>5, MovedRelative DEF d
  <2>7. AbstractRecords[k] = Record(Slot(bytes, k))
    <3>1. Present(bytes, k)
      BY <2>1 DEF live
    <3>2. QED
      BY <3>1, RelativeLive
  <2>8. AbstractSure' = AbstractSure
    BY <1>5, <2>4, <2>6
  <2>9. Store_!ReadNext
    BY <1>2, <1>6, <1>9, <2>2, <2>6, <2>7, <2>8, NextFoundAs DEF k
  <2>10. QED
    BY <2>6, <2>9
<1>10. CASE live = {}
  <2>1. /\ position' = Larger(position, Len(bytes)) /\ d = c + Cardinality(ahead) /\ Counted
        /\ MarkAtEnd(atEndSeen /\ ahead = {})
    BY <1>4, <1>10
  <2> DEFINE p == Larger(q, n)
  <2>2. p \in Nat /\ position' = p * Width
    <3>1. q <= n <=> q * Width <= n * Width
      BY <1>1, Multiples
    <3>2. q * Width \in Nat /\ n * Width \in Nat
      BY <1>1, Multiples
    <3>3. Larger(q * Width, n * Width) = IF q <= n THEN n * Width ELSE q * Width
      <4>1. CASE q <= n
        <5>1. q * Width <= n * Width /\ q * Width \in Nat /\ n * Width \in Nat
          BY <3>1, <3>2, <4>1
        <5> DEFINE x == q * Width
                   y == n * Width
        <5> HIDE DEF x, y
        <5>2. x <= y /\ x \in Nat /\ y \in Nat
          BY <5>1 DEF x, y
        <5>3. Larger(x, y) = y
          BY ONLY <5>2 DEF Larger
        <5>4. QED
          BY <4>1, <5>3 DEF x, y
      <4>2. CASE ~(q <= n)
        <5> DEFINE x == q * Width
                   y == n * Width
        <5> HIDE DEF x, y
        <5>2. ~(x <= y) /\ x \in Nat /\ y \in Nat
          BY <3>1, <3>2, <4>2 DEF x, y
        <5>3. Larger(x, y) = x
          BY ONLY <5>2 DEF Larger
        <5>4. QED
          BY <4>2, <5>3 DEF x, y
      <4>3. QED
        BY <4>1, <4>2
    <3>4. p = IF q <= n THEN n ELSE q
      BY <1>1 DEF Larger
    <3>5. position' = Larger(q * Width, n * Width)
      BY <1>1, <2>1
    <3>6. QED
      BY <1>1, <3>3, <3>4, <3>5
  <2>3. d \in Nat /\ (d = p <=> c = q)
    <3>1. Cardinality(ahead) = IF q + 1 > n THEN 0 ELSE n - (q + 1) + 1
      BY <1>1, FS_Interval
    <3>2. CASE q + 1 > n
      <4>1. p = q /\ d = c + 0
        BY <1>1, <2>1, <3>1, <3>2 DEF Larger
      <4>2. QED
        BY <1>1, <4>1
    <3>3. CASE ~(q + 1 > n)
      <4>1. p = n /\ d = c + (n - (q + 1) + 1)
        BY <1>1, <2>1, <3>1, <3>3 DEF Larger
      <4>2. QED
        BY <1>1, <3>3, <4>1
    <3>4. QED
      BY <3>2, <3>3
  <2>4. ahead = {} <=> q >= n
    BY <1>1
  <2>5. (q >= n => p = q) /\ p = Larger(AbstractPlace, Len(AbstractRecords))
    BY <1>1, <1>5 DEF Larger
  <2> HIDE DEF p, ahead
  <2>6. d \in 0..(MaxRecords + 1)
    BY <1>8, <2>1, <2>3
  <2>7. /\ AbstractRecords' = AbstractRecords /\ AbstractDurable' = AbstractDurable
        /\ AbstractPlace' = p /\ AbstractSure' = (d = p) /\ StateOK'
    BY <1>2, <2>2, <2>6, MovedRelative DEF d
  <2>8. AbstractSure' = AbstractSure
    BY <1>5, <2>3, <2>7
  <2> DEFINE seen == atEndSeen /\ ahead = {}
  <2>9. /\ seen \in BOOLEAN /\ MarkAtEnd(seen)
        /\ (seen <=> atEndSeen /\ AbstractPlace >= Len(AbstractRecords))
        /\ (seen => AbstractPlace' = AbstractPlace)
        /\ (~seen => AbstractPlace' = Larger(AbstractPlace, Len(AbstractRecords)))
    <3>1. atEndSeen \in BOOLEAN
      BY DEF IInv, CursorOK
    <3>2. QED
      BY <1>1, <1>5, <2>1, <2>4, <2>5, <2>7, <3>1
  <2> HIDE DEF seen
  <2>10. AbstractPlace \in Nat /\ Len(AbstractRecords) \in Nat /\ Store_!Ahead = {}
    BY <1>1, <1>5, <1>6, <1>10
  <2>11. Store_!ReadNext
    BY <1>2, <2>7, <2>8, <2>9, <2>10, NextMissingAs
  <2>12. QED
    BY <2>7, <2>11
<1>11. QED
  BY <1>9, <1>10

LEMMA ReadKeyed ==
  ASSUME IInv, IInv', StateOK, kind.organization = Relative, NEW n, NEW i, NEW q,
         RelativeOK(bytes, safe, mode, position, currentRecord, n, i, q),
         NEW k \in Numbers, ReadRelative(k)
  PROVE  StateOK' /\ Store_!Read(k)
<1> DEFINE l == k - 1
           r == FixedAt(bytes, l * Width)
<1>1. /\ n \in Nat /\ currentRecord \in 0..(MaxRecords + 1) /\ k \in 0..(MaxRecords + 1)
      /\ Len(bytes) = n * Width /\ bytes \in Seq(Nat) /\ Width \in Nat /\ Width > 0
      /\ k \in Nat /\ k > 0 /\ l \in Nat /\ l + 1 = k /\ k \in 1..(MaxRecords + 1)
  <2>1. /\ n \in Nat /\ currentRecord \in 0..(MaxRecords + 1) /\ Len(bytes) = n * Width /\ bytes \in Seq(Nat)
    BY RelativeBefore
  <2>2. k \in 1..(MaxRecords + 1)
    BY DEF Numbers
  <2>3. QED
    BY <2>1, <2>2, WidthPositive
<1>2. mode \in {"Input", "IoMode"} /\ Readable /\ UNCHANGED <<kind, store, locked, mode>>
  BY DEF ReadRelative, Readable
<1>3. \/ /\ Present(bytes, k) /\ position' = k * Width /\ currentRecord' = k /\ Selected
         /\ DeliverOf("read", k, r.record)
      \/ /\ ~Present(bytes, k)
         /\ position' = (IF r.found THEN r.next ELSE Larger(l * Width, Len(bytes)))
         /\ lastReadValid' = FALSE /\ currentRecord' = currentRecord /\ atEndSeen' = atEndSeen
         /\ AnswerOf("read", k, FsRecNotFound)
  BY DEF ReadRelative, Offset
<1>4. l * Width \in Nat /\ n * Width \in Nat /\ k * Width = l * Width + Width
      /\ (l < n => l * Width + Width <= n * Width) /\ (n <= l => n * Width <= l * Width)
  BY <1>1, Multiples
<1> DEFINE x == l * Width
           y == n * Width
<1>5. /\ Store_!Live = {m \in 1..n : Present(bytes, m)}
      /\ \A m : Present(bytes, m) => m \in 1..n
      /\ \A m : Present(bytes, m) => AbstractRecords[m] = Record(Slot(bytes, m))
  BY RelativeLive
<1>6. l < n => r = Found(Slot(bytes, k), x + Width)
  <2>1. ASSUME l < n PROVE x + Width <= Len(bytes)
    BY <1>1, <1>4, <2>1
  <2>2. Slot(bytes, k) = SubSeq(bytes, x + 1, x + Width)
    BY <1>4 DEF Slot
  <2> HIDE DEF x
  <2>3. QED
    BY <2>1, <2>2 DEF FixedAt, x
<1>7. ~(l < n) => ~r.found
  <2> HIDE DEF x, y, l
  <2>1. ASSUME ~(l < n) PROVE ~(x + Width <= y)
    <3>1. y <= x /\ x \in Nat /\ y \in Nat
      BY <1>1, <1>4, <2>1 DEF x, y
    <3>2. Width \in Nat /\ Width > 0
      BY <1>1
    <3>3. QED
      BY ONLY <3>1, <3>2
  <2>2. Len(bytes) = y
    BY <1>1 DEF y
  <2>3. QED
    BY <2>1, <2>2 DEF FixedAt, Nothing, x
<1> HIDE DEF r, l
<1>8. CASE Present(bytes, k)
  <2>1. k \in Store_!Live /\ l < n
    BY <1>1, <1>5, <1>8
  <2>2. r.record = AbstractRecords[k]
    BY <1>5, <1>6, <1>8, <2>1 DEF Found
  <2>3. position' = k * Width /\ currentRecord' = k /\ Selected /\ DeliverOf("read", k, r.record)
    BY <1>3, <1>8
  <2>4. /\ AbstractRecords' = AbstractRecords /\ AbstractDurable' = AbstractDurable
        /\ AbstractPlace' = k /\ AbstractSure' = (k = k) /\ StateOK'
    BY <1>1, <1>2, <2>3, MovedRelative
  <2>5. Store_!Read(k)
    BY <1>2, <2>1, <2>2, <2>3, <2>4, ReadAs
  <2>6. QED
    BY <2>4, <2>5
<1>9. CASE ~Present(bytes, k)
  <2>1. /\ position' = (IF r.found THEN r.next ELSE Larger(x, Len(bytes)))
        /\ lastReadValid' = FALSE /\ currentRecord' = currentRecord /\ atEndSeen' = atEndSeen
        /\ AnswerOf("read", k, FsRecNotFound)
    BY <1>3, <1>9
  <2>2. \E p \in Nat : position' = p * Width
    <3>1. CASE l < n
      <4>1. r.found /\ r.next = x + Width
        BY <1>6, <3>1 DEF Found
      <4>2. position' = k * Width
        BY <1>4, <2>1, <4>1
      <4>3. QED
        BY <1>1, <4>2
    <3>2. CASE ~(l < n)
      <4>1. position' = Larger(x, y)
        BY <1>1, <1>7, <2>1, <3>2
      <4>2. x \in Nat /\ y \in Nat
        BY <1>4
      <4> HIDE DEF x, y
      <4>3. Larger(x, y) \in {x, y}
        BY <4>2, LargerOf
      <4>4. position' = x \/ position' = y
        BY <4>1, <4>3
      <4>5. QED
        BY <1>1, <4>4 DEF x, y
    <3>3. QED
      BY <3>1, <3>2
  <2>3. PICK p \in Nat : position' = p * Width
    BY <2>2
  <2>4. /\ AbstractRecords' = AbstractRecords /\ AbstractDurable' = AbstractDurable
        /\ AbstractPlace' = p /\ AbstractSure' = (currentRecord' = p) /\ StateOK'
    BY <1>1, <1>2, <2>1, <2>3, MovedRelative
  <2>5. Store_!Astray("read", k, FsRecNotFound)
    BY <1>2, <2>1, <2>4, AstrayAs
  <2>6. k \notin Store_!Live
    BY <1>5, <1>9
  <2>7. Store_!Read(k)
    BY <1>2, <2>5, <2>6, SequenceStatuses DEF Store_!Read
  <2>8. QED
    BY <2>4, <2>7
<1>10. QED
  BY <1>8, <1>9

(* A record is put into a slot, or the slot is emptied.                    *)
LEMMA PutRelative ==
  ASSUME IInv, IInv', StateOK, kind.organization = Relative, NEW n, NEW i, NEW q,
         RelativeOK(bytes, safe, mode, position, currentRecord, n, i, q),
         NEW k \in Nat, k > 0, NEW t \in Seq(Nat), Len(t) = Width,
         bytes' = WrittenAt(bytes, (k - 1) * Width, t), kind' = kind, mode' = mode,
         position' = k * Width, currentRecord' \in 0..(MaxRecords + 1), mode # "Closed",
         NEW j \in 0..Larger(k, n), safe' = j * Width, mode # "Extend" => j = Larger(k, n)
  PROVE  /\ AbstractRecords' = Put(RecordsIn(bytes), k, IF t = Deleted THEN NoRecord ELSE Record(t))
         /\ Len(AbstractRecords') = Larger(k, n)
         /\ AbstractDurable' = j
         /\ AbstractPlace' = RelativePlace(mode, Larger(k, n), k)
         /\ AbstractSure' = (mode = "Extend" \/ currentRecord' = k)
         /\ StateOK'
<1>1. n \in Nat /\ Len(bytes) = n * Width /\ bytes \in Seq(Nat)
  BY RelativeBefore
<1>2. /\ Len(bytes') = Larger(n, k) * Width
      /\ RecordsIn(bytes') = Put(RecordsIn(bytes), k, IF t = Deleted THEN NoRecord ELSE Record(t))
  BY <1>1, SlotWritten, RecordsWritten
<1>3. Larger(n, k) = Larger(k, n) /\ Larger(k, n) \in Nat
  BY <1>1 DEF Larger
<1>4. mode' = "Closed" \/ mode' \in kind.modes
  BY DEF StateOK
<1>5. RelativeOK(bytes', safe', mode', position', currentRecord', Larger(k, n), j, k)
  BY <1>2, <1>3 DEF RelativeOK
<1>6. /\ AbstractRecords' = RecordsIn(bytes') /\ Len(RecordsIn(bytes')) = Larger(k, n) /\ AbstractDurable' = j
      /\ AbstractPlace' = RelativePlace(mode, Larger(k, n), k)
      /\ AbstractSure' = (mode = "Extend" \/ currentRecord' = RelativePlace(mode, Larger(k, n), k)) /\ StateOK'
  BY <1>4, <1>5, RelativeAfter
<1>7. mode # "Extend" => RelativePlace(mode, Larger(k, n), k) = k
  BY DEF RelativePlace
<1>8. QED
  BY <1>2, <1>6, <1>7

LEMMA RelativeText ==
  ASSUME KindsKeepRecords, IInv, kind.organization = Relative, NEW t \in kind.texts
  PROVE  /\ t \in Seq(Nat) /\ Len(t) = Width /\ t # Deleted /\ Framed(t) = t
         /\ Stored(t) = Record(t) /\ Record(t) \in AllRecords /\ ~Torn(bytes)
         /\ SafeAfterWrite(t) = {safe, Len(bytes), Len(bytes) + Width - Width}
<1>1. kind \in Kinds /\ ~kind.varying /\ kind.organization # LineSequential
  BY KindProperties DEF IInv, HandleOK
<1>2. t \in Seq(Nat) /\ Len(t) = Width
  BY <1>1, TextsAssumption
<1>3. t # Deleted
  BY <1>1 DEF KindsKeepRecords
<1>4. Framed(t) = t /\ Stored(t) = Record(t) /\ Record(t) \in AllRecords
  <2>1. /\ Framed(t) = t /\ Text(kind, t) = t
        /\ Stored(t) = Record(Text(kind, t)) /\ Record(Text(kind, t)) \in AllRecords
    BY WrittenText DEF IInv
  <2>2. QED
    BY <2>1
<1>5. QED
  BY <1>1, <1>2, <1>3, <1>4 DEF SafeAfterWrite, Torn

LEMMA WrittenAtAs ==
  ASSUME NEW n \in Nat, NEW r, mode = "Output" \/ mode = "IoMode", n \notin Store_!Live, DeliverOf("writeAt", n, r),
         UNCHANGED <<locked, mode, atEndSeen>>, lastReadValid' = FALSE,
         Len(AbstractRecords) \in Nat, AbstractRecords' = Put(AbstractRecords, n, r), AbstractPlace' = n,
         AbstractDurable' = Len(AbstractRecords'), AbstractSure' = TRUE
  PROVE  Store_!WriteAt(n, r)
<1>1. Store_!GivesOf("writeAt", n, r)
  BY SequenceAnswers
<1>2. Store_!With(n, r) = Put(AbstractRecords, n, r)
  BY PutIsWith
<1>3. QED
  BY <1>1, <1>2 DEF Store_!WriteAt

LEMMA DeletedAs ==
  ASSUME mode = "IoMode", Answer("delete", FsOk),
         UNCHANGED <<locked, mode, lastReadValid, atEndSeen>>,
         NEW rs, AbstractRecords = rs, Len(rs) \in Nat, AbstractPlace \in Nat, AbstractSure \in BOOLEAN,
         NEW n \in Numbers, n \in Nat, AbstractSure => n = Larger(AbstractPlace, 1),
         AbstractRecords' = Put(rs, n, NoRecord), AbstractPlace' = n, AbstractSure' \in BOOLEAN,
         AbstractSure /\ AbstractPlace > 0 => AbstractSure',
         AbstractDurable' = Len(AbstractRecords')
  PROVE  Store_!Delete
<1>1. Store_!Says("delete", FsOk)
  BY SequenceAnswers
<1>2. Store_!With(n, NoRecord) = Put(rs, n, NoRecord)
  BY PutIsWith
<1>3. Store_!Max({AbstractPlace, 1}) = Larger(AbstractPlace, 1)
  BY MaxIsLarger DEF Store_!Max, Max
<1>4. QED
  BY <1>1, <1>2, <1>3, SequenceStatuses DEF Store_!Delete

LEMMA DeletedAtAs ==
  ASSUME NEW n \in Nat, mode = "IoMode", AnswerOf("deleteAt", n, FsOk),
         UNCHANGED <<locked, mode, atEndSeen>>, lastReadValid' = FALSE,
         NEW rs, AbstractRecords = rs, Len(rs) \in Nat,
         AbstractRecords' = Put(rs, n, NoRecord), AbstractPlace' = n,
         AbstractDurable' = Len(AbstractRecords'), AbstractSure' = TRUE
  PROVE  Store_!DeleteAt(n)
<1>1. Store_!SaysOf("deleteAt", n, FsOk)
  BY SequenceAnswers
<1>2. Store_!With(n, NoRecord) = Put(rs, n, NoRecord)
  BY PutIsWith
<1>3. QED
  BY <1>1, <1>2, SequenceStatuses DEF Store_!DeleteAt

LEMMA WriteSlot ==
  ASSUME KindsKeepRecords, IInv, IInv', StateOK, kind.organization = Relative, NEW n, NEW i, NEW q,
         RelativeOK(bytes, safe, mode, position, currentRecord, n, i, q),
         NEW t \in kind.texts, WriteNext(t)
  PROVE  StateOK' /\ \E r \in AllRecords : Store_!Write(r)
<1> DEFINE p == RelativePlace(mode, n, q)
           k == p + 1
           d == Larger(k, n)
<1>1. /\ n \in Nat /\ i \in 0..n /\ q \in Nat /\ currentRecord \in Nat
      /\ Len(bytes) = n * Width /\ position = q * Width /\ safe = i * Width
      /\ AbstractRecords = RecordsIn(bytes) /\ Len(RecordsIn(bytes)) = n /\ AbstractDurable = i
      /\ AbstractPlace = p /\ AbstractSure = (mode = "Extend" \/ currentRecord = p)
  BY RelativeBefore DEF IInv, CursorOK
<1>2. /\ t \in Seq(Nat) /\ Len(t) = Width /\ t # Deleted /\ Framed(t) = t
      /\ Stored(t) = Record(t) /\ Record(t) \in AllRecords
      /\ SafeAfterWrite(t) = {safe, Len(bytes), Len(bytes) + Width - Width}
  BY RelativeText
<1>3. Width \in Nat /\ Width > 0 /\ MaxRecords \in Nat
  BY WidthPositive
<1>4. mode \in {"Output", "Extend", "IoMode"} /\ (Writing <=> mode = "Extend")
  BY DEF WriteNext, Writable, Writing, IsRelative
<1>5. p \in Nat /\ k \in Nat /\ k > 0 /\ k - 1 = p /\ p * Width \in Nat /\ k * Width = p * Width + Width
      /\ (IF Writing THEN Len(bytes) ELSE position) = p * Width
  <2>1. p = IF mode = "Extend" THEN n ELSE q
    BY <1>4 DEF RelativePlace
  <2>2. p \in Nat /\ (IF Writing THEN Len(bytes) ELSE position) = p * Width
    BY <1>1, <1>4, <2>1
  <2> HIDE DEF p
  <2>3. p * Width \in Nat /\ (p + 1) * Width = p * Width + Width
    BY <1>3, <2>2, Multiples
  <2>4. QED
    BY <2>2, <2>3
<1> HIDE DEF p
<1>6. /\ kind' = kind /\ locked' = locked /\ mode' = mode /\ lastReadValid' = lastReadValid
      /\ atEndSeen' = atEndSeen /\ Deliver("write", Record(t)) /\ currentRecord' = currentRecord + 1 /\ Counted
      /\ bytes' = WrittenAt(bytes, (k - 1) * Width, t) /\ position' = k * Width
      /\ (IF Writing THEN safe' \in SafeAfterWrite(t) ELSE safe' = Len(bytes'))
  <2>1. /\ kind' = kind /\ locked' = locked /\ mode' = mode /\ lastReadValid' = lastReadValid
        /\ atEndSeen' = atEndSeen /\ Deliver("write", Record(t)) /\ currentRecord' = currentRecord + 1 /\ Counted
        /\ bytes' = WrittenAt(bytes, p * Width, t) /\ position' = p * Width + Width
        /\ (IF Writing THEN safe' \in SafeAfterWrite(t) ELSE safe' = Len(bytes'))
    BY <1>2, <1>5 DEF WriteNext
  <2>2. QED
    BY <1>5, <2>1
<1>7. currentRecord' \in 0..(MaxRecords + 1) /\ (currentRecord' = k <=> currentRecord = p)
  <2>1. currentRecord + 1 <= MaxRecords + 1
    BY <1>6 DEF Counted
  <2>2. /\ currentRecord \in Nat /\ currentRecord' = currentRecord + 1 /\ MaxRecords \in Nat
        /\ p \in Nat /\ k \in Nat /\ k - 1 = p
    BY <1>1, <1>3, <1>5, <1>6
  <2> HIDE DEF k
  <2>3. QED
    BY ONLY <2>1, <2>2
<1>8. d \in Nat /\ n <= d /\ d \in 0..d /\ (mode = "Extend" => p = n)
  <2>1. d \in Nat /\ n <= d
    BY <1>1, <1>5, LargerOf
  <2>2. QED
    BY <2>1 DEF p, RelativePlace
<1> HIDE DEF d
<1>9. \E j \in i..d : safe' = j * Width /\ (mode # "Extend" => j = d)
  <2>1. CASE mode = "Extend"
    <3>1. safe' = i * Width \/ safe' = n * Width
      <4>1. Len(bytes) + Width - Width = Len(bytes)
        <5>1. Len(bytes) \in Nat
          BY <1>1, <1>3, Multiples
        <5>2. QED
          BY <1>3, <5>1
      <4>2. safe' \in {safe, Len(bytes), Len(bytes) + Width - Width}
        BY <1>2, <1>4, <1>6, <2>1
      <4>3. QED
        BY <1>1, <4>1, <4>2
    <3>2. i \in i..d /\ n \in i..d
      BY <1>1, <1>8
    <3>3. QED
      BY <2>1, <3>1, <3>2
  <2>2. CASE mode # "Extend"
    <3>1. i = n
      BY <2>2 DEF RelativeOK
    <3>2. safe' = Len(bytes') /\ d \in i..d
      BY <1>1, <1>4, <1>6, <1>8, <2>2
    <3>3. Len(bytes') = d * Width
      <4>1. bytes \in Seq(Nat) /\ Len(bytes') = Larger(n, k) * Width
        <5>1. bytes \in Seq(Nat)
          BY RelativeBefore
        <5> DEFINE c == WrittenAt(bytes, (k - 1) * Width, t)
        <5> HIDE DEF k
        <5>2. Len(c) = Larger(n, k) * Width
          <6>1. /\ bytes \in Seq(Nat) /\ n \in Nat /\ Len(bytes) = n * Width
                /\ k \in Nat /\ k > 0 /\ t \in Seq(Nat) /\ Len(t) = Width
            BY <1>1, <1>2, <1>5, <5>1
          <6>2. QED
            BY ONLY <6>1, SlotWritten DEF c
        <5>3. QED
          BY <1>6, <5>1, <5>2
      <4>2. Larger(n, k) = d
        BY <1>1, <1>5 DEF Larger, d
      <4>3. QED
        BY <4>1, <4>2
    <3>4. QED
      BY <3>2, <3>3
  <2>3. QED
    BY <2>1, <2>2
<1>10. PICK j \in i..d : safe' = j * Width /\ (mode # "Extend" => j = d)
  BY <1>9
<1>11. j \in 0..d
  BY <1>1, <1>8
<1>12. /\ AbstractRecords' = Put(RecordsIn(bytes), k, Record(t)) /\ Len(AbstractRecords') = d
       /\ AbstractDurable' = j /\ AbstractPlace' = RelativePlace(mode, d, k)
       /\ AbstractSure' = (mode = "Extend" \/ currentRecord' = k) /\ StateOK'
  <2> HIDE DEF k
  <2>1. mode # "Closed" /\ j \in 0..Larger(k, n) /\ (mode # "Extend" => j = Larger(k, n))
    BY <1>4, <1>10, <1>11 DEF d
  <2>2. /\ AbstractRecords' = Put(RecordsIn(bytes), k, IF t = Deleted THEN NoRecord ELSE Record(t))
        /\ Len(AbstractRecords') = Larger(k, n) /\ AbstractDurable' = j
        /\ AbstractPlace' = RelativePlace(mode, Larger(k, n), k)
        /\ AbstractSure' = (mode = "Extend" \/ currentRecord' = k) /\ StateOK'
    BY <1>2, <1>5, <1>6, <1>7, <1>10, <2>1, PutRelative
  <2>3. QED
    BY <1>2, <2>2 DEF d
<1>13. AbstractPlace' = k
  <2>1. mode = "Extend" => d = k
    <3>1. mode = "Extend" => k > n /\ k \in Nat
      BY <1>1, <1>5, <1>8
    <3>2. QED
      BY <1>1, <3>1 DEF Larger, d
  <2>2. RelativePlace(mode, d, k) = IF mode = "Extend" THEN d ELSE k
    BY <1>4 DEF RelativePlace
  <2>3. QED
    BY <1>12, <2>1, <2>2
<1>14. Store_!Write(Record(t))
  <2>1. AbstractSure' = AbstractSure
    BY <1>1, <1>7, <1>12
  <2>2. AbstractRecords' = Put(RecordsIn(bytes), AbstractPlace + 1, Record(t)) /\ AbstractPlace' = AbstractPlace + 1
        /\ AbstractDurable' \in AbstractDurable..Len(AbstractRecords') /\ AbstractPlace \in Nat
    BY <1>1, <1>5, <1>10, <1>12, <1>13
  <2>3. UNCHANGED <<locked, mode, lastReadValid, atEndSeen>>
    BY <1>6
  <2>4. QED
    BY <1>1, <1>2, <1>4, <1>6, <2>1, <2>2, <2>3, WrittenAs
<1>15. QED
  BY <1>2, <1>12, <1>14

(* What the calls by record number do to the slots.                        *)
LEMMA NumberedSlot ==
  ASSUME NEW k \in Numbers
  PROVE  k \in Nat /\ k > 0 /\ k \in 0..(MaxRecords + 1) /\ k * Width \in Nat
         /\ (k - 1) * Width \in Nat /\ k * Width = (k - 1) * Width + Width
<1>1. k \in Nat /\ k > 0 /\ k \in 0..(MaxRecords + 1) /\ k - 1 \in Nat /\ (k - 1) + 1 = k
  BY WidthPositive DEF Numbers
<1>2. k * Width \in Nat
  BY <1>1, WidthPositive, Multiples
<1> DEFINE l == k - 1
<1> HIDE DEF l
<1>3. l * Width \in Nat /\ (l + 1) * Width = l * Width + Width
  BY <1>1, WidthPositive, Multiples DEF l
<1>4. QED
  BY <1>1, <1>2, <1>3 DEF l

(* A slot is written in a file that is not open for EXTEND.                *)
LEMMA PutAt ==
  ASSUME IInv, IInv', StateOK, kind.organization = Relative, NEW n, NEW i, NEW q,
         RelativeOK(bytes, safe, mode, position, currentRecord, n, i, q),
         NEW k \in Numbers, NEW t \in Seq(Nat), Len(t) = Width,
         bytes' = WrittenAt(bytes, (k - 1) * Width, t), safe' = Len(bytes'), kind' = kind, mode' = mode,
         position' = k * Width, currentRecord' \in 0..(MaxRecords + 1), mode \in {"Output", "IoMode"}
  PROVE  /\ AbstractRecords' = Put(RecordsIn(bytes), k, IF t = Deleted THEN NoRecord ELSE Record(t))
         /\ AbstractDurable' = Len(AbstractRecords')
         /\ AbstractPlace' = k /\ AbstractSure' = (currentRecord' = k)
         /\ StateOK'
<1> DEFINE d == Larger(k, n)
<1>1. n \in Nat /\ Len(bytes) = n * Width /\ bytes \in Seq(Nat)
  BY RelativeBefore
<1>2. k \in Nat /\ k > 0
  BY NumberedSlot
<1>3. d \in Nat /\ Larger(n, k) = d
  BY <1>1, <1>2 DEF Larger
<1>4. safe' = d * Width
  <2> DEFINE c == WrittenAt(bytes, (k - 1) * Width, t)
  <2>1. Len(c) = Larger(n, k) * Width
    BY <1>1, <1>2, SlotWritten
  <2> HIDE DEF c, d
  <2>2. QED
    BY <1>3, <2>1 DEF c
<1>5. d \in 0..d
  BY <1>3
<1> HIDE DEF d
<1>6. mode # "Closed" /\ mode # "Extend" /\ d \in 0..Larger(k, n) /\ d = Larger(k, n)
  BY <1>5 DEF d
<1>7. /\ AbstractRecords' = Put(RecordsIn(bytes), k, IF t = Deleted THEN NoRecord ELSE Record(t))
      /\ Len(AbstractRecords') = Larger(k, n)
      /\ AbstractDurable' = d
      /\ AbstractPlace' = RelativePlace(mode, Larger(k, n), k)
      /\ AbstractSure' = (mode = "Extend" \/ currentRecord' = k)
      /\ StateOK'
  BY <1>2, <1>4, <1>6, PutRelative
<1>8. QED
  BY <1>6, <1>7 DEF RelativePlace

LEMMA WriteKeyed ==
  ASSUME KindsKeepRecords, IInv, IInv', StateOK, kind.organization = Relative, NEW n, NEW i, NEW q,
         RelativeOK(bytes, safe, mode, position, currentRecord, n, i, q),
         NEW k \in Numbers, NEW t \in kind.texts, WriteRelative(k, t)
  PROVE  StateOK' /\ \E r \in AllRecords : Store_!WriteAt(k, r)
<1>1. /\ t \in Seq(Nat) /\ Len(t) = Width /\ t # Deleted /\ Stored(t) = Record(t) /\ Record(t) \in AllRecords
  BY RelativeText
<1>2. k \in Nat /\ k > 0 /\ k \in 0..(MaxRecords + 1)
  BY NumberedSlot
<1>3. /\ AbstractRecords = RecordsIn(bytes) /\ Len(RecordsIn(bytes)) = n /\ n \in Nat
      /\ currentRecord \in 0..(MaxRecords + 1)
  BY RelativeBefore
<1>4. k \in Store_!Live <=> Present(bytes, k)
  BY RelativeLive
<1>5. /\ mode \in {"Output", "IoMode"} /\ kind' = kind /\ locked' = locked /\ mode' = mode /\ atEndSeen' = atEndSeen
      /\ position' = k * Width
  BY DEF WriteRelative
<1>6. CASE Present(bytes, k)
  <2>1. /\ AnswerOf("writeAt", k, FsDuplicateKey) /\ UNCHANGED <<kind, store, locked, mode, atEndSeen>>
        /\ currentRecord' = currentRecord /\ lastReadValid' = lastReadValid
    BY <1>6 DEF WriteRelative, Occupied
  <2>2. /\ AbstractRecords' = AbstractRecords /\ AbstractDurable' = AbstractDurable
        /\ AbstractPlace' = k /\ AbstractSure' = (currentRecord' = k) /\ StateOK'
    BY <1>2, <1>3, <1>5, <2>1, MovedRelative
  <2>3. Store_!Astray("writeAt", k, FsDuplicateKey)
    BY <1>2, <2>1, <2>2, AstrayAs
  <2>4. Store_!WriteAt(k, Record(t))
    BY <1>4, <1>5, <1>6, <2>3, SequenceStatuses DEF Store_!WriteAt
  <2>5. QED
    BY <1>1, <2>2, <2>4
<1>7. CASE ~Present(bytes, k)
  <2>1. /\ bytes' = WrittenAt(bytes, (k - 1) * Width, t) /\ safe' = Len(bytes')
        /\ currentRecord' = k /\ lastReadValid' = FALSE /\ DeliverOf("writeAt", k, Record(t))
    BY <1>1, <1>7 DEF WriteRelative, Occupied, Store, Offset
  <2>2. /\ AbstractRecords' = Put(RecordsIn(bytes), k, IF t = Deleted THEN NoRecord ELSE Record(t))
        /\ AbstractDurable' = Len(AbstractRecords')
        /\ AbstractPlace' = k /\ AbstractSure' = (currentRecord' = k) /\ StateOK'
    BY <1>1, <1>2, <1>5, <2>1, PutAt
  <2>3. AbstractRecords' = Put(RecordsIn(bytes), k, Record(t)) /\ AbstractSure' = TRUE
    BY <1>1, <2>1, <2>2
  <2>4. UNCHANGED <<locked, mode, atEndSeen>> /\ k \notin Store_!Live
    BY <1>4, <1>5, <1>7
  <2> DEFINE r == Record(t)
  <2> HIDE DEF r
  <2>5. /\ k \in Nat /\ mode \in {"Output", "IoMode"} /\ DeliverOf("writeAt", k, r) /\ lastReadValid' = FALSE
        /\ Len(AbstractRecords) \in Nat
        /\ AbstractRecords' = Put(AbstractRecords, k, r) /\ AbstractPlace' = k
        /\ AbstractDurable' = Len(AbstractRecords') /\ AbstractSure' = TRUE
    BY <1>2, <1>3, <1>5, <2>1, <2>2, <2>3 DEF r
  <2>7. Store_!WriteAt(k, r)
    BY <2>4, <2>5, WrittenAtAs
  <2>8. QED
    BY <1>1, <2>2, <2>7 DEF r
<1>8. QED
  BY <1>6, <1>7

(* REWRITE, and DELETE without a key, of the current record.               *)
LEMMA CurrentSlot ==
  ASSUME IInv, kind.organization = Relative, NEW n, NEW i, NEW q,
         RelativeOK(bytes, safe, mode, position, currentRecord, n, i, q), mode = "IoMode"
  PROVE  /\ Before(currentRecord) + 1 \in Numbers
         /\ CurrentOffset = ((Before(currentRecord) + 1) - 1) * Width
         /\ CurrentOffset + Width = (Before(currentRecord) + 1) * Width
         /\ AbstractPlace \in Nat /\ AbstractSure \in BOOLEAN
         /\ AbstractSure => Before(currentRecord) + 1 = Larger(AbstractPlace, 1)
         /\ AbstractSure /\ AbstractPlace > 0 => currentRecord = Before(currentRecord) + 1
<1> DEFINE l == Before(currentRecord)
           c == currentRecord
<1>1. /\ c \in 0..(MaxRecords + 1) /\ q \in Nat
      /\ AbstractPlace = RelativePlace(mode, n, q)
      /\ AbstractSure = (mode = "Extend" \/ c = RelativePlace(mode, n, q))
  BY RelativeBefore
<1>2. AbstractPlace = q /\ AbstractSure = (c = q)
  BY <1>1 DEF RelativePlace
<1> HIDE DEF c
<1>3. l \in Nat /\ l + 1 \in Numbers /\ (l + 1) - 1 = l /\ (c > 0 => c = l + 1) /\ (c = 0 => l = 0)
  BY <1>1, WidthPositive DEF Before, Numbers, c
<1>4. CurrentOffset = l * Width
  BY DEF CurrentOffset
<1> HIDE DEF l
<1>5. (l + 1) * Width = l * Width + Width
  BY <1>3, WidthPositive, Multiples
<1>6. c = q => l + 1 = Larger(q, 1)
  BY <1>1, <1>3 DEF Larger
<1>7. CurrentOffset = ((l + 1) - 1) * Width /\ CurrentOffset + Width = (l + 1) * Width
  BY <1>3, <1>4, <1>5
<1>8. QED
  BY <1>1, <1>2, <1>3, <1>6, <1>7 DEF l, c

LEMMA RewriteSlot ==
  ASSUME KindsKeepRecords, IInv, IInv', StateOK, kind.organization = Relative, NEW n, NEW i, NEW q,
         RelativeOK(bytes, safe, mode, position, currentRecord, n, i, q),
         NEW t \in kind.texts, Rewrite(t)
  PROVE  StateOK' /\ \E r \in AllRecords : Store_!Rewrite(r)
<1> DEFINE k == Before(currentRecord) + 1
<1>1. /\ t \in Seq(Nat) /\ Len(t) = Width /\ t # Deleted /\ Record(t) \in AllRecords
  BY RelativeText
<1>2. mode = "IoMode" /\ lastReadValid
  <2>1. RewriteStatus(t) = FsOk
    BY DEF Rewrite
  <2>2. FsIoModeRequired # FsOk /\ FsRewriteWithoutRead # FsOk
    BY DEF FsIoModeRequired, FsOk, FsRewriteWithoutRead
  <2>3. QED
    BY <2>1, <2>2 DEF RewriteStatus
<1>3. /\ AbstractRecords = RecordsIn(bytes) /\ Len(RecordsIn(bytes)) = n /\ n \in Nat
      /\ currentRecord \in 0..(MaxRecords + 1)
  BY RelativeBefore
<1>4. /\ k \in Numbers /\ CurrentOffset = (k - 1) * Width /\ CurrentOffset + Width = k * Width
      /\ AbstractPlace \in Nat /\ AbstractSure \in BOOLEAN
      /\ AbstractSure => k = Larger(AbstractPlace, 1)
      /\ AbstractSure /\ AbstractPlace > 0 => currentRecord = k
  BY <1>2, CurrentSlot
<1>5. /\ kind' = kind /\ locked' = locked /\ mode' = mode /\ lastReadValid' = lastReadValid
      /\ atEndSeen' = atEndSeen /\ currentRecord' = currentRecord /\ Deliver("rewrite", Record(t))
      /\ bytes' = WrittenAt(bytes, CurrentOffset, t) /\ safe' = Len(bytes')
      /\ position' = CurrentOffset + Width
  BY <1>1 DEF Rewrite, Overwrite, Store
<1> HIDE DEF k
<1>6. k \in Nat
  BY <1>4, NumberedSlot
<1>7. /\ AbstractRecords' = Put(RecordsIn(bytes), k, IF t = Deleted THEN NoRecord ELSE Record(t))
      /\ AbstractDurable' = Len(AbstractRecords')
      /\ AbstractPlace' = k /\ AbstractSure' = (currentRecord' = k) /\ StateOK'
  BY <1>1, <1>2, <1>3, <1>4, <1>5, PutAt
<1>8. AbstractRecords' = Put(RecordsIn(bytes), k, Record(t))
  BY <1>1, <1>7
<1>9. AbstractSure' \in BOOLEAN /\ (AbstractSure /\ AbstractPlace > 0 => AbstractSure')
  BY <1>4, <1>5, <1>7
<1>10. UNCHANGED <<locked, mode, lastReadValid, atEndSeen>> /\ lastReadValid \in BOOLEAN
  BY <1>5 DEF IInv, CursorOK
<1>11. Store_!Rewrite(Record(t))
  BY <1>2, <1>3, <1>4, <1>5, <1>6, <1>7, <1>8, <1>9, <1>10, RewrittenAs
<1>12. QED
  BY <1>1, <1>7, <1>11

LEMMA DeletedSlot == Deleted \in Seq(Nat) /\ Len(Deleted) = Width
<1>1. Deleted \in [1..Width -> Nat] /\ Width \in Nat
  BY WidthPositive DEF Deleted, Zero
<1>2. QED
  BY <1>1, FunctionIsSequence

LEMMA DeleteSlot ==
  ASSUME IInv, IInv', StateOK, kind.organization = Relative, NEW n, NEW i, NEW q,
         RelativeOK(bytes, safe, mode, position, currentRecord, n, i, q), Delete
  PROVE  StateOK' /\ Store_!Delete
<1> DEFINE k == Before(currentRecord) + 1
<1>1. mode = "IoMode"
  BY DEF Delete
<1>2. /\ AbstractRecords = RecordsIn(bytes) /\ Len(RecordsIn(bytes)) = n /\ n \in Nat
      /\ currentRecord \in 0..(MaxRecords + 1)
  BY RelativeBefore
<1>3. /\ k \in Numbers /\ CurrentOffset = (k - 1) * Width /\ CurrentOffset + Width = k * Width
      /\ AbstractPlace \in Nat /\ AbstractSure \in BOOLEAN
      /\ AbstractSure => k = Larger(AbstractPlace, 1)
      /\ AbstractSure /\ AbstractPlace > 0 => currentRecord = k
  BY <1>1, CurrentSlot
<1>4. /\ kind' = kind /\ locked' = locked /\ mode' = mode /\ lastReadValid' = lastReadValid
      /\ atEndSeen' = atEndSeen /\ currentRecord' = currentRecord /\ Answer("delete", FsOk)
      /\ bytes' = WrittenAt(bytes, CurrentOffset, Deleted) /\ safe' = Len(bytes')
      /\ position' = CurrentOffset + Width
  BY DeletedSlot DEF Delete, Overwrite, Store
<1> HIDE DEF k
<1>5. k \in Nat
  BY <1>3, NumberedSlot
<1>6. /\ AbstractRecords' = Put(RecordsIn(bytes), k, IF Deleted = Deleted THEN NoRecord ELSE Record(Deleted))
      /\ AbstractDurable' = Len(AbstractRecords')
      /\ AbstractPlace' = k /\ AbstractSure' = (currentRecord' = k) /\ StateOK'
  BY <1>1, <1>2, <1>3, <1>4, DeletedSlot, PutAt
<1>7. AbstractRecords' = Put(RecordsIn(bytes), k, NoRecord)
  BY <1>6
<1>8. AbstractSure' \in BOOLEAN /\ (AbstractSure /\ AbstractPlace > 0 => AbstractSure')
  BY <1>3, <1>4, <1>6
<1>9. UNCHANGED <<locked, mode, lastReadValid, atEndSeen>>
  BY <1>4
<1>10. Store_!Delete
  BY <1>1, <1>2, <1>3, <1>4, <1>5, <1>6, <1>7, <1>8, <1>9, DeletedAs
<1>11. QED
  BY <1>6, <1>10

LEMMA DeleteKeyed ==
  ASSUME IInv, IInv', StateOK, kind.organization = Relative, NEW n, NEW i, NEW q,
         RelativeOK(bytes, safe, mode, position, currentRecord, n, i, q),
         NEW k \in Numbers, DeleteRelative(k)
  PROVE  StateOK' /\ Store_!DeleteAt(k)
<1>1. mode = "IoMode"
  BY DEF DeleteRelative
<1>2. /\ AbstractRecords = RecordsIn(bytes) /\ Len(RecordsIn(bytes)) = n /\ n \in Nat
  BY RelativeBefore
<1>3. k \in Nat /\ k \in 0..(MaxRecords + 1)
  BY NumberedSlot
<1>4. /\ kind' = kind /\ locked' = locked /\ mode' = mode /\ lastReadValid' = FALSE
      /\ atEndSeen' = atEndSeen /\ currentRecord' = k /\ AnswerOf("deleteAt", k, FsOk)
      /\ bytes' = WrittenAt(bytes, (k - 1) * Width, Deleted) /\ safe' = Len(bytes')
      /\ position' = k * Width
  BY DEF DeleteRelative, Store, Offset
<1>5. /\ AbstractRecords' = Put(RecordsIn(bytes), k, IF Deleted = Deleted THEN NoRecord ELSE Record(Deleted))
      /\ AbstractDurable' = Len(AbstractRecords')
      /\ AbstractPlace' = k /\ AbstractSure' = (currentRecord' = k) /\ StateOK'
  BY <1>1, <1>3, <1>4, DeletedSlot, PutAt
<1>6. AbstractRecords' = Put(RecordsIn(bytes), k, NoRecord) /\ AbstractSure' = TRUE
  BY <1>4, <1>5
<1>7. UNCHANGED <<locked, mode, atEndSeen>>
  BY <1>4
<1>8. Store_!DeleteAt(k)
  BY <1>1, <1>2, <1>3, <1>4, <1>5, <1>6, <1>7, DeletedAtAs
<1>9. QED
  BY <1>5, <1>8

LEMMA StartedAs ==
  ASSUME NEW k, NEW relation \in Relations, mode # "Closed", NEW S, Store_!Satisfying(relation, k) = S, S # {},
         AnswerOf(relation, k, FsOk), lastReadValid' = FALSE, atEndSeen' = FALSE,
         UNCHANGED <<kind, store, locked, mode>>,
         AbstractPlace' = First(S, relation) - 1, AbstractSure' = TRUE,
         AbstractRecords' = AbstractRecords, AbstractDurable' = AbstractDurable
  PROVE  Store_!Start(k, relation)
<1>1. Store_!SaysOf(relation, k, FsOk)
  BY SequenceAnswers
<1>2. First(S, relation) = IF relation \in {"LT", "LE"} THEN Store_!Max(S) ELSE Store_!Min(S)
  BY DEF First, Backward, Store_!Max, Max, Store_!Min, Min
<1>3. locked' = locked /\ mode' = mode
  OBVIOUS
<1> DEFINE f == First(S, relation)
<1>4. f = IF relation \in {"LT", "LE"} THEN Store_!Max(S) ELSE Store_!Min(S)
  BY <1>2
<1> HIDE DEF f
<1>5. AbstractPlace' = f - 1
  BY DEF f
<1>6. QED
  BY <1>1, <1>3, <1>4, <1>5, SequenceStatuses DEF Store_!Start

(* The records START finds are those of the sequence of records.           *)
LEMMA SearchedLive ==
  ASSUME IInv, kind.organization = Relative, NEW n, NEW i, NEW q,
         RelativeOK(bytes, safe, mode, position, currentRecord, n, i, q),
         NEW k \in Numbers, NEW relation \in Relations
  PROVE  {m \in (IF bytes = <<>> THEN {} ELSE Searched(k, relation)) : Present(bytes, m)}
           = Store_!Satisfying(relation, k)
<1>1. n \in Nat /\ Len(bytes) = n * Width /\ k \in Nat /\ k > 0 /\ Width \in Nat /\ Width > 0
  <2>1. n \in Nat /\ Len(bytes) = n * Width
    BY RelativeBefore
  <2>2. QED
    BY <2>1, NumberedSlot, WidthPositive
<1>2. /\ Slots(bytes) = n /\ Store_!Live = {m \in 1..n : Present(bytes, m)}
      /\ \A m : Present(bytes, m) => m \in 1..n
  BY RelativeLive
<1>3. CASE bytes = <<>>
  <2>1. n = 0
    <3>1. Len(bytes) = 0
      BY <1>3
    <3>2. n > 0 => n * Width > 0
      BY <1>1
    <3>3. QED
      BY <1>1, <3>1, <3>2
  <2>2. 1..n = {}
    BY <2>1
  <2>3. Store_!Live = {}
    BY <1>2, <2>2
  <2>4. Store_!Satisfying(relation, k) = {}
    BY <2>3 DEF Store_!Satisfying
  <2>5. QED
    BY <1>3, <2>4
<1>4. CASE bytes # <<>>
  <2> DEFINE S == Searched(k, relation)
             below == Min({k - 1, n})
             upto == Min({k, n})
  <2>1. /\ below \in Nat /\ upto \in Nat
        /\ \A m \in Nat : (m <= below <=> m < k /\ m <= n) /\ (m <= upto <=> m <= k /\ m <= n)
    <3>1. {k - 1, n} \in SUBSET Nat /\ {k, n} \in SUBSET Nat
      BY <1>1
    <3>2. /\ below \in {k - 1, n} /\ below <= k - 1 /\ below <= n
          /\ upto \in {k, n} /\ upto <= k /\ upto <= n
      BY <3>1, MinIsLeast
    <3> HIDE DEF below, upto
    <3>3. QED
      BY <1>1, <3>2
  <2>2. S = CASE relation = "EQ" -> k..k
              [] relation = "GT" -> (k + 1)..n
              [] relation = "GE" -> k..n
              [] relation = "LT" -> 1..below
              [] relation = "LE" -> 1..upto
    BY <1>2 DEF Searched
  <2> HIDE DEF below, upto, S
  <2>3. ASSUME NEW m \in 1..n
        PROVE  m \in S <=> (CASE relation = "EQ" -> m = k
                              [] relation = "GT" -> m > k
                              [] relation = "GE" -> m >= k
                              [] relation = "LT" -> m < k
                              [] relation = "LE" -> m <= k)
    <3>1. CASE relation = "EQ"
      BY <1>1, <2>2, <3>1
    <3>2. CASE relation = "GT"
      BY <1>1, <2>2, <3>2
    <3>3. CASE relation = "GE"
      BY <1>1, <2>2, <3>3
    <3>4. CASE relation = "LT"
      <4>1. S = 1..below /\ m \in Nat /\ m >= 1 /\ m <= n
        BY <1>1, <2>2, <3>4
      <4>2. m <= below <=> m < k
        BY <2>1, <4>1
      <4>3. m \in S <=> m <= below
        BY <2>1, <4>1
      <4>4. QED
        BY <3>4, <4>2, <4>3
    <3>5. CASE relation = "LE"
      <4>1. S = 1..upto /\ m \in Nat /\ m >= 1 /\ m <= n
        BY <1>1, <2>2, <3>5
      <4>2. m <= upto <=> m <= k
        BY <2>1, <4>1
      <4>3. m \in S <=> m <= upto
        BY <2>1, <4>1
      <4>4. QED
        BY <3>5, <4>2, <4>3
    <3>6. QED
      BY <3>1, <3>2, <3>3, <3>4, <3>5 DEF Relations
  <2>4. Store_!Satisfying(relation, k)
          = {m \in Store_!Live : CASE relation = "EQ" -> m = k
                                   [] relation = "GT" -> m > k
                                   [] relation = "GE" -> m >= k
                                   [] relation = "LT" -> m < k
                                   [] relation = "LE" -> m <= k}
    BY DEF Store_!Satisfying
  <2>5. \A m \in 1..n : Present(bytes, m) => (m \in S <=> m \in Store_!Satisfying(relation, k))
    BY <1>2, <2>3, <2>4
  <2>6. Store_!Satisfying(relation, k) \subseteq {m \in 1..n : Present(bytes, m)}
    BY <1>2, <2>4
  <2>7. {m \in S : Present(bytes, m)} = Store_!Satisfying(relation, k)
    BY <1>2, <2>5, <2>6
  <2>8. QED
    BY <1>4, <2>7 DEF S
<1>5. QED
  BY <1>3, <1>4

LEMMA StartSlot ==
  ASSUME IInv, IInv', StateOK, kind.organization = Relative, NEW n, NEW i, NEW q,
         RelativeOK(bytes, safe, mode, position, currentRecord, n, i, q),
         NEW k \in Numbers, NEW relation \in Relations, StartRelative(k, relation)
  PROVE  StateOK' /\ Store_!Start(k, relation)
<1> DEFINE searched == IF bytes = <<>> THEN {} ELSE Searched(k, relation)
           live == {m \in searched : Present(bytes, m)}
           f == First(live, relation)
           g == Final(searched, relation)
<1>1. live = Store_!Satisfying(relation, k)
  BY SearchedLive
<1>2. /\ n \in Nat /\ q \in Nat /\ k \in Nat /\ k > 0 /\ currentRecord \in 0..(MaxRecords + 1)
      /\ position = q * Width
  <2>1. n \in Nat /\ q \in Nat /\ position = q * Width /\ currentRecord \in 0..(MaxRecords + 1)
    BY RelativeBefore
  <2>2. QED
    BY <2>1, NumberedSlot
<1>3. /\ mode \in {"Input", "IoMode", "Output"} /\ UNCHANGED <<kind, store, locked, mode>>
      /\ \/ /\ live # {} /\ position' = Offset(f) /\ currentRecord' = f - 1
            /\ lastReadValid' = FALSE /\ atEndSeen' = FALSE /\ AnswerOf(relation, k, FsOk)
         \/ /\ live = {} /\ position' = (IF searched = {} THEN position ELSE Offset(g))
            /\ AnswerOf(relation, k, FsRecNotFound)
            /\ currentRecord' = currentRecord /\ lastReadValid' = lastReadValid /\ atEndSeen' = atEndSeen
  BY DEF StartRelative
<1>4. searched \in SUBSET Nat /\ \A m \in searched : m > 0 /\ m <= k + n
  <2>1. Slots(bytes) = n
    BY RelativeLive
  <2>2. QED
    BY <1>2, <2>1, SearchedSlots
<1>5. live \subseteq searched /\ \A m \in live : m \in 1..n
  BY RelativeLive
<1>6. n <= MaxRecords
  <2>1. n * Width <= MaxRecords * Width
    <3>1. ~kind.varying
      BY KindProperties DEF IInv, HandleOK
    <3>2. Len(bytes) <= MaxRecords * (Width + 0) /\ Width + 0 = Width
      BY <3>1, WidthPositive DEF IInv, StoreOK, Fits
    <3>3. QED
      BY <3>2, RelativeBefore
  <2>2. QED
    BY <1>2, <2>1, WidthPositive, Multiples
<1> HIDE DEF live, searched
<1>7. CASE live # {}
  <2>1. f \in live
    <3>1. live \in SUBSET Nat /\ \A m \in live : m <= n
      BY <1>2, <1>5
    <3>2. Min(live) \in live /\ Max(live) \in live
      BY <1>2, <1>7, <3>1, MinIsLeast, MaxIsGreatest
    <3>3. QED
      BY <3>2 DEF First
  <2> HIDE DEF f
  <2>2. f \in 1..n
    BY <1>5, <2>1
  <2>3. f - 1 \in Nat /\ f - 1 \in 0..(MaxRecords + 1)
    BY <1>2, <1>6, <2>2, WidthPositive
  <2>4. /\ position' = (f - 1) * Width /\ currentRecord' = f - 1
        /\ lastReadValid' = FALSE /\ atEndSeen' = FALSE /\ AnswerOf(relation, k, FsOk)
    BY <1>3, <1>7 DEF Offset
  <2>5. /\ AbstractRecords' = AbstractRecords /\ AbstractDurable' = AbstractDurable
        /\ AbstractPlace' = f - 1 /\ AbstractSure' = (currentRecord' = f - 1) /\ StateOK'
    BY <1>3, <2>3, <2>4, MovedRelative
  <2>6. mode # "Closed" /\ AbstractSure' = TRUE
    BY <1>3, <2>4, <2>5
  <2>7. Store_!Start(k, relation)
    BY <1>1, <1>3, <1>7, <2>4, <2>5, <2>6, StartedAs DEF f
  <2>8. QED
    BY <2>5, <2>7
<1>8. CASE live = {}
  <2>1. /\ position' = (IF searched = {} THEN position ELSE Offset(g))
        /\ AnswerOf(relation, k, FsRecNotFound)
        /\ currentRecord' = currentRecord /\ lastReadValid' = lastReadValid /\ atEndSeen' = atEndSeen
    BY <1>3, <1>8
  <2>2. \E p \in Nat : position' = p * Width
    <3>1. CASE searched = {}
      BY <1>2, <2>1, <3>1
    <3>2. CASE searched # {}
      <4>1. k + n \in Nat
        BY <1>2
      <4>2. Min(searched) \in searched /\ Max(searched) \in searched
        BY <1>4, <3>2, <4>1, MinIsLeast, MaxIsGreatest
      <4>3. g \in searched
        BY <4>2 DEF Final
      <4> HIDE DEF g
      <4>4. g - 1 \in Nat
        BY <1>4, <4>3
      <4>5. position' = (g - 1) * Width
        BY <2>1, <3>2 DEF Offset
      <4>6. QED
        BY <4>4, <4>5
    <3>3. QED
      BY <3>1, <3>2
  <2>3. PICK p \in Nat : position' = p * Width
    BY <2>2
  <2>4. /\ AbstractRecords' = AbstractRecords /\ AbstractDurable' = AbstractDurable
        /\ AbstractPlace' = p /\ AbstractSure' = (currentRecord' = p) /\ StateOK'
    BY <1>2, <1>3, <2>1, <2>3, MovedRelative
  <2>5. Store_!Astray(relation, k, FsRecNotFound)
    <3>1. UNCHANGED <<kind, store, locked, mode, atEndSeen>> /\ lastReadValid' \in {lastReadValid, FALSE}
      BY <1>3, <2>1
    <3>2. AbstractPlace' \in Nat /\ AbstractSure' \in BOOLEAN
      BY <2>4
    <3>3. QED
      BY <2>1, <2>4, <3>1, <3>2, AstrayAs
  <2>6. mode # "Closed" /\ Store_!Satisfying(relation, k) = {}
    BY <1>1, <1>3, <1>8
  <2>7. Store_!Start(k, relation)
    BY <2>5, <2>6, SequenceStatuses DEF Store_!Start
  <2>8. QED
    BY <2>4, <2>7
<1>9. QED
  BY <1>3, <1>7, <1>8

-----------------------------------------------------------------------------
(* The calls that are refused, and the step of any call                    *)

LEMMA RefusedKeeps ==
  ASSUME StateOK, NEW op, NEW status, Refuse(op, status)
  PROVE  StateOK'
<1>1. /\ kind' = kind /\ bytes' = bytes /\ safe' = safe /\ mode' = mode
      /\ position' = position /\ currentRecord' = currentRecord
  BY DEF Refuse, store, cursor
<1>2. QED
  BY <1>1 DEF StateOK

(* A file that is not there has no records.                                *)
LEMMA NothingThere ==
  ASSUME IInv, StateOK, ~exists
  PROVE  AbstractRecords = <<>>
<1>1. bytes = <<>> /\ kind \in Kinds
  BY DEF IInv, HandleOK, StoreOK
<1>2. CASE kind.organization = Relative
  BY <1>1, <1>2, NoSlots, MappedBytes DEF RecordsOf
<1>3. CASE kind.organization # Relative
  <2>1. Holds(kind, <<>>, [i \in 0..0 |-> 0], <<>>)
    BY <1>1, <1>3, HoldsNothing
  <2>2. RecordsOf(kind, <<>>) = Recs(<<>>)
    BY <1>1, <1>3, <2>1, RecordsRead
  <2>3. Recs(<<>>) = <<>>
    BY DEF Recs
  <2>4. QED
    BY <1>1, <2>2, <2>3, MappedBytes
<1>4. QED
  BY <1>2, <1>3

LEMMA RefusedOpen ==
  ASSUME IInv, StateOK, NEW m \in kind.modes, OpenRefused(m)
  PROVE  StateOK' /\ Store_!Refused
<1>1. "open" \in RefusedOps /\ {FsLocked, FsAlreadyOpen, FsNotFound} \subseteq RefusedStatuses
  BY DEF RefusedOps, RefusedStatuses
<1>2. CASE locked /\ Refuse("open", FsLocked)
  <2>1. Store_!Refused
    BY <1>1, <1>2, StatusesDiffer, RefusedAs
  <2>2. QED
    BY <1>2, <2>1, RefusedKeeps
<1>3. CASE mode # "Closed" /\ Refuse("open", FsAlreadyOpen)
  <2>1. Store_!Refused
    BY <1>1, <1>3, StatusesDiffer, RefusedAs
  <2>2. QED
    BY <1>3, <2>1, RefusedKeeps
<1>4. CASE ~exists /\ Refuse("open", FsNotFound)
  <2>1. Store_!Refused
    BY <1>1, <1>4, NothingThere, StatusesDiffer, RefusedAs
  <2>2. QED
    BY <1>4, <2>1, RefusedKeeps
<1>5. QED
  BY <1>2, <1>3, <1>4 DEF OpenRefused

LEMMA RefusedPlainly ==
  ASSUME StateOK, NEW op \in RefusedOps,
         NEW status \in {FsReadNotPermitted, FsWriteNotPermitted, FsIoModeRequired,
                         FsRecordLengthMismatch, FsIoError},
         Refuse(op, status)
  PROVE  StateOK' /\ Store_!Refused
<1>1. status \in RefusedStatuses
  BY DEF RefusedStatuses
<1>2. status \notin {FsLocked, FsAlreadyOpen, FsNotOpen, FsNotFound, FsRewriteWithoutRead}
  BY StatusesDiffer
<1>3. Store_!Refused
  BY <1>1, <1>2, RefusedAs
<1>4. QED
  BY <1>3, RefusedKeeps

LEMMA RefusedUnopened ==
  ASSUME StateOK, NEW op \in RefusedOps, mode = "Closed", Refuse(op, FsNotOpen)
  PROVE  StateOK' /\ Store_!Refused
<1>1. FsNotOpen \in RefusedStatuses
  BY DEF RefusedStatuses
<1>2. Store_!Refused
  BY <1>1, StatusesDiffer, RefusedAs
<1>3. QED
  BY <1>2, RefusedKeeps

LEMMA RefusedRewrite ==
  ASSUME IInv, StateOK, NEW t \in kind.texts, RewriteRefused(t)
  PROVE  StateOK' /\ Store_!Refused
<1>1. "rewrite" \in RefusedOps /\ FsRewriteWithoutRead \in RefusedStatuses
  BY DEF RefusedOps, RefusedStatuses
<1>2. \/ RewriteStatus(t) = FsIoModeRequired
      \/ mode = "IoMode" /\ ~lastReadValid /\ RewriteStatus(t) = FsRewriteWithoutRead
      \/ RewriteStatus(t) = FsRecordLengthMismatch
      \/ RewriteStatus(t) = FsOk
  BY DEF RewriteStatus, IInv, CursorOK
<1>3. CASE mode = "IoMode" /\ ~lastReadValid /\ Refuse("rewrite", FsRewriteWithoutRead)
  <2>1. Store_!Refused
    BY <1>1, <1>3, StatusesDiffer, RefusedAs
  <2>2. QED
    BY <1>3, <2>1, RefusedKeeps
<1>4. CASE Refuse("rewrite", FsIoModeRequired) \/ Refuse("rewrite", FsRecordLengthMismatch)
  BY <1>1, <1>4, RefusedPlainly
<1>5. QED
  BY <1>2, <1>3, <1>4 DEF RewriteRefused

LEMMA RefusedOthers ==
  ASSUME StateOK,
         \/ CloseUnopened \/ ReadRefused \/ WriteRefused \/ WriteRelativeRefused
         \/ DeleteRefused \/ StartRefused
  PROVE  StateOK' /\ Store_!Refused
<1>1. {"close", "readNext", "write", "writeAt", "delete", "start"} \subseteq RefusedOps
  BY DEF RefusedOps
<1>2. CASE CloseUnopened
  BY <1>1, <1>2, RefusedUnopened DEF CloseUnopened
<1>3. CASE ReadRefused
  BY <1>1, <1>3, RefusedPlainly DEF ReadRefused
<1>4. CASE WriteRefused \/ WriteRelativeRefused
  BY <1>1, <1>4, RefusedPlainly DEF WriteRefused, WriteRelativeRefused
<1>5. CASE DeleteRefused
  BY <1>1, <1>5, RefusedPlainly DEF DeleteRefused
<1>6. CASE StartRefused
  <2>1. CASE mode = "Closed" /\ Refuse("start", FsNotOpen)
    BY <1>1, <2>1, RefusedUnopened
  <2>2. CASE Refuse("start", FsIoError)
    BY <1>1, <2>2, RefusedPlainly
  <2>3. QED
    BY <1>6, <2>1, <2>2 DEF StartRefused
<1>7. QED
  BY <1>2, <1>3, <1>4, <1>5, <1>6

(* There is no record 0, and nothing changes when it is asked for.         *)
LEMMA RefusedZero ==
  ASSUME StateOK, ReadZero \/ WriteZero \/ DeleteZero \/ StartZero
  PROVE  StateOK' /\ Store_!Refused
<1>1. PICK op \in Store_!ByNumber : Refuse(op, FsRecNotFound)
  BY DEF ReadZero, WriteZero, DeleteZero, StartZero, Store_!ByNumber
<1>2. Store_!Says(op, FsRecNotFound)
  BY <1>1, SequenceAnswers DEF Refuse
<1>3. UNCHANGED <<kind, store, locked, mode, cursor>>
  BY <1>1 DEF Refuse
<1>4. /\ AbstractRecords' = AbstractRecords /\ AbstractDurable' = AbstractDurable
      /\ AbstractPlace' = AbstractPlace /\ AbstractSure' = AbstractSure
  BY <1>3, SameShown
<1>5. locked' = locked /\ mode' = mode /\ lastReadValid' = lastReadValid /\ atEndSeen' = atEndSeen
  BY <1>3 DEF cursor
<1>6. FsRecNotFound \notin {FsLocked, FsAlreadyOpen, FsNotOpen, FsNotFound, FsRewriteWithoutRead}
  BY DEF FsRecNotFound, FsNotFound, FsLocked, FsAlreadyOpen, FsNotOpen, FsRewriteWithoutRead
<1>7. Store_!Refused
  BY <1>1, <1>2, <1>4, <1>5, <1>6, SequenceStatuses DEF Store_!Refused
<1>8. QED
  BY <1>1, <1>7, RefusedKeeps

(* The calls of a sequential or line-sequential file.                      *)
LEMMA SequenceStep ==
  ASSUME KindsKeepRecords, IInv, IInv', StateOK, kind.organization # Relative, Next
  PROVE  StateOK' /\ Store_!Next
<1>1. PICK o, ts, i : SequenceOK(kind, bytes, safe, mode, position, currentRecord, o, ts, i)
  BY DEF StateOK
<1>2. ~IsRelative /\ ~kind.keyed /\ kind.access # "Dynamic"
  BY KindProperties DEF IInv, HandleOK, IsRelative
<1>3. ASSUME NEW m \in kind.modes, Open(m) \/ OpenRefused(m)
      PROVE  StateOK' /\ Store_!Next
  <2>1. CASE Open(m)
    BY <1>1, <2>1, OpenSequence DEF Store_!Next
  <2>2. CASE OpenRefused(m)
    BY <2>2, RefusedOpen DEF Store_!Next
  <2>3. QED
    BY <1>3, <2>1, <2>2
<1>4. CASE (\E lock \in {FALSE, kind.locking} : Close(lock)) \/ StopRun
  BY <1>1, <1>4, CloseSequence DEF Store_!Next
<1>5. CASE Crash
  BY <1>1, <1>5, CrashSequence DEF Store_!Next
<1>6. CASE CloseUnopened \/ ReadRefused \/ WriteRefused
  BY <1>6, RefusedOthers DEF Store_!Next
<1>7. CASE ReadNextRecord
  BY <1>1, <1>7, ReadSequence DEF Store_!Next
<1>8. ASSUME NEW t \in kind.texts, Rewrite(t) \/ RewriteRefused(t)
      PROVE  StateOK' /\ Store_!Next
  <2>1. CASE Rewrite(t)
    BY <1>1, <2>1, RewriteSequence DEF Store_!Next
  <2>2. CASE RewriteRefused(t)
    BY <2>2, RefusedRewrite DEF Store_!Next
  <2>3. QED
    BY <1>8, <2>1, <2>2
<1>9. ASSUME NEW t \in kind.texts, WriteNext(t)
      PROVE  StateOK' /\ Store_!Next
  BY <1>1, <1>9, WriteSequence DEF Store_!Next
<1>10. ~ReadNextSlot
  BY <1>2 DEF ReadNextSlot
<1>11. CASE Calls
  BY <1>3, <1>4, <1>5, <1>6, <1>7, <1>8, <1>10, <1>11 DEF Calls
<1>12. CASE SequentialCalls
  BY <1>2, <1>6, <1>9, <1>12 DEF SequentialCalls
<1>13. QED
  BY <1>2, <1>11, <1>12 DEF Next, KeyedCalls, DynamicCalls

(* The calls of a relative file.                                           *)
LEMMA RelativeStep ==
  ASSUME KindsKeepRecords, IInv, IInv', StateOK, kind.organization = Relative, Next
  PROVE  StateOK' /\ Store_!Next
<1>1. PICK n, i, q : RelativeOK(bytes, safe, mode, position, currentRecord, n, i, q)
  BY DEF StateOK
<1>2. IsRelative
  BY DEF IsRelative
<1>3. ASSUME NEW m \in kind.modes, Open(m) \/ OpenRefused(m)
      PROVE  StateOK' /\ Store_!Next
  <2>1. CASE Open(m)
    BY <1>1, <2>1, OpenRelative DEF Store_!Next
  <2>2. CASE OpenRefused(m)
    BY <2>2, RefusedOpen DEF Store_!Next
  <2>3. QED
    BY <1>3, <2>1, <2>2
<1>4. CASE (\E lock \in {FALSE, kind.locking} : Close(lock)) \/ StopRun
  BY <1>1, <1>4, CloseRelative DEF Store_!Next
<1>5. CASE Crash
  BY <1>1, <1>5, CrashRelative DEF Store_!Next
<1>6. CASE \/ CloseUnopened \/ ReadRefused \/ WriteRefused \/ WriteRelativeRefused
           \/ DeleteRefused \/ StartRefused
  BY <1>6, RefusedOthers DEF Store_!Next
<1>7. CASE ReadNextSlot
  BY <1>1, <1>7, ReadSlot DEF Store_!Next
<1>8. ASSUME NEW t \in kind.texts, Rewrite(t) \/ RewriteRefused(t)
      PROVE  StateOK' /\ Store_!Next
  <2>1. CASE Rewrite(t)
    BY <1>1, <2>1, RewriteSlot DEF Store_!Next
  <2>2. CASE RewriteRefused(t)
    BY <2>2, RefusedRewrite DEF Store_!Next
  <2>3. QED
    BY <1>8, <2>1, <2>2
<1>9. ASSUME NEW t \in kind.texts, WriteNext(t)
      PROVE  StateOK' /\ Store_!Next
  BY <1>1, <1>9, WriteSlot DEF Store_!Next
<1>10. CASE Delete
  BY <1>1, <1>10, DeleteSlot DEF Store_!Next
<1>11. ASSUME NEW k \in Numbers, DeleteRelative(k)
       PROVE  StateOK' /\ Store_!Next
  BY <1>1, <1>11, DeleteKeyed DEF Store_!Next
<1>12. ASSUME NEW k \in Numbers, NEW relation \in Relations, StartRelative(k, relation)
       PROVE  StateOK' /\ Store_!Next
  BY <1>1, <1>12, StartSlot DEF Store_!Next, Relations
<1>13. ASSUME NEW k \in Numbers, ReadRelative(k)
       PROVE  StateOK' /\ Store_!Next
  BY <1>1, <1>13, ReadKeyed DEF Store_!Next
<1>14. ASSUME NEW k \in Numbers, NEW t \in kind.texts, WriteRelative(k, t)
       PROVE  StateOK' /\ Store_!Next
  BY <1>1, <1>14, WriteKeyed DEF Store_!Next
<1>15. ~ReadNextRecord
  BY <1>2 DEF ReadNextRecord
<1>16. CASE Calls
  BY <1>3, <1>4, <1>5, <1>6, <1>7, <1>8, <1>15, <1>16 DEF Calls
<1>17. CASE SequentialCalls
  BY <1>6, <1>9, <1>10, <1>17 DEF SequentialCalls
<1>18. CASE KeyedCalls
  BY <1>6, <1>11, <1>12, <1>18, RefusedZero DEF KeyedCalls, Store_!Next
<1>19. CASE DynamicCalls
  BY <1>6, <1>13, <1>14, <1>19, RefusedZero DEF DynamicCalls, Store_!Next
<1>20. QED
  BY <1>16, <1>17, <1>18, <1>19 DEF Next

(* One step of the file is one of the sequence of records, or none.        *)
LEMMA FileStep ==
  ASSUME KindsKeepRecords, IInv, IInv', StateOK, [Next]_vars
  PROVE  StateOK' /\ [Store_!Next]_(Store_!vars)
<1>1. CASE Next
  BY <1>1, SequenceStep, RelativeStep
<1>2. CASE UNCHANGED vars
  <2>1. UNCHANGED <<kind, store, mode, cursor>> /\ locked' = locked /\ reply' = reply
    BY <1>2 DEF vars
  <2>2. /\ kind' = kind /\ bytes' = bytes /\ safe' = safe /\ mode' = mode
        /\ position' = position /\ currentRecord' = currentRecord
        /\ lastReadValid' = lastReadValid /\ atEndSeen' = atEndSeen
    BY <2>1 DEF store, cursor
  <2>3. StateOK'
    BY <2>2 DEF StateOK
  <2>4. UNCHANGED Store_!vars
    BY <2>1, <2>2, SameShown DEF Store_!vars
  <2>5. QED
    BY <2>3, <2>4
<1>3. QED
  BY <1>1, <1>2

LEMMA FileStarts ==
  ASSUME IInv, Init
  PROVE  StateOK /\ Store_!Init
<1>1. /\ kind \in Kinds /\ bytes = <<>> /\ safe = 0 /\ locked = FALSE /\ mode = "Closed" /\ ~exists
      /\ position = 0 /\ currentRecord = 0 /\ lastReadValid = FALSE /\ atEndSeen = FALSE
  BY DEF Init
<1>2. Len(<<>>) = 0 /\ mode \in {"Closed"} \cup OpenModes
  BY <1>1
<1>3. Store_!FsOk = FsOk /\ reply = [op |-> "stop", number |-> 0, status |-> FsOk, record |-> NoRecord]
  BY SequenceStatuses DEF Init
<1>4. CASE kind.organization = Relative
  <2>1. RelativeOK(bytes, safe, mode, position, currentRecord, 0, 0, 0)
    BY <1>1, NoSlots DEF RelativeOK
  <2>2. StateOK
    BY <1>1, <1>4, <2>1 DEF StateOK
  <2>3. AbstractRecords = <<>> /\ AbstractDurable = 0 /\ AbstractPlace = 0 /\ AbstractSure = TRUE
    BY <1>1, <1>4, <2>1, <2>2, NothingThere, RelativeBefore DEF RelativePlace
  <2>4. QED
    BY <1>1, <1>3, <2>2, <2>3 DEF Store_!Init
<1>5. CASE kind.organization # Relative
  <2> DEFINE o == [i \in 0..0 |-> 0]
  <2>1. Holds(kind, <<>>, o, <<>>) /\ o[0] = 0
    BY <1>1, <1>5, HoldsNothing
  <2> HIDE DEF o
  <2>2. ~WritingIn(kind, "Closed") /\ 0 \in 0..0 /\ Len(<<>>) = 0
    BY DEF WritingIn
  <2>3. SequenceOK(kind, bytes, safe, mode, position, currentRecord, o, <<>>, 0)
    BY <1>1, <2>1, <2>2 DEF SequenceOK
  <2>4. StateOK
    BY <1>1, <1>5, <2>3 DEF StateOK
  <2>5. AbstractRecords = <<>> /\ AbstractDurable = 0 /\ AbstractPlace = 0 /\ AbstractSure = TRUE
    BY <1>1, <1>5, <2>3, <2>4, NothingThere, SequenceBefore DEF SequencePlace
  <2>6. QED
    BY <1>1, <1>3, <2>4, <2>5 DEF Store_!Init
<1>6. QED
  BY <1>4, <1>5

(* Every call of a sequential, line-sequential or relative file answers as *)
(* the sequence of records does, whatever calls a program makes and        *)
(* wherever it crashes: what was written is read back in order, across     *)
(* CLOSE and OPEN, a call by record number touches that slot alone, and a  *)
(* crash takes only the last records, those still in the BufWriter         *)
(* (cobol-runtime/src/file_io.rs).                                         *)
THEOREM FileIsRecordSequence ==
  ASSUME KindsKeepRecords
  PROVE  Spec => ImplementsRecordSequence
<1>1. Init /\ IInv => StateOK /\ Store_!Init
  BY FileStarts
<1>2. IInv /\ IInv' /\ StateOK /\ [Next]_vars => StateOK' /\ [Store_!Next]_(Store_!vars)
  BY FileStep
<1>3. QED
  BY <1>1, <1>2, InvariantHolds, PTL DEF Spec, ImplementsRecordSequence, Store_!Spec
=============================================================================
