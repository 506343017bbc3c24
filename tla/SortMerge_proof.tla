--------------------------- MODULE SortMerge_proof ---------------------------
(***************************************************************************)
(* Proofs about SORT and MERGE, for any files, records, keys and           *)
(* statements: the runtime's comparison of two records is an order that a  *)
(* sort may rely on, and the areas and buffers are used within their       *)
(* limits.                                                                 *)
(***************************************************************************)
EXTENDS SortMerge, SequenceLemmas

-----------------------------------------------------------------------------
(* Numbers read from bytes, and a sorted area *)

Byte == 0..255
Whole == Int

IsUnsigned(f, q) ==
  f = [s \in SUBSET DOMAIN q |->
        IF s = {} THEN 0
        ELSE IF q[Max(s)] \in 48..57 THEN f[s \ {Max(s)}] * 10 + q[Max(s)] - 48
             ELSE f[s \ {Max(s)}]]

LEMMA UnsignedType ==
  ASSUME NEW q \in Seq(Byte)
  PROVE  Unsigned(q) \in Int
<1> DEFINE D == DOMAIN q
           e == [s \in SUBSET D |-> Max(s)]
           step == [i \in D |-> [v \in Int |-> IF q[i] \in 48..57 THEN v * 10 + q[i] - 48 ELSE v]]
<1>1. IsFiniteSet(D) /\ \A s \in SUBSET D : s # {} => e[s] \in s /\ e[s] = Max(s)
  BY Indexes
<1>2. \A i \in D : q[i] \in Int
  <2>1. \A i \in D : q[i] \in Byte
    OBVIOUS
  <2>2. \A x \in Byte : x \in Int
    BY DEF Byte
  <2>3. QED
    BY <2>1, <2>2
<1>3. step \in [D -> [Int -> Int]]
  BY <1>2
<1>4. \A s \in SUBSET D : s # {} => Max(s) \in D
  BY <1>1
<1>5. PICK f \in [SUBSET D -> Whole] : IsFold(f, D, 0, e, step)
  <2>1. step \in [D -> [Whole -> Whole]] /\ 0 \in Whole
    BY <1>3 DEF Whole
  <2> HIDE DEF D, e, step
  <2>2. QED
    BY <1>1, <2>1, FoldExists
<1>6. IsUnsigned(f, q)
  <2>1. ASSUME NEW s \in SUBSET D, s # {}
        PROVE  f[s] = IF q[Max(s)] \in 48..57 THEN f[s \ {Max(s)}] * 10 + q[Max(s)] - 48
                      ELSE f[s \ {Max(s)}]
    <3>1. f[s] = step[Max(s)][f[s \ {Max(s)}]]
      <4> HIDE DEF D, e, step
      <4>1. QED
        BY <1>1, <1>5, <2>1 DEF IsFold
    <3>2. f[s \ {Max(s)}] \in Int /\ Max(s) \in D
      BY <1>4, <2>1 DEF Whole
    <3>3. QED
      BY <3>1, <3>2
  <2>2. f[{}] = 0
    BY <1>5 DEF IsFold
  <2>3. QED
    BY <2>1, <2>2 DEF IsUnsigned
<1>7. PICK g : IsUnsigned(g, q) /\ Unsigned(q) = g[D]
  <2>1. Unsigned(q) = (CHOOSE g : IsUnsigned(g, q))[DOMAIN q]
    BY DEF Unsigned, FoldLeft, MapThenFoldSet, IsUnsigned
  <2>2. QED
    BY <1>6, <2>1
<1>8. g[{}] = 0
  BY <1>7 DEF IsUnsigned
<1>9. ASSUME NEW s \in SUBSET D, s # {}, g[s \ {e[s]}] \in Int PROVE g[s] \in Int
  <2>1. g[s] = IF q[Max(s)] \in 48..57 THEN g[s \ {Max(s)}] * 10 + q[Max(s)] - 48
               ELSE g[s \ {Max(s)}]
    BY <1>7, <1>9 DEF IsUnsigned
  <2>2. e[s] = Max(s) /\ Max(s) \in D
    BY <1>1, <1>4, <1>9
  <2>3. QED
    BY <1>2, <1>9, <2>1, <2>2
<1>10. g[D] \in Int
  <2>1. /\ g[{}] \in Whole
        /\ \A s \in SUBSET D : s # {} /\ g[s \ {e[s]}] \in Whole => g[s] \in Whole
    <3>1. g[{}] \in Int
      BY <1>8
    <3> HIDE DEF D, e, step
    <3>2. QED
      BY <1>9, <3>1 DEF Whole
  <2> HIDE DEF D, e
  <2>2. g[D] \in Whole
    BY <1>1, <2>1, FoldKeeps
  <2>3. QED
    BY <2>2 DEF Whole
<1>11. QED
  BY <1>7, <1>10

LEMMA DisplayNumericType ==
  ASSUME NEW q \in Seq(Byte)
  PROVE  DisplayNumeric(q) \in Int
BY UnsignedType DEF DisplayNumeric

IsSigned(f, q, base) ==
  f = [s \in SUBSET DOMAIN q |-> IF s = {} THEN base ELSE f[s \ {Min(s)}] * 256 + q[Min(s)]]

LEMMA SignedLeType ==
  ASSUME NEW bytes \in Seq(Byte) \ {<<>>}
  PROVE  SignedLe(bytes) \in Int
<1> DEFINE q == Front(bytes)
           base == IF Last(bytes) >= 128 THEN Last(bytes) - 256 ELSE Last(bytes)
           D == DOMAIN q
           e == [s \in SUBSET D |-> Min(s)]
           step == [i \in D |-> [v \in Int |-> v * 256 + q[i]]]
<1>1. q \in Seq(Byte) /\ base \in Int
  <2>1. Len(bytes) \in Nat /\ Len(bytes) > 0 /\ bytes[Len(bytes)] \in Byte
    OBVIOUS
  <2>2. base \in Int
    <3>1. Last(bytes) = bytes[Len(bytes)]
      BY DEF Last
    <3>2. Last(bytes) \in Byte
      BY <2>1, <3>1
    <3>3. \A x \in Byte : x \in Int /\ x - 256 \in Int
      BY DEF Byte
    <3>4. QED
      BY <3>2, <3>3
  <2>3. q \in Seq(Byte)
    BY <2>1, PrefixProperties DEF Front
  <2>4. QED
    BY <2>2, <2>3
<1> HIDE DEF q, base
<1>2. IsFiniteSet(D) /\ \A s \in SUBSET D : s # {} => e[s] \in s /\ e[s] = Min(s)
  BY <1>1, Indexes
<1>3. \A i \in D : q[i] \in Int
  <2>1. \A i \in D : q[i] \in Byte
    BY <1>1
  <2>2. \A x \in Byte : x \in Int
    BY DEF Byte
  <2> HIDE DEF D
  <2>3. QED
    BY <2>1, <2>2
<1>4. step \in [D -> [Int -> Int]]
  BY <1>3
<1>5. \A s \in SUBSET D : s # {} => Min(s) \in D
  BY <1>2
<1>6. PICK f \in [SUBSET D -> Whole] : IsFold(f, D, base, e, step)
  <2>1. step \in [D -> [Whole -> Whole]] /\ base \in Whole
    BY <1>1, <1>4 DEF Whole
  <2> HIDE DEF D, e, step
  <2>2. QED
    BY <1>2, <2>1, FoldExists
<1>7. IsSigned(f, q, base)
  <2>1. ASSUME NEW s \in SUBSET D, s # {}
        PROVE  f[s] = f[s \ {Min(s)}] * 256 + q[Min(s)]
    <3>1. f[s] = step[Min(s)][f[s \ {Min(s)}]]
      <4> HIDE DEF D, e, step
      <4>1. QED
        BY <1>2, <1>6, <2>1 DEF IsFold
    <3>2. f[s \ {Min(s)}] \in Int /\ Min(s) \in D
      BY <1>5, <2>1 DEF Whole
    <3>3. QED
      BY <3>1, <3>2
  <2>2. f[{}] = base
    BY <1>6 DEF IsFold
  <2>3. QED
    BY <2>1, <2>2 DEF IsSigned
<1>8. PICK g : IsSigned(g, q, base) /\ SignedLe(bytes) = g[D]
  <2>1. SignedLe(bytes) = (CHOOSE g : IsSigned(g, q, base))[DOMAIN q]
    BY DEF SignedLe, FoldRight, MapThenFoldSet, IsSigned, q, base
  <2>2. QED
    BY <1>7, <2>1
<1>9. g[{}] = base
  BY <1>8 DEF IsSigned
<1>10. ASSUME NEW s \in SUBSET D, s # {}, g[s \ {e[s]}] \in Int PROVE g[s] \in Int
  <2>1. g[s] = g[s \ {Min(s)}] * 256 + q[Min(s)]
    BY <1>8, <1>10 DEF IsSigned
  <2>2. e[s] = Min(s) /\ Min(s) \in D
    BY <1>2, <1>5, <1>10
  <2>3. QED
    BY <1>3, <1>10, <2>1, <2>2
<1>11. g[D] \in Int
  <2>1. /\ g[{}] \in Whole
        /\ \A s \in SUBSET D : s # {} /\ g[s \ {e[s]}] \in Whole => g[s] \in Whole
    <3> HIDE DEF D, e
    <3>1. QED
      BY <1>1, <1>9, <1>10 DEF Whole
  <2> HIDE DEF D, e
  <2>2. g[D] \in Whole
    BY <1>2, <2>1, FoldKeeps
  <2>3. QED
    BY <2>2 DEF Whole
<1>12. QED
  BY <1>8, <1>11

(* One record among those sorted so far.                                   *)
LEMMA InsertedType ==
  ASSUME NEW X, NEW s \in Seq(X), NEW r \in X, NEW S \in SUBSET DOMAIN s
  PROVE  InsertAt(s, Cardinality(S) + 1, r) \in Seq(X)
<1>1. Cardinality(S) \in Nat /\ Cardinality(S) <= Len(s) /\ Len(s) \in Nat
  <2>0. DOMAIN s = 1..Len(s) /\ Len(s) \in Nat
    OBVIOUS
  <2>1. IsFiniteSet(1..Len(s)) /\ Cardinality(1..Len(s)) = Len(s)
    <3>1. PICK n \in Nat : n = Len(s)
      BY <2>0
    <3>2. IsFiniteSet(1..n) /\ Cardinality(1..n) = IF 1 > n THEN 0 ELSE (n - 1) + 1
      BY FS_Interval, 1 \in Int, n \in Int
    <3>3. Cardinality(1..n) = n
      BY <3>2
    <3>4. QED
      BY <3>1, <3>2, <3>3
  <2>2. IsFiniteSet(S) /\ Cardinality(S) <= Cardinality(1..Len(s))
    BY <2>0, <2>1, FS_Subset
  <2>3. QED
    BY <2>0, <2>1, <2>2, FS_CardinalityType
<1> DEFINE n == Cardinality(S)
           a == SubSeq(s, 1, n)
           b == SubSeq(s, n + 1, Len(s))
<1>2. a \in Seq(X) /\ b \in Seq(X)
  BY <1>1
<1>3. (n + 1) - 1 = n
  BY <1>1
<1>4. InsertAt(s, n + 1, r) = a \o <<r>> \o b
  BY <1>3 DEF InsertAt
<1> HIDE DEF a, b, n
<1>5. a \o <<r>> \o b \in Seq(X)
  BY <1>2
<1>6. QED
  BY <1>4, <1>5 DEF n

(* The step of the sort: r goes behind the records it is not before.       *)
Behind(keys, records, r) ==
  [sorted \in Seq(Range(records)) |->
     InsertAt(sorted, Cardinality({i \in DOMAIN sorted : ~Precedes(keys, r, sorted[i])}) + 1, r)]

IsSorting(f, keys, records) ==
  f = [s \in SUBSET DOMAIN records |->
        IF s = {} THEN <<>> ELSE Behind(keys, records, records[Max(s)])[f[s \ {Max(s)}]]]

LEMMA BehindType ==
  ASSUME NEW keys, NEW records, NEW r \in Range(records)
  PROVE  Behind(keys, records, r) \in [Seq(Range(records)) -> Seq(Range(records))]
BY InsertedType DEF Behind

LEMMA SortedIs ==
  ASSUME NEW X, NEW records \in Seq(X), NEW keys
  PROVE  \E f : IsSorting(f, keys, records) /\ Sorted(keys, records) = f[DOMAIN records]
<1> DEFINE D == DOMAIN records
           R == Range(records)
           e == [s \in SUBSET D |-> Max(s)]
           step == [i \in D |-> Behind(keys, records, records[i])]
<1>1. IsFiniteSet(D) /\ \A s \in SUBSET D : s # {} => e[s] \in s /\ e[s] = Max(s)
  BY Indexes
<1>2. step \in [D -> [Seq(R) -> Seq(R)]]
  <2>1. \A i \in D : records[i] \in R
    BY DEF Range
  <2>2. QED
    BY <2>1, BehindType
<1>3. <<>> \in Seq(R) /\ Seq(R) \subseteq Seq(X)
  <2>1. R \subseteq X
    BY DEF Range
  <2>2. QED
    BY <2>1
<1>4. \A s \in SUBSET D : s # {} => Max(s) \in D
  BY <1>1
<1>5. PICK f \in [SUBSET D -> Seq(R)] : IsFold(f, D, <<>>, e, step)
  <2> DEFINE Z == Seq(R)
             none == <<>>
  <2>1. step \in [D -> [Z -> Z]] /\ none \in Z
    BY <1>2, <1>3
  <2> HIDE DEF D, e, step, Z, none
  <2>2. \E f \in [SUBSET D -> Z] : IsFold(f, D, none, e, step)
    BY <1>1, <2>1, FoldExists
  <2>3. QED
    BY <2>2 DEF Z, none
<1>6. IsSorting(f, keys, records)
  <2>1. ASSUME NEW s \in SUBSET D, s # {}
        PROVE  f[s] = Behind(keys, records, records[Max(s)])[f[s \ {Max(s)}]]
    <3>1. f[s] = step[Max(s)][f[s \ {Max(s)}]]
      <4> HIDE DEF D, e, step
      <4>1. QED
        BY <1>1, <1>5, <2>1 DEF IsFold
    <3>2. QED
      BY <1>4, <2>1, <3>1
  <2>2. f[{}] = <<>>
    <3> HIDE DEF e, step
    <3>1. QED
      BY <1>5 DEF IsFold
  <2>3. QED
    BY <2>1, <2>2 DEF IsSorting
<1>7. Sorted(keys, records) = (CHOOSE g : IsSorting(g, keys, records))[DOMAIN records]
  BY DEF Sorted, FoldLeft, MapThenFoldSet, IsSorting, Behind
<1>8. QED
  BY <1>6, <1>7

(* Sorting makes no records and needs no assumption on the keys.           *)
LEMMA SortedType ==
  ASSUME NEW X, NEW records \in Seq(X), NEW keys
  PROVE  Sorted(keys, records) \in Seq(X)
<1> DEFINE D == DOMAIN records
           R == Range(records)
           e == [s \in SUBSET D |-> Max(s)]
<1>1. IsFiniteSet(D) /\ \A s \in SUBSET D : s # {} => e[s] \in s /\ e[s] = Max(s)
  BY Indexes
<1>2. <<>> \in Seq(R) /\ Seq(R) \subseteq Seq(X)
  <2>1. R \subseteq X
    BY DEF Range
  <2>2. QED
    BY <2>1
<1>3. \A s \in SUBSET D : s # {} => Max(s) \in D
  BY <1>1
<1>4. PICK g : IsSorting(g, keys, records) /\ Sorted(keys, records) = g[D]
  BY SortedIs
<1>5. g[{}] = <<>>
  BY <1>4 DEF IsSorting
<1>6. ASSUME NEW s \in SUBSET D, s # {}, g[s \ {e[s]}] \in Seq(R) PROVE g[s] \in Seq(R)
  <2>1. g[s] = Behind(keys, records, records[Max(s)])[g[s \ {Max(s)}]]
    BY <1>4, <1>6 DEF IsSorting
  <2>2. e[s] = Max(s) /\ records[Max(s)] \in R
    BY <1>1, <1>3, <1>6 DEF Range
  <2>3. QED
    BY <1>6, <2>1, <2>2, BehindType
<1>7. g[D] \in Seq(R)
  <2> DEFINE Z == Seq(R)
  <2>1. /\ g[{}] \in Z
        /\ \A s \in SUBSET D : s # {} /\ g[s \ {e[s]}] \in Z => g[s] \in Z
    <3> HIDE DEF D, e
    <3>1. QED
      BY <1>2, <1>5, <1>6
  <2> HIDE DEF D, e, Z
  <2>2. g[D] \in Z
    BY <1>1, <2>1, FoldKeeps
  <2>3. QED
    BY <2>2 DEF Z
<1>8. QED
  BY <1>2, <1>4, <1>7

-----------------------------------------------------------------------------
(* The comparison of two records *)

(* What slice::sort_by asks of a comparison, equality being neither before *)
(* nor after.                                                              *)
WeakOrder(R, S) ==
  /\ R \in SUBSET (S \X S)
  /\ \A x \in S : <<x, x>> \notin R
  /\ \A x, y, z \in S : <<x, y>> \in R /\ <<y, z>> \in R => <<x, z>> \in R
  /\ \A x, y, z \in S : <<x, y>> \notin R /\ <<y, z>> \notin R => <<x, z>> \notin R

(* Bytes compare as in a dictionary.                                       *)
LEMMA AlphaTells ==
  ASSUME NEW a \in Seq(Int), NEW b \in Seq(Int), a # b
  PROVE  AlphaLess(a, b) \/ AlphaLess(b, a)
<1> DEFINE D == {i \in 1..Len(a) : i > Len(b) \/ a[i] # b[i]}
           k == Min(D)
<1>1. CASE D = {}
  <2>1. \A i \in 1..Len(a) : i <= Len(b) /\ a[i] = b[i]
    BY <1>1
  <2>2. Len(a) \in Nat /\ Len(b) \in Nat
    OBVIOUS
  <2>3. Len(a) < Len(b)
    <3>1. Len(a) <= Len(b)
      BY <2>1, <2>2
    <3>2. Len(a) # Len(b)
      BY <2>1, SeqEqual
    <3>3. QED
      BY <2>2, <3>1, <3>2
  <2>4. AlphaLess(a, b)
    <3>1. Len(a) + 1 \in 1..Len(b) /\ Len(a) + 1 > Len(a)
      BY <2>2, <2>3
    <3>2. \A j \in 1..((Len(a) + 1) - 1) : j <= Len(a) /\ a[j] = b[j]
      BY <2>1, <2>2
    <3>3. QED
      BY <3>1, <3>2 DEF AlphaLess
  <2>5. QED
    BY <2>4
<1>2. CASE D # {}
  <2>1. k \in D /\ \A i \in D : k <= i
    <3>1. D \in SUBSET Nat
      OBVIOUS
    <3> HIDE DEF D
    <3>2. QED
      BY <1>2, <3>1, MinIsLeast
  <2> HIDE DEF k
  <2>2. \A j \in 1..(k - 1) : j <= Len(a) /\ j <= Len(b) /\ a[j] = b[j]
    BY <2>1
  <2>3. k \in 1..Len(a)
    BY <2>1
  <2>4. CASE k > Len(b)
    <3>1. AlphaLess(b, a)
      BY <2>2, <2>3, <2>4 DEF AlphaLess
    <3>2. QED
      BY <3>1
  <2>5. CASE ~(k > Len(b))
    <3>1. k \in 1..Len(b) /\ a[k] \in Int /\ b[k] \in Int /\ a[k] # b[k]
      BY <2>1, <2>3, <2>5
    <3>2. CASE a[k] < b[k]
      BY <2>2, <3>1, <3>2 DEF AlphaLess
    <3>3. CASE b[k] < a[k]
      BY <2>2, <2>3, <3>3 DEF AlphaLess
    <3>4. QED
      BY <3>1, <3>2, <3>3
  <2>6. QED
    BY <2>4, <2>5
<1>3. QED
  BY <1>1, <1>2

LEMMA AlphaOrder ==
  /\ \A a \in Seq(Int) : ~AlphaLess(a, a)
  /\ \A a, b, c \in Seq(Int) : AlphaLess(a, b) /\ AlphaLess(b, c) => AlphaLess(a, c)
<1>1. ASSUME NEW a \in Seq(Int) PROVE ~AlphaLess(a, a)
  <2>1. SUFFICES ASSUME NEW i \in 1..Len(a), i > Len(a) \/ a[i] < a[i] PROVE FALSE
    BY DEF AlphaLess
  <2>2. i \in Nat /\ Len(a) \in Nat /\ a[i] \in Int
    OBVIOUS
  <2>3. QED
    BY <2>1, <2>2
<1>2. ASSUME NEW a \in Seq(Int), NEW b \in Seq(Int), NEW c \in Seq(Int),
             AlphaLess(a, b), AlphaLess(b, c)
      PROVE  AlphaLess(a, c)
  <2>1. PICK i \in 1..Len(b) : /\ \A j \in 1..(i - 1) : j <= Len(a) /\ a[j] = b[j]
                               /\ i > Len(a) \/ a[i] < b[i]
    BY <1>2 DEF AlphaLess
  <2>2. PICK k \in 1..Len(c) : /\ \A j \in 1..(k - 1) : j <= Len(b) /\ b[j] = c[j]
                               /\ k > Len(b) \/ b[k] < c[k]
    BY <1>2 DEF AlphaLess
  <2>3. Len(a) \in Nat /\ Len(b) \in Nat /\ Len(c) \in Nat /\ i \in Nat /\ k \in Nat
    OBVIOUS
  <2>4. CASE i < k
    <3>1. i \in 1..Len(c) /\ i \in 1..(k - 1)
      BY <2>3, <2>4
    <3>2. \A j \in 1..(i - 1) : j <= Len(a) /\ a[j] = c[j]
      <4>1. \A j \in 1..(i - 1) : j \in 1..(k - 1)
        BY <2>3, <2>4
      <4>2. QED
        BY <2>1, <2>2, <4>1
    <3>3. i > Len(a) \/ a[i] < c[i]
      BY <2>1, <2>2, <3>1
    <3>4. QED
      BY <3>1, <3>2, <3>3 DEF AlphaLess
  <2>5. CASE i = k
    <3>1. \A j \in 1..(k - 1) : j <= Len(a) /\ a[j] = c[j]
      BY <2>1, <2>2, <2>5
    <3>2. k > Len(a) \/ a[k] < c[k]
      <4>1. CASE k > Len(a)
        BY <4>1
      <4>2. CASE ~(k > Len(a))
        <5>1. a[k] \in Int /\ b[k] \in Int /\ c[k] \in Int
          BY <2>3, <2>5, <4>2
        <5>2. a[k] < b[k] /\ b[k] < c[k]
          BY <2>1, <2>2, <2>3, <2>5, <4>2
        <5>3. QED
          BY <5>1, <5>2
      <4>3. QED
        BY <4>1, <4>2
    <3>3. QED
      BY <3>1, <3>2 DEF AlphaLess
  <2>6. CASE k < i
    <3>1. k \in 1..(i - 1) /\ k <= Len(b)
      BY <2>3, <2>6
    <3>2. \A j \in 1..(k - 1) : j <= Len(a) /\ a[j] = c[j]
      <4>1. \A j \in 1..(k - 1) : j \in 1..(i - 1)
        BY <2>3, <2>6
      <4>2. QED
        BY <2>1, <2>2, <4>1
    <3>3. a[k] < c[k]
      BY <2>1, <2>2, <2>3, <3>1
    <3>4. QED
      BY <3>2, <3>3 DEF AlphaLess
  <2>7. QED
    BY <2>3, <2>4, <2>5, <2>6
<1>3. QED
  BY <1>1, <1>2

LEMMA SeqOfMore ==
  ASSUME NEW X, NEW Y, X \subseteq Y
  PROVE  Seq(X) \subseteq Seq(Y)
OBVIOUS

(* Records by the numbers that a key's bytes stand for, and by its bytes.  *)
LEMMA NumberOrder ==
  ASSUME NEW S, NEW v \in [S -> Int], NEW R,
         R = {p \in S \X S : v[p[1]] < v[p[2]]}
  PROVE  WeakOrder(R, S)
<1>1. \A x, y \in S : <<x, y>> \in R <=> v[x] < v[y]
  OBVIOUS
<1>2. R \in SUBSET (S \X S)
  OBVIOUS
<1>3. \A x \in S : v[x] \in Int
  OBVIOUS
<1>4. \A x \in S : <<x, x>> \notin R
  BY <1>1, <1>3
<1>5. \A x, y, z \in S : <<x, y>> \in R /\ <<y, z>> \in R => <<x, z>> \in R
  BY <1>1, <1>3
<1>6. \A x, y, z \in S : <<x, y>> \notin R /\ <<y, z>> \notin R => <<x, z>> \notin R
  BY <1>1, <1>3
<1>7. QED
  BY <1>2, <1>4, <1>5, <1>6 DEF WeakOrder

LEMMA BytesOrder ==
  ASSUME NEW S, NEW v \in [S -> Seq(Int)], NEW R,
         R = {p \in S \X S : AlphaLess(v[p[1]], v[p[2]])}
  PROVE  WeakOrder(R, S)
<1>1. \A x, y \in S : <<x, y>> \in R <=> AlphaLess(v[x], v[y])
  OBVIOUS
<1>2. R \in SUBSET (S \X S)
  OBVIOUS
<1>3. \A x \in S : v[x] \in Seq(Int)
  OBVIOUS
<1>4. \A x \in S : <<x, x>> \notin R
  BY <1>1, <1>3, AlphaOrder
<1>5. \A x, y, z \in S : <<x, y>> \in R /\ <<y, z>> \in R => <<x, z>> \in R
  BY <1>1, <1>3, AlphaOrder
<1>6. ASSUME NEW x \in S, NEW y \in S, NEW z \in S, <<x, y>> \notin R, <<y, z>> \notin R,
             <<x, z>> \in R
      PROVE  FALSE
  <2>1. /\ ~AlphaLess(v[x], v[y]) /\ ~AlphaLess(v[y], v[z]) /\ AlphaLess(v[x], v[z])
        /\ v[x] \in Seq(Int) /\ v[y] \in Seq(Int) /\ v[z] \in Seq(Int)
    BY <1>1, <1>3, <1>6
  <2>2. v[x] # v[y] /\ v[y] # v[z]
    BY <2>1
  <2>3. AlphaLess(v[y], v[x]) /\ AlphaLess(v[z], v[y])
    BY <2>1, <2>2, AlphaTells
  <2>4. AlphaLess(v[z], v[x]) /\ AlphaLess(v[x], v[x])
    BY <2>1, <2>3, AlphaOrder
  <2>5. QED
    BY <2>1, <2>4, AlphaOrder
<1>7. QED
  BY <1>2, <1>4, <1>5, <1>6 DEF WeakOrder

(* The pairs of records that a key tells apart, the one to come first at   *)
(* the left.                                                               *)
Field(key, r) == Stored(key, r[key.field])
Tells(key) ==
  {p \in Records \X Records :
     IF key.ascending THEN KeyLess(key, Field(key, p[1]), Field(key, p[2]))
                      ELSE KeyLess(key, Field(key, p[2]), Field(key, p[1]))}

LEMMA Reversed ==
  ASSUME NEW S, NEW R, WeakOrder(R, S), NEW Q, Q = {p \in S \X S : <<p[2], p[1]>> \in R}
  PROVE  WeakOrder(Q, S)
<1>1. \A x, y \in S : <<x, y>> \in Q <=> <<y, x>> \in R
  OBVIOUS
<1>2. Q \in SUBSET (S \X S)
  OBVIOUS
<1>3. QED
  BY <1>1, <1>2 DEF WeakOrder

LEMMA KeyOrder ==
  ASSUME NEW key, key.ascending \in BOOLEAN,
         \A r \in Records : Field(key, r) \in Seq(0..255) \ {<<>>}
  PROVE  WeakOrder(Tells(key), Records)
<1> DEFINE L == {p \in Records \X Records : KeyLess(key, Field(key, p[1]), Field(key, p[2]))}
<1>1. WeakOrder(L, Records)
  <2>1. KeyType(key) \in {"SignedBinary", "DisplayNumeric", "Alpha"}
    BY DEF KeyType
  <2>2. \A r \in Records : Field(key, r) \in Seq(Byte) \ {<<>>}
    BY DEF Byte
  <2>3. CASE KeyType(key) = "SignedBinary"
    <3> DEFINE v == [r \in Records |-> SignedLe(Field(key, r))]
    <3>1. v \in [Records -> Int]
      BY <2>2, SignedLeType
    <3>2. L = {p \in Records \X Records : v[p[1]] < v[p[2]]}
      <4>1. \A a, b : KeyLess(key, a, b) <=> SignedLe(a) < SignedLe(b)
        BY <2>3 DEF KeyLess
      <4>2. QED
        BY <4>1
    <3> HIDE DEF v, L
    <3>3. QED
      BY <3>1, <3>2, NumberOrder
  <2>4. CASE KeyType(key) = "DisplayNumeric"
    <3> DEFINE v == [r \in Records |-> DisplayNumeric(Field(key, r))]
    <3>1. v \in [Records -> Int]
      BY <2>2, DisplayNumericType
    <3>2. L = {p \in Records \X Records : v[p[1]] < v[p[2]]}
      <4>1. \A a, b : KeyLess(key, a, b) <=> DisplayNumeric(a) < DisplayNumeric(b)
        BY <2>4 DEF KeyLess
      <4>2. QED
        BY <4>1
    <3> HIDE DEF v, L
    <3>3. QED
      BY <3>1, <3>2, NumberOrder
  <2>5. CASE KeyType(key) = "Alpha"
    <3> DEFINE v == [r \in Records |-> Field(key, r)]
    <3>1. v \in [Records -> Seq(Int)]
      <4>1. Seq(Byte) \subseteq Seq(Int)
        <5>1. Byte \subseteq Whole
          BY DEF Byte, Whole
        <5>2. Seq(Byte) \subseteq Seq(Whole)
          BY <5>1, SeqOfMore
        <5>3. QED
          BY <5>2 DEF Whole
      <4>2. QED
        BY <2>2, <4>1
    <3>2. L = {p \in Records \X Records : AlphaLess(v[p[1]], v[p[2]])}
      <4>1. \A a, b : KeyLess(key, a, b) <=> AlphaLess(a, b)
        BY <2>5 DEF KeyLess
      <4>2. QED
        BY <4>1
    <3> HIDE DEF v, L
    <3>3. QED
      BY <3>1, <3>2, BytesOrder
  <2>6. QED
    BY <2>1, <2>3, <2>4, <2>5
<1>2. CASE key.ascending
  <2>1. Tells(key) = L
    BY <1>2 DEF Tells
  <2>2. QED
    BY <1>1, <2>1
<1>3. CASE ~key.ascending
  <2>1. Tells(key) = {p \in Records \X Records : <<p[2], p[1]>> \in L}
    BY <1>3 DEF Tells
  <2> HIDE DEF L
  <2>2. QED
    BY <1>1, <2>1, Reversed
<1>4. QED
  BY <1>2, <1>3

(* Orders one after the other: the first that tells x from y decides.      *)
Lexicographic(L, n, x, y) ==
  \E i \in 1..n : /\ \A j \in 1..(i - 1) : <<x, y>> \notin L[j] /\ <<y, x>> \notin L[j]
                  /\ <<x, y>> \in L[i]

LEMMA LexicographicOrder ==
  ASSUME NEW S, NEW n \in Nat, NEW L, \A i \in 1..n : WeakOrder(L[i], S)
  PROVE  /\ \A x \in S : ~Lexicographic(L, n, x, x)
         /\ \A x, y, z \in S :
              Lexicographic(L, n, x, y) /\ Lexicographic(L, n, y, z) => Lexicographic(L, n, x, z)
         /\ \A x, y, z \in S :
              ~Lexicographic(L, n, x, y) /\ ~Lexicographic(L, n, y, z)
              => ~Lexicographic(L, n, x, z)
<1> DEFINE Tie(i, x, y) == <<x, y>> \notin L[i] /\ <<y, x>> \notin L[i]
           Less(i, x, y) == <<x, y>> \in L[i]
<1>1. ASSUME NEW i \in 1..n
      PROVE  /\ \A x \in S : ~Less(i, x, x)
             /\ \A x, y, z \in S : Less(i, x, y) /\ Less(i, y, z) => Less(i, x, z)
             /\ \A x, y, z \in S : ~Less(i, x, y) /\ ~Less(i, y, z) => ~Less(i, x, z)
  BY DEF WeakOrder
<1>2. ASSUME NEW i \in 1..n, NEW x \in S, NEW y \in S, NEW z \in S
      PROVE  /\ Tie(i, x, y) /\ Tie(i, y, z) => Tie(i, x, z)
             /\ Tie(i, x, y) /\ Less(i, y, z) => Less(i, x, z)
             /\ Less(i, x, y) /\ Tie(i, y, z) => Less(i, x, z)
  <2>1. Tie(i, x, y) <=> ~Less(i, x, y) /\ ~Less(i, y, x)
    OBVIOUS
  <2>2. Tie(i, y, z) <=> ~Less(i, y, z) /\ ~Less(i, z, y)
    OBVIOUS
  <2>3. Tie(i, x, z) <=> ~Less(i, x, z) /\ ~Less(i, z, x)
    OBVIOUS
  <2> HIDE DEF Less, Tie
  <2>4. QED
    BY <1>1, <2>1, <2>2, <2>3
<1>3. \A x, y : Lexicographic(L, n, x, y) <=>
        \E i \in 1..n : (\A j \in 1..(i - 1) : Tie(j, x, y)) /\ Less(i, x, y)
  BY DEF Lexicographic
<1>4. \A i \in 1..n : i \in Nat /\ \A j \in 1..(i - 1) : j \in 1..n /\ j < i
  OBVIOUS
<1>5. \A i \in 1..n, x, y \in S : Tie(i, x, y) <=> ~Less(i, x, y) /\ ~Less(i, y, x)
  OBVIOUS
<1> HIDE DEF Less, Tie
<1>6. ASSUME NEW x \in S PROVE ~Lexicographic(L, n, x, x)
  BY <1>1, <1>3
<1>7. ASSUME NEW x \in S, NEW y \in S, NEW z \in S,
             Lexicographic(L, n, x, y), Lexicographic(L, n, y, z)
      PROVE  Lexicographic(L, n, x, z)
  <2>1. PICK i \in 1..n : (\A j \in 1..(i - 1) : Tie(j, x, y)) /\ Less(i, x, y)
    BY <1>3, <1>7
  <2>2. PICK k \in 1..n : (\A j \in 1..(k - 1) : Tie(j, y, z)) /\ Less(k, y, z)
    BY <1>3, <1>7
  <2>3. CASE i < k
    <3>1. Tie(i, y, z) /\ \A j \in 1..(i - 1) : Tie(j, y, z)
      BY <2>2, <2>3
    <3>2. Less(i, x, z) /\ \A j \in 1..(i - 1) : Tie(j, x, z)
      BY <1>2, <1>4, <2>1, <3>1
    <3>3. QED
      BY <1>3, <3>2
  <2>4. CASE i = k
    <3>1. Less(i, x, z) /\ \A j \in 1..(i - 1) : Tie(j, x, z)
      BY <1>1, <1>2, <1>4, <2>1, <2>2, <2>4
    <3>2. QED
      BY <1>3, <3>1
  <2>5. CASE k < i
    <3>1. Tie(k, x, y) /\ \A j \in 1..(k - 1) : Tie(j, x, y)
      BY <2>1, <2>5
    <3>2. Less(k, x, z) /\ \A j \in 1..(k - 1) : Tie(j, x, z)
      BY <1>2, <1>4, <2>2, <3>1
    <3>3. QED
      BY <1>3, <3>2
  <2>6. QED
    BY <1>4, <2>3, <2>4, <2>5
<1>8. ASSUME NEW x \in S, NEW y \in S, NEW z \in S,
             ~Lexicographic(L, n, x, y), ~Lexicographic(L, n, y, z), Lexicographic(L, n, x, z)
      PROVE  FALSE
  <2>1. PICK i \in 1..n : (\A j \in 1..(i - 1) : Tie(j, x, z)) /\ Less(i, x, z)
    BY <1>3, <1>8
  <2> DEFINE D == {k \in 1..i : ~Tie(k, x, y) \/ ~Tie(k, y, z)}
  <2>2. D # {}
    <3>1. i \in 1..i
      BY <1>4
    <3>2. ~(Tie(i, x, y) /\ Tie(i, y, z))
      BY <1>2, <1>5, <2>1
    <3>3. QED
      BY <3>1, <3>2
  <2>3. PICK k \in D : \A m \in D : k <= m
    <3>1. D \in SUBSET Nat
      BY <1>4
    <3> HIDE DEF D
    <3>2. QED
      BY <2>2, <3>1, MinIsLeast
  <2>4. k \in 1..n /\ k <= i /\ (~Tie(k, x, y) \/ ~Tie(k, y, z))
    BY <1>4
  <2>5. \A j \in 1..(k - 1) : Tie(j, x, y) /\ Tie(j, y, z)
    <3>1. ASSUME NEW j \in 1..(k - 1) PROVE j \in 1..i /\ ~(k <= j)
      BY <1>4, <2>4
    <3>2. QED
      BY <2>3, <3>1
  <2> HIDE DEF D
  <2>6. ~Less(k, x, y) /\ ~Less(k, y, z)
    BY <1>3, <1>8, <2>4, <2>5
  <2>7. ~Less(k, x, z)
    BY <1>1, <2>4, <2>6
  <2>8. k # i
    BY <2>1, <2>7
  <2>9. k \in 1..(i - 1)
    BY <1>4, <2>4, <2>8
  <2>10. ~Less(k, z, x)
    BY <1>5, <2>1, <2>4, <2>9
  <2>11. Less(k, y, x) \/ Less(k, z, y)
    BY <1>5, <2>4, <2>6
  <2>12. QED
    BY <1>1, <2>4, <2>6, <2>10, <2>11
<1>9. QED
  BY <1>6, <1>7, <1>8

(* The pairs of records that compare_records calls Less.                   *)
Compared(keys) == {p \in Records \X Records : Precedes(keys, p[1], p[2])}

LEMMA PrecedesIsLexicographic ==
  ASSUME NEW s \in Statements, NEW x \in Records, NEW y \in Records
  PROVE  Precedes(s.keys, x, y) <=>
           Lexicographic([i \in 1..Len(s.keys) |-> Tells(s.keys[i])], Len(s.keys), x, y)
<1> DEFINE K == s.keys
           n == Len(K)
           L == [i \in 1..n |-> Tells(K[i])]
           Before(i, a, b) == KeyLess(K[i], Field(K[i], a), Field(K[i], b))
<1>1. n \in Nat /\ \A i \in 1..n : K[i].ascending \in BOOLEAN
  BY StatementsAssumption
<1>2. ASSUME NEW i \in 1..n
      PROVE  /\ <<x, y>> \in L[i] <=> IF K[i].ascending THEN Before(i, x, y) ELSE Before(i, y, x)
             /\ <<y, x>> \in L[i] <=> IF K[i].ascending THEN Before(i, y, x) ELSE Before(i, x, y)
  BY DEF Tells
<1>3. \A i \in 1..n : <<x, y>> \notin L[i] /\ <<y, x>> \notin L[i]
                      <=> ~Before(i, x, y) /\ ~Before(i, y, x)
  BY <1>1, <1>2
<1>4. \A i \in 1..n : \A j \in 1..(i - 1) : j \in 1..n
  BY <1>1
<1>5. Precedes(K, x, y) <=>
        \E i \in 1..n :
          /\ \A j \in 1..(i - 1) : ~Before(j, x, y) /\ ~Before(j, y, x)
          /\ IF K[i].ascending THEN Before(i, x, y) ELSE Before(i, y, x)
  BY DEF Precedes, Field
<1> HIDE DEF Before, L, n, K
<1>6. Lexicographic(L, n, x, y) <=>
        \E i \in 1..n : /\ \A j \in 1..(i - 1) : <<x, y>> \notin L[j] /\ <<y, x>> \notin L[j]
                        /\ <<x, y>> \in L[i]
  BY DEF Lexicographic
<1>7. Precedes(K, x, y) <=> Lexicographic(L, n, x, y)
  BY <1>2, <1>3, <1>4, <1>5, <1>6
<1>8. QED
  BY <1>7 DEF K, n, L

(* compare_records of sort_merge.rs keeps what slice::sort_by demands of a *)
(* comparison, whatever the keys, their types and the bytes of the         *)
(* records: no record is before itself, before is transitive, and so is    *)
(* not before.                                                             *)
THEOREM ComparisonIsAnOrder ==
  \A s \in Statements : WeakOrder(Compared(s.keys), Records)
<1> TAKE s \in Statements
<1> DEFINE n == Len(s.keys)
           L == [i \in 1..n |-> Tells(s.keys[i])]
           R == Compared(s.keys)
<1>1. n \in Nat
  BY StatementsAssumption
<1>2. \A i \in 1..n : WeakOrder(L[i], Records)
  <2>1. TAKE i \in 1..n
  <2> DEFINE key == s.keys[i]
  <2>2. key.ascending \in BOOLEAN
    BY StatementsAssumption
  <2>3. \A r \in Records : Field(key, r) \in Seq(0..255) \ {<<>>}
    BY StatementsAssumption DEF Field
  <2>4. L[i] = Tells(key)
    OBVIOUS
  <2> HIDE DEF key
  <2>5. QED
    BY <2>2, <2>3, <2>4, KeyOrder
<1>3. /\ \A x \in Records : ~Lexicographic(L, n, x, x)
      /\ \A x, y, z \in Records :
           Lexicographic(L, n, x, y) /\ Lexicographic(L, n, y, z) => Lexicographic(L, n, x, z)
      /\ \A x, y, z \in Records :
           ~Lexicographic(L, n, x, y) /\ ~Lexicographic(L, n, y, z)
           => ~Lexicographic(L, n, x, z)
  <2> HIDE DEF L, n
  <2>1. QED
    BY <1>1, <1>2, LexicographicOrder
<1>4. \A x, y \in Records : <<x, y>> \in R <=> Lexicographic(L, n, x, y)
  BY PrecedesIsLexicographic DEF Compared
<1>5. R \in SUBSET (Records \X Records)
  BY DEF Compared
<1> HIDE DEF R, L, n
<1>6. WeakOrder(R, Records)
  BY <1>3, <1>4, <1>5 DEF WeakOrder
<1>7. QED
  BY <1>6 DEF R

(* The same without pairs.                                                 *)
LEMMA Order ==
  ASSUME NEW s \in Statements
  PROVE  /\ \A x \in Records : ~Precedes(s.keys, x, x)
         /\ \A x, y, z \in Records :
              Precedes(s.keys, x, y) /\ Precedes(s.keys, y, z) => Precedes(s.keys, x, z)
         /\ \A x, y, z \in Records :
              ~Precedes(s.keys, x, y) /\ ~Precedes(s.keys, y, z) => ~Precedes(s.keys, x, z)
<1>1. WeakOrder(Compared(s.keys), Records)
  BY ComparisonIsAnOrder
<1>2. \A x, y \in Records : <<x, y>> \in Compared(s.keys) <=> Precedes(s.keys, x, y)
  BY DEF Compared
<1>3. QED
  BY <1>1, <1>2 DEF WeakOrder

-----------------------------------------------------------------------------
(* The sorted area *)

(* out holds the first m records, each once, in the order of the keys, and *)
(* those that no key tells apart in the order they came: where tells for   *)
(* each place of out which record stands there.                            *)
Arranges(where, keys, records, m, out) ==
  /\ where \in [1..m -> 1..m]
  /\ \A k \in 1..m : \E i \in 1..m : where[i] = k
  /\ \A i, j \in 1..m : where[i] = where[j] => i = j
  /\ \A i \in 1..m : out[i] = records[where[i]]
  /\ \A i, j \in 1..m : i < j => /\ ~Precedes(keys, out[j], out[i])
                                 /\ Precedes(keys, out[i], out[j]) \/ where[i] < where[j]

StablySorted(keys, records, m, out) ==
  Len(out) = m /\ \E where : Arranges(where, keys, records, m, out)

LEMMA PrefixOfNumbers ==
  ASSUME NEW m \in Nat, NEW A \in SUBSET (1..m), \A i \in A : 1..i \subseteq A
  PROVE  A = 1..Cardinality(A) /\ Cardinality(A) \in 0..m
<1>1. \A n \in Nat : Cardinality(1..n) = n
  <2>1. TAKE n \in Nat
  <2>2. Cardinality(1..n) = IF 1 > n THEN 0 ELSE (n - 1) + 1
    BY FS_Interval, 1 \in Int, n \in Int
  <2>3. QED
    BY <2>2
<1>2. CASE A = {}
  <2>1. A = 1..0 /\ Cardinality(A) = 0
    BY <1>2, FS_EmptySet
  <2>2. QED
    BY <2>1
<1>3. CASE A # {}
  <2>1. Max(A) \in A /\ \A i \in A : i <= Max(A)
    <3>1. A \in SUBSET Nat /\ \A i \in A : i <= m
      OBVIOUS
    <3>2. QED
      BY <1>3, <3>1, MaxIsGreatest
  <2>2. A = 1..Max(A) /\ Max(A) \in 1..m
    <3>1. PICK n \in 1..m : n = Max(A)
      BY <2>1
    <3>2. n \in A /\ \A i \in A : i <= n
      BY <2>1, <3>1
    <3>3. 1..n \subseteq A
      BY <3>2
    <3>4. A \subseteq 1..n
      BY <3>2
    <3>5. QED
      BY <3>1, <3>3, <3>4
  <2>3. Cardinality(A) = Max(A)
    BY <1>1, <2>2
  <2>4. QED
    BY <2>2, <2>3
<1>4. QED
  BY <1>2, <1>3

LEMMA InsertedValues ==
  ASSUME NEW X, NEW q \in Seq(X), NEW r \in X, NEW c \in 0..Len(q)
  PROVE  /\ InsertAt(q, c + 1, r) \in Seq(X) /\ Len(InsertAt(q, c + 1, r)) = Len(q) + 1
         /\ \A i \in 1..(Len(q) + 1) :
              InsertAt(q, c + 1, r)[i] = IF i <= c THEN q[i] ELSE IF i = c + 1 THEN r ELSE q[i - 1]
<1> DEFINE a == SubSeq(q, 1, c)
           b == SubSeq(q, c + 1, Len(q))
           ar == a \o <<r>>
<1>1. /\ a \in Seq(X) /\ Len(a) = c /\ \A i \in 1..c : a[i] = q[i]
      /\ b \in Seq(X) /\ Len(b) = Len(q) - c /\ \A i \in 1..(Len(q) - c) : b[i] = q[c + i]
  OBVIOUS
<1>2. InsertAt(q, c + 1, r) = ar \o b
  <2>1. (c + 1) - 1 = c
    OBVIOUS
  <2>2. QED
    BY <2>1 DEF InsertAt
<1> HIDE DEF a, b
<1>3. /\ ar \in Seq(X) /\ Len(ar) = c + 1 /\ \A i \in 1..c : ar[i] = q[i]
      /\ ar[c + 1] = r
  BY <1>1
<1> HIDE DEF ar
<1>4. /\ ar \o b \in Seq(X) /\ Len(ar \o b) = Len(q) + 1
      /\ \A i \in 1..(Len(q) + 1) :
           (ar \o b)[i] = IF i <= c + 1 THEN ar[i] ELSE b[i - (c + 1)]
  <2>1. ar \in Seq(X) /\ b \in Seq(X) /\ Len(ar) = c + 1 /\ Len(b) = Len(q) - c
    BY <1>1, <1>3
  <2>2. /\ ar \o b \in Seq(X) /\ Len(ar \o b) = Len(ar) + Len(b)
        /\ \A i \in 1..(Len(ar) + Len(b)) :
             (ar \o b)[i] = IF i <= Len(ar) THEN ar[i] ELSE b[i - Len(ar)]
    BY <2>1, ConcatProperties
  <2>3. Len(ar) + Len(b) = Len(q) + 1
    BY <2>1
  <2>4. QED
    BY <2>1, <2>2, <2>3
<1>5. ASSUME NEW i \in 1..(Len(q) + 1)
      PROVE  (ar \o b)[i] = IF i <= c THEN q[i] ELSE IF i = c + 1 THEN r ELSE q[i - 1]
  <2>1. CASE i <= c + 1
    <3>1. (ar \o b)[i] = ar[i]
      BY <1>4, <2>1
    <3>2. QED
      BY <1>3, <2>1, <3>1
  <2>2. CASE i > c + 1
    <3>a. i - (c + 1) \in 1..(Len(q) - c)
      BY <1>4, <2>2
    <3>1. (ar \o b)[i] = b[i - (c + 1)] /\ i - (c + 1) \in 1..(Len(q) - c)
      BY <1>4, <2>2, <3>a
    <3>b. c \in Nat /\ \A k \in 1..(Len(q) - c) : b[k] = q[c + k]
      BY <1>1
    <3>c. c + (i - (c + 1)) = i - 1
      BY ONLY <3>b, i \in 1..(Len(q) + 1)
    <3>2. b[i - (c + 1)] = q[c + (i - (c + 1))] /\ c + (i - (c + 1)) = i - 1
      BY ONLY <3>1, <3>b, <3>c
    <3>3. QED
      BY <2>2, <3>1, <3>2
  <2>3. i <= c + 1 \/ i > c + 1
    OBVIOUS
  <2>4. QED
    BY <2>1, <2>2, <2>3
<1> HIDE DEF ar
<1> DEFINE all == InsertAt(q, c + 1, r)
<1>6. all = ar \o b
  BY <1>2
<1> HIDE DEF all
<1>7. all \in Seq(X) /\ Len(all) = Len(q) + 1
  BY <1>4, <1>6
<1>8. ASSUME NEW i \in 1..(Len(q) + 1)
      PROVE  all[i] = IF i <= c THEN q[i] ELSE IF i = c + 1 THEN r ELSE q[i - 1]
  <2>1. all[i] = (ar \o b)[i]
    BY <1>6
  <2>2. QED
    BY ONLY <1>5, <2>1
<1>9. QED
  BY <1>7, <1>8 DEF all

(* One more record, behind those it is not before.                         *)
LEMMA OneMoreSorted ==
  ASSUME NEW s \in Statements, NEW records \in Seq(Records), NEW m \in Nat, m < Len(records),
         NEW q \in Seq(Range(records)), StablySorted(s.keys, records, m, q)
  PROVE  StablySorted(s.keys, records, m + 1, Behind(s.keys, records, records[m + 1])[q])
<1> DEFINE K == s.keys
           R == Range(records)
           r == records[m + 1]
           A == {i \in DOMAIN q : ~Precedes(K, r, q[i])}
           c == Cardinality(A)
           out == InsertAt(q, c + 1, r)
<1>1. r \in R /\ R \subseteq Records /\ Len(q) = m /\ DOMAIN q = 1..m
  BY DEF Range, StablySorted
<1>2. \A i \in 1..m : q[i] \in Records
  BY <1>1
<1>3. PICK where : Arranges(where, K, records, m, q)
  BY DEF StablySorted
<1>4. Behind(K, records, r)[q] = out
  BY DEF Behind
<1>5. A = 1..c /\ c \in 0..m
  <2>1. \A i \in A : 1..i \subseteq A
    <3>1. ASSUME NEW i \in A, NEW j \in 1..i PROVE j \in A
      <4>1. i \in 1..m /\ j \in 1..m /\ (j = i \/ j < i)
        BY <1>1
      <4>2. CASE j = i
        BY <4>2
      <4>3. CASE j < i
        <5>1. ~Precedes(K, q[i], q[j])
          BY <1>3, <4>1, <4>3 DEF Arranges
        <5>2. ~Precedes(K, r, q[i])
          OBVIOUS
        <5> HIDE DEF A, r, K
        <5>3. ~Precedes(K, r, q[j])
          BY <1>1, <1>2, <4>1, <5>1, <5>2, Order DEF K
        <5>4. QED
          BY <1>1, <4>1, <5>3 DEF A
      <4>4. QED
        BY <4>1, <4>2, <4>3
    <3>2. QED
      BY <3>1
  <2>2. A \in SUBSET (1..m)
    BY <1>1
  <2> HIDE DEF A
  <2>3. QED
    BY <2>1, <2>2, PrefixOfNumbers
<1>6. \A i \in 1..m : i <= c <=> ~Precedes(K, r, q[i])
  <2>1. \A i \in 1..m : i \in A <=> ~Precedes(K, r, q[i])
    BY <1>1
  <2>2. \A i \in 1..m : i <= c <=> i \in 1..c
    BY <1>5
  <2> HIDE DEF A, c
  <2>3. QED
    BY <1>5, <2>1, <2>2
<1> HIDE DEF A, c, r, K, R
<1>7. /\ Len(out) = m + 1
      /\ \A i \in 1..(m + 1) :
           out[i] = IF i <= c THEN q[i] ELSE IF i = c + 1 THEN r ELSE q[i - 1]
  <2>1. q \in Seq(R) /\ r \in R /\ c \in 0..Len(q)
    BY <1>1, <1>5 DEF R
  <2>2. /\ Len(out) = Len(q) + 1
        /\ \A i \in 1..(Len(q) + 1) :
             out[i] = IF i <= c THEN q[i] ELSE IF i = c + 1 THEN r ELSE q[i - 1]
    <3>1. PICK n \in 0..Len(q) : n = c
      BY <2>1
    <3>2. /\ Len(InsertAt(q, n + 1, r)) = Len(q) + 1
          /\ \A i \in 1..(Len(q) + 1) :
               InsertAt(q, n + 1, r)[i]
                 = IF i <= n THEN q[i] ELSE IF i = n + 1 THEN r ELSE q[i - 1]
      BY <2>1, InsertedValues
    <3>3. out = InsertAt(q, n + 1, r)
      BY <3>1
    <3> HIDE DEF out
    <3>4. QED
      BY <3>1, <3>2, <3>3
  <2>3. QED
    BY ONLY <1>1, <2>2
<1> HIDE DEF out
<1> DEFINE from == [i \in 1..(m + 1) |-> IF i <= c THEN where[i]
                                         ELSE IF i = c + 1 THEN m + 1 ELSE where[i - 1]]
<1>8. /\ where \in [1..m -> 1..m]
      /\ \A k \in 1..m : \E i \in 1..m : where[i] = k
      /\ \A i, j \in 1..m : where[i] = where[j] => i = j
      /\ \A i \in 1..m : q[i] = records[where[i]]
      /\ \A i, j \in 1..m : i < j => /\ ~Precedes(K, q[j], q[i])
                                     /\ Precedes(K, q[i], q[j]) \/ where[i] < where[j]
  BY <1>3 DEF Arranges
<1>9. /\ \A i \in 1..m : where[i] \in 1..m /\ where[i] < m + 1
      /\ c \in Nat /\ c <= m
      /\ \A i \in 1..(m + 1) : i > c + 1 => i - 1 \in 1..m /\ i - 1 > c
      /\ \A i \in 1..(m + 1) : i <= c => i \in 1..m
  <2>1. c \in Nat /\ c <= m
    BY <1>5
  <2>2. \A i \in 1..m : where[i] \in 1..m
    BY <1>8
  <2>3. \A k \in 1..m : k < m + 1
    OBVIOUS
  <2>4. \A i \in 1..(m + 1) : i > c + 1 => i - 1 \in 1..m /\ i - 1 > c
    BY <2>1
  <2>5. \A i \in 1..(m + 1) : i <= c => i \in 1..m
    BY <2>1
  <2>6. QED
    BY <2>1, <2>2, <2>3, <2>4, <2>5
<1>10. from \in [1..(m + 1) -> 1..(m + 1)]
  <2>1. ASSUME NEW i \in 1..(m + 1) PROVE from[i] \in 1..(m + 1)
    BY <1>9
  <2>2. QED
    BY <2>1
<1>11. \A k \in 1..(m + 1) : \E i \in 1..(m + 1) : from[i] = k
  <2>1. TAKE k \in 1..(m + 1)
  <2>2. CASE k = m + 1
    <3>1. c + 1 \in 1..(m + 1) /\ ~(c + 1 <= c)
      BY <1>9
    <3>2. QED
      BY <2>2, <3>1
  <2>3. CASE k # m + 1
    <3>0. k \in 1..m
      BY <2>3
    <3>1. PICK i \in 1..m : where[i] = k
      BY <1>8, <3>0
    <3>2. CASE i <= c
      <4>1. i \in 1..(m + 1) /\ from[i] = k
        BY <3>1, <3>2
      <4>2. QED
        BY <4>1
    <3>3. CASE i > c
      <4>1. i + 1 \in 1..(m + 1) /\ i + 1 > c + 1 /\ (i + 1) - 1 = i
        BY <1>9, <3>3
      <4>2. from[i + 1] = k
        BY <1>9, <3>1, <4>1
      <4>3. QED
        BY <4>1, <4>2
    <3>4. QED
      BY <1>9, <3>2, <3>3
  <2>4. QED
    BY <2>2, <2>3
<1>12. \A i, j \in 1..(m + 1) : from[i] = from[j] => i = j
  <2>1. SUFFICES ASSUME NEW i \in 1..(m + 1), NEW j \in 1..(m + 1), from[i] = from[j], i < j
                 PROVE  FALSE
    OBVIOUS
  <2>2. CASE i <= c /\ j <= c
    BY <1>8, <1>9, <2>1, <2>2
  <2>3. CASE i <= c /\ j = c + 1
    BY <1>9, <2>1, <2>3
  <2>4. CASE i <= c /\ j > c + 1
    <3>1. from[i] = where[i] /\ from[j] = where[j - 1] /\ i # j - 1
      BY <1>9, <2>4
    <3>2. QED
      BY <1>8, <1>9, <2>1, <2>4, <3>1
  <2>5. CASE i = c + 1 /\ j > c + 1
    BY <1>9, <2>1, <2>5
  <2>6. CASE i > c + 1 /\ j > c + 1
    <3>1. from[i] = where[i - 1] /\ from[j] = where[j - 1] /\ i - 1 # j - 1
      BY <1>9, <2>1, <2>6
    <3>2. QED
      BY <1>8, <1>9, <2>1, <2>6, <3>1
  <2>7. QED
    BY <1>9, <2>1, <2>2, <2>3, <2>4, <2>5, <2>6
<1>13. \A i \in 1..(m + 1) : out[i] = records[from[i]]
  <2>1. TAKE i \in 1..(m + 1)
  <2>2. CASE i <= c
    BY <1>7, <1>8, <1>9, <2>2
  <2>3. CASE i = c + 1
    BY <1>7, <1>9, <2>3 DEF r
  <2>4. CASE i > c + 1
    <3>1. out[i] = q[i - 1] /\ from[i] = where[i - 1] /\ i - 1 \in 1..m
      BY <1>7, <1>9, <2>4
    <3>2. QED
      BY <1>8, <3>1
  <2>5. QED
    BY <1>9, <2>2, <2>3, <2>4
<1>14. ASSUME NEW i \in 1..(m + 1), NEW j \in 1..(m + 1), i < j
       PROVE  ~Precedes(K, out[j], out[i]) /\ (Precedes(K, out[i], out[j]) \/ from[i] < from[j])
  <2>1. CASE i <= c /\ j <= c
    BY <1>7, <1>8, <1>9, <1>14, <2>1
  <2>2. CASE i <= c /\ j = c + 1
    <3>1. out[i] = q[i] /\ out[j] = r /\ from[i] = where[i] /\ from[j] = m + 1
      BY <1>7, <1>9, <2>2
    <3>2. QED
      BY <1>6, <1>9, <2>2, <3>1
  <2>3. CASE i <= c /\ j > c + 1
    <3>1. /\ out[i] = q[i] /\ out[j] = q[j - 1] /\ from[i] = where[i] /\ from[j] = where[j - 1]
          /\ i < j - 1 /\ i \in 1..m /\ j - 1 \in 1..m
      BY <1>7, <1>9, <2>3
    <3>2. QED
      BY <1>8, <3>1
  <2>4. CASE i = c + 1 /\ j > c + 1
    <3>1. out[i] = r /\ out[j] = q[j - 1] /\ j - 1 \in 1..m /\ ~(j - 1 <= c)
      BY <1>7, <1>9, <2>4
    <3>2. Precedes(K, r, q[j - 1])
      BY <1>6, <3>1
    <3>3. r \in Records /\ q[j - 1] \in Records
      BY <1>1, <1>2, <3>1 DEF R
    <3>4. ~Precedes(K, q[j - 1], r)
      BY <3>2, <3>3, Order DEF K
    <3>5. QED
      BY <3>1, <3>2, <3>4
  <2>5. CASE i > c + 1 /\ j > c + 1
    <3>1. ASSUME NEW k \in 1..(m + 1), k > c + 1
          PROVE  out[k] = q[k - 1] /\ from[k] = where[k - 1] /\ k - 1 \in 1..m
      BY <1>7, <1>9, <3>1
    <3>2. i - 1 < j - 1
      BY <1>9, <1>14
    <3>3. /\ out[i] = q[i - 1] /\ from[i] = where[i - 1] /\ i - 1 \in 1..m
          /\ out[j] = q[j - 1] /\ from[j] = where[j - 1] /\ j - 1 \in 1..m
      BY <1>14, <2>5, <3>1
    <3>4. QED
      BY <1>8, <3>2, <3>3
  <2>6. QED
    BY <1>9, <1>14, <2>1, <2>2, <2>3, <2>4, <2>5
<1> HIDE DEF from
<1>15. Arranges(from, K, records, m + 1, out)
  BY <1>10, <1>11, <1>12, <1>13, <1>14 DEF Arranges
<1>16. StablySorted(K, records, m + 1, Behind(K, records, r)[q])
  BY <1>4, <1>7, <1>15 DEF StablySorted
<1>17. QED
  BY <1>16 DEF K, r

(* slice::sort_by of cobol_sort and cobol_sort_buffer_sort, which the      *)
(* model writes as an insertion: for any keys and any records the area     *)
(* holds them all afterwards, each once, none before one that              *)
(* compare_records puts in front of it, and records that it calls equal in *)
(* the order they came.                                                    *)
THEOREM SortedIsStable ==
  \A s \in Statements, records \in Seq(Records) :
    StablySorted(s.keys, records, Len(records), Sorted(s.keys, records))
<1> TAKE s \in Statements, records \in Seq(Records)
<1> DEFINE K == s.keys
           n == Len(records)
           R == Range(records)
<1>1. n \in Nat /\ DOMAIN records = 1..n
  OBVIOUS
<1>2. PICK g : IsSorting(g, K, records) /\ Sorted(K, records) = g[DOMAIN records]
  BY SortedIs
<1> DEFINE Good(m) == g[1..m] \in Seq(R) /\ StablySorted(K, records, m, g[1..m])
           T == {m \in Nat : m <= n => Good(m)}
<1>3. Good(0)
  <2>1. 1..0 = {}
    OBVIOUS
  <2>2. g[1..0] = <<>>
    <3>1. {} \in SUBSET DOMAIN records
      OBVIOUS
    <3>2. QED
      BY <1>2, <2>1, <3>1 DEF IsSorting
  <2>3. Arranges([i \in 1..0 |-> i], K, records, 0, g[1..0])
    BY <2>1 DEF Arranges
  <2>4. Len(<<>>) = 0 /\ <<>> \in Seq(R)
    OBVIOUS
  <2>5. QED
    BY <2>2, <2>3, <2>4 DEF StablySorted
<1>4. ASSUME NEW m \in Nat, m < n, Good(m) PROVE Good(m + 1)
  <2> DEFINE a == 1..(m + 1)
  <2>1. a \in SUBSET DOMAIN records /\ a # {} /\ a \ {m + 1} = 1..m
    <3>1. a \subseteq 1..n
      BY <1>1, <1>4
    <3>2. a \ {m + 1} = 1..m /\ m + 1 \in a
      OBVIOUS
    <3>3. QED
      BY <1>1, <3>1, <3>2
  <2>2. Max(a) = m + 1
    <3>1. a \in SUBSET Nat /\ m + 1 \in a /\ \A i \in a : i <= m + 1
      OBVIOUS
    <3>2. m + 1 \in Nat /\ a # {}
      BY <2>1
    <3> HIDE DEF a
    <3>3. Max(a) \in a /\ \A i \in a : i <= Max(a)
      BY <3>1, <3>2, MaxIsGreatest
    <3>4. Max(a) \in Nat /\ Max(a) <= m + 1 /\ m + 1 <= Max(a)
      BY <3>1, <3>3
    <3>5. QED
      BY <3>4
  <2>3. g[a] = Behind(K, records, records[m + 1])[g[1..m]]
    <3> HIDE DEF a
    <3>1. g[a] = Behind(K, records, records[Max(a)])[g[a \ {Max(a)}]]
      BY <1>2, <2>1 DEF IsSorting
    <3>2. QED
      BY <2>1, <2>2, <3>1
  <2>4. g[a] \in Seq(R)
    <3>1. records[m + 1] \in R
      BY <1>1, <1>4 DEF Range
    <3> HIDE DEF a
    <3>2. QED
      BY <1>4, <2>3, <3>1, BehindType
  <2>5. StablySorted(K, records, m + 1, g[a])
    <3>1. g[1..m] \in Seq(Range(records)) /\ StablySorted(s.keys, records, m, g[1..m])
      BY <1>4
    <3>2. m < Len(records)
      BY <1>4
    <3> HIDE DEF a
    <3>3. QED
      BY <2>3, <3>1, <3>2, OneMoreSorted
  <2>6. QED
    BY <2>4, <2>5
<1> HIDE DEF Good, n
<1>5. T = Nat
  <2>1. T \in SUBSET Nat /\ 0 \in T
    BY <1>3
  <2>2. ASSUME NEW m \in T PROVE m + 1 \in T
    BY <1>1, <1>4
  <2> HIDE DEF T
  <2>3. QED
    BY <2>1, <2>2, SetInduction
<1>6. Good(n)
  BY <1>1, <1>5
<1>7. QED
  BY <1>1, <1>2, <1>6 DEF Good, n

-----------------------------------------------------------------------------
(* The areas and the buffers *)

Busy == {"Input", "Draining", "Output"}

BuffersTyped ==
  /\ buffers \in Seq(Buffers \cup {Free})
  /\ \A i \in 1..Len(buffers) :
       buffers[i] # Free => buffers[i].readIndex \in 0..Len(buffers[i].records)

Typed ==
  /\ disk \in [Files -> Seq(Records) \cup {Absent}] /\ locked \in SUBSET Files
  /\ BuffersTyped /\ sortBufId \in Nat
  /\ statement \in Statements \cup {NoStatement} /\ phase \in Phases
  /\ file \in Nat /\ capacity \in Nat
  /\ area \in Seq(Records) /\ taken \in Seq(Records)
  /\ returned \in Seq(Records \cup {AtEnd})

(* What a statement has on hand where it is.                               *)
OnHand ==
  /\ phase = "Idle" => area = <<>> /\ capacity = InitialCapacity
  /\ phase # "Idle" => statement \in Statements
  /\ phase \in {"Reading", "Giving", "Draining", "Copying"} => file # 0
  /\ phase = "Reading" => place \in [1..Len(Using) -> Nat]
  /\ phase \in {"Merging", "Copying"} => Giving # <<>>
  /\ phase = "Merging" =>
       /\ place \in [1..Len(Using) -> Nat]
       /\ heads \in [1..Len(Using) -> Records \cup {None}]
       /\ Giving[1] \notin locked => disk[Giving[1]] # Absent

BusyBuffer == phase \in Busy => sortBufId + 1 \in 1..Len(buffers)

IInv == Typed /\ OnHand /\ BusyBuffer /\ RoomToRead /\ BuffersGivenBack

LEMMA IInvImplies == IInv => AreasCorrect
<1> SUFFICES ASSUME IInv PROVE AreasCorrect
  OBVIOUS
<1>1. TypeOK
  BY DEF IInv, Typed, BuffersTyped, TypeOK
<1>2. QED
  BY <1>1 DEF IInv, AreasCorrect

LEMMA InitInvariant == Init => IInv
<1> SUFFICES ASSUME Init PROVE IInv
  OBVIOUS
<1> USE DEF Init
<1>1. disk \in [Files -> Seq(Records) \cup {Absent}] /\ locked \in SUBSET Files
  BY FilesAssumption
<1>2. BuffersTyped
  BY DEF BuffersTyped
<1>3. Typed
  BY <1>1, <1>2, CapacityAssumption DEF Typed, Phases
<1>4. OnHand /\ BusyBuffer
  BY DEF OnHand, BusyBuffer, Busy
<1>5. RoomToRead /\ BuffersGivenBack
  BY DEF RoomToRead, BuffersGivenBack
<1>6. QED
  BY <1>3, <1>4, <1>5 DEF IInv

LEMMA NewBuffer ==
  ASSUME NEW records \in Seq(Records)
  PROVE  /\ Buffer(records) \in Buffers /\ Buffer(records) # Free
         /\ Buffer(records).records = records /\ Buffer(records).readIndex = 0
BY DistinctAssumption DEF Buffer, Buffers

(* cobol_sort_buffer_init, when no slot is taken.                          *)
LEMMA Taken ==
  ASSUME BuffersTyped, \A i \in 1..Len(buffers) : buffers[i] = Free,
         NEW records \in Seq(Records), Take(records)
  PROVE  /\ BuffersTyped' /\ sortBufId' \in Nat /\ sortBufId' + 1 \in 1..Len(buffers')
         /\ \A i \in 1..Len(buffers') : buffers'[i] # Free <=> i = sortBufId' + 1
         /\ buffers'[sortBufId' + 1] = Buffer(records)
<1> DEFINE b == Buffer(records)
           B == Buffers \cup {Free}
<1>1. b \in B /\ b # Free /\ b.readIndex \in 0..Len(b.records)
  BY NewBuffer
<1>2. buffers \in Seq(B) /\ Len(buffers) \in Nat
  BY DEF BuffersTyped
<1>3. /\ buffers' = IF Slot > Len(buffers) THEN Append(buffers, b)
                                           ELSE [buffers EXCEPT ![Slot] = b]
      /\ sortBufId' = Slot - 1
  BY DEF Take
<1> HIDE DEF b, B
<1>4. CASE FreeSlots = {}
  <2>1. Slot = Len(buffers) + 1
    BY <1>4 DEF Slot
  <2>2. /\ buffers' = Append(buffers, b) /\ sortBufId' = Len(buffers)
    BY <1>2, <1>3, <2>1
  <2>3. /\ buffers' \in Seq(B) /\ Len(buffers') = Len(buffers) + 1
        /\ buffers'[Len(buffers) + 1] = b
        /\ \A i \in 1..Len(buffers) : buffers'[i] = buffers[i]
    BY <1>1, <1>2, <2>2
  <2>4. \A i \in 1..Len(buffers') : IF i = sortBufId' + 1 THEN buffers'[i] = b
                                                         ELSE buffers'[i] = Free
    BY <1>2, <2>2, <2>3
  <2>5. sortBufId' \in Nat /\ sortBufId' + 1 \in 1..Len(buffers')
    BY <1>2, <2>2, <2>3
  <2>6. BuffersTyped'
    BY <1>1, <2>3, <2>4 DEF BuffersTyped, B
  <2>7. QED
    BY <1>1, <2>4, <2>5, <2>6 DEF b
<1>5. CASE FreeSlots # {}
  <2>1. Slot \in 1..Len(buffers)
    <3>1. FreeSlots \in SUBSET Nat
      BY DEF FreeSlots
    <3>2. \E i \in FreeSlots : \A j \in FreeSlots : i <= j
      BY <1>5, <3>1, MinIsLeast
    <3>3. Slot \in FreeSlots
      BY <1>5, <3>2 DEF Slot
    <3>4. QED
      BY <3>3 DEF FreeSlots
  <2>2. buffers' = [buffers EXCEPT ![Slot] = b] /\ sortBufId' = Slot - 1
    BY <1>2, <1>3, <2>1
  <2>3. /\ buffers' \in Seq(B) /\ Len(buffers') = Len(buffers)
        /\ buffers'[Slot] = b
        /\ \A i \in 1..Len(buffers) : i # Slot => buffers'[i] = buffers[i]
    BY <1>1, <1>2, <2>1, <2>2
  <2>4. \A i \in 1..Len(buffers') : IF i = sortBufId' + 1 THEN buffers'[i] = b
                                                         ELSE buffers'[i] = Free
    BY <1>2, <2>1, <2>2, <2>3
  <2>5. sortBufId' \in Nat /\ sortBufId' + 1 \in 1..Len(buffers')
    BY <1>2, <2>1, <2>2, <2>3
  <2>6. BuffersTyped'
    BY <1>1, <2>3, <2>4 DEF BuffersTyped, B
  <2>7. QED
    BY <1>1, <2>4, <2>5, <2>6 DEF b
<1>6. QED
  BY <1>4, <1>5

(* The buffer a procedure runs on.                                         *)
LEMMA BusyCurrent ==
  ASSUME IInv, phase \in Busy
  PROVE  /\ sortBufId + 1 \in 1..Len(buffers) /\ Live /\ Current \in Buffers
         /\ Current.records \in Seq(Records) /\ Current.readIndex \in 0..Len(Current.records)
         /\ \A i \in 1..Len(buffers) : i # sortBufId + 1 => buffers[i] = Free
<1>1. sortBufId + 1 \in 1..Len(buffers)
  BY DEF IInv, BusyBuffer
<1>2. \A i \in 1..Len(buffers) : buffers[i] # Free <=> i = sortBufId + 1
  BY DEF IInv, BuffersGivenBack, Busy
<1>3. Current # Free /\ Current \in Buffers \cup {Free}
  BY <1>1, <1>2 DEF Current, IInv, Typed, BuffersTyped
<1>4. Current.readIndex \in 0..Len(Current.records)
  BY <1>1, <1>3 DEF Current, IInv, Typed, BuffersTyped
<1>5. QED
  BY <1>1, <1>2, <1>3, <1>4 DEF Live, Current, Buffers

(* Another buffer in the slot of a procedure.                              *)
LEMMA BusyChange ==
  ASSUME IInv, phase \in Busy, NEW b \in Buffers, b.readIndex \in 0..Len(b.records),
         buffers' = [buffers EXCEPT ![sortBufId + 1] = b], sortBufId' = sortBufId
  PROVE  /\ BuffersTyped' /\ sortBufId' + 1 \in 1..Len(buffers')
         /\ \A i \in 1..Len(buffers') : buffers'[i] # Free <=> i = sortBufId' + 1
         /\ buffers'[sortBufId' + 1] = b
<1> DEFINE n == sortBufId + 1
<1>1. /\ n \in 1..Len(buffers) /\ \A i \in 1..Len(buffers) : i # n => buffers[i] = Free
      /\ buffers \in Seq(Buffers \cup {Free}) /\ b # Free
  BY BusyCurrent, DistinctAssumption DEF IInv, Typed, BuffersTyped
<1>2. /\ buffers' \in Seq(Buffers \cup {Free}) /\ Len(buffers') = Len(buffers)
      /\ \A i \in 1..Len(buffers) : buffers'[i] = IF i = n THEN b ELSE buffers[i]
  BY <1>1
<1>3. BuffersTyped'
  BY <1>1, <1>2 DEF BuffersTyped
<1>4. QED
  BY <1>1, <1>2, <1>3

(* cobol_sort_buffer_free.                                                 *)
LEMMA Freed ==
  ASSUME IInv, phase \in Busy, FreeBuffer
  PROVE  BuffersTyped' /\ \A i \in 1..Len(buffers') : buffers'[i] = Free
<1> DEFINE n == sortBufId + 1
<1>1. /\ n \in 1..Len(buffers) /\ \A i \in 1..Len(buffers) : i # n => buffers[i] = Free
      /\ buffers \in Seq(Buffers \cup {Free}) /\ buffers' = [buffers EXCEPT ![n] = Free]
  BY BusyCurrent DEF IInv, Typed, BuffersTyped, FreeBuffer
<1>2. /\ buffers' \in Seq(Buffers \cup {Free}) /\ Len(buffers') = Len(buffers)
      /\ \A i \in 1..Len(buffers) : buffers'[i] = Free
  BY <1>1
<1>3. BuffersTyped'
  BY <1>2 DEF BuffersTyped
<1>4. QED
  BY <1>2, <1>3

-----------------------------------------------------------------------------
(* Each action keeps the invariant *)

LEMMA ContentsType ==
  ASSUME Typed, NEW f \in Files
  PROVE  Contents(f) \in Seq(Records)
BY DistinctAssumption DEF Typed, Contents

LEMMA GiveType ==
  ASSUME Typed, NEW f \in Files, NEW records \in Seq(Records)
  PROVE  Give(f, records) \in [Files -> Seq(Records) \cup {Absent}]
BY DEF Typed, Give

LEMMA StatementParts ==
  ASSUME NEW s \in Statements
  PROVE  s.using \in Seq(Files) /\ s.giving \in Seq(Files)
BY StatementsAssumption

(* Where a step leaves the buffers as they are.                            *)
LEMMA BuffersKept ==
  ASSUME IInv, buffers' = buffers, sortBufId' = sortBufId, phase' \in Busy <=> phase \in Busy
  PROVE  BuffersTyped' /\ sortBufId' \in Nat /\ BusyBuffer' /\ BuffersGivenBack'
BY DEF IInv, Typed, BuffersTyped, BusyBuffer, BuffersGivenBack, Busy

LEMMA ReadUsingKeeps == IInv /\ ReadUsing => IInv'
<1> SUFFICES ASSUME IInv, ReadUsing PROVE IInv'
  OBVIOUS
<1> DEFINE c == Contents(Using[file])
           record == c[place[file] + 1]
<1>1. /\ phase = "Reading" /\ file <= Len(Using) /\ file \in Nat /\ file # 0
      /\ place[file] < Len(c)
      /\ area' = Append(area, record) /\ taken' = Append(taken, record)
      /\ place' = [place EXCEPT ![file] = @ + 1]
      /\ capacity' = IF Len(area') >= capacity THEN capacity * 2 ELSE capacity
      /\ UNCHANGED <<disk, locked, buffers, sortBufId, statement, phase, file, heads, returned>>
  BY DEF ReadUsing, IInv, Typed, OnHand
<1>2. /\ statement \in Statements /\ place \in [1..Len(Using) -> Nat]
      /\ area \in Seq(Records) /\ taken \in Seq(Records) /\ capacity \in Nat
      /\ Len(area) < capacity
  BY <1>1 DEF IInv, Typed, OnHand, RoomToRead
<1>3. Using \in Seq(Files)
  BY <1>2, StatementParts DEF Using
<1>4. file \in 1..Len(Using) /\ Using[file] \in Files
  BY <1>1, <1>3
<1>5. c \in Seq(Records)
  BY <1>4, ContentsType DEF IInv
<1> HIDE DEF c
<1>6. record \in Records
  <2>1. place[file] \in Nat
    BY <1>2, <1>4
  <2>2. place[file] + 1 \in 1..Len(c)
    BY <1>1, <1>5, <2>1
  <2>3. QED
    BY <1>5, <2>2
<1> HIDE DEF record
<1>7. area' \in Seq(Records) /\ taken' \in Seq(Records) /\ Len(area') = Len(area) + 1
  BY <1>1, <1>2, <1>6
<1>8. capacity' \in Nat /\ Len(area') < capacity'
  BY <1>1, <1>2, <1>7
<1>9. place' \in [1..Len(Using) -> Nat] /\ Using' = Using
  <2>1. Using' = Using
    BY <1>1 DEF Using
  <2>2. place[file] + 1 \in Nat
    BY <1>2, <1>4
  <2>3. place' \in [1..Len(Using) -> Nat]
    BY <1>1, <1>2, <2>2
  <2>4. QED
    BY <2>1, <2>3
<1>10. BuffersTyped' /\ sortBufId' \in Nat /\ BusyBuffer' /\ BuffersGivenBack'
  BY <1>1, BuffersKept
<1>11. Typed'
  BY <1>1, <1>7, <1>8, <1>10 DEF IInv, Typed
<1>12. OnHand' /\ RoomToRead'
  BY <1>1, <1>2, <1>8, <1>9 DEF OnHand, RoomToRead
<1>13. QED
  BY <1>10, <1>11, <1>12 DEF IInv

LEMMA CloseUsingKeeps == IInv /\ CloseUsing => IInv'
<1> SUFFICES ASSUME IInv, CloseUsing PROVE IInv'
  OBVIOUS
<1>1. /\ phase = "Reading" /\ file' = file + 1 /\ file \in Nat
      /\ UNCHANGED <<disk, locked, buffers, sortBufId, statement, phase, place, area, capacity,
                     heads, taken, returned>>
  BY DEF CloseUsing, IInv, Typed
<1>2. BuffersTyped' /\ sortBufId' \in Nat /\ BusyBuffer' /\ BuffersGivenBack'
  BY <1>1, BuffersKept
<1>3. Typed'
  BY <1>1, <1>2 DEF IInv, Typed
<1>4. OnHand' /\ RoomToRead'
  BY <1>1 DEF IInv, OnHand, RoomToRead, Using
<1>5. QED
  BY <1>2, <1>3, <1>4 DEF IInv

LEMMA SortAreaKeeps == IInv /\ SortArea => IInv'
<1> SUFFICES ASSUME IInv, SortArea PROVE IInv'
  OBVIOUS
<1>1. /\ phase = "Reading" /\ area' = Sorted(Keys, area) /\ file' = 1
      /\ UNCHANGED <<disk, locked, statement, place, capacity, heads, taken, returned>>
  BY DEF SortArea
<1>2. area' \in Seq(Records)
  BY <1>1, SortedType DEF IInv, Typed
<1>3. /\ phase' \in {"Output", "Giving"} /\ BuffersTyped' /\ sortBufId' \in Nat
      /\ BusyBuffer' /\ BuffersGivenBack'
  <2>1. CASE HasOutput(statement)
    <3>1. Take(area') /\ phase' = "Output"
      BY <2>1 DEF SortArea
    <3>2. BuffersTyped /\ \A i \in 1..Len(buffers) : buffers[i] = Free
      BY <1>1 DEF IInv, Typed, BuffersGivenBack
    <3>3. /\ BuffersTyped' /\ sortBufId' \in Nat /\ sortBufId' + 1 \in 1..Len(buffers')
          /\ \A i \in 1..Len(buffers') : buffers'[i] # Free <=> i = sortBufId' + 1
      BY <1>2, <3>1, <3>2, Taken
    <3>4. QED
      BY <3>1, <3>3 DEF BusyBuffer, BuffersGivenBack, Busy
  <2>2. CASE ~HasOutput(statement)
    <3>1. UNCHANGED <<buffers, sortBufId>> /\ phase' = "Giving"
      BY <2>2 DEF SortArea
    <3>2. QED
      BY <1>1, <3>1, BuffersKept DEF Busy
  <2>3. QED
    BY <2>1, <2>2
<1>4. Typed'
  BY <1>1, <1>2, <1>3 DEF IInv, Typed, Phases
<1>5. OnHand' /\ RoomToRead'
  BY <1>1, <1>3 DEF IInv, OnHand, RoomToRead
<1>6. QED
  BY <1>3, <1>4, <1>5 DEF IInv

LEMMA GiveAreaKeeps == IInv /\ GiveArea => IInv'
<1> SUFFICES ASSUME IInv, GiveArea PROVE IInv'
  OBVIOUS
<1>1. /\ phase = "Giving" /\ file <= Len(Giving) /\ file \in Nat /\ file # 0
      /\ disk' = Give(Giving[file], area) /\ file' = file + 1
      /\ UNCHANGED <<locked, buffers, sortBufId, statement, phase, place, area, capacity, heads,
                     taken, returned>>
  BY DEF GiveArea, IInv, Typed, OnHand
<1>2. Giving \in Seq(Files) /\ area \in Seq(Records)
  BY <1>1, StatementParts DEF IInv, OnHand, Giving, Typed
<1>3. disk' \in [Files -> Seq(Records) \cup {Absent}]
  BY <1>1, <1>2, GiveType DEF IInv
<1>4. BuffersTyped' /\ sortBufId' \in Nat /\ BusyBuffer' /\ BuffersGivenBack'
  BY <1>1, BuffersKept
<1>5. Typed'
  BY <1>1, <1>3, <1>4 DEF IInv, Typed
<1>6. OnHand' /\ RoomToRead'
  BY <1>1 DEF IInv, OnHand, RoomToRead
<1>7. QED
  BY <1>4, <1>5, <1>6 DEF IInv

(* The C code of a statement ends, no slot being taken.                    *)
LEMMA EndsKeeps ==
  ASSUME IInv, Ends, UNCHANGED <<disk, locked, sortBufId>>, BuffersTyped',
         \A i \in 1..Len(buffers') : buffers'[i] = Free
  PROVE  IInv'
<1>1. Typed'
  BY CapacityAssumption DEF IInv, Typed, Ends, Phases
<1>2. OnHand' /\ RoomToRead' /\ BusyBuffer'
  BY DEF OnHand, RoomToRead, BusyBuffer, Busy, Ends
<1>3. BuffersGivenBack'
  BY DEF BuffersGivenBack, Ends
<1>4. QED
  BY <1>1, <1>2, <1>3 DEF IInv

LEMMA EndGivingKeeps == IInv /\ EndGiving => IInv'
<1> SUFFICES ASSUME IInv, EndGiving PROVE IInv'
  OBVIOUS
<1>1. phase = "Giving" /\ Ends /\ UNCHANGED <<disk, locked, buffers, sortBufId>>
  BY DEF EndGiving
<1>2. BuffersTyped' /\ \A i \in 1..Len(buffers') : buffers'[i] = Free
  BY <1>1 DEF IInv, Typed, BuffersTyped, BuffersGivenBack
<1>3. QED
  BY <1>1, <1>2, EndsKeeps

LEMMA StartReadingKeeps ==
  ASSUME IInv, NEW s \in Statements, StartReading(s)
  PROVE  IInv'
<1>1. /\ phase = "Idle" /\ statement' = s /\ phase' = "Reading" /\ file' = 1
      /\ place' = [i \in 1..Len(s.using) |-> 0]
      /\ UNCHANGED <<disk, locked, buffers, sortBufId, area, capacity, heads, taken, returned>>
  BY DEF StartReading
<1>2. s.using \in Seq(Files) /\ Using' = s.using
  BY <1>1, StatementParts DEF Using
<1>3. area' = <<>> /\ capacity' = InitialCapacity /\ InitialCapacity \in Nat \ {0}
  BY <1>1, CapacityAssumption DEF IInv, OnHand
<1>4. BuffersTyped' /\ sortBufId' \in Nat /\ BusyBuffer' /\ BuffersGivenBack'
  BY <1>1, BuffersKept DEF Busy
<1>5. Typed'
  BY <1>1, <1>4 DEF IInv, Typed, Phases
<1>6. OnHand'
  BY <1>1, <1>2 DEF OnHand
<1>7. RoomToRead'
  BY <1>3 DEF RoomToRead
<1>8. QED
  BY <1>4, <1>5, <1>6, <1>7 DEF IInv

LEMMA StartInputKeeps ==
  ASSUME IInv, NEW s \in Statements, StartInput(s)
  PROVE  IInv'
<1>1. /\ phase = "Idle" /\ statement' = s /\ phase' = "Input" /\ Take(<<>>)
      /\ UNCHANGED <<disk, locked, file, place, area, capacity, heads, taken, returned>>
  BY DEF StartInput
<1>2. BuffersTyped /\ \A i \in 1..Len(buffers) : buffers[i] = Free
  BY <1>1 DEF IInv, Typed, BuffersGivenBack
<1>3. /\ BuffersTyped' /\ sortBufId' \in Nat /\ sortBufId' + 1 \in 1..Len(buffers')
      /\ \A i \in 1..Len(buffers') : buffers'[i] # Free <=> i = sortBufId' + 1
  <2> DEFINE none == <<>>
  <2>1. none \in Seq(Records) /\ Take(none)
    BY <1>1
  <2> HIDE DEF none
  <2>2. QED
    BY <1>2, <2>1, Taken
<1>4. Typed'
  BY <1>1, <1>3 DEF IInv, Typed, Phases
<1>5. OnHand' /\ RoomToRead'
  BY <1>1 DEF OnHand, RoomToRead
<1>6. BusyBuffer' /\ BuffersGivenBack'
  BY <1>1, <1>3 DEF BusyBuffer, BuffersGivenBack
<1>7. QED
  BY <1>4, <1>5, <1>6 DEF IInv

LEMMA ReleaseKeeps ==
  ASSUME IInv, NEW record \in Records, Release(record)
  PROVE  IInv'
<1>1. /\ phase = "Input" /\ taken' = Append(taken, record)
      /\ buffers' = IF Live THEN [buffers EXCEPT ![sortBufId + 1].records = Append(@, record)]
                            ELSE buffers
      /\ UNCHANGED <<disk, locked, sortBufId, statement, phase, file, place, area, capacity,
                     heads, returned>>
  BY DEF Release
<1>2. /\ sortBufId + 1 \in 1..Len(buffers) /\ Live /\ Current \in Buffers
      /\ Current.records \in Seq(Records) /\ Current.readIndex \in 0..Len(Current.records)
  BY <1>1, BusyCurrent DEF Busy
<1> DEFINE b == [Current EXCEPT !.records = Append(@, record)]
<1>3. /\ b \in Buffers /\ b.readIndex \in 0..Len(b.records)
  <2>1. /\ Append(Current.records, record) \in Seq(Records)
        /\ Len(Append(Current.records, record)) = Len(Current.records) + 1
        /\ Len(Current.records) \in Nat
    BY <1>2
  <2>2. b.records = Append(Current.records, record) /\ b.readIndex = Current.readIndex
    BY <1>2 DEF Buffers
  <2>3. b \in Buffers
    BY <1>2, <2>1 DEF Buffers
  <2>4. QED
    BY <1>2, <2>1, <2>2, <2>3
<1>4. buffers' = [buffers EXCEPT ![sortBufId + 1] = b]
  BY <1>1, <1>2 DEF Current
<1> HIDE DEF b
<1>5. /\ BuffersTyped' /\ sortBufId' + 1 \in 1..Len(buffers')
      /\ \A i \in 1..Len(buffers') : buffers'[i] # Free <=> i = sortBufId' + 1
  BY <1>1, <1>3, <1>4, BusyChange DEF Busy
<1>6. taken' \in Seq(Records)
  BY <1>1 DEF IInv, Typed
<1>7. Typed'
  BY <1>1, <1>5, <1>6 DEF IInv, Typed
<1>8. OnHand' /\ RoomToRead'
  BY <1>1 DEF IInv, OnHand, RoomToRead
<1>9. BusyBuffer' /\ BuffersGivenBack'
  BY <1>1, <1>5 DEF BusyBuffer, BuffersGivenBack
<1>10. QED
  BY <1>7, <1>8, <1>9 DEF IInv

LEMMA EndInputKeeps == IInv /\ EndInput => IInv'
<1> SUFFICES ASSUME IInv, EndInput PROVE IInv'
  OBVIOUS
<1> DEFINE b == Buffer(Sorted(Keys, Current.records))
<1>1. /\ phase = "Input" /\ file' = 1 /\ phase' \in {"Output", "Draining"}
      /\ buffers' = IF Live THEN [buffers EXCEPT ![sortBufId + 1] = b] ELSE buffers
      /\ UNCHANGED <<disk, locked, sortBufId, statement, place, area, capacity, heads, taken,
                     returned>>
  BY DEF EndInput
<1>2. Live /\ Current.records \in Seq(Records)
  BY <1>1, BusyCurrent DEF Busy
<1>3. /\ b \in Buffers /\ b.readIndex \in 0..Len(b.records)
  <2>1. Sorted(Keys, Current.records) \in Seq(Records)
    BY <1>2, SortedType
  <2>2. QED
    BY <2>1, NewBuffer
<1> HIDE DEF b
<1>4. /\ BuffersTyped' /\ sortBufId' + 1 \in 1..Len(buffers')
      /\ \A i \in 1..Len(buffers') : buffers'[i] # Free <=> i = sortBufId' + 1
  BY <1>1, <1>2, <1>3, BusyChange DEF Busy
<1>5. Typed'
  BY <1>1, <1>4 DEF IInv, Typed, Phases
<1>6. OnHand' /\ RoomToRead'
  BY <1>1 DEF IInv, OnHand, RoomToRead
<1>7. BusyBuffer' /\ BuffersGivenBack'
  BY <1>1, <1>4 DEF BusyBuffer, BuffersGivenBack
<1>8. QED
  BY <1>5, <1>6, <1>7 DEF IInv

LEMMA GiveBufferKeeps == IInv /\ GiveBuffer => IInv'
<1> SUFFICES ASSUME IInv, GiveBuffer PROVE IInv'
  OBVIOUS
<1> DEFINE rest == SubSeq(Current.records, Current.readIndex + 1, Len(Current.records))
           b == [Current EXCEPT !.readIndex = Len(Current.records)]
<1>1. /\ phase = "Draining" /\ file <= Len(Giving) /\ file \in Nat /\ file # 0
      /\ disk' = Give(Giving[file], rest) /\ file' = file + 1
      /\ buffers' = [buffers EXCEPT ![sortBufId + 1].readIndex = Len(Current.records)]
      /\ UNCHANGED <<locked, sortBufId, statement, phase, place, area, capacity, heads, taken,
                     returned>>
  BY DEF GiveBuffer, IInv, Typed, OnHand
<1>2. /\ sortBufId + 1 \in 1..Len(buffers) /\ Current \in Buffers
      /\ Current.records \in Seq(Records) /\ Current.readIndex \in 0..Len(Current.records)
  BY <1>1, BusyCurrent DEF Busy
<1>3. rest \in Seq(Records)
  BY <1>2
<1>4. b \in Buffers /\ b.readIndex \in 0..Len(b.records)
  BY <1>2 DEF Buffers
<1>5. buffers' = [buffers EXCEPT ![sortBufId + 1] = b]
  BY <1>1, <1>2 DEF Current
<1> HIDE DEF b, rest
<1>6. /\ BuffersTyped' /\ sortBufId' + 1 \in 1..Len(buffers')
      /\ \A i \in 1..Len(buffers') : buffers'[i] # Free <=> i = sortBufId' + 1
  BY <1>1, <1>4, <1>5, BusyChange DEF Busy
<1>7. disk' \in [Files -> Seq(Records) \cup {Absent}]
  <2>1. Giving \in Seq(Files)
    BY <1>1, StatementParts DEF IInv, OnHand, Giving
  <2>2. Giving[file] \in Files
    BY <1>1, <2>1
  <2>3. QED
    BY <1>1, <1>3, <2>2, GiveType DEF IInv
<1>8. Typed'
  BY <1>1, <1>6, <1>7 DEF IInv, Typed
<1>9. OnHand' /\ RoomToRead'
  BY <1>1 DEF IInv, OnHand, RoomToRead
<1>10. BusyBuffer' /\ BuffersGivenBack'
  BY <1>1, <1>6 DEF BusyBuffer, BuffersGivenBack
<1>11. QED
  BY <1>8, <1>9, <1>10 DEF IInv

LEMMA EndDrainingKeeps == IInv /\ EndDraining => IInv'
<1> SUFFICES ASSUME IInv, EndDraining PROVE IInv'
  OBVIOUS
<1>1. phase = "Draining" /\ FreeBuffer /\ Ends /\ UNCHANGED <<disk, locked, sortBufId>>
  BY DEF EndDraining
<1>2. BuffersTyped' /\ \A i \in 1..Len(buffers') : buffers'[i] = Free
  BY <1>1, Freed DEF Busy
<1>3. QED
  BY <1>1, <1>2, EndsKeeps

LEMMA ReturnKeeps == IInv /\ Return => IInv'
<1> SUFFICES ASSUME IInv, Return PROVE IInv'
  OBVIOUS
<1>1. /\ phase = "Output" /\ returned' = Append(returned, Answer)
      /\ buffers' = IF Answer # AtEnd
                      THEN [buffers EXCEPT ![sortBufId + 1].readIndex = @ + 1] ELSE buffers
      /\ UNCHANGED <<disk, locked, sortBufId, statement, phase, file, place, area, capacity,
                     heads, taken>>
  BY DEF Return
<1>2. /\ sortBufId + 1 \in 1..Len(buffers) /\ Live /\ Current \in Buffers
      /\ Current.records \in Seq(Records) /\ Current.readIndex \in 0..Len(Current.records)
  BY <1>1, BusyCurrent DEF Busy
<1>3. Answer \in Records \cup {AtEnd} /\ (Answer # AtEnd => Current.readIndex < Len(Current.records))
  <2>1. CASE Current.readIndex < Len(Current.records)
    <3>1. Answer = Current.records[Current.readIndex + 1]
      BY <1>2, <2>1 DEF Answer
    <3>2. Current.readIndex + 1 \in 1..Len(Current.records)
      BY <1>2, <2>1
    <3>3. QED
      BY <1>2, <2>1, <3>1, <3>2
  <2>2. CASE ~(Current.readIndex < Len(Current.records))
    BY <2>2 DEF Answer
  <2>3. QED
    BY <2>1, <2>2
<1>4. /\ BuffersTyped' /\ sortBufId' + 1 \in 1..Len(buffers')
      /\ \A i \in 1..Len(buffers') : buffers'[i] # Free <=> i = sortBufId' + 1
  <2>1. CASE Answer = AtEnd
    <3>1. buffers' = buffers /\ sortBufId' = sortBufId
      BY <1>1, <2>1
    <3>2. BuffersTyped' /\ BusyBuffer' /\ BuffersGivenBack'
      BY <1>1, <3>1, BuffersKept
    <3>3. QED
      BY <1>1, <3>2 DEF BusyBuffer, BuffersGivenBack, Busy
  <2>2. CASE Answer # AtEnd
    <3> DEFINE b == [Current EXCEPT !.readIndex = @ + 1]
    <3>1. b \in Buffers /\ b.readIndex \in 0..Len(b.records)
      BY <1>2, <1>3, <2>2 DEF Buffers
    <3>2. buffers' = [buffers EXCEPT ![sortBufId + 1] = b]
      BY <1>1, <1>2, <2>2 DEF Current
    <3> HIDE DEF b
    <3>3. QED
      BY <1>1, <3>1, <3>2, BusyChange DEF Busy
  <2>3. QED
    BY <2>1, <2>2
<1>5. returned' \in Seq(Records \cup {AtEnd})
  BY <1>1, <1>3 DEF IInv, Typed
<1>6. Typed'
  BY <1>1, <1>4, <1>5 DEF IInv, Typed
<1>7. OnHand' /\ RoomToRead'
  BY <1>1 DEF IInv, OnHand, RoomToRead
<1>8. BusyBuffer' /\ BuffersGivenBack'
  BY <1>1, <1>4 DEF BusyBuffer, BuffersGivenBack
<1>9. QED
  BY <1>6, <1>7, <1>8 DEF IInv

LEMMA EndOutputKeeps == IInv /\ EndOutput => IInv'
<1> SUFFICES ASSUME IInv, EndOutput PROVE IInv'
  OBVIOUS
<1>1. phase = "Output" /\ FreeBuffer /\ Ends /\ UNCHANGED <<disk, locked, sortBufId>>
  BY DEF EndOutput
<1>2. BuffersTyped' /\ \A i \in 1..Len(buffers') : buffers'[i] = Free
  BY <1>1, Freed DEF Busy
<1>3. QED
  BY <1>1, <1>2, EndsKeeps

LEMMA EndCopyingKeeps == IInv /\ EndCopying => IInv'
<1> SUFFICES ASSUME IInv, EndCopying PROVE IInv'
  OBVIOUS
<1>1. phase = "Copying" /\ Ends /\ UNCHANGED <<disk, locked, buffers, sortBufId>>
  BY DEF EndCopying
<1>2. BuffersTyped' /\ \A i \in 1..Len(buffers') : buffers'[i] = Free
  BY <1>1 DEF IInv, Typed, BuffersTyped, BuffersGivenBack
<1>3. QED
  BY <1>1, <1>2, EndsKeeps

LEMMA CopyGivingKeeps == IInv /\ CopyGiving => IInv'
<1> SUFFICES ASSUME IInv, CopyGiving PROVE IInv'
  OBVIOUS
<1>1. /\ phase = "Copying" /\ file <= Len(Giving) /\ file \in Nat /\ file # 0 /\ Giving # <<>>
      /\ disk' = Give(Giving[file], Contents(Giving[1])) /\ file' = file + 1
      /\ UNCHANGED <<locked, buffers, sortBufId, statement, phase, place, area, capacity, heads,
                     taken, returned>>
  BY DEF CopyGiving, IInv, Typed, OnHand
<1>2. Giving \in Seq(Files)
  BY <1>1, StatementParts DEF IInv, OnHand, Giving
<1>3. Giving[file] \in Files /\ Giving[1] \in Files
  BY <1>1, <1>2
<1>4. disk' \in [Files -> Seq(Records) \cup {Absent}]
  BY <1>1, <1>3, ContentsType, GiveType DEF IInv
<1>5. BuffersTyped' /\ sortBufId' \in Nat /\ BusyBuffer' /\ BuffersGivenBack'
  BY <1>1, BuffersKept
<1>6. Typed'
  BY <1>1, <1>4, <1>5 DEF IInv, Typed
<1>7. OnHand' /\ RoomToRead'
  BY <1>1 DEF IInv, OnHand, RoomToRead, Giving
<1>8. QED
  BY <1>5, <1>6, <1>7 DEF IInv

(* cobol_merge finds a record to take: the scan of the inputs ends on the  *)
(* first that no later one is before.                                      *)
LEMMA FirstOfInputs ==
  ASSUME NEW s \in Statements, NEW m \in Nat, NEW h, NEW H \in SUBSET (1..m), H # {},
         \A i \in H : h[i] \in Records
  PROVE  \E i \in H : /\ \A j \in H : j < i => Precedes(s.keys, h[i], h[j])
                      /\ \A j \in H : j > i => ~Precedes(s.keys, h[j], h[i])
<1> DEFINE P(i, j) == Precedes(s.keys, h[i], h[j])
           First(i, n) == /\ i \in H /\ i <= n
                          /\ \A j \in H : j < i => P(i, j)
                          /\ \A j \in H : j > i /\ j <= n => ~P(j, i)
           Found(n) == (\E i \in H : i <= n) => \E i \in H : First(i, n)
           T == {n \in Nat : Found(n)}
<1>1. /\ \A i, j, k \in H : P(i, j) /\ P(j, k) => P(i, k)
      /\ \A i, j, k \in H : ~P(i, j) /\ ~P(j, k) => ~P(i, k)
  BY Order
<1>2. \A i \in H : i \in Nat /\ i # 0 /\ i <= m
  OBVIOUS
<1> HIDE DEF P
<1>3. ASSUME NEW n \in Nat, Found(n) PROVE Found(n + 1)
  <2>1. SUFFICES ASSUME NEW k \in H, k <= n + 1 PROVE \E i \in H : First(i, n + 1)
    OBVIOUS
  <2>2. \A j \in H : j <= n + 1 <=> j <= n \/ j = n + 1
    BY <1>2
  <2>3. CASE n + 1 \notin H
    <3>1. \A j \in H : j <= n + 1 <=> j <= n
      BY <2>2, <2>3
    <3>2. PICK i \in H : First(i, n)
      BY <1>3, <2>1, <3>1
    <3>3. First(i, n + 1)
      BY <3>1, <3>2
    <3>4. QED
      BY <3>3
  <2>4. CASE n + 1 \in H /\ ~\E i \in H : i <= n
    <3>1. \A j \in H : ~(j < n + 1) /\ (j <= n + 1 => j = n + 1)
      BY <1>2, <2>2, <2>4
    <3>2. First(n + 1, n + 1)
      BY <1>2, <2>4, <3>1
    <3>3. QED
      BY <2>4, <3>2
  <2>5. CASE n + 1 \in H /\ \E i \in H : i <= n
    <3>1. PICK i \in H : First(i, n)
      BY <1>3, <2>5
    <3>2. i <= n /\ i \in Nat
      BY <1>2, <3>1
    <3>3. CASE P(n + 1, i)
      <4>1. ASSUME NEW j \in H, j < n + 1 PROVE P(n + 1, j)
        <5>1. j \in Nat /\ j <= n /\ (j < i \/ j = i \/ j > i)
          BY <1>2, <3>2, <4>1
        <5>2. CASE j < i
          <6>1. P(i, j)
            BY <3>1, <5>2
          <6>2. QED
            BY <1>1, <2>5, <3>3, <6>1
        <5>3. CASE j = i
          BY <3>3, <5>3
        <5>4. CASE j > i
          <6>1. ~P(j, i)
            BY <3>1, <5>1, <5>4
          <6>2. QED
            BY <1>1, <2>5, <3>3, <6>1
        <5>5. QED
          BY <5>1, <5>2, <5>3, <5>4
      <4>2. \A j \in H : ~(j > n + 1 /\ j <= n + 1)
        BY <1>2
      <4>3. First(n + 1, n + 1)
        BY <2>5, <4>1, <4>2
      <4>4. QED
        BY <2>5, <4>3
    <3>4. CASE ~P(n + 1, i)
      <4>1. \A j \in H : j > i /\ j <= n + 1 => ~P(j, i)
        BY <2>2, <3>1, <3>4
      <4>2. First(i, n + 1)
        BY <3>1, <3>2, <4>1
      <4>3. QED
        BY <4>2
    <3>5. QED
      BY <3>3, <3>4
  <2>6. QED
    BY <2>3, <2>4, <2>5
<1>4. Found(0)
  BY <1>2
<1>5. T = Nat
  <2>1. T \in SUBSET Nat /\ 0 \in T
    BY <1>4
  <2>2. ASSUME NEW n \in T PROVE n + 1 \in T
    <3>1. n \in Nat /\ Found(n)
      OBVIOUS
    <3>2. Found(n + 1)
      BY ONLY <1>3, <3>1
    <3> HIDE DEF Found
    <3>3. QED
      BY <3>1, <3>2
  <2> HIDE DEF T
  <2>3. QED
    BY <2>1, <2>2, SetInduction
<1>6. PICK i \in H : First(i, m)
  <2>1. Found(m)
    BY <1>5
  <2>2. QED
    BY <1>2, <2>1
<1>7. QED
  BY <1>2, <1>6 DEF P

LEMMA BestInHand ==
  ASSUME IInv, phase = "Merging", InHand # {}
  PROVE  /\ Best \in InHand /\ Best \in 1..Len(Using) /\ heads[Best] \in Records
         /\ \A j \in InHand : j < Best => Precedes(Keys, heads[Best], heads[j])
         /\ \A j \in InHand : j > Best => ~Precedes(Keys, heads[j], heads[Best])
<1>1. /\ statement \in Statements /\ heads \in [1..Len(Using) -> Records \cup {None}]
  BY DEF IInv, OnHand
<1>2. Using \in Seq(Files)
  BY <1>1, StatementParts DEF Using
<1>3. /\ InHand \in SUBSET (1..Len(Using)) /\ \A i \in InHand : heads[i] \in Records
      /\ Len(Using) \in Nat
  BY <1>1, <1>2 DEF InHand
<1>4. \E i \in InHand : /\ \A j \in InHand : j < i => Precedes(Keys, heads[i], heads[j])
                        /\ \A j \in InHand : j > i => ~Precedes(Keys, heads[j], heads[i])
  BY <1>1, <1>3, FirstOfInputs DEF Keys
<1>5. /\ Best \in InHand
      /\ \A j \in InHand : j < Best => Precedes(Keys, heads[Best], heads[j])
      /\ \A j \in InHand : j > Best => ~Precedes(Keys, heads[j], heads[Best])
  BY <1>4 DEF Best
<1>6. QED
  BY <1>3, <1>5

LEMMA StartMergingKeeps ==
  ASSUME IInv, NEW s \in Statements, StartMerging(s)
  PROVE  IInv'
<1> DEFINE H(i) == IF Contents(s.using[i]) = <<>> THEN None ELSE Contents(s.using[i])[1]
           all == [i \in 1..Len(s.using) |-> Contents(s.using[i])]
<1>1. /\ phase = "Idle" /\ statement' = s /\ phase' = "Merging" /\ s.giving # <<>>
      /\ disk' = Give(s.giving[1], <<>>)
      /\ place' = [i \in 1..Len(s.using) |-> 1]
      /\ heads' = [i \in 1..Len(s.using) |-> H(i)]
      /\ taken' = FlattenSeq(all)
      /\ UNCHANGED <<locked, buffers, sortBufId, file, area, capacity, returned>>
  BY DEF StartMerging, Merges
<1>2. s.using \in Seq(Files) /\ s.giving \in Seq(Files)
  BY StatementParts
<1>3. \A i \in 1..Len(s.using) : Contents(s.using[i]) \in Seq(Records)
  BY <1>2, ContentsType DEF IInv
<1>4. \A i \in 1..Len(s.using) : H(i) \in Records \cup {None}
  BY <1>3
<1>5. taken' \in Seq(Records)
  <2>1. all \in Seq(Seq(Records))
    BY <1>2, <1>3
  <2> HIDE DEF all
  <2>2. QED
    BY <1>1, <2>1, FlattenType
<1>6. s.giving[1] \in Files
  BY <1>1, <1>2
<1>7. disk' \in [Files -> Seq(Records) \cup {Absent}]
  <2> DEFINE none == <<>>
  <2>1. none \in Seq(Records) /\ disk' = Give(s.giving[1], none)
    BY <1>1
  <2> HIDE DEF none
  <2>2. QED
    BY <1>6, <2>1, GiveType DEF IInv
<1>8. s.giving[1] \notin locked => disk'[s.giving[1]] # Absent
  <2>1. SUFFICES ASSUME s.giving[1] \notin locked PROVE disk'[s.giving[1]] # Absent
    OBVIOUS
  <2>2. disk' = [disk EXCEPT ![s.giving[1]] = <<>>]
    BY <1>1, <2>1 DEF Give
  <2>3. disk'[s.giving[1]] = <<>>
    BY <1>6, <2>2 DEF IInv, Typed
  <2>4. <<>> \in Seq(Records)
    OBVIOUS
  <2>5. QED
    BY <2>3, <2>4, DistinctAssumption
<1> HIDE DEF H, all
<1>9. BuffersTyped' /\ sortBufId' \in Nat /\ BusyBuffer' /\ BuffersGivenBack'
  BY <1>1, BuffersKept DEF Busy
<1>10. Typed'
  BY <1>1, <1>5, <1>7, <1>9 DEF IInv, Typed, Phases
<1>11. Using' = s.using /\ Giving' = s.giving
  BY <1>1 DEF Using, Giving
<1>12. OnHand'
  <2>1. place' \in [1..Len(s.using) -> Nat]
    BY <1>1
  <2>2. heads' \in [1..Len(s.using) -> Records \cup {None}]
    BY <1>1, <1>4
  <2>3. QED
    BY <1>1, <1>8, <1>11, <2>1, <2>2 DEF OnHand
<1>13. RoomToRead'
  BY <1>1 DEF RoomToRead
<1>14. QED
  BY <1>9, <1>10, <1>12, <1>13 DEF IInv

LEMMA MergeRecordKeeps == IInv /\ MergeRecord => IInv'
<1> SUFFICES ASSUME IInv, MergeRecord PROVE IInv'
  OBVIOUS
<1>1. /\ phase = "Merging" /\ InHand # {}
      /\ UNCHANGED <<locked, buffers, sortBufId, statement, area, capacity, taken, returned>>
  BY DEF MergeRecord
<1>2. /\ statement \in Statements /\ Giving # <<>> /\ place \in [1..Len(Using) -> Nat]
      /\ heads \in [1..Len(Using) -> Records \cup {None}]
      /\ Giving[1] \notin locked => disk[Giving[1]] # Absent
      /\ disk \in [Files -> Seq(Records) \cup {Absent}]
  BY <1>1 DEF IInv, OnHand, Typed
<1>3. Using' = Using /\ Giving' = Giving
  BY <1>1 DEF Using, Giving
<1>4. CASE Giving[1] \in locked
  <2>1. phase' = "Copying" /\ file' = 2 /\ UNCHANGED <<disk, place, heads>>
    BY <1>4 DEF MergeRecord
  <2>2. BuffersTyped' /\ sortBufId' \in Nat /\ BusyBuffer' /\ BuffersGivenBack'
    BY <1>1, <2>1, BuffersKept DEF Busy
  <2>3. Typed'
    BY <1>1, <2>1, <2>2 DEF IInv, Typed, Phases
  <2>4. OnHand' /\ RoomToRead'
    BY <1>1, <1>2, <1>3, <2>1 DEF OnHand, RoomToRead
  <2>5. QED
    BY <2>2, <2>3, <2>4 DEF IInv
<1>5. CASE Giving[1] \notin locked
  <2> DEFINE h == Head_(Best, place[Best])
  <2>1. /\ disk' = [disk EXCEPT ![Giving[1]] = Append(@, heads[Best])]
        /\ heads' = [heads EXCEPT ![Best] = h]
        /\ place' = [place EXCEPT ![Best] = @ + 1]
        /\ phase' = phase /\ file' = file
    BY <1>5 DEF MergeRecord
  <2>2. Best \in 1..Len(Using) /\ heads[Best] \in Records
    BY <1>1, BestInHand
  <2>3. Using \in Seq(Files) /\ Giving \in Seq(Files)
    BY <1>2, StatementParts DEF Using, Giving
  <2>4. Giving[1] \in Files /\ Using[Best] \in Files
    BY <1>2, <2>2, <2>3
  <2>5. h \in Records \cup {None}
    <3>1. Contents(Using[Best]) \in Seq(Records) /\ place[Best] \in Nat
      BY <1>2, <2>2, <2>4, ContentsType DEF IInv
    <3>2. CASE place[Best] < Len(Contents(Using[Best]))
      <4>1. place[Best] + 1 \in 1..Len(Contents(Using[Best]))
        BY <3>1, <3>2
      <4>2. Contents(Using[Best])[place[Best] + 1] \in Records
        BY <3>1, <4>1
      <4>3. QED
        BY <3>2, <4>2 DEF Head_
    <3>3. CASE ~(place[Best] < Len(Contents(Using[Best])))
      BY <3>3 DEF Head_
    <3>4. QED
      BY <3>2, <3>3
  <2> HIDE DEF h
  <2>6. heads' \in [1..Len(Using) -> Records \cup {None}]
    BY <1>2, <2>1, <2>5
  <2>7. place' \in [1..Len(Using) -> Nat]
    <3>1. place[Best] + 1 \in Nat
      BY <1>2, <2>2
    <3>2. QED
      BY <1>2, <2>1, <3>1
  <2>8. disk' \in [Files -> Seq(Records) \cup {Absent}] /\ disk'[Giving[1]] # Absent
    <3> DEFINE more == Append(disk[Giving[1]], heads[Best])
    <3>1. more \in Seq(Records)
      BY <1>2, <1>5, <2>2, <2>4
    <3>2. disk' = [disk EXCEPT ![Giving[1]] = more]
      BY <2>1
    <3> HIDE DEF more
    <3>3. QED
      BY <1>2, <2>4, <3>1, <3>2, DistinctAssumption
  <2>9. BuffersTyped' /\ sortBufId' \in Nat /\ BusyBuffer' /\ BuffersGivenBack'
    BY <1>1, <2>1, BuffersKept
  <2>10. Typed'
    BY <1>1, <2>1, <2>8, <2>9 DEF IInv, Typed
  <2>11. OnHand' /\ RoomToRead'
    BY <1>1, <1>2, <1>3, <2>1, <2>6, <2>7, <2>8 DEF OnHand, RoomToRead
  <2>12. QED
    BY <2>9, <2>10, <2>11 DEF IInv
<1>6. QED
  BY <1>4, <1>5

LEMMA EndMergingKeeps == IInv /\ EndMerging => IInv'
<1> SUFFICES ASSUME IInv, EndMerging PROVE IInv'
  OBVIOUS
<1>1. /\ phase = "Merging" /\ phase' = "Copying" /\ file' = 2
      /\ UNCHANGED <<disk, locked, buffers, sortBufId, statement, place, area, capacity, heads,
                     taken, returned>>
  BY DEF EndMerging
<1>2. BuffersTyped' /\ sortBufId' \in Nat /\ BusyBuffer' /\ BuffersGivenBack'
  BY <1>1, BuffersKept DEF Busy
<1>3. Typed'
  BY <1>1, <1>2 DEF IInv, Typed, Phases
<1>4. OnHand' /\ RoomToRead'
  BY <1>1 DEF IInv, OnHand, RoomToRead, Giving
<1>5. QED
  BY <1>2, <1>3, <1>4 DEF IInv

LEMMA NextKeeps == IInv /\ [Next]_vars => IInv'
<1> SUFFICES ASSUME IInv, [Next]_vars PROVE IInv'
  OBVIOUS
<1>1. ASSUME Step PROVE IInv'
  BY <1>1, ReadUsingKeeps, CloseUsingKeeps, SortAreaKeeps, GiveAreaKeeps, EndGivingKeeps,
     GiveBufferKeeps, EndDrainingKeeps, MergeRecordKeeps, EndMergingKeeps, CopyGivingKeeps,
     EndCopyingKeeps DEF Step
<1>2. ASSUME NEW s \in Statements, StartReading(s) \/ StartInput(s) \/ StartMerging(s)
      PROVE  IInv'
  BY <1>2, StartReadingKeeps, StartInputKeeps, StartMergingKeeps
<1>3. ASSUME NEW record \in Records, Release(record) PROVE IInv'
  BY <1>3, ReleaseKeeps
<1>4. ASSUME EndInput \/ Return \/ EndOutput PROVE IInv'
  BY <1>4, EndInputKeeps, ReturnKeeps, EndOutputKeeps
<1>5. CASE UNCHANGED vars
  <2>1. UNCHANGED <<disk, locked, buffers, sortBufId, statement, phase, file, place, area,
                    capacity, heads, taken, returned>>
    BY <1>5 DEF vars
  <2>2. BuffersTyped' /\ sortBufId' \in Nat /\ BusyBuffer' /\ BuffersGivenBack'
    BY <2>1, BuffersKept
  <2>3. Typed'
    BY <2>1, <2>2 DEF IInv, Typed
  <2>4. OnHand' /\ RoomToRead'
    BY <2>1 DEF IInv, OnHand, RoomToRead, Using, Giving
  <2>5. QED
    BY <2>2, <2>3, <2>4 DEF IInv
<1>6. QED
  BY <1>1, <1>2, <1>3, <1>4, <1>5 DEF Next

LEMMA Invariant == Spec => []IInv
BY InitInvariant, NextKeeps, PTL DEF Spec

(* The C code that emit_sort and emit_merge write, and SORT_BUFFERS, for   *)
(* any files, records, keys and statements, run one after the other        *)
(* without end: a READ always finds room in the area, a slot of the        *)
(* runtime is taken exactly while a procedure may use it, RETURN never     *)
(* passes the last record of one, and whatever is read, sorted, merged,    *)
(* returned or written is a record of the program.                         *)
THEOREM AreasAlwaysCorrect == Spec => []AreasCorrect
BY Invariant, IInvImplies, PTL

-----------------------------------------------------------------------------
(* The order COBOL asks for *)

(* There is one stable order, and it is the one of the values.             *)
LEMMA StableIsInOrder ==
  ASSUME KeysCompareAsValues, NEW s \in Statements, NEW records \in Seq(Records),
         NEW out \in Seq(Records), StablySorted(s.keys, records, Len(records), out)
  PROVE  out = InOrder(s.keys, records)
<1> DEFINE K == s.keys
           n == Len(records)
           B(r, q) == ValueBefore(K, r, q)
<1>1. n \in Nat /\ Len(out) = n /\ \A i \in 1..n : records[i] \in Records
  BY DEF StablySorted
<1>2. PICK where : Arranges(where, K, records, n, out)
  BY DEF StablySorted
<1>3. /\ where \in [1..n -> 1..n]
      /\ \A k \in 1..n : \E i \in 1..n : where[i] = k
      /\ \A i, j \in 1..n : where[i] = where[j] => i = j
      /\ \A i \in 1..n : out[i] = records[where[i]]
  BY <1>2 DEF Arranges
<1>4. /\ \A x, y \in Records : Precedes(K, x, y) <=> B(x, y)
      /\ \A x \in Records : ~B(x, x)
  BY Order DEF KeysCompareAsValues
<1>5. \A i, j \in 1..n : i < j =>
        /\ ~B(records[where[j]], records[where[i]])
        /\ B(records[where[i]], records[where[j]]) \/ where[i] < where[j]
  <2>1. \A i, j \in 1..n : i < j => /\ ~Precedes(K, out[j], out[i])
                                    /\ Precedes(K, out[i], out[j]) \/ where[i] < where[j]
    BY <1>2 DEF Arranges
  <2>2. \A i \in 1..n : records[where[i]] \in Records
    BY <1>1, <1>3
  <2> HIDE DEF B, K, n
  <2>3. QED
    BY <1>3, <1>4, <2>1, <2>2
<1>6. \A i \in 1..n : Rank(K, records, i) =
        Cardinality({j \in 1..n : B(records[j], records[i]) \/ (j <= i /\ ~B(records[i], records[j]))})
  BY DEF Rank
<1> HIDE DEF B, K, n
<1>7. ASSUME NEW i \in 1..n PROVE Rank(K, records, where[i]) = i
  <2> DEFINE w == where[i]
             J == {j \in 1..n : B(records[j], records[w]) \/ (j <= w /\ ~B(records[w], records[j]))}
             f == [k \in 1..i |-> where[k]]
  <2>1. w \in 1..n /\ \A k \in 1..i : k \in 1..n
    BY <1>1, <1>3
  <2>2. \A k \in 1..i : where[k] \in J
    <3>1. TAKE k \in 1..i
    <3>2. where[k] \in 1..n /\ (k < i \/ k = i)
      BY <1>1, <1>3, <2>1
    <3>3. CASE k = i
      <4>1. where[k] <= w /\ ~B(records[w], records[where[k]])
        BY <1>1, <1>4, <2>1, <3>3
      <4>2. QED
        BY <3>2, <4>1
    <3>4. CASE k < i
      <4>1. /\ ~B(records[w], records[where[k]])
            /\ B(records[where[k]], records[w]) \/ where[k] < w
        BY <1>5, <2>1, <3>4
      <4>2. where[k] < w => where[k] <= w
        BY <2>1, <3>2
      <4>3. QED
        BY <3>2, <4>1, <4>2
    <3>5. QED
      BY <3>2, <3>3, <3>4
  <2>3. \A j \in J : \E k \in 1..i : where[k] = j
    <3>1. TAKE j \in J
    <3>2. PICK k \in 1..n : where[k] = j
      BY <1>3
    <3>3. ASSUME k > i PROVE FALSE
      <4>1. /\ ~B(records[where[k]], records[w])
            /\ B(records[w], records[where[k]]) \/ w < where[k]
        BY <1>5, <3>3
      <4>2. j <= w /\ ~B(records[w], records[j])
        BY <3>2, <4>1
      <4>3. w < j
        BY <3>2, <4>1, <4>2
      <4>4. w \in Nat /\ j \in Nat
        BY <2>1
      <4>5. QED
        BY <4>2, <4>3, <4>4
    <3>4. k \in 1..i
      BY <3>3
    <3>5. QED
      BY <3>2, <3>4
  <2>4. f \in Bijection(1..i, J)
    <3>1. f \in [1..i -> J]
      BY <2>2
    <3>2. \A a, b \in 1..i : f[a] = f[b] => a = b
      BY <1>3, <2>1
    <3>3. \A j \in J : \E k \in 1..i : f[k] = j
      BY <2>3
    <3> HIDE DEF f, J
    <3>4. QED
      BY <3>1, <3>2, <3>3 DEF Bijection, Injection, Surjection, IsInjective
  <2>5. ExistsBijection(1..i, J)
    BY <2>4 DEF ExistsBijection
  <2>6. Cardinality(J) = i
    <3>1. i \in Nat
      OBVIOUS
    <3> HIDE DEF J
    <3>2. QED
      BY <2>5, <3>1, FS_CountingElements
  <2>7. QED
    BY <1>6, <2>1, <2>6
<1>8. ASSUME NEW k \in 1..n
      PROVE  records[CHOOSE i \in 1..n : Rank(K, records, i) = k] = out[k]
  <2> DEFINE c == CHOOSE i \in 1..n : Rank(K, records, i) = k
  <2>1. where[k] \in 1..n /\ Rank(K, records, where[k]) = k
    BY <1>3, <1>7
  <2>2. c \in 1..n /\ Rank(K, records, c) = k
    BY <2>1
  <2> HIDE DEF c
  <2>3. PICK i \in 1..n : where[i] = c
    BY <1>3, <2>2
  <2>4. i = k
    BY <1>7, <2>2, <2>3
  <2>5. records[c] = out[k]
    BY <1>3, <2>3, <2>4
  <2>6. QED
    BY <2>5 DEF c
<1>9. InOrder(K, records) = [k \in 1..n |-> records[CHOOSE i \in 1..n : Rank(K, records, i) = k]]
  BY DEF InOrder, n
<1>10. InOrder(K, records) = [k \in 1..n |-> out[k]]
  BY <1>8, <1>9
<1>11. out = [k \in 1..n |-> out[k]]
  BY <1>1
<1>12. QED
  BY <1>10, <1>11 DEF K

LEMMA SortedInOrder ==
  ASSUME KeysCompareAsValues, NEW s \in Statements, NEW records \in Seq(Records)
  PROVE  /\ Sorted(s.keys, records) = InOrder(s.keys, records)
         /\ InOrder(s.keys, records) \in Seq(Records)
         /\ Len(InOrder(s.keys, records)) = Len(records)
<1>1. StablySorted(s.keys, records, Len(records), Sorted(s.keys, records))
  BY SortedIsStable
<1>2. Sorted(s.keys, records) \in Seq(Records)
  BY SortedType
<1>3. Sorted(s.keys, records) = InOrder(s.keys, records)
  BY <1>1, <1>2, StableIsInOrder
<1>4. QED
  BY <1>1, <1>2, <1>3 DEF StablySorted

-----------------------------------------------------------------------------
(* The merge *)

(* out holds the records before place of each of the inputs cs, in the     *)
(* stable order of all their records, and none of the others belongs       *)
(* before one of them; o says how many records the earlier inputs have,    *)
(* where which of all records stands at a place of out.                    *)
Merged(keys, cs, o, place_, all, where, out) ==
  /\ where \in [1..Len(out) -> 1..Len(all)]
  /\ \A i, j \in 1..Len(out) : where[i] = where[j] => i = j
  /\ \A i \in 1..Len(out) : out[i] = all[where[i]]
  /\ \A i \in 1..Len(cs) : \A k \in 1..Len(cs[i]) :
       k < place_[i] <=> \E a \in 1..Len(out) : where[a] = o[i] + k
  /\ \A i, j \in 1..Len(out) : i < j => /\ ~Precedes(keys, out[j], out[i])
                                        /\ Precedes(keys, out[i], out[j]) \/ where[i] < where[j]
  /\ \A a \in 1..Len(out), i \in 1..Len(cs) : \A k \in 1..Len(cs[i]) :
       place_[i] <= k => /\ ~Precedes(keys, cs[i][k], out[a])
                         /\ Precedes(keys, out[a], cs[i][k]) \/ where[a] < o[i] + k

(* No record of an input belongs before an earlier one of it.              *)
InputsInOrder(keys, cs) ==
  \A i \in 1..Len(cs) : \A k, l \in 1..Len(cs[i]) : k < l => ~Precedes(keys, cs[i][l], cs[i][k])

(* The record in hand of input b is the one cobol_merge takes.             *)
Takes(keys, cs, place_, b) ==
  /\ b \in 1..Len(cs) /\ place_[b] \in 1..Len(cs[b])
  /\ \A i \in 1..Len(cs) : place_[i] \in 1..Len(cs[i]) =>
       /\ i < b => Precedes(keys, cs[b][place_[b]], cs[i][place_[i]])
       /\ i > b => ~Precedes(keys, cs[i][place_[i]], cs[b][place_[b]])

LEMMA PlacesDiffer ==
  ASSUME NEW S, NEW cs \in Seq(Seq(S)), NEW all \in Seq(S), NEW o, PlacedIn(o, cs, Len(cs), all),
         NEW i \in 1..Len(cs), NEW k \in 1..Len(cs[i]), NEW j \in 1..Len(cs), NEW l \in 1..Len(cs[j])
  PROVE  /\ o[i] + k \in 1..Len(all) /\ all[o[i] + k] = cs[i][k]
         /\ o[i] + k = o[j] + l => i = j /\ k = l
         /\ i < j => o[i] + k < o[j] + l
<1>1. /\ o[i] \in Nat /\ o[j] \in Nat /\ o[i] + Len(cs[i]) <= Len(all)
      /\ all[o[i] + k] = cs[i][k]
      /\ i < j => o[i] + Len(cs[i]) <= o[j]
      /\ j < i => o[j] + Len(cs[j]) <= o[i]
  BY DEF PlacedIn
<1>2. /\ cs[i] \in Seq(S) /\ cs[j] \in Seq(S) /\ Len(all) \in Nat
  OBVIOUS
<1>3. Len(cs[i]) \in Nat /\ Len(cs[j]) \in Nat
  BY <1>2
<1>4. /\ k \in Nat /\ k # 0 /\ k <= Len(cs[i]) /\ l \in Nat /\ l # 0 /\ l <= Len(cs[j])
      /\ i \in Nat /\ j \in Nat
  BY <1>3
<1>5. o[i] + k \in 1..Len(all)
  <2>1. \A x, y, z, m \in Nat : x + y <= z /\ m # 0 /\ m <= y => x + m \in 1..z
    OBVIOUS
  <2>2. QED
    BY ONLY <1>1, <1>2, <1>3, <1>4, <2>1
<1>6. i < j => o[i] + k < o[j] + l
  <2>1. \A x, y, z, m, q \in Nat : x + y <= z /\ m <= y /\ q # 0 => x + m < z + q
    OBVIOUS
  <2>2. QED
    BY ONLY <1>1, <1>3, <1>4, <2>1
<1>7. j < i => o[j] + l < o[i] + k
  <2>1. \A x, y, z, m, q \in Nat : x + y <= z /\ m <= y /\ q # 0 => x + m < z + q
    OBVIOUS
  <2>2. QED
    BY ONLY <1>1, <1>3, <1>4, <2>1
<1>8. o[i] + k = o[j] + l => i = j /\ k = l
  <2>1. SUFFICES ASSUME o[i] + k = o[j] + l PROVE i = j /\ k = l
    OBVIOUS
  <2>2. i = j
    BY ONLY <1>1, <1>4, <1>6, <1>7, <2>1
  <2>3. QED
    BY ONLY <1>1, <1>4, <2>1, <2>2
<1>9. QED
  BY <1>1, <1>5, <1>6, <1>8

LEMMA MergeOne ==
  ASSUME NEW s \in Statements, NEW cs \in Seq(Seq(Records)), NEW all \in Seq(Records), NEW o,
         PlacedIn(o, cs, Len(cs), all), InputsInOrder(s.keys, cs),
         NEW pl \in [1..Len(cs) -> Nat \ {0}], NEW out \in Seq(Records), NEW where,
         Merged(s.keys, cs, o, pl, all, where, out), NEW b, Takes(s.keys, cs, pl, b)
  PROVE  \E w : Merged(s.keys, cs, o, [pl EXCEPT ![b] = @ + 1], all, w, Append(out, cs[b][pl[b]]))
<1> DEFINE K == s.keys
           n == Len(out)
           N == Len(all)
           M == 1..Len(cs)
           r == cs[b][pl[b]]
           p == o[b] + pl[b]
           pl2 == [pl EXCEPT ![b] = @ + 1]
           out2 == Append(out, r)
           w == [a \in 1..(n + 1) |-> IF a <= n THEN where[a] ELSE p]
           P(x, y) == Precedes(K, x, y)
           In(i) == 1..Len(cs[i])
<1>1. /\ n \in Nat /\ N \in Nat /\ b \in M /\ pl[b] \in In(b) /\ \A i \in M : i \in Nat
      /\ \A i \in M : cs[i] \in Seq(Records) /\ pl[i] \in Nat \ {0}
      /\ \A i \in M : pl2[i] = IF i = b THEN pl[i] + 1 ELSE pl[i]
  BY DEF Takes
<1>2. \A i \in M : \A k \in In(i) : cs[i][k] \in Records /\ k \in Nat
  <2>1. TAKE i \in M
  <2>2. cs[i] \in Seq(Records)
    BY <1>1
  <2>3. QED
    BY <2>2
<1>3. r \in Records
  BY <1>1, <1>2
<1>4. /\ out2 \in Seq(Records) /\ Len(out2) = n + 1 /\ out2[n + 1] = r
      /\ \A i \in 1..n : out2[i] = out[i] /\ out[i] \in Records
  BY <1>3
<1>5. \A i \in M : \A k \in In(i) :
        /\ o[i] + k \in 1..N /\ all[o[i] + k] = cs[i][k] /\ o[i] \in Nat
        /\ o[i] + k = p => i = b /\ k = pl[b]
        /\ b < i => p < o[i] + k
  <2>1. TAKE i \in M
  <2>2. TAKE k \in In(i)
  <2>a. i \in M /\ k \in In(i) /\ b \in M /\ pl[b] \in In(b)
    BY <1>1
  <2>3. o[i] + k \in 1..N /\ all[o[i] + k] = cs[i][k]
    BY <2>a, PlacesDiffer
  <2>b. o[i] + k = p => i = b /\ k = pl[b]
    BY <2>a, PlacesDiffer
  <2>4. b < i => p < o[i] + k
    BY <2>a, PlacesDiffer
  <2>5. o[i] \in Nat
    BY DEF PlacedIn
  <2>6. QED
    BY <2>3, <2>b, <2>4, <2>5
<1>6. p \in 1..N /\ all[p] = r
  BY <1>1, <1>5
<1>7. /\ where \in [1..n -> 1..N]
      /\ \A i, j \in 1..n : where[i] = where[j] => i = j
      /\ \A i \in 1..n : out[i] = all[where[i]]
      /\ \A i \in M : \A k \in In(i) : k < pl[i] <=> \E a \in 1..n : where[a] = o[i] + k
      /\ \A i, j \in 1..n : i < j => ~P(out[j], out[i]) /\ (P(out[i], out[j]) \/ where[i] < where[j])
      /\ \A a \in 1..n, i \in M : \A k \in In(i) :
           pl[i] <= k => ~P(cs[i][k], out[a]) /\ (P(out[a], cs[i][k]) \/ where[a] < o[i] + k)
  BY DEF Merged
<1>8. /\ \A i \in M : \A k, l \in In(i) : k < l => ~P(cs[i][l], cs[i][k])
      /\ \A i \in M : pl[i] \in In(i) => /\ i < b => P(r, cs[i][pl[i]])
                                         /\ i > b => ~P(cs[i][pl[i]], r)
  BY DEF InputsInOrder, Takes
<1>9. /\ \A x \in Records : ~P(x, x)
      /\ \A x, y, z \in Records : P(x, y) /\ P(y, z) => P(x, z)
      /\ \A x, y, z \in Records : ~P(x, y) /\ ~P(y, z) => ~P(x, z)
  BY Order
<1>10. /\ \A a \in 1..n : a \in 1..(n + 1) /\ w[a] = where[a]
       /\ n + 1 \in 1..(n + 1) /\ w[n + 1] = p
       /\ \A a \in 1..(n + 1) : a \in 1..n \/ a = n + 1
  BY <1>1
<1> HIDE DEF w, P, In, out2, r, p, pl2, n, N, M, K
<1>11. \A a \in 1..n : w[a] # p
  <2>1. ~(pl[b] < pl[b])
    BY <1>1
  <2>2. ~\E a \in 1..n : where[a] = p
    BY <1>1, <1>7, <2>1, Zenon DEF p
  <2>3. QED
    BY <1>10, <2>2
<1>12. w \in [1..(n + 1) -> 1..N]
  <2>1. \A a \in 1..(n + 1) : w[a] \in 1..N
    BY <1>6, <1>7, <1>10
  <2>2. QED
    BY <2>1 DEF w
<1>13. \A i, j \in 1..(n + 1) : w[i] = w[j] => i = j
  BY <1>7, <1>10, <1>11
<1>14. \A i \in 1..(n + 1) : out2[i] = all[w[i]]
  BY <1>4, <1>6, <1>7, <1>10
<1>15. ASSUME NEW i \in M, NEW k \in In(i)
       PROVE  k < pl2[i] <=> \E a \in 1..(n + 1) : w[a] = o[i] + k
  <2>1. (\E a \in 1..(n + 1) : w[a] = o[i] + k) <=> k < pl[i] \/ p = o[i] + k
    <3>1. k < pl[i] <=> \E a \in 1..n : where[a] = o[i] + k
      BY <1>7
    <3>2. (\E a \in 1..(n + 1) : w[a] = o[i] + k)
            <=> (\E a \in 1..n : where[a] = o[i] + k) \/ p = o[i] + k
      BY <1>10
    <3>3. QED
      BY <3>1, <3>2
  <2>2. k \in Nat /\ pl[i] \in Nat
    BY <1>1, <1>2
  <2>3. CASE i = b
    <3>1. p = o[i] + k <=> k = pl[b]
      BY <1>5, <2>3 DEF p
    <3>2. k < pl2[i] <=> k < pl[i] \/ k = pl[i]
      <4>1. pl2[i] = pl[i] + 1
        BY <1>1, <2>3
      <4>2. QED
        BY <2>2, <4>1
    <3>3. QED
      BY <2>1, <2>3, <3>1, <3>2
  <2>4. CASE i # b
    BY <1>1, <1>5, <2>1, <2>4
  <2>5. QED
    BY <2>3, <2>4
<1>16. ASSUME NEW i \in 1..(n + 1), NEW j \in 1..(n + 1), i < j
       PROVE  ~P(out2[j], out2[i]) /\ (P(out2[i], out2[j]) \/ w[i] < w[j])
  <2>1. i \in 1..n
    BY <1>1, <1>10, <1>16
  <2>2. CASE j \in 1..n
    BY <1>4, <1>7, <1>10, <1>16, <2>1, <2>2
  <2>3. CASE j = n + 1
    <3>1. pl[b] <= pl[b]
      BY <1>1
    <3>2. ~P(r, out[i]) /\ (P(out[i], r) \/ where[i] < p)
      BY <1>1, <1>7, <2>1, <3>1 DEF r, p
    <3>3. QED
      BY <1>4, <1>10, <2>1, <2>3, <3>2
  <2>4. QED
    BY <1>10, <2>2, <2>3
<1>17. ASSUME NEW a \in 1..(n + 1), NEW i \in M, NEW k \in In(i), pl2[i] <= k
       PROVE  ~P(cs[i][k], out2[a]) /\ (P(out2[a], cs[i][k]) \/ w[a] < o[i] + k)
  <2>1. k \in Nat /\ pl[i] \in Nat \ {0} /\ pl[i] <= k
    <3>1. k \in Nat /\ pl[i] \in Nat \ {0}
      BY <1>1, <1>2
    <3>2. pl2[i] = IF i = b THEN pl[i] + 1 ELSE pl[i]
      BY <1>1
    <3>3. QED
      BY <1>17, <3>1, <3>2
  <2>2. CASE a \in 1..n
    BY <1>4, <1>7, <1>10, <2>1, <2>2
  <2>3. CASE a = n + 1
    <3> DEFINE x == cs[i][k]
               h == cs[i][pl[i]]
    <3>1. SUFFICES ~P(x, r) /\ (P(r, x) \/ p < o[i] + k)
      BY <1>4, <1>10, <2>3
    <3>2. pl[i] \in In(i)
      <4>1. cs[i] \in Seq(Records) /\ k \in 1..Len(cs[i])
        BY <1>1 DEF In
      <4>2. QED
        BY <2>1, <4>1 DEF In
    <3>3. x \in Records /\ h \in Records /\ ~P(x, h)
      <4>1. x \in Records /\ h \in Records
        BY <1>2, <3>2
      <4>2. CASE k = pl[i]
        BY <1>9, <4>1, <4>2
      <4>3. CASE k # pl[i]
        <5>1. pl[i] < k
          BY <2>1, <4>3
        <5>2. QED
          BY <1>8, <3>2, <4>1, <5>1
      <4>4. QED
        BY <4>1, <4>2, <4>3
    <3> HIDE DEF x, h
    <3>4. CASE i < b
      <4>1. P(r, h)
        BY <1>8, <3>2, <3>4 DEF h
      <4>2. P(r, x)
        BY <1>3, <1>9, <3>3, <4>1
      <4>3. ~P(x, r)
        BY <1>3, <1>9, <3>3, <4>2
      <4>4. QED
        BY <4>2, <4>3
    <3>5. CASE i = b
      <4>1. h = r
        BY <3>5 DEF h, r
      <4>2. pl[b] < k /\ pl[b] \in Nat /\ o[b] \in Nat
        BY <1>1, <1>5, <1>17, <2>1, <3>5
      <4>3. p < o[i] + k
        BY <2>1, <3>5, <4>2 DEF p
      <4>4. QED
        BY <3>3, <4>1, <4>3
    <3>6. CASE i > b
      <4>1. ~P(h, r)
        BY <1>8, <3>2, <3>6 DEF h
      <4>2. ~P(x, r)
        BY <1>3, <1>9, <3>3, <4>1
      <4>3. p < o[i] + k
        BY <1>1, <1>5, <3>6
      <4>4. QED
        BY <4>2, <4>3
    <3>7. QED
      BY <1>1, <3>4, <3>5, <3>6
  <2>4. QED
    BY <1>10, <2>2, <2>3
<1>18. Merged(K, cs, o, pl2, all, w, out2)
  <2>1. Len(out2) = n + 1
    BY <1>4
  <2>2. /\ w \in [1..Len(out2) -> 1..Len(all)]
        /\ \A i, j \in 1..Len(out2) : w[i] = w[j] => i = j
        /\ \A i \in 1..Len(out2) : out2[i] = all[w[i]]
    BY <1>12, <1>13, <1>14, <2>1 DEF N
  <2>3. \A i \in 1..Len(cs) : \A k \in 1..Len(cs[i]) :
          k < pl2[i] <=> \E a \in 1..Len(out2) : w[a] = o[i] + k
    BY <1>15, <2>1 DEF M, In
  <2>4. \A i, j \in 1..Len(out2) : i < j => /\ ~Precedes(K, out2[j], out2[i])
                                            /\ Precedes(K, out2[i], out2[j]) \/ w[i] < w[j]
    BY <1>16, <2>1 DEF P
  <2>5. \A a \in 1..Len(out2), i \in 1..Len(cs) : \A k \in 1..Len(cs[i]) :
          pl2[i] <= k => /\ ~Precedes(K, cs[i][k], out2[a])
                         /\ Precedes(K, out2[a], cs[i][k]) \/ w[a] < o[i] + k
    BY <1>17, <2>1 DEF M, In, P
  <2>6. QED
    BY ONLY <2>2, <2>3, <2>4, <2>5 DEF Merged
<1>19. QED
  BY <1>18 DEF K, pl2, out2, r

LEMMA MergeNone ==
  ASSUME NEW keys, NEW cs \in Seq(Seq(Records)), NEW all, NEW o
  PROVE  \E where : Merged(keys, cs, o, [i \in 1..Len(cs) |-> 1], all, where, <<>>)
<1> DEFINE M == 1..Len(cs)
           one == [i \in M |-> 1]
           none == <<>>
<1>1. Len(none) = 0 /\ 1..0 = {}
  OBVIOUS
<1>2. \A i \in M : \A k \in 1..Len(cs[i]) : ~(k < one[i])
  <2>1. \A i \in M : cs[i] \in Seq(Records)
    OBVIOUS
  <2>2. \A i \in M : Len(cs[i]) \in Nat /\ one[i] = 1
    BY <2>1
  <2> HIDE DEF one
  <2>3. QED
    BY <2>2
<1> HIDE DEF one, none
<1>3. Merged(keys, cs, o, one, all, [i \in 1..0 |-> 1], none)
  BY <1>1, <1>2 DEF Merged
<1>4. QED
  BY <1>3 DEF one, none

(* When every input is at its end the merge is the stable sort of all.     *)
LEMMA MergeAll ==
  ASSUME NEW keys, NEW cs \in Seq(Seq(Records)), NEW all \in Seq(Records), NEW o,
         PlacedIn(o, cs, Len(cs), all), NEW pl, \A i \in 1..Len(cs) : \A k \in 1..Len(cs[i]) : k < pl[i],
         NEW out \in Seq(Records), NEW where, Merged(keys, cs, o, pl, all, where, out)
  PROVE  StablySorted(keys, all, Len(all), out)
<1> DEFINE n == Len(out)
           N == Len(all)
<1>1. n \in Nat /\ N \in Nat
  OBVIOUS
<1>2. /\ where \in [1..n -> 1..N]
      /\ \A i, j \in 1..n : where[i] = where[j] => i = j
      /\ \A i \in 1..n : out[i] = all[where[i]]
      /\ \A i, j \in 1..n : i < j => /\ ~Precedes(keys, out[j], out[i])
                                     /\ Precedes(keys, out[i], out[j]) \/ where[i] < where[j]
  BY DEF Merged
<1>3. \A q \in 1..N : \E a \in 1..n : where[a] = q
  <2>1. TAKE q \in 1..N
  <2>2. PICK i \in 1..Len(cs) : \E k \in 1..Len(cs[i]) : q = o[i] + k
    BY DEF PlacedIn
  <2>3. PICK k \in 1..Len(cs[i]) : q = o[i] + k
    BY <2>2
  <2>4. k < pl[i]
    OBVIOUS
  <2>5. QED
    BY <2>3, <2>4 DEF Merged
<1> HIDE DEF n, N
<1>4. n = N
  <2>1. where \in Bijection(1..n, 1..N)
    BY <1>2, <1>3 DEF Bijection, Injection, Surjection, IsInjective
  <2>2. Cardinality(1..N) = n
    BY <1>1, <2>1, FS_CountingElements DEF ExistsBijection
  <2>3. Cardinality(1..N) = IF 1 > N THEN 0 ELSE (N - 1) + 1
    BY <1>1, FS_Interval, 1 \in Int, N \in Int
  <2>4. QED
    BY <1>1, <2>2, <2>3
<1>5. Arranges(where, keys, all, N, out)
  BY <1>2, <1>3, <1>4 DEF Arranges
<1>6. QED
  BY <1>4, <1>5 DEF StablySorted, n, N

-----------------------------------------------------------------------------
(* What is returned and given *)

Inputs == [i \in 1..Len(Using) |-> Contents(Using[i])]

(* The k-way merge at a record: inputs read, heads in hand, output so far. *)
Halfway ==
  /\ taken = FlattenSeq(Inputs)
  /\ InputsInOrder(Keys, Inputs)
  /\ \A i \in 1..Len(Using) :
       /\ place[i] \in Nat \ {0}
       /\ heads[i] = IF place[i] <= Len(Inputs[i]) THEN Inputs[i][place[i]] ELSE None
  /\ \E o, where : /\ PlacedIn(o, Inputs, Len(Using), taken)
                   /\ Merged(Keys, Inputs, o, place, taken, where, disk[Giving[1]])

(* What a statement has on hand, by its input so far.                      *)
Delivers ==
  /\ phase = "Idle" => taken = <<>>
  /\ phase # "Output" => returned = <<>>
  /\ phase = "Reading" => area = taken
  /\ phase = "Giving" => area = Wanted
  /\ phase \in {"Input", "Draining"} => HasInput(statement)
  /\ phase = "Input" => Current.records = taken
  /\ phase = "Draining" => /\ Current.records = Wanted
                           /\ file = 1 => Current.readIndex = 0
  /\ phase = "Output" => /\ Current.records = Wanted
                         /\ Current.readIndex = IF Len(returned) <= Len(taken) THEN Len(returned)
                                                                               ELSE Len(taken)
  /\ phase \in {"Merging", "Copying"} => Merges(statement)
  /\ phase = "Copying" => file > 1
  /\ phase = "Merging" /\ Opens(Giving[1]) /\ FilesApart => Halfway

DInv == Delivers /\ ReturnsInOrder /\ (FilesApart => GivingInOrder)

LEMMA WantedType ==
  ASSUME KeysCompareAsValues, IInv, phase # "Idle"
  PROVE  /\ Wanted \in Seq(Records) /\ Len(Wanted) = Len(taken) /\ Sorted(Keys, taken) = Wanted
         /\ taken \in Seq(Records) /\ statement \in Statements
<1>1. statement \in Statements /\ taken \in Seq(Records)
  BY DEF IInv, OnHand, Typed
<1>2. QED
  BY <1>1, SortedInOrder DEF Wanted, Keys

LEMMA InitDelivers == Init => DInv
<1> SUFFICES ASSUME Init PROVE DInv
  OBVIOUS
<1>1. phase = "Idle" /\ taken = <<>> /\ returned = <<>>
  BY DEF Init
<1>2. QED
  BY <1>1 DEF DInv, Delivers, ReturnsInOrder, GivingInOrder

(* Where there is nothing returned or given to speak of.                   *)
LEMMA NothingGiven ==
  ASSUME returned' = <<>>, phase' \in {"Idle", "Reading", "Input", "Merging"}
  PROVE  ReturnsInOrder' /\ GivingInOrder'
BY DEF ReturnsInOrder, GivingInOrder

LEMMA StartReadingDelivers ==
  ASSUME IInv, DInv, NEW s \in Statements, StartReading(s)
  PROVE  DInv'
<1>1. /\ phase = "Idle" /\ phase' = "Reading" /\ area' = <<>> /\ taken' = <<>>
      /\ returned' = <<>>
  BY DEF StartReading, IInv, OnHand, DInv, Delivers
<1>2. Delivers'
  BY <1>1 DEF Delivers
<1>3. QED
  BY <1>1, <1>2, NothingGiven DEF DInv

LEMMA ReadUsingDelivers ==
  ASSUME DInv, ReadUsing
  PROVE  DInv'
<1>1. phase' = "Reading" /\ area' = taken' /\ returned' = <<>>
  BY DEF ReadUsing, DInv, Delivers
<1>2. Delivers'
  BY <1>1 DEF Delivers
<1>3. QED
  BY <1>1, <1>2, NothingGiven DEF DInv

LEMMA CloseUsingDelivers ==
  ASSUME DInv, CloseUsing
  PROVE  DInv'
<1>1. phase' = "Reading" /\ area' = taken' /\ returned' = <<>>
  BY DEF CloseUsing, DInv, Delivers
<1>2. Delivers'
  BY <1>1 DEF Delivers
<1>3. QED
  BY <1>1, <1>2, NothingGiven DEF DInv

LEMMA SortAreaDelivers ==
  ASSUME KeysCompareAsValues, IInv, DInv, SortArea
  PROVE  DInv'
<1>1. /\ phase = "Reading" /\ area = taken /\ area' = Sorted(Keys, area) /\ file' = 1
      /\ returned' = <<>> /\ taken' = taken /\ statement' = statement
  BY DEF SortArea, DInv, Delivers
<1>2. /\ Wanted \in Seq(Records) /\ area' = Wanted /\ Len(taken) \in Nat
  BY <1>1, WantedType
<1>3. Wanted' = Wanted
  BY <1>1 DEF Wanted, Keys
<1>4. ReturnsInOrder' /\ GivingInOrder'
  <2>1. phase' \in {"Output", "Giving"}
    BY DEF SortArea
  <2>2. QED
    BY <1>1, <2>1 DEF ReturnsInOrder, GivingInOrder
<1>5. CASE HasOutput(statement)
  <2>1. Take(Wanted) /\ phase' = "Output"
    BY <1>2, <1>5 DEF SortArea
  <2>2. BuffersTyped /\ \A i \in 1..Len(buffers) : buffers[i] = Free
    BY <1>1 DEF IInv, Typed, BuffersGivenBack
  <2>3. Current' = Buffer(Wanted)
    BY <1>2, <2>1, <2>2, Taken DEF Current
  <2>4. Current'.records = Wanted /\ Current'.readIndex = 0
    BY <2>3 DEF Buffer
  <2>5. Len(returned') = 0
    BY <1>1
  <2>6. Delivers'
    BY <1>1, <1>2, <1>3, <2>1, <2>4, <2>5 DEF Delivers
  <2>7. QED
    BY <1>4, <2>6 DEF DInv
<1>6. CASE ~HasOutput(statement)
  <2>1. phase' = "Giving"
    BY <1>6 DEF SortArea
  <2>2. Delivers'
    BY <1>1, <1>2, <1>3, <2>1 DEF Delivers
  <2>3. QED
    BY <1>4, <2>2 DEF DInv
<1>7. QED
  BY <1>5, <1>6

LEMMA GiveAreaDelivers ==
  ASSUME IInv, DInv, GiveArea
  PROVE  DInv'
<1>1. /\ phase = "Giving" /\ phase' = "Giving" /\ file <= Len(Giving) /\ file \in Nat /\ file # 0
      /\ disk' = Give(Giving[file], area) /\ file' = file + 1
      /\ returned' = <<>> /\ taken' = taken /\ statement' = statement /\ locked' = locked
      /\ area' = area /\ area = Wanted
  BY DEF GiveArea, DInv, Delivers, IInv, Typed, OnHand
<1>2. Wanted' = Wanted /\ Giving' = Giving
  BY <1>1 DEF Wanted, Keys, Giving
<1>3. Delivers'
  BY <1>1, <1>2 DEF Delivers
<1>4. Giving \in Seq(Files) /\ disk \in [Files -> Seq(Records) \cup {Absent}]
  BY <1>1, StatementParts DEF IInv, OnHand, Giving, Typed
<1>5. ASSUME FilesApart, NEW i \in 1..file, Giving[i] \notin locked
      PROVE  disk'[Giving[i]] = Wanted
  <2>1. i \in 1..Len(Giving) /\ Giving[i] \in Files
    BY <1>1, <1>4
  <2>2. CASE Giving[i] = Giving[file]
    BY <1>1, <1>4, <1>5, <2>1, <2>2 DEF Give
  <2>3. CASE Giving[i] # Giving[file]
    <3>1. i \in 1..(file - 1) /\ file > 1
      BY <1>1, <2>3
    <3>2. disk[Giving[i]] = Wanted
      BY <1>1, <1>5, <3>1 DEF DInv, GivingInOrder, Holds, Opens
    <3>3. QED
      BY <1>1, <1>4, <2>1, <2>3, <3>2 DEF Give
  <2>4. QED
    BY <2>2, <2>3
<1>6. FilesApart => GivingInOrder'
  <2>1. \A i \in 1..(file' - 1) : i \in 1..file
    BY <1>1
  <2>2. QED
    BY <1>1, <1>2, <1>5, <2>1 DEF GivingInOrder, Holds, Opens
<1>7. ReturnsInOrder'
  BY <1>1 DEF ReturnsInOrder
<1>8. QED
  BY <1>3, <1>6, <1>7 DEF DInv

LEMMA EndsDelivers ==
  ASSUME Ends
  PROVE  DInv'
<1>1. phase' = "Idle" /\ taken' = <<>> /\ returned' = <<>>
  BY DEF Ends
<1>2. Delivers'
  BY <1>1 DEF Delivers
<1>3. QED
  BY <1>1, <1>2, NothingGiven DEF DInv

LEMMA StartInputDelivers ==
  ASSUME IInv, DInv, NEW s \in Statements, StartInput(s)
  PROVE  DInv'
<1> DEFINE none == <<>>
<1>1. /\ phase = "Idle" /\ phase' = "Input" /\ statement' = s /\ HasInput(s) /\ Take(none)
      /\ returned' = <<>> /\ taken' = none
  BY DEF StartInput, DInv, Delivers
<1>2. BuffersTyped /\ (\A i \in 1..Len(buffers) : buffers[i] = Free) /\ none \in Seq(Records)
  BY <1>1 DEF IInv, Typed, BuffersGivenBack
<1> HIDE DEF none
<1>3. Current' = Buffer(none)
  BY <1>1, <1>2, Taken DEF Current
<1>4. Current'.records = none
  BY <1>3 DEF Buffer
<1>5. Delivers'
  BY <1>1, <1>4 DEF Delivers
<1>6. QED
  BY <1>1, <1>5, NothingGiven DEF DInv

LEMMA ReleaseDelivers ==
  ASSUME IInv, DInv, NEW record \in Records, Release(record)
  PROVE  DInv'
<1>1. /\ phase = "Input" /\ phase' = "Input" /\ taken' = Append(taken, record)
      /\ buffers' = IF Live THEN [buffers EXCEPT ![sortBufId + 1].records = Append(@, record)]
                            ELSE buffers
      /\ sortBufId' = sortBufId /\ statement' = statement /\ returned' = <<>>
      /\ Current.records = taken /\ HasInput(statement)
  BY DEF Release, DInv, Delivers
<1>2. sortBufId + 1 \in 1..Len(buffers) /\ Live /\ Current \in Buffers
  BY <1>1, BusyCurrent DEF Busy
<1>3. buffers \in Seq(Buffers \cup {Free})
  BY DEF IInv, Typed, BuffersTyped
<1> DEFINE b == [Current EXCEPT !.records = Append(@, record)]
<1>4. b.records = taken'
  BY <1>1, <1>2 DEF Buffers
<1>5. buffers' = [buffers EXCEPT ![sortBufId + 1] = b]
  BY <1>1, <1>2 DEF Current
<1> HIDE DEF b
<1>6. Current' = b
  BY <1>1, <1>2, <1>3, <1>5 DEF Current
<1>7. Delivers'
  BY <1>1, <1>4, <1>6 DEF Delivers
<1>8. QED
  BY <1>1, <1>7, NothingGiven DEF DInv

LEMMA EndInputDelivers ==
  ASSUME KeysCompareAsValues, IInv, DInv, EndInput
  PROVE  DInv'
<1> DEFINE b == Buffer(Sorted(Keys, Current.records))
<1>1. /\ phase = "Input" /\ file' = 1 /\ phase' \in {"Output", "Draining"}
      /\ buffers' = IF Live THEN [buffers EXCEPT ![sortBufId + 1] = b] ELSE buffers
      /\ sortBufId' = sortBufId /\ statement' = statement /\ taken' = taken /\ returned' = <<>>
      /\ Current.records = taken /\ HasInput(statement)
  BY DEF EndInput, DInv, Delivers
<1>2. sortBufId + 1 \in 1..Len(buffers) /\ Live
  BY <1>1, BusyCurrent DEF Busy
<1>3. buffers \in Seq(Buffers \cup {Free})
  BY DEF IInv, Typed, BuffersTyped
<1>4. Current' = b
  BY <1>1, <1>2, <1>3 DEF Current
<1>5. Wanted' = Wanted /\ Sorted(Keys, taken) = Wanted /\ Len(taken) \in Nat
  BY <1>1, WantedType DEF Wanted, Keys
<1>6. Current'.records = Wanted' /\ Current'.readIndex = 0 /\ Len(returned') = 0
  BY <1>1, <1>4, <1>5 DEF Buffer
<1>7. Delivers'
  BY <1>1, <1>5, <1>6 DEF Delivers
<1>8. ReturnsInOrder' /\ GivingInOrder'
  BY <1>1 DEF ReturnsInOrder, GivingInOrder
<1>9. QED
  BY <1>7, <1>8 DEF DInv

LEMMA GiveBufferDelivers ==
  ASSUME KeysCompareAsValues, IInv, DInv, GiveBuffer
  PROVE  DInv'
<1> DEFINE rest == SubSeq(Current.records, Current.readIndex + 1, Len(Current.records))
<1>1. /\ phase = "Draining" /\ phase' = "Draining" /\ file <= Len(Giving) /\ file \in Nat
      /\ file # 0 /\ disk' = Give(Giving[file], rest) /\ file' = file + 1
      /\ buffers' = [buffers EXCEPT ![sortBufId + 1].readIndex = Len(Current.records)]
      /\ UNCHANGED <<locked, sortBufId, statement, taken, returned>>
      /\ returned = <<>> /\ Current.records = Wanted /\ (file = 1 => Current.readIndex = 0)
      /\ HasInput(statement)
  BY DEF GiveBuffer, DInv, Delivers, IInv, Typed, OnHand
<1>2. sortBufId + 1 \in 1..Len(buffers) /\ Current \in Buffers
  BY <1>1, BusyCurrent DEF Busy
<1>3. buffers \in Seq(Buffers \cup {Free}) /\ disk \in [Files -> Seq(Records) \cup {Absent}]
  BY DEF IInv, Typed, BuffersTyped
<1>4. Current' = [Current EXCEPT !.readIndex = Len(Current.records)]
  BY <1>1, <1>2, <1>3 DEF Current
<1>5. Current'.records = Current.records
  BY <1>2, <1>4 DEF Buffers
<1>6. Wanted' = Wanted /\ Giving' = Giving /\ Wanted \in Seq(Records) /\ statement \in Statements
  BY <1>1, WantedType DEF Wanted, Keys, Giving
<1>7. Delivers'
  <2>1. file' # 1
    BY <1>1
  <2>2. QED
    BY <1>1, <1>5, <1>6, <2>1 DEF Delivers
<1>8. Giving \in Seq(Files) /\ Giving[1] \in Files
  BY <1>1, <1>6, StatementParts DEF Giving
<1>9. ASSUME FilesApart, Giving[1] \notin locked PROVE disk'[Giving[1]] = Wanted
  <2>1. CASE file = 1
    <3>1. rest = Wanted
      <4>1. rest = SubSeq(Wanted, 1, Len(Wanted))
        BY <1>1, <2>1
      <4>2. SubSeq(Wanted, 1, Len(Wanted)) = Wanted
        BY <1>6
      <4>3. QED
        BY <4>1, <4>2
    <3> HIDE DEF rest
    <3>2. QED
      BY <1>1, <1>3, <1>8, <1>9, <2>1, <3>1 DEF Give
  <2>2. CASE file # 1
    <3>1. Giving[file] # Giving[1]
      BY <1>1, <1>6, <1>9, <2>2 DEF FilesApart, Giving
    <3>2. disk'[Giving[1]] = disk[Giving[1]]
      BY <1>1, <1>3, <1>8, <3>1 DEF Give
    <3>3. disk[Giving[1]] = Wanted
      <4>1. file > 1 /\ 1 \in 1..(file - 1)
        BY <1>1, <2>2
      <4>2. QED
        BY <1>1, <1>9, <4>1 DEF DInv, GivingInOrder, Holds, Opens
    <3>4. QED
      BY <3>2, <3>3
  <2>3. QED
    BY <2>1, <2>2
<1>10. ReturnsInOrder' /\ (FilesApart => GivingInOrder')
  BY <1>1, <1>6, <1>9 DEF ReturnsInOrder, GivingInOrder, Holds, Opens
<1>11. QED
  BY <1>7, <1>10 DEF DInv

LEMMA ReturnDelivers ==
  ASSUME KeysCompareAsValues, IInv, DInv, Return
  PROVE  DInv'
<1> DEFINE n == Len(returned)
           N == Len(taken)
<1>1. /\ phase = "Output" /\ phase' = "Output" /\ returned' = Append(returned, Answer)
      /\ buffers' = IF Answer # AtEnd
                      THEN [buffers EXCEPT ![sortBufId + 1].readIndex = @ + 1] ELSE buffers
      /\ UNCHANGED <<sortBufId, statement, taken>>
      /\ Current.records = Wanted /\ Current.readIndex = IF n <= N THEN n ELSE N
      /\ \A i \in 1..n : returned[i] = IF i <= N THEN Wanted[i] ELSE AtEnd
  BY DEF Return, DInv, Delivers, ReturnsInOrder
<1>2. sortBufId + 1 \in 1..Len(buffers) /\ Live /\ Current \in Buffers
  BY <1>1, BusyCurrent DEF Busy
<1>3. buffers \in Seq(Buffers \cup {Free}) /\ returned \in Seq(Records \cup {AtEnd})
  BY DEF IInv, Typed, BuffersTyped
<1>4. Wanted' = Wanted /\ Wanted \in Seq(Records) /\ Len(Wanted) = N /\ N \in Nat /\ n \in Nat
  BY <1>1, <1>3, WantedType DEF Wanted, Keys
<1>5. Answer = (IF n + 1 <= N THEN Wanted[n + 1] ELSE AtEnd) /\ (n + 1 <= N => Answer # AtEnd)
  <2>1. CASE n + 1 <= N
    <3>1. Current.readIndex = n /\ n < N
      BY <1>1, <1>4, <2>1
    <3>2. Answer = Wanted[n + 1]
      BY <1>1, <1>2, <1>4, <3>1 DEF Answer
    <3>3. Wanted[n + 1] \in Records
      BY <1>4, <2>1
    <3>4. QED
      BY <2>1, <3>2, <3>3, DistinctAssumption
  <2>2. CASE ~(n + 1 <= N)
    <3>1. Current.readIndex = N
      BY <1>1, <1>4, <2>2
    <3>2. QED
      BY <1>1, <1>4, <2>2, <3>1 DEF Answer
  <2>3. QED
    BY <2>1, <2>2
<1>6. /\ Len(returned') = n + 1
      /\ \A i \in 1..(n + 1) : returned'[i] = IF i <= n THEN returned[i] ELSE Answer
  <2>1. Answer \in Records \cup {AtEnd}
    BY <1>4, <1>5
  <2>2. QED
    BY <1>1, <1>3, <2>1
<1>7. \A i \in 1..(n + 1) : returned'[i] = IF i <= N THEN Wanted[i] ELSE AtEnd
  <2>1. TAKE i \in 1..(n + 1)
  <2>2. CASE i \in 1..n
    BY <1>1, <1>4, <1>6, <2>2
  <2>3. CASE i = n + 1
    BY <1>4, <1>5, <1>6, <2>3
  <2>4. QED
    BY <1>4, <2>2, <2>3
<1>8. /\ Current'.records = Wanted
      /\ Current'.readIndex = IF n + 1 <= N THEN n + 1 ELSE N
  <2>1. CASE n + 1 <= N
    <3> DEFINE b == [Current EXCEPT !.readIndex = @ + 1]
    <3>a. buffers' = [buffers EXCEPT ![sortBufId + 1] = b] /\ sortBufId' = sortBufId
      BY <1>1, <1>2, <1>5, <2>1 DEF Current
    <3> HIDE DEF b
    <3>b. Current' = b
      BY <1>2, <1>3, <3>a DEF Current
    <3>1. Current' = [Current EXCEPT !.readIndex = @ + 1]
      BY <3>b DEF b
    <3>2. Current'.records = Current.records /\ Current'.readIndex = Current.readIndex + 1
      BY <1>2, <3>1 DEF Buffers
    <3>3. QED
      BY <1>1, <1>4, <2>1, <3>2
  <2>2. CASE ~(n + 1 <= N)
    <3>1. Current' = Current
      BY <1>1, <1>5, <2>2 DEF Current
    <3>2. QED
      BY <1>1, <1>4, <2>2, <3>1
  <2>3. QED
    BY <2>1, <2>2
<1> HIDE DEF n, N
<1>9. Len(taken') = N
  BY <1>1 DEF N
<1>10. Delivers'
  BY <1>1, <1>4, <1>6, <1>8, <1>9 DEF Delivers
<1>11. ReturnsInOrder' /\ GivingInOrder'
  BY <1>1, <1>4, <1>6, <1>7, <1>9 DEF ReturnsInOrder, GivingInOrder
<1>12. QED
  BY <1>10, <1>11 DEF DInv

LEMMA StartMergingDelivers ==
  ASSUME KeysCompareAsValues, IInv, DInv, NEW s \in Statements, StartMerging(s)
  PROVE  DInv'
<1> DEFINE c == [i \in 1..Len(s.using) |-> Contents(s.using[i])]
           all == FlattenSeq(c)
           f == s.giving[1]
<1>1. /\ phase = "Idle" /\ phase' = "Merging" /\ MayRun(s) /\ Merges(s) /\ statement' = s
      /\ disk' = Give(f, <<>>) /\ locked' = locked /\ taken' = all
      /\ place' = [i \in 1..Len(s.using) |-> 1]
      /\ heads' = [i \in 1..Len(s.using) |->
                     IF Contents(s.using[i]) = <<>> THEN None ELSE Contents(s.using[i])[1]]
      /\ returned' = <<>>
  BY DEF StartMerging, DInv, Delivers
<1>2. /\ s.using \in Seq(Files) /\ s.giving \in Seq(Files) /\ s.giving # <<>>
      /\ s.verb = "Merge" /\ (FilesApart => \A i \in 1..Len(s.using) : s.using[i] # f)
  BY <1>1, StatementParts DEF FilesApart, Merges
<1>3. \A i \in 1..Len(s.using) : s.using[i] \in Files /\ Contents(s.using[i]) \in Seq(Records)
  BY <1>2, ContentsType DEF IInv
<1>4. c \in Seq(Seq(Records)) /\ Len(c) = Len(s.using)
  BY <1>2, <1>3
<1>5. \A i \in 1..Len(s.using) : c[i] = Contents(s.using[i]) /\ c[i] \in Seq(Records)
  BY <1>3
<1>6. disk \in [Files -> Seq(Records) \cup {Absent}] /\ f \in Files
  BY <1>2 DEF IInv, Typed
<1>7. Using' = s.using /\ Giving' = s.giving /\ Keys' = s.keys
  BY <1>1 DEF Using, Giving, Keys
<1>8. ASSUME f \notin locked, FilesApart PROVE Halfway'
  <2> DEFINE none == <<>>
  <2>1. disk' = [disk EXCEPT ![f] = none]
    BY <1>1, <1>8 DEF Give
  <2>2. disk'[f] = none /\ \A i \in 1..Len(s.using) : disk'[s.using[i]] = disk[s.using[i]]
    BY <1>2, <1>3, <1>6, <1>8, <2>1
  <2>3. Inputs' = c
    BY <1>1, <1>7, <2>2 DEF Inputs, Contents
  <2>4. InputsInOrder(s.keys, c)
    <3>1. SUFFICES ASSUME NEW i \in 1..Len(c), NEW k \in 1..Len(c[i]), NEW l \in 1..Len(c[i]), k < l
                   PROVE  ~Precedes(s.keys, c[i][l], c[i][k])
      BY DEF InputsInOrder
    <3>2. c[i] \in Seq(Records) /\ c[i] = InOrder(s.keys, c[i])
      BY <1>1, <1>2, <1>4, <1>5 DEF MayRun
    <3> HIDE DEF c
    <3>3. StablySorted(s.keys, c[i], Len(c[i]), c[i])
      BY <3>2, SortedInOrder, SortedIsStable
    <3>4. PICK where : Arranges(where, s.keys, c[i], Len(c[i]), c[i])
      BY <3>3 DEF StablySorted
    <3>5. QED
      BY <3>1, <3>4 DEF Arranges
  <2>5. ASSUME NEW i \in 1..Len(s.using)
        PROVE  /\ place'[i] \in Nat \ {0}
               /\ heads'[i] = IF place'[i] <= Len(c[i]) THEN c[i][place'[i]] ELSE None
    <3>1. place'[i] = 1 /\ heads'[i] = IF c[i] = <<>> THEN None ELSE c[i][1]
      BY <1>1
    <3>2. c[i] \in Seq(Records)
      BY <1>5
    <3> HIDE DEF c
    <3>3. c[i] = <<>> <=> ~(1 <= Len(c[i]))
      BY <3>2
    <3>4. QED
      BY <3>1, <3>3
  <2> HIDE DEF c, all, none
  <2>6. PICK o : PlacedIn(o, c, Len(c), all)
    BY <1>4, FlattenPlaces DEF all
  <2>7. \E where : Merged(s.keys, c, o, [i \in 1..Len(c) |-> 1], all, where, none)
    BY <1>4, MergeNone DEF none
  <2>8. place' = [i \in 1..Len(c) |-> 1]
    BY <1>1, <1>4
  <2>9. \E where : Merged(s.keys, c, o, place', all, where, disk'[f])
    BY <2>2, <2>7, <2>8
  <2>10. all = FlattenSeq(c)
    BY DEF all
  <2>11. QED
    BY <1>1, <1>4, <1>7, <2>3, <2>4, <2>5, <2>6, <2>9, <2>10 DEF Halfway, f
<1> HIDE DEF c, all
<1>9. Delivers'
  BY <1>1, <1>7, <1>8 DEF Delivers, Opens
<1>10. QED
  BY <1>1, <1>9, NothingGiven DEF DInv

LEMMA MergeRecordDelivers ==
  ASSUME IInv, DInv, MergeRecord
  PROVE  DInv'
<1>1. /\ phase = "Merging" /\ InHand # {} /\ Merges(statement) /\ returned = <<>>
      /\ UNCHANGED <<locked, statement, taken, returned>>
  BY DEF MergeRecord, DInv, Delivers
<1>2. Wanted' = Wanted /\ Giving' = Giving /\ Using' = Using /\ Keys' = Keys
  BY <1>1 DEF Wanted, Keys, Giving, Using
<1>3. CASE Giving[1] \in locked
  <2>1. phase' = "Copying" /\ file' = 2
    BY <1>3 DEF MergeRecord
  <2>2. Delivers'
    BY <1>1, <2>1 DEF Delivers
  <2>3. ReturnsInOrder' /\ GivingInOrder'
    BY <1>1, <1>2, <1>3, <2>1 DEF ReturnsInOrder, GivingInOrder, Opens
  <2>4. QED
    BY <2>2, <2>3 DEF DInv
<1>4. CASE Giving[1] \notin locked /\ FilesApart
  <2> DEFINE b == Best
             f == Giving[1]
             more == Append(disk[f], heads[b])
             h == Head_(b, place[b])
             c == Inputs
  <2>1. /\ disk' = [disk EXCEPT ![f] = more] /\ heads' = [heads EXCEPT ![b] = h]
        /\ place' = [place EXCEPT ![b] = @ + 1] /\ phase' = "Merging"
    BY <1>1, <1>4 DEF MergeRecord
  <2>2. /\ statement \in Statements /\ Giving # <<>> /\ place \in [1..Len(Using) -> Nat]
        /\ heads \in [1..Len(Using) -> Records \cup {None}] /\ disk[f] # Absent
        /\ disk \in [Files -> Seq(Records) \cup {Absent}] /\ taken \in Seq(Records)
    BY <1>1, <1>4 DEF IInv, OnHand, Typed
  <2>3. Using \in Seq(Files) /\ Giving \in Seq(Files) /\ f \in Files
    BY <2>2, StatementParts DEF Using, Giving
  <2>4. \A i \in 1..Len(Using) : /\ Using[i] \in Files /\ Using[i] # f
                                 /\ Contents(Using[i]) \in Seq(Records)
    BY <1>1, <1>4, <2>2, <2>3, ContentsType DEF FilesApart, IInv, Using, Giving
  <2>5. /\ c \in Seq(Seq(Records)) /\ Len(c) = Len(Using)
        /\ \A i \in 1..Len(Using) : c[i] = Contents(Using[i]) /\ c[i] \in Seq(Records)
    BY <2>3, <2>4 DEF Inputs
  <2>6. /\ b \in InHand /\ b \in 1..Len(Using) /\ heads[b] \in Records
        /\ \A j \in InHand : j < b => Precedes(Keys, heads[b], heads[j])
        /\ \A j \in InHand : j > b => ~Precedes(Keys, heads[j], heads[b])
    BY <1>1, BestInHand
  <2>7. Halfway
    BY <1>1, <1>4 DEF DInv, Delivers, Opens
  <2>8. /\ taken = FlattenSeq(c) /\ InputsInOrder(Keys, c)
        /\ \A i \in 1..Len(Using) :
             /\ place[i] \in Nat \ {0}
             /\ heads[i] = IF place[i] <= Len(c[i]) THEN c[i][place[i]] ELSE None
    BY <2>7 DEF Halfway
  <2>9. PICK o, where : PlacedIn(o, c, Len(Using), taken) /\ Merged(Keys, c, o, place, taken, where, disk[f])
    BY <2>7 DEF Halfway
  <2>10. disk[f] \in Seq(Records)
    BY <2>2, <2>3
  <2> HIDE DEF b, more, c, f
  <2>11. h = IF place[b] + 1 <= Len(c[b]) THEN c[b][place[b] + 1] ELSE None
    <3>1. place[b] \in Nat /\ Len(c[b]) \in Nat
      BY <2>2, <2>5, <2>6
    <3>2. place[b] + 1 <= Len(c[b]) <=> place[b] < Len(c[b])
      BY <3>1
    <3>3. QED
      BY <2>5, <2>6, <3>2 DEF Head_
  <2> HIDE DEF h
  <2>12. \A i \in 1..Len(Using) : place[i] \in 1..Len(c[i]) <=> i \in InHand
    <3>1. TAKE i \in 1..Len(Using)
    <3>2. c[i] \in Seq(Records) /\ place[i] \in Nat \ {0} /\ Len(c[i]) \in Nat
      BY <2>5, <2>8
    <3>3. CASE place[i] <= Len(c[i])
      <4>1. place[i] \in 1..Len(c[i])
        BY <3>2, <3>3
      <4>2. c[i][place[i]] \in Records
        BY <3>2, <4>1
      <4>3. QED
        BY <2>8, <3>3, <4>1, <4>2, DistinctAssumption DEF InHand
    <3>4. CASE ~(place[i] <= Len(c[i]))
      BY <2>8, <3>2, <3>4 DEF InHand
    <3>5. QED
      BY <3>3, <3>4
  <2>13. \A i \in InHand : heads[i] = c[i][place[i]]
    BY <2>8, <2>12 DEF InHand
  <2>14. Takes(Keys, c, place, b)
    <3>1. b \in 1..Len(c) /\ place[b] \in 1..Len(c[b])
      BY <2>5, <2>6, <2>12
    <3>2. QED
      BY <2>5, <2>6, <2>12, <2>13, <3>1 DEF Takes
  <2>15. heads[b] = c[b][place[b]]
    BY <2>6, <2>13
  <2>16. place \in [1..Len(c) -> Nat \ {0}]
    BY <2>2, <2>5, <2>8
  <2>17. \E w : Merged(Keys, c, o, place', taken, w, more)
    <3>1. \E w : Merged(statement.keys, c, o, [place EXCEPT ![b] = @ + 1], taken, w,
                        Append(disk[f], c[b][place[b]]))
      <4>1. PlacedIn(o, c, Len(c), taken)
        BY <2>5, <2>9
      <4>2. /\ InputsInOrder(statement.keys, c) /\ Takes(statement.keys, c, place, b)
            /\ Merged(statement.keys, c, o, place, taken, where, disk[f])
        BY <2>8, <2>9, <2>14 DEF Keys
      <4>3. QED
        BY <2>2, <2>5, <2>10, <2>16, <4>1, <4>2, MergeOne
    <3>2. QED
      BY <2>1, <2>15, <3>1 DEF Keys, more
  <2>18. disk'[f] = more /\ \A i \in 1..Len(Using) : disk'[Using[i]] = disk[Using[i]]
    BY <2>1, <2>2, <2>3, <2>4
  <2>19. Inputs' = c
    <3>1. \A i \in 1..Len(Using) : Contents(Using[i])' = Contents(Using[i])
      BY <1>1, <1>2, <2>18 DEF Contents
    <3>2. QED
      BY <1>2, <3>1 DEF Inputs, c
  <2>20. \A i \in 1..Len(Using) :
           /\ place'[i] \in Nat \ {0}
           /\ heads'[i] = IF place'[i] <= Len(c[i]) THEN c[i][place'[i]] ELSE None
    <3>1. TAKE i \in 1..Len(Using)
    <3>2. CASE i = b
      <4>1. place'[i] = place[b] + 1 /\ heads'[i] = h /\ place[b] \in Nat
        BY <2>1, <2>2, <2>6, <3>2
      <4>2. QED
        BY <2>11, <3>2, <4>1
    <3>3. CASE i # b
      <4>1. place'[i] = place[i] /\ heads'[i] = heads[i]
        BY <2>1, <2>2, <3>3
      <4>2. QED
        BY <2>8, <4>1
    <3>4. QED
      BY <3>2, <3>3
  <2>21. Halfway'
    BY <1>1, <1>2, <2>8, <2>9, <2>17, <2>18, <2>19, <2>20 DEF Halfway, f
  <2>22. Delivers'
    BY <1>1, <1>4, <2>1, <2>21 DEF Delivers
  <2>23. QED
    BY <1>1, <2>1, <2>22, NothingGiven DEF DInv
<1>5. CASE Giving[1] \notin locked /\ ~FilesApart
  <2>1. phase' = "Merging"
    BY <1>1, <1>5 DEF MergeRecord
  <2>2. Delivers'
    BY <1>1, <1>5, <2>1 DEF Delivers
  <2>3. QED
    BY <1>1, <2>1, <2>2, NothingGiven DEF DInv
<1>6. QED
  BY <1>3, <1>4, <1>5

LEMMA EndMergingDelivers ==
  ASSUME KeysCompareAsValues, IInv, DInv, EndMerging
  PROVE  DInv'
<1>1. /\ phase = "Merging" /\ InHand = {} /\ phase' = "Copying" /\ file' = 2
      /\ Merges(statement) /\ returned = <<>>
      /\ UNCHANGED <<disk, locked, statement, taken, returned>>
  BY DEF EndMerging, DInv, Delivers
<1>2. Wanted' = Wanted /\ Giving' = Giving
  BY <1>1 DEF Wanted, Keys, Giving
<1>3. ASSUME FilesApart, Giving[1] \notin locked PROVE disk[Giving[1]] = Wanted
  <2> DEFINE c == Inputs
             f == Giving[1]
  <2>1. Halfway
    BY <1>1, <1>3 DEF DInv, Delivers, Opens
  <2>2. /\ statement \in Statements /\ Giving # <<>> /\ disk[f] # Absent
        /\ disk \in [Files -> Seq(Records) \cup {Absent}] /\ taken \in Seq(Records)
    BY <1>1, <1>3 DEF IInv, OnHand, Typed
  <2>3. Using \in Seq(Files) /\ f \in Files
    BY <2>2, StatementParts DEF Using, Giving
  <2>4. disk[f] \in Seq(Records)
    BY <2>2, <2>3
  <2>5. c \in Seq(Seq(Records)) /\ Len(c) = Len(Using)
    BY <2>3, ContentsType DEF Inputs, IInv
  <2>6. PICK o, where : PlacedIn(o, c, Len(Using), taken) /\ Merged(Keys, c, o, place, taken, where, disk[f])
    BY <2>1 DEF Halfway
  <2>7. \A i \in 1..Len(Using) :
          /\ place[i] \in Nat \ {0}
          /\ heads[i] = IF place[i] <= Len(c[i]) THEN c[i][place[i]] ELSE None
    BY <2>1 DEF Halfway
  <2> HIDE DEF c, f
  <2>8. \A i \in 1..Len(c) : \A k \in 1..Len(c[i]) : k < place[i]
    <3>1. TAKE i \in 1..Len(c)
    <3>2. /\ c[i] \in Seq(Records) /\ place[i] \in Nat \ {0} /\ Len(c[i]) \in Nat
          /\ heads[i] = None
      <4>1. i \in 1..Len(Using) /\ c[i] \in Seq(Records)
        BY <2>5
      <4>2. place[i] \in Nat \ {0} /\ heads[i] = None
        BY <1>1, <2>7, <4>1 DEF InHand
      <4>3. QED
        BY <4>1, <4>2
    <3>3. ~(place[i] <= Len(c[i]))
      <4>1. SUFFICES ASSUME place[i] <= Len(c[i]) PROVE FALSE
        OBVIOUS
      <4>2. place[i] \in 1..Len(c[i])
        BY <3>2, <4>1
      <4>3. c[i][place[i]] \in Records
        BY <3>2, <4>2
      <4>4. QED
        BY <2>5, <2>7, <3>2, <4>1, <4>3, DistinctAssumption
    <3>4. QED
      BY <3>2, <3>3
  <2>9. StablySorted(Keys, taken, Len(taken), disk[f])
    <3>1. PlacedIn(o, c, Len(c), taken)
      BY <2>5, <2>6
    <3>2. QED
      BY <2>2, <2>4, <2>5, <2>6, <2>8, <3>1, MergeAll
  <2>10. disk[f] = InOrder(statement.keys, taken)
    BY <2>2, <2>4, <2>9, StableIsInOrder DEF Keys
  <2>11. QED
    BY <2>10 DEF Wanted, Keys, f
<1>4. Delivers'
  BY <1>1 DEF Delivers
<1>5. \A i \in 1..(file' - 1) : i = 1
  BY <1>1
<1>6. FilesApart => GivingInOrder'
  BY <1>1, <1>2, <1>3, <1>5 DEF GivingInOrder, Holds, Opens
<1>7. ReturnsInOrder'
  BY <1>1 DEF ReturnsInOrder
<1>8. QED
  BY <1>4, <1>6, <1>7 DEF DInv

LEMMA CopyGivingDelivers ==
  ASSUME KeysCompareAsValues, IInv, DInv, CopyGiving
  PROVE  DInv'
<1>1. /\ phase = "Copying" /\ phase' = "Copying" /\ file <= Len(Giving) /\ file \in Nat /\ file > 1
      /\ disk' = Give(Giving[file], Contents(Giving[1])) /\ file' = file + 1
      /\ returned = <<>> /\ Merges(statement)
      /\ UNCHANGED <<returned, taken, statement, locked>>
  BY DEF CopyGiving, DInv, Delivers, IInv, Typed, OnHand
<1>2. Wanted' = Wanted /\ Giving' = Giving /\ Wanted \in Seq(Records) /\ statement \in Statements
  BY <1>1, WantedType DEF Wanted, Keys, Giving
<1>3. Delivers'
  BY <1>1 DEF Delivers
<1>4. Giving \in Seq(Files) /\ disk \in [Files -> Seq(Records) \cup {Absent}]
  BY <1>1, <1>2, StatementParts DEF IInv, Giving, Typed
<1>5. ASSUME FilesApart, Giving[1] \notin locked, NEW i \in 1..file, Giving[i] \notin locked
      PROVE  disk'[Giving[i]] = Wanted
  <2>1. i \in 1..Len(Giving) /\ Giving[i] \in Files /\ 1 \in 1..(file - 1)
    BY <1>1, <1>4
  <2>2. \A j \in 1..(file - 1) : Giving[j] \notin locked => disk[Giving[j]] = Wanted
    BY <1>1, <1>5 DEF DInv, GivingInOrder, Holds, Opens
  <2>3. Contents(Giving[1]) = Wanted
    <3>1. disk[Giving[1]] = Wanted
      BY <1>5, <2>1, <2>2
    <3>2. QED
      BY <1>2, <1>5, <3>1, DistinctAssumption DEF Contents
  <2>4. CASE Giving[i] = Giving[file]
    BY <1>1, <1>4, <1>5, <2>1, <2>3, <2>4 DEF Give
  <2>5. CASE Giving[i] # Giving[file]
    <3>1. i \in 1..(file - 1)
      BY <1>1, <2>5
    <3>2. disk[Giving[i]] = Wanted
      BY <1>5, <2>2, <3>1
    <3>3. QED
      BY <1>1, <1>4, <2>1, <2>5, <3>2 DEF Give
  <2>6. QED
    BY <2>4, <2>5
<1>6. FilesApart => GivingInOrder'
  <2>1. \A i \in 1..(file' - 1) : i \in 1..file
    BY <1>1
  <2>2. QED
    BY <1>1, <1>2, <1>5, <2>1 DEF GivingInOrder, Holds, Opens
<1>7. ReturnsInOrder'
  BY <1>1 DEF ReturnsInOrder
<1>8. QED
  BY <1>3, <1>6, <1>7 DEF DInv

LEMMA NextDelivers ==
  ASSUME KeysCompareAsValues, IInv, DInv, [Next]_vars
  PROVE  DInv'
<1>1. ASSUME Step PROVE DInv'
  <2>1. EndGiving \/ EndDraining \/ EndCopying => Ends
    BY DEF EndGiving, EndDraining, EndCopying
  <2>2. QED
    BY <1>1, <2>1, EndsDelivers, ReadUsingDelivers, CloseUsingDelivers, SortAreaDelivers,
       GiveAreaDelivers, GiveBufferDelivers, MergeRecordDelivers, EndMergingDelivers,
       CopyGivingDelivers DEF Step
<1>2. ASSUME NEW s \in Statements, StartReading(s) \/ StartInput(s) \/ StartMerging(s)
      PROVE  DInv'
  BY <1>2, StartReadingDelivers, StartInputDelivers, StartMergingDelivers
<1>3. ASSUME NEW record \in Records, Release(record) PROVE DInv'
  BY <1>3, ReleaseDelivers
<1>4. ASSUME EndInput \/ Return \/ EndOutput PROVE DInv'
  <2>1. EndOutput => Ends
    BY DEF EndOutput
  <2>2. QED
    BY <1>4, <2>1, EndsDelivers, EndInputDelivers, ReturnDelivers
<1>5. CASE UNCHANGED vars
  <2>1. UNCHANGED <<disk, locked, buffers, sortBufId, statement, phase, file, place, area,
                    capacity, heads, taken, returned>>
    BY <1>5 DEF vars
  <2>2. Inputs' = Inputs
    BY <2>1 DEF Inputs, Using, Contents
  <2>3. Halfway => Halfway'
    BY <2>1, <2>2 DEF Halfway, Using, Giving, Keys
  <2>4. Delivers'
    BY <2>1, <2>3 DEF DInv, Delivers, Wanted, Keys, Current, Opens, Giving
  <2>5. ReturnsInOrder' /\ (FilesApart => GivingInOrder')
    BY <2>1 DEF DInv, ReturnsInOrder, GivingInOrder, Holds, Opens, Wanted, Keys, Giving
  <2>6. QED
    BY <2>4, <2>5 DEF DInv
<1>6. QED
  BY <1>1, <1>2, <1>3, <1>4, <1>5 DEF Next

LEMMA Delivered ==
  ASSUME KeysCompareAsValues
  PROVE  Spec => []DInv
<1>1. IInv /\ DInv /\ [Next]_vars => DInv'
  BY NextDelivers
<1>2. QED
  BY <1>1, InitDelivers, Invariant, PTL DEF Spec

(* The RETURN of the code that emit_sort and emit_merge write, for any     *)
(* files and records and any statements whose keys compare as the values   *)
(* they stand for: the OUTPUT PROCEDURE gets the released records, or      *)
(* those of the USING files, each once, in the order COBOL asks for, then  *)
(* AT END however often it asks, whether cobol_sort ordered an area or     *)
(* cobol_sort_buffer_sort the buffer RELEASE filled.                       *)
THEOREM ReturnsAlwaysInOrder == KeysCompareAsValues => (Spec => []ReturnsInOrder)
<1> SUFFICES ASSUME KeysCompareAsValues PROVE Spec => []ReturnsInOrder
  OBVIOUS
<1>1. DInv => ReturnsInOrder
  BY DEF DInv
<1>2. QED
  BY <1>1, Delivered, PTL

(* GIVING, of the same statements and with no GIVING file that stands in   *)
(* its own way: each file that can be written ends up with every input     *)
(* record in the order COBOL asks for, equal ones in the order they came,  *)
(* whether the code writes the sorted area, drains the buffer, or lets     *)
(* cobol_merge pick record after record from the open inputs and copies    *)
(* the result.                                                             *)
THEOREM GivingAlwaysInOrder == KeysCompareAsValues /\ FilesApart => (Spec => []GivingInOrder)
<1> SUFFICES ASSUME KeysCompareAsValues, FilesApart PROVE Spec => []GivingInOrder
  OBVIOUS
<1>1. DInv => GivingInOrder
  BY DEF DInv
<1>2. QED
  BY <1>1, Delivered, PTL
=============================================================================
