------------------------- MODULE IndexedFile_proof -------------------------
(***************************************************************************)
(* What holds of an indexed file for any keys, any probes, any number of   *)
(* slots and any choice of access and open modes, and that it implements   *)
(* the keyed store of KeyedStore.                                          *)
(***************************************************************************)
EXTENDS IndexedFile, FiniteSetTheorems, WellFoundedInduction, TLAPS

-----------------------------------------------------------------------------
(* What the operators on sorted entries return, for entries of any size   *)

Entry == [key : Nat, offset : Nat]

(* Every nonempty set of naturals has a least element. *)
LEMMA NatHasMinimum ==
  ASSUME NEW S \in SUBSET Nat, S # {}
  PROVE  \E m \in S : \A n \in S : m <= n
<1>1. \E m \in S : \A n \in S : ~ (<<n, m>> \in OpToRel(<, Nat))
  BY NatLessThanWellFounded, WFMin
<1>2. \A m, n \in Nat : <<n, m>> \in OpToRel(<, Nat) <=> n < m
  BY DEF OpToRel
<1>3. PICK m \in S : \A n \in S : ~ (<<n, m>> \in OpToRel(<, Nat))
  BY <1>1
<1>4. \A n \in S : ~(n < m)
  BY <1>2, <1>3
<1>5. \A n \in S : n \in Nat /\ m \in Nat
  OBVIOUS
<1>6. \A n \in S : m <= n
  BY <1>4, <1>5
<1>7. QED
  BY <1>6

(* The components of the entries of a sequence of entries. *)
LEMMA EntriesHaveKeys ==
  ASSUME NEW e \in Seq(Entry)
  PROVE  /\ DOMAIN e = 1..Len(e) /\ Len(e) \in Nat
         /\ \A j \in DOMAIN e : /\ e[j] \in Entry
                               /\ e[j].key \in Nat /\ e[j].offset \in Nat
<1>1. DOMAIN e = 1..Len(e) /\ Len(e) \in Nat /\ \A j \in DOMAIN e : e[j] \in Entry
  OBVIOUS
<1>2. \A x \in Entry : x.key \in Nat /\ x.offset \in Nat
  BY DEF Entry
<1>3. QED
  BY <1>1, <1>2

(* LowerBound splits sorted entries into those below k and the others. *)
LEMMA LowerBoundSplits ==
  ASSUME NEW e \in Seq(Entry), IsSorted(e), NEW k \in Nat
  PROVE  /\ LowerBound(e, k) \in 0..Len(e)
         /\ \A j \in DOMAIN e : e[j].key < k <=> j <= LowerBound(e, k)
<1>1. \E n \in 0..Len(e) : \A j \in DOMAIN e : e[j].key < k <=> j <= n
  <2> DEFINE S == {j \in DOMAIN e : e[j].key >= k}
  <2>0. /\ DOMAIN e = 1..Len(e)
        /\ Len(e) \in Nat
        /\ \A j \in DOMAIN e : e[j].key \in Nat
    BY EntriesHaveKeys
  <2>1. CASE S = {}
    <3>1. \A j \in DOMAIN e : e[j].key < k /\ j <= Len(e)
      BY <2>0, <2>1
    <3>2. QED
      BY <2>0, <3>1
  <2>2. CASE S # {}
    <3>1. S \in SUBSET Nat
      BY <2>0
    <3>2. PICK m \in S : \A n \in S : m <= n
      BY <2>2, <3>1, NatHasMinimum
    <3>3. m - 1 \in 0..Len(e)
      BY <2>0
    <3>4. \A j \in DOMAIN e : e[j].key < k <=> j <= m - 1
      <4>1. TAKE j \in DOMAIN e
      <4>2. CASE j < m
        BY <2>0, <3>2, <4>2
      <4>3. CASE j >= m
        BY <2>0, <4>3 DEF IsSorted
      <4>4. QED
        BY <2>0, <4>2, <4>3
    <3>5. QED
      BY <3>3, <3>4
  <2>3. QED
    BY <2>1, <2>2
<1>2. QED
  BY <1>1 DEF LowerBound

(* Inserting an entry where its key belongs keeps the entries sorted, and  *)
(* adds it to what they enumerate.                                         *)
LEMMA InsertAfterKeepsOrder ==
  ASSUME NEW e \in Seq(Entry), IsSorted(e), NEW x \in Entry, NEW n \in 0..Len(e),
         \A j \in DOMAIN e : /\ j <= n => e[j].key <= x.key
                             /\ j > n => x.key <= e[j].key
  PROVE  /\ InsertAfter(e, n, x) \in Seq(Entry)
         /\ Len(InsertAfter(e, n, x)) = Len(e) + 1
         /\ IsSorted(InsertAfter(e, n, x))
         /\ \A T : (\A j \in DOMAIN e : e[j] \in T) /\ x \in T
                     => InsertAfter(e, n, x) \in Seq(T)
         /\ \A E : Enumerates(e, E) /\ x \notin E
                     => Enumerates(InsertAfter(e, n, x), E \cup {x})
<1> DEFINE s == InsertAfter(e, n, x)
<1>1. Len(e) \in Nat /\ DOMAIN e = 1..Len(e) /\ \A j \in DOMAIN e : e[j] \in Entry
  OBVIOUS
<1>2. /\ DOMAIN s = 1..(Len(e) + 1)
      /\ \A j \in 1..(Len(e) + 1) :
           s[j] = IF j <= n THEN e[j] ELSE IF j = n + 1 THEN x ELSE e[j - 1]
  BY DEF InsertAfter
<1>3. \A T : (\A j \in DOMAIN e : e[j] \in T) /\ x \in T => s \in Seq(T)
  <2>1. TAKE T
  <2>2. HAVE (\A j \in DOMAIN e : e[j] \in T) /\ x \in T
  <2>3. \A j \in 1..(Len(e) + 1) : s[j] \in T
    BY <1>1, <1>2, <2>2
  <2>4. s \in [1..(Len(e) + 1) -> T]
    BY <2>3 DEF InsertAfter
  <2>5. QED
    BY <1>1, <2>4
<1>4. s \in Seq(Entry)
  BY <1>1, <1>3
<1>5. Len(s) = Len(e) + 1
  BY <1>1, <1>2, <1>4
<1>6. IsSorted(s)
  <2>1. SUFFICES ASSUME NEW a \in DOMAIN s, NEW b \in DOMAIN s, a < b
                 PROVE  s[a].key <= s[b].key
    BY DEF IsSorted
  <2>2. \A i, j \in DOMAIN e : i < j => e[i].key <= e[j].key
    BY DEF IsSorted
  <2>3. \A j \in DOMAIN e : e[j].key \in Nat
    BY EntriesHaveKeys
  <2>a. /\ a \in 1..(Len(e) + 1) /\ b \in 1..(Len(e) + 1) /\ n \in Nat /\ n <= Len(e)
        /\ s[a] = IF a <= n THEN e[a] ELSE IF a = n + 1 THEN x ELSE e[a - 1]
        /\ s[b] = IF b <= n THEN e[b] ELSE IF b = n + 1 THEN x ELSE e[b - 1]
    BY <1>1, <1>2, <2>1
  <2>4. CASE b <= n
    <3>1. s[a] = e[a] /\ s[b] = e[b] /\ a \in DOMAIN e /\ b \in DOMAIN e
      BY <1>1, <2>1, <2>a, <2>4
    <3>2. QED
      BY <2>1, <2>2, <3>1
  <2>5. CASE b = n + 1
    <3>1. s[a] = e[a] /\ s[b] = x /\ a \in DOMAIN e /\ a <= n
      BY <1>1, <2>1, <2>a, <2>5
    <3>2. QED
      BY <3>1
  <2>6. CASE b > n + 1 /\ a = n + 1
    <3>1. s[a] = x /\ s[b] = e[b - 1] /\ b - 1 \in DOMAIN e /\ b - 1 > n
      BY <1>1, <2>1, <2>a, <2>6
    <3>2. QED
      BY <3>1
  <2>7. CASE b > n + 1 /\ a <= n
    <3>1. /\ s[a] = e[a] /\ s[b] = e[b - 1] /\ a \in DOMAIN e /\ b - 1 \in DOMAIN e
          /\ a < b - 1
      BY <1>1, <2>1, <2>a, <2>7
    <3>2. QED
      BY <2>2, <3>1
  <2>8. CASE b > n + 1 /\ a > n + 1
    <3>1. /\ s[a] = e[a - 1] /\ s[b] = e[b - 1] /\ a - 1 \in DOMAIN e /\ b - 1 \in DOMAIN e
          /\ a - 1 < b - 1
      BY <1>1, <2>1, <2>a, <2>8
    <3>2. QED
      BY <2>2, <3>1
  <2>9. b <= n \/ b = n + 1 \/ (b > n + 1 /\ (a <= n \/ a = n + 1 \/ a > n + 1))
    BY ONLY <2>a
  <2>10. QED
    BY <2>4, <2>5, <2>6, <2>7, <2>8, <2>9
<1>7. \A E : Enumerates(e, E) /\ x \notin E => Enumerates(s, E \cup {x})
  <2>1. TAKE E
  <2>2. HAVE Enumerates(e, E) /\ x \notin E
  <2>3. \A j \in DOMAIN s : s[j] \in E \cup {x}
    <3>1. \A j \in DOMAIN e : e[j] \in E
      BY <2>2 DEF Enumerates
    <3>2. QED
      BY <1>1, <1>2, <3>1
  <2>4. \A y \in E \cup {x} : \E j \in DOMAIN s : s[j] = y
    <3>1. TAKE y \in E \cup {x}
    <3>2. CASE y = x
      <4>1. n + 1 \in DOMAIN s /\ s[n + 1] = x
        BY <1>1, <1>2
      <4>2. QED
        BY <3>2, <4>1
    <3>3. CASE y \in E
      <4>1. PICK j \in DOMAIN e : e[j] = y
        BY <2>2, <3>3 DEF Enumerates
      <4>2. CASE j <= n
        <5>1. j \in DOMAIN s /\ s[j] = y
          BY <1>1, <1>2, <4>1, <4>2
        <5>2. QED
          BY <5>1
      <4>3. CASE j > n
        <5>1. j + 1 \in DOMAIN s /\ s[j + 1] = y
          BY <1>1, <1>2, <4>1, <4>3
        <5>2. QED
          BY <5>1
      <4>4. QED
        BY <1>1, <4>2, <4>3
    <3>4. QED
      BY <3>2, <3>3
  <2>5. \A a, b \in DOMAIN s : s[a] = s[b] => a = b
    <3>1. TAKE a, b \in DOMAIN s
    <3>2. HAVE s[a] = s[b]
    <3>3. \A j \in DOMAIN e : e[j] # x
      BY <2>2 DEF Enumerates
    <3>4. \A i, j \in DOMAIN e : e[i] = e[j] => i = j
      BY <2>2 DEF Enumerates
    <3>5. \A j \in DOMAIN s : \/ j <= n /\ j \in DOMAIN e /\ s[j] = e[j]
                              \/ j = n + 1 /\ s[j] = x
                              \/ j > n + 1 /\ j - 1 \in DOMAIN e /\ s[j] = e[j - 1]
      BY <1>1, <1>2
    <3>6. QED
      BY <1>1, <1>2, <3>2, <3>3, <3>4, <3>5
  <2>6. QED
    BY <2>3, <2>4, <2>5 DEF Enumerates
<1>8. QED
  BY <1>3, <1>4, <1>5, <1>6, <1>7

(* Removing a position keeps the entries sorted and removes that entry     *)
(* from what they enumerate.                                               *)
LEMMA RemovePositionKeepsOrder ==
  ASSUME NEW e \in Seq(Entry), IsSorted(e), NEW n \in DOMAIN e
  PROVE  /\ RemovePosition(e, n) \in Seq(Entry)
         /\ Len(RemovePosition(e, n)) = Len(e) - 1
         /\ IsSorted(RemovePosition(e, n))
         /\ \A T : (\A j \in DOMAIN e : e[j] \in T) => RemovePosition(e, n) \in Seq(T)
         /\ \A E : Enumerates(e, E) => Enumerates(RemovePosition(e, n), E \ {e[n]})
<1> DEFINE s == RemovePosition(e, n)
<1>1. Len(e) \in Nat /\ DOMAIN e = 1..Len(e) /\ n \in 1..Len(e)
  OBVIOUS
<1>2. /\ DOMAIN s = 1..(Len(e) - 1)
      /\ \A j \in 1..(Len(e) - 1) : s[j] = IF j < n THEN e[j] ELSE e[j + 1]
  BY DEF RemovePosition
<1>3. \A T : (\A j \in DOMAIN e : e[j] \in T) => s \in Seq(T)
  <2>1. TAKE T
  <2>2. HAVE \A j \in DOMAIN e : e[j] \in T
  <2>3. \A j \in 1..(Len(e) - 1) : s[j] \in T
    BY <1>1, <1>2, <2>2
  <2>4. s \in [1..(Len(e) - 1) -> T]
    BY <2>3 DEF RemovePosition
  <2>5. QED
    BY <1>1, <2>4
<1>4. s \in Seq(Entry)
  BY <1>3
<1>5. Len(s) = Len(e) - 1
  <2>1. Len(e) - 1 \in Nat
    BY <1>1
  <2>2. DOMAIN s = 1..Len(s) /\ Len(s) \in Nat
    BY <1>4, EntriesHaveKeys
  <2>3. QED
    BY <1>2, <2>1, <2>2
<1>6. IsSorted(s)
  <2>1. SUFFICES ASSUME NEW a \in DOMAIN s, NEW b \in DOMAIN s, a < b
                 PROVE  s[a].key <= s[b].key
    BY DEF IsSorted
  <2>2. \A i, j \in DOMAIN e : i < j => e[i].key <= e[j].key
    BY DEF IsSorted
  <2>3. CASE b < n
    BY <1>1, <1>2, <2>1, <2>2, <2>3
  <2>4. CASE b >= n /\ a < n
    <3>1. s[a] = e[a] /\ s[b] = e[b + 1]
      BY <1>1, <1>2, <2>1, <2>4
    <3>2. a \in DOMAIN e /\ b + 1 \in DOMAIN e /\ a < b + 1
      BY <1>1, <1>2, <2>1, <2>4
    <3>3. QED
      BY <2>2, <3>1, <3>2
  <2>5. CASE a >= n
    <3>1. s[a] = e[a + 1] /\ s[b] = e[b + 1]
      BY <1>1, <1>2, <2>1, <2>5
    <3>2. a + 1 \in DOMAIN e /\ b + 1 \in DOMAIN e /\ a + 1 < b + 1
      BY <1>1, <1>2, <2>1, <2>5
    <3>3. QED
      BY <2>2, <3>1, <3>2
  <2>6. QED
    BY <1>1, <1>2, <2>3, <2>4, <2>5
<1>7. \A E : Enumerates(e, E) => Enumerates(s, E \ {e[n]})
  <2>1. TAKE E
  <2>2. HAVE Enumerates(e, E)
  <2>3. \A i, j \in DOMAIN e : e[i] = e[j] => i = j
    BY <2>2 DEF Enumerates
  <2>4. \A j \in DOMAIN s : \/ j < n /\ j \in DOMAIN e /\ s[j] = e[j]
                            \/ j >= n /\ j + 1 \in DOMAIN e /\ s[j] = e[j + 1]
    BY <1>1, <1>2
  <2>5. \A j \in DOMAIN s : s[j] \in E \ {e[n]}
    BY <1>1, <1>2, <2>2, <2>3, <2>4 DEF Enumerates
  <2>6. \A y \in E \ {e[n]} : \E j \in DOMAIN s : s[j] = y
    <3>1. TAKE y \in E \ {e[n]}
    <3>2. PICK j \in DOMAIN e : e[j] = y
      BY <2>2 DEF Enumerates
    <3>3. CASE j < n
      <4>1. j \in DOMAIN s /\ s[j] = y
        BY <1>1, <1>2, <3>2, <3>3
      <4>2. QED
        BY <4>1
    <3>4. CASE j > n
      <4>1. j - 1 \in DOMAIN s /\ s[j - 1] = y
        BY <1>1, <1>2, <3>2, <3>4
      <4>2. QED
        BY <4>1
    <3>5. QED
      BY <1>1, <3>2, <3>3, <3>4
  <2>7. \A a, b \in DOMAIN s : s[a] = s[b] => a = b
    BY <1>1, <1>2, <2>3, <2>4
  <2>8. QED
    BY <2>5, <2>6, <2>7 DEF Enumerates
<1>8. QED
  BY <1>3, <1>4, <1>5, <1>6, <1>7

(* Before is a strict total order of entries. *)
LEMMA BeforeTotalOrder ==
  ASSUME NEW a \in Entry, NEW b \in Entry, NEW c \in Entry
  PROVE  /\ ~Before(a, a)
         /\ Before(a, b) => ~Before(b, a)
         /\ Before(a, b) /\ Before(b, c) => Before(a, c)
         /\ a # b => Before(a, b) \/ Before(b, a)
BY DEF Before, Entry

(* Sorted lists each entry of a finite set once, in key order. *)
LEMMA SortedEnumerates ==
  ASSUME NEW E \in SUBSET Entry, IsFiniteSet(E)
  PROVE  /\ Sorted(E) \in Seq(E)
         /\ Len(Sorted(E)) = Cardinality(E)
         /\ IsSorted(Sorted(E))
         /\ Enumerates(Sorted(E), E)
<1> DEFINE N == Cardinality(E)
           Below(e) == {f \in E : Before(f, e)}
           Rank(e) == Cardinality(Below(e))
           s == Sorted(E)
<1>1. N \in Nat
  BY FS_CardinalityType
<1>2. \A e \in E : /\ IsFiniteSet(Below(e))
                   /\ Rank(e) \in Nat
                   /\ Rank(e) < N
  <2>1. TAKE e \in E
  <2>2. Below(e) \in SUBSET (E \ {e})
    BY BeforeTotalOrder
  <2>3. IsFiniteSet(E \ {e}) /\ Cardinality(E \ {e}) = N - 1
    BY FS_RemoveElement
  <2>4. IsFiniteSet(Below(e)) /\ Rank(e) <= N - 1
    BY <2>2, <2>3, FS_Subset
  <2>5. Rank(e) \in Nat
    BY <2>4, FS_CardinalityType
  <2>6. QED
    BY <1>1, <2>4, <2>5
<1> HIDE DEF Rank, N
<1>3. \A a, b \in E : Before(a, b) => Rank(a) < Rank(b)
  <2>1. TAKE a, b \in E
  <2>2. HAVE Before(a, b)
  <2>3. Below(a) \cup {a} \in SUBSET Below(b)
    BY <2>2, BeforeTotalOrder
  <2>4. a \notin Below(a)
    BY BeforeTotalOrder
  <2>5. Cardinality(Below(a) \cup {a}) = Rank(a) + 1
    BY <1>2, <2>4, FS_AddElement DEF Rank
  <2>6. Cardinality(Below(a) \cup {a}) <= Rank(b)
    BY <1>2, <2>3, FS_Subset DEF Rank
  <2>7. Rank(a) \in Nat /\ Rank(b) \in Nat
    BY <1>2
  <2>8. QED
    BY <2>5, <2>6, <2>7
<1>4. \A a, b \in E : Rank(a) = Rank(b) => a = b
  <2>1. TAKE a, b \in E
  <2>2. a # b => Rank(a) < Rank(b) \/ Rank(b) < Rank(a)
    BY <1>3, BeforeTotalOrder
  <2>3. Rank(a) \in Nat /\ Rank(b) \in Nat
    BY <1>2
  <2>4. QED
    BY <2>2, <2>3
<1>5. \A n \in 1..N : \E e \in E : Rank(e) = n - 1
  <2> DEFINE f == [e \in E |-> Rank(e) + 1]
  <2>1. \A e \in E : f[e] \in 1..N
    <3>1. TAKE e \in E
    <3>2. Rank(e) \in Nat /\ Rank(e) < N
      BY <1>2
    <3>3. f[e] = Rank(e) + 1
      OBVIOUS
    <3>4. QED
      BY <1>1, <3>2, <3>3
  <2>2. f \in [E -> 1..N]
    BY <2>1
  <2>3. \A a, b \in E : f[a] = f[b] => a = b
    <3>1. TAKE a, b \in E
    <3>2. Rank(a) \in Nat /\ Rank(b) \in Nat
      BY <1>2
    <3>3. f[a] = Rank(a) + 1 /\ f[b] = Rank(b) + 1
      OBVIOUS
    <3>4. QED
      BY <1>4, <3>2, <3>3
  <2>4. f \in Injection(E, 1..N)
    BY <2>2, <2>3 DEF Injection, IsInjective
  <2>5. IsFiniteSet(1..N) /\ Cardinality(1..N) = N
    BY <1>1, FS_Interval
  <2> HIDE DEF f
  <2>6. f \in Surjection(E, 1..N)
    <3>1. Cardinality(E) = N
      BY DEF N
    <3>2. QED
      BY <2>4, <2>5, <3>1, FS_Injection
  <2>7. \A n \in 1..N : \E e \in E : f[e] = n
    BY <2>6 DEF Surjection
  <2>8. QED
    <3>1. TAKE n \in 1..N
    <3>2. PICK e \in E : f[e] = n
      BY <2>7
    <3>3. f[e] = Rank(e) + 1
      BY DEF f
    <3>4. Rank(e) \in Nat
      BY <1>2
    <3>5. QED
      BY <1>1, <3>2, <3>3, <3>4
<1>6. DOMAIN s = 1..N /\ \A n \in 1..N : s[n] \in E /\ Rank(s[n]) = n - 1
  BY <1>5 DEF Sorted, Rank, N
<1>7. s \in Seq(E) /\ Len(s) = N
  <2>1. s \in [1..N -> E]
    BY <1>6 DEF Sorted, N
  <2>2. QED
    BY <1>1, <2>1
<1> HIDE DEF s
<1>8. IsSorted(s)
  <2>1. SUFFICES ASSUME NEW m \in 1..N, NEW n \in 1..N, m < n
                 PROVE  s[m].key <= s[n].key
    BY <1>6 DEF IsSorted
  <2>2. s[m] \in Entry /\ s[n] \in Entry
    BY <1>6
  <2>3. Rank(s[m]) = m - 1 /\ Rank(s[n]) = n - 1 /\ s[m] \in E /\ s[n] \in E
    BY <1>6
  <2>4. ~(Rank(s[n]) < Rank(s[m]))
    BY <1>1, <2>1, <2>3
  <2>5. ~Before(s[n], s[m])
    BY <1>3, <2>3, <2>4
  <2>6. QED
    BY <2>2, <2>5 DEF Before, Entry
<1>9. Enumerates(s, E)
  <2>1. \A x \in E : \E n \in DOMAIN s : s[n] = x
    <3>1. TAKE x \in E
    <3>0. Rank(x) \in Nat /\ Rank(x) < N
      BY <1>2
    <3>2. Rank(x) + 1 \in 1..N
      BY <1>1, <3>0
    <3>3. Rank(s[Rank(x) + 1]) = Rank(x)
      BY <1>6, <3>0, <3>2
    <3>4. s[Rank(x) + 1] = x
      BY <1>4, <1>6, <3>2, <3>3
    <3>5. QED
      BY <1>6, <3>2, <3>4
  <2>2. \A m, n \in DOMAIN s : s[m] = s[n] => m = n
    <3>1. TAKE m, n \in DOMAIN s
    <3>2. HAVE s[m] = s[n]
    <3>3. m - 1 = n - 1
      BY <1>6, <3>2
    <3>4. QED
      BY <1>1, <1>6, <3>3
  <2>3. QED
    BY <1>6, <2>1, <2>2 DEF Enumerates
<1>10. QED
  BY <1>7, <1>8, <1>9 DEF s, N

-----------------------------------------------------------------------------
(* Records, replies and indexes                                            *)

Slots == Records \cup {Erased}
Disks == {d \in Seq(Slots) : Len(d) <= MaxSlots}
Replies == [op : Operations, status : Statuses, rec : Slots]

(* The index e lists the live records of d in the order of key i. *)
Matches(i, e, d) == IsSorted(e) /\ Enumerates(e, LiveEntries(i, d))

(* The inductive invariant.  An index must be sorted in every mode for the *)
(* searches of WRITE and START to be defined, and must match the disk for  *)
(* the offsets READ, REWRITE and DELETE take from it to be slots; CLOSE    *)
(* leaves nothing buffered that a later OPEN OUTPUT could outlive.         *)
IndexesSorted == \A i \in Indexes : IsSorted(indices[i])
ClosedIsFlushed == mode = "Closed" => buffered = 0
IInv ==
  TypeOK /\ IndexesSorted /\ IndexesMatchDisk /\ CursorConsistent /\ ClosedIsFlushed

----------------------------------------------------------------------------
(* Records, entries and indexes *)

LEMMA KeyTypes ==
  ASSUME NEW i \in Indexes, NEW r \in Records
  PROVE  /\ KeyOf(i, r) \in PrimaryKeys \cup AlternateKeys
         /\ KeyOf(i, r) \in Nat
         /\ r # Erased
<1>1. r.pk \in PrimaryKeys /\ r.alt \in AlternateKeys
  BY DEF Records
<1>2. KeyOf(i, r) \in PrimaryKeys \cup AlternateKeys
  BY <1>1 DEF KeyOf
<1>3. PrimaryKeys \subseteq Nat /\ AlternateKeys \subseteq Nat /\ Erased \notin Records
  BY KeysAssumption
<1>4. QED
  BY <1>2, <1>3

LEMMA EntriesAreEntry == Entries \subseteq Entry
<1>1. PrimaryKeys \cup AlternateKeys \subseteq Nat /\ 1..MaxSlots \subseteq Nat
  BY KeysAssumption, ModesAssumption
<1>2. ASSUME NEW x \in Entries PROVE x \in Entry
  BY <1>1 DEF Entries, Entry
<1>3. QED
  BY <1>2

LEMMA SeqOfEntries ==
  ASSUME NEW e \in Seq(Entries)
  PROVE  e \in Seq(Entry)
BY EntriesAreEntry

LEMMA ErasedNotRecord == Erased \notin Records
BY KeysAssumption

LEMMA DiskSlots ==
  ASSUME NEW d \in Disks
  PROVE  /\ DOMAIN d = 1..Len(d) /\ Len(d) \in Nat /\ Len(d) <= MaxSlots
         /\ Live(d) \subseteq 1..Len(d)
         /\ \A o \in DOMAIN d : d[o] \in Slots
         /\ \A o \in Live(d) : d[o] \in Records
<1>1. DOMAIN d = 1..Len(d) /\ Len(d) \in Nat /\ \A o \in DOMAIN d : d[o] \in Slots
  BY DEF Disks
<1>2. Len(d) <= MaxSlots
  BY DEF Disks
<1>3. QED
  BY <1>1, <1>2 DEF Live, Slots

LEMMA EntryAtFields ==
  ASSUME NEW i, NEW d, NEW o
  PROVE  EntryAt(i, d, o).key = KeyOf(i, d[o]) /\ EntryAt(i, d, o).offset = o
BY DEF EntryAt

LEMMA LiveEntriesType ==
  ASSUME NEW i \in Indexes, NEW d \in Disks
  PROVE  /\ LiveEntries(i, d) \in SUBSET Entries
         /\ LiveEntries(i, d) \in SUBSET Entry
         /\ IsFiniteSet(LiveEntries(i, d))
<1>1. MaxSlots \in Nat
  BY ModesAssumption
<1>2. \A o \in Live(d) : EntryAt(i, d, o) \in Entries
  <2>1. TAKE o \in Live(d)
  <2>2. d[o] \in Records /\ o \in 1..Len(d) /\ Len(d) \in Nat /\ Len(d) <= MaxSlots
    BY DiskSlots
  <2>3. o \in 1..MaxSlots
    BY <1>1, <2>2
  <2>4. KeyOf(i, d[o]) \in PrimaryKeys \cup AlternateKeys
    BY <2>2, KeyTypes
  <2>5. QED
    BY <2>3, <2>4 DEF EntryAt, Entries
<1>3. LiveEntries(i, d) \in SUBSET Entries
  BY <1>2 DEF LiveEntries
<1>4. IsFiniteSet(Live(d))
  <2>1. IsFiniteSet(1..Len(d))
    BY DiskSlots, FS_Interval
  <2>2. Live(d) \in SUBSET (1..Len(d))
    BY DiskSlots
  <2>3. QED
    BY <2>1, <2>2, FS_Subset
<1>5. IsFiniteSet(LiveEntries(i, d))
  <2> DEFINE g == [o \in Live(d) |-> EntryAt(i, d, o)]
  <2>1. g \in Surjection(Live(d), LiveEntries(i, d))
    BY DEF Surjection, LiveEntries
  <2> HIDE DEF g
  <2>2. QED
    BY <1>4, <2>1, FS_Surjection
<1>6. QED
  BY <1>3, <1>5, EntriesAreEntry

(* Building an index from the disk makes it match the disk. *)
LEMMA BuildEntriesMatches ==
  ASSUME NEW i \in Indexes, NEW d \in Disks
  PROVE  /\ BuildEntries(i, d) \in Seq(Entries)
         /\ Matches(i, BuildEntries(i, d), d)
<1> DEFINE E == LiveEntries(i, d)
<1>1. E \in SUBSET Entry /\ IsFiniteSet(E) /\ E \in SUBSET Entries
  BY LiveEntriesType
<1> HIDE DEF E
<1>2. Sorted(E) \in Seq(E) /\ IsSorted(Sorted(E)) /\ Enumerates(Sorted(E), E)
  BY <1>1, SortedEnumerates
<1>3. Sorted(E) \in Seq(Entries)
  BY <1>1, <1>2
<1>4. QED
  BY <1>2, <1>3 DEF BuildEntries, Matches, E

(* An entry of a matching index is that of a live record, and conversely. *)
LEMMA MatchingEntries ==
  ASSUME NEW i \in Indexes, NEW d \in Disks, NEW e \in Seq(Entries), Matches(i, e, d)
  PROVE  /\ \A n \in DOMAIN e : /\ e[n].offset \in Live(d)
                               /\ e[n].key = KeyOf(i, d[e[n].offset])
                               /\ e[n] = EntryAt(i, d, e[n].offset)
         /\ \A o \in Live(d) : \E n \in DOMAIN e : e[n] = EntryAt(i, d, o)
<1>1. \A n \in DOMAIN e : \E o \in Live(d) : e[n] = EntryAt(i, d, o)
  BY DEF Matches, Enumerates, LiveEntries
<1>2. \A o \in Live(d) : EntryAt(i, d, o).key = KeyOf(i, d[o]) /\ EntryAt(i, d, o).offset = o
  BY EntryAtFields
<1>3. \A o \in Live(d) : \E n \in DOMAIN e : e[n] = EntryAt(i, d, o)
  BY DEF Matches, Enumerates, LiveEntries
<1>4. QED
  BY <1>1, <1>2, <1>3

(* The searches of an index are defined and stay within it. *)
LEMMA BoundsInIndex ==
  ASSUME NEW e \in Seq(Entry), IsSorted(e), NEW k \in Nat
  PROVE  /\ Len(e) \in Nat
         /\ LowerBound(e, k) \in 0..Len(e)
         /\ \A j \in DOMAIN e : e[j].key < k <=> j <= LowerBound(e, k)
         /\ UpperBound(e, k) \in 0..Len(e)
         /\ \A j \in DOMAIN e : e[j].key <= k <=> j <= UpperBound(e, k)
<1>1. Len(e) \in Nat
  OBVIOUS
<1>2. k + 1 \in Nat
  OBVIOUS
<1>3. /\ LowerBound(e, k + 1) \in 0..Len(e)
      /\ \A j \in DOMAIN e : e[j].key < k + 1 <=> j <= LowerBound(e, k + 1)
  BY <1>2, LowerBoundSplits
<1>4. \A j \in DOMAIN e : e[j].key < k + 1 <=> e[j].key <= k
  BY EntriesHaveKeys
<1>5. QED
  BY <1>1, <1>3, <1>4, LowerBoundSplits DEF UpperBound

(* Where WRITE and REWRITE insert keeps a matching index matching. *)
LEMMA InsertMatches ==
  ASSUME NEW i \in Indexes, NEW e \in Seq(Entries), IsSorted(e),
         NEW r \in Records, NEW o \in 1..MaxSlots, NEW n,
         n = LowerBound(e, KeyOf(i, r)) \/ n = UpperBound(e, KeyOf(i, r)),
         NEW x, x = [key |-> KeyOf(i, r), offset |-> o]
  PROVE  /\ InsertAfter(e, n, x) \in Seq(Entries)
         /\ Len(InsertAfter(e, n, x)) = Len(e) + 1
         /\ IsSorted(InsertAfter(e, n, x))
         /\ \A E : Enumerates(e, E) /\ x \notin E
                     => Enumerates(InsertAfter(e, n, x), E \cup {x})
<1> DEFINE k == KeyOf(i, r)
<1>1. k \in Nat /\ k \in PrimaryKeys \cup AlternateKeys /\ x = [key |-> k, offset |-> o]
  BY KeyTypes
<1> HIDE DEF k
<1>2. x \in Entries
  BY <1>1 DEF Entries
<1>3. x \in Entry /\ x.key = k
  BY <1>1, <1>2, EntriesAreEntry
<1>4. e \in Seq(Entry)
  BY SeqOfEntries
<1>5. /\ n \in 0..Len(e)
      /\ \A j \in DOMAIN e : (j <= n => e[j].key <= k) /\ (j > n => k <= e[j].key)
  <2>1. /\ Len(e) \in Nat
        /\ LowerBound(e, k) \in 0..Len(e)
        /\ \A j \in DOMAIN e : e[j].key < k <=> j <= LowerBound(e, k)
        /\ UpperBound(e, k) \in 0..Len(e)
        /\ \A j \in DOMAIN e : e[j].key <= k <=> j <= UpperBound(e, k)
    BY <1>1, <1>4, BoundsInIndex
  <2>2. \A j \in DOMAIN e : e[j].key \in Nat /\ j \in Nat
    BY <1>4, EntriesHaveKeys
  <2>3. CASE n = LowerBound(e, k)
    BY <1>1, <2>1, <2>2, <2>3
  <2>4. CASE n = UpperBound(e, k)
    BY <1>1, <2>1, <2>2, <2>4
  <2>5. QED
    BY <2>3, <2>4 DEF k
<1>6. /\ Len(InsertAfter(e, n, x)) = Len(e) + 1
      /\ IsSorted(InsertAfter(e, n, x))
      /\ \A T : (\A j \in DOMAIN e : e[j] \in T) /\ x \in T => InsertAfter(e, n, x) \in Seq(T)
      /\ \A E : Enumerates(e, E) /\ x \notin E => Enumerates(InsertAfter(e, n, x), E \cup {x})
  BY <1>3, <1>4, <1>5, InsertAfterKeepsOrder
<1>7. InsertAfter(e, n, x) \in Seq(Entries)
  BY <1>2, <1>6
<1>8. QED
  BY <1>6, <1>7

(* A REWRITE leaves every index matching the disk it wrote. *)
LEMMA MoveToEndOfEqualsMatches ==
  ASSUME NEW i \in Indexes, NEW d \in Disks, NEW o \in Live(d), NEW e \in Seq(Entries),
         Matches(i, e, d)
  PROVE  LET s == MoveToEndOfEquals(e, KeyOf(i, d[o]), o)
         IN  s \in Seq(Entries) /\ Matches(i, s, d)
<1> DEFINE k == KeyOf(i, d[o])
           x == [key |-> k, offset |-> o]
           E == LiveEntries(i, d)
           j == CHOOSE m \in PositionsOf(e, o) : TRUE
           rest == RemovePosition(e, j)
<1>1. d[o] \in Records /\ o \in 1..MaxSlots
  BY DiskSlots, ModesAssumption
<1>2. x = EntryAt(i, d, o)
  BY DEF EntryAt
<1>3. \E m \in DOMAIN e : e[m] = x
  BY <1>2, MatchingEntries
<1>4. j \in DOMAIN e /\ e[j].offset = o
  BY <1>3 DEF PositionsOf
<1> HIDE DEF j
<1>5. e[j] = x
  BY <1>2, <1>4, MatchingEntries
<1>6. x \in E
  BY <1>2 DEF LiveEntries
<1>7. e \in Seq(Entry) /\ IsSorted(e) /\ Enumerates(e, E)
  BY SeqOfEntries DEF Matches
<1> HIDE DEF E
<1>8. /\ IsSorted(rest)
      /\ \A T : (\A m \in DOMAIN e : e[m] \in T) => rest \in Seq(T)
      /\ Enumerates(rest, E \ {x})
  BY <1>4, <1>5, <1>7, RemovePositionKeepsOrder
<1>9. rest \in Seq(Entries)
  BY <1>8
<1> HIDE DEF rest
<1> DEFINE s == InsertAfter(rest, UpperBound(rest, k), x)
<1>10. /\ s \in Seq(Entries)
       /\ IsSorted(s)
       /\ \A F : Enumerates(rest, F) /\ x \notin F => Enumerates(s, F \cup {x})
  BY <1>1, <1>8, <1>9, InsertMatches
<1>11. Enumerates(s, (E \ {x}) \cup {x})
  BY <1>8, <1>10
<1>12. (E \ {x}) \cup {x} = E
  BY <1>6
<1>13. s = MoveToEndOfEquals(e, k, o)
  BY DEF MoveToEndOfEquals, rest, j
<1>14. QED
  BY <1>10, <1>11, <1>12, <1>13 DEF Matches, E

(* Appending a record adds its entry to what the disk lists. *)
Appended(d, r) == Append(d, r)
EntryOf(i, r, o) == [key |-> KeyOf(i, r), offset |-> o]

LEMMA LiveEntriesAppend ==
  ASSUME NEW i \in Indexes, NEW d \in Disks, Len(d) < MaxSlots, NEW r \in Records
  PROVE  /\ Appended(d, r) \in Disks
         /\ Live(Appended(d, r)) = Live(d) \cup {Len(d) + 1}
         /\ LiveEntries(i, Appended(d, r)) = LiveEntries(i, d) \cup {EntryOf(i, r, Len(d) + 1)}
         /\ EntryOf(i, r, Len(d) + 1) \notin LiveEntries(i, d)
<1> DEFINE n == Len(d) + 1
           a == Append(d, r)
           x == [key |-> KeyOf(i, r), offset |-> n]
<1>1. /\ Len(d) \in Nat /\ DOMAIN d = 1..Len(d) /\ d \in Seq(Slots) /\ r \in Slots
      /\ MaxSlots \in Nat
  BY ModesAssumption DEF Disks, Slots
<1>2. a \in Seq(Slots) /\ Len(a) = n /\ DOMAIN a = 1..n /\ n \in Nat
  BY <1>1
<1>3. (\A o \in 1..Len(d) : a[o] = d[o]) /\ a[n] = r
  BY <1>1
<1>4. a \in Disks
  BY <1>1, <1>2 DEF Disks
<1> HIDE DEF a
<1>5. r # Erased
  BY ErasedNotRecord
<1>6. Live(a) = Live(d) \cup {n}
  <2>1. ASSUME NEW o \in Live(a) PROVE o \in Live(d) \cup {n}
    BY <1>1, <1>2, <1>3 DEF Live
  <2>2. ASSUME NEW o \in Live(d) PROVE o \in Live(a)
    BY <1>1, <1>2, <1>3 DEF Live
  <2>3. n \in Live(a)
    BY <1>1, <1>2, <1>3, <1>5 DEF Live
  <2>4. QED
    BY <2>1, <2>2, <2>3
<1>7. EntryAt(i, a, n) = x
  BY <1>3 DEF EntryAt
<1>8. \A o \in Live(d) : EntryAt(i, a, o) = EntryAt(i, d, o)
  BY <1>1, <1>3 DEF EntryAt, Live
<1>9. LiveEntries(i, a) = LiveEntries(i, d) \cup {x}
  <2>1. ASSUME NEW y \in LiveEntries(i, a) PROVE y \in LiveEntries(i, d) \cup {x}
    BY <1>6, <1>7, <1>8 DEF LiveEntries
  <2>2. ASSUME NEW y \in LiveEntries(i, d) PROVE y \in LiveEntries(i, a)
    BY <1>6, <1>8 DEF LiveEntries
  <2>3. x \in LiveEntries(i, a)
    BY <1>6, <1>7 DEF LiveEntries
  <2>4. QED
    BY <2>1, <2>2, <2>3
<1>10. x \notin LiveEntries(i, d)
  <2>1. \A o \in Live(d) : EntryAt(i, d, o).offset = o /\ o # n
    BY <1>1, EntryAtFields DEF Live
  <2>2. x.offset = n
    OBVIOUS
  <2>3. QED
    BY <2>1, <2>2 DEF LiveEntries
<1>11. QED
  BY <1>4, <1>6, <1>9, <1>10 DEF a, Appended, EntryOf

(* Replacing a live slot by a record, or by zeros. *)
Replaced(d, o, r) == [d EXCEPT ![o] = r]

LEMMA ReplacedSlot ==
  ASSUME NEW d \in Disks, NEW o \in DOMAIN d, NEW r \in Slots
  PROVE  LET c == Replaced(d, o, r)
         IN  /\ c \in Disks
             /\ Len(c) = Len(d)
             /\ c[o] = r
             /\ r \in Records => o \in Live(c)
             /\ \A p \in Live(d) : p # o => p \in Live(c) /\ c[p] = d[p]
             /\ \A p \in Live(c) : p # o => p \in Live(d) /\ c[p] = d[p]
<1> DEFINE c == [d EXCEPT ![o] = r]
<1>1. d \in Seq(Slots) /\ Len(d) <= MaxSlots
  BY DEF Disks
<1>2. c \in Seq(Slots) /\ Len(c) = Len(d) /\ DOMAIN c = DOMAIN d
  BY <1>1
<1>3. c[o] = r /\ \A p \in DOMAIN d : p # o => c[p] = d[p]
  OBVIOUS
<1>4. r \in Records => r # Erased
  BY ErasedNotRecord
<1> HIDE DEF c
<1>5. /\ c \in Disks
      /\ Len(c) = Len(d)
      /\ c[o] = r
      /\ r \in Records => o \in Live(c)
      /\ \A p \in Live(d) : p # o => p \in Live(c) /\ c[p] = d[p]
      /\ \A p \in Live(c) : p # o => p \in Live(d) /\ c[p] = d[p]
  BY <1>1, <1>2, <1>3, <1>4 DEF Live, Disks
<1>6. QED
  BY <1>5 DEF c, Replaced

----------------------------------------------------------------------------
(* What the invariant says of the current state *)

LEMMA StatusesListed ==
  {FsOk, FsDuplicateAltSuccess, FsOptionalCreated, FsAtEnd, FsSequenceError,
   FsDuplicateKey, FsRecNotFound, FsNotFound, FsLocked, FsAlreadyOpen, FsNotOpen,
   FsRewriteWithoutRead, FsNoValidNextRecord, FsReadNotPermitted,
   FsWriteNotPermitted, FsIoModeRequired} \subseteq Statuses
BY DEF Statuses

LEMMA AnswerTypes ==
  ASSUME NEW op \in Operations, NEW st \in Statuses, NEW r \in Slots
  PROVE  /\ Answer(op, st) => reply' \in Replies
         /\ Deliver(op, st, r) => reply' \in Replies
<1>1. Erased \in Slots
  BY DEF Slots
<1>2. QED
  BY <1>1 DEF Answer, Deliver, Replies

LEMMA SuccessStatusType ==
  ASSUME NEW i, NEW n
  PROVE  SuccessStatus(i, n) \in Statuses
BY StatusesListed DEF SuccessStatus

LEMMA InvFacts ==
  ASSUME IInv
  PROVE  /\ disk \in Disks
         /\ Len(disk) \in Nat /\ DOMAIN disk = 1..Len(disk) /\ MaxSlots \in Nat
         /\ currentIndex \in Indexes
         /\ \A i \in Indexes : /\ indices[i] \in Seq(Entries)
                               /\ indices[i] \in Seq(Entry)
                               /\ IsSorted(indices[i])
                               /\ Len(indices[i]) \in Nat
         /\ mode \in {"Input", "Output", "IoMode"} =>
              \A i \in Indexes : Matches(i, indices[i], disk)
<1>1. disk \in Disks
  BY DEF IInv, TypeOK, Disks, Slots
<1>2. \A i \in Indexes : indices[i] \in Seq(Entries) /\ IsSorted(indices[i])
  BY DEF IInv, TypeOK, IndexesSorted
<1>3. \A i \in Indexes : indices[i] \in Seq(Entry) /\ Len(indices[i]) \in Nat
  BY <1>2, SeqOfEntries
<1>4. QED
  BY <1>1, <1>2, <1>3, DiskSlots, ModesAssumption
     DEF IInv, TypeOK, IndexesMatchDisk, Matches

(* A call that changes neither the file nor its indexes. *)
LEMMA CursorStep ==
  ASSUME IInv,
         UNCHANGED <<store, mode, indices>>,
         currentIndex' \in Indexes,
         currentRecord' \in 0..Len(indices[currentIndex']),
         currentOffset' = currentOffset \/ currentOffset' = None \/ currentOffset' \in Live(disk),
         lastReadValid' \in BOOLEAN,
         atEndSeen' \in BOOLEAN,
         ~(lastReadValid' /\ atEndSeen'),
         reply' \in Replies
  PROVE  IInv'
<1>1. exists' = exists /\ disk' = disk /\ buffered' = buffered /\ mode' = mode
      /\ indices' = indices
  BY DEF store
<1>2. currentOffset' \in 0..Len(disk)
  BY InvFacts, DiskSlots DEF IInv, TypeOK, None
<1>3. TypeOK'
  BY <1>1, <1>2 DEF IInv, TypeOK, Replies, Slots
<1>4. CursorConsistent'
  BY <1>1 DEF IInv, CursorConsistent
<1>5. IndexesSorted' /\ IndexesMatchDisk'
  BY <1>1 DEF IInv, IndexesSorted, IndexesMatchDisk, LiveEntries, Live, EntryAt
<1>6. ClosedIsFlushed'
  BY <1>1 DEF IInv, ClosedIsFlushed
<1>7. QED
  BY <1>3, <1>4, <1>5, <1>6 DEF IInv

LEMMA RefuseStep ==
  ASSUME IInv, NEW op \in Operations, NEW st \in Statuses, Refuse(op, st)
  PROVE  IInv'
<1>1. reply' \in Replies
  BY AnswerTypes DEF Refuse, Slots
<1>2. UNCHANGED <<store, mode, indices, cursor>>
  BY DEF Refuse
<1>3. /\ currentIndex' = currentIndex /\ currentRecord' = currentRecord
      /\ currentOffset' = currentOffset /\ lastReadValid' = lastReadValid
      /\ atEndSeen' = atEndSeen
  BY <1>2 DEF cursor
<1>4. QED
  BY <1>1, <1>2, <1>3, CursorStep DEF IInv, TypeOK, CursorConsistent

(* A call that changes the file: the conditions under which the invariant  *)
(* holds after it.                                                         *)
LEMMA StoreStep ==
  ASSUME IInv,
         exists' \in BOOLEAN,
         disk' \in Disks,
         buffered' \in 0..1, buffered' <= Len(disk'),
         mode' \in OpenModes \cup {"Closed"}, mode' = "Closed" => buffered' = 0,
         indices' \in [Indexes -> Seq(Entries)],
         \A i \in Indexes : IsSorted(indices'[i]),
         mode' \in {"Input", "Output", "IoMode"} =>
           \A i \in Indexes : Matches(i, indices'[i], disk'),
         currentIndex' \in Indexes,
         currentRecord' \in 0..Len(indices'[currentIndex']),
         currentOffset' = None \/ currentOffset' \in Live(disk'),
         lastReadValid' \in BOOLEAN,
         atEndSeen' \in BOOLEAN,
         ~(lastReadValid' /\ atEndSeen'),
         reply' \in Replies
  PROVE  IInv'
<1>1. currentOffset' \in 0..Len(disk')
  BY DiskSlots DEF None
<1>2. disk' \in Seq(Slots) /\ Len(disk') <= MaxSlots
  BY DEF Disks
<1>3. TypeOK'
  BY <1>1, <1>2 DEF TypeOK, Replies, Slots
<1>4. CursorConsistent'
  BY DEF CursorConsistent, Live
<1>5. IndexesSorted'
  BY DEF IndexesSorted
<1>6. IndexesMatchDisk'
  BY DEF IndexesMatchDisk, Matches, LiveEntries, Live, EntryAt
<1>7. ClosedIsFlushed'
  BY DEF ClosedIsFlushed
<1>8. QED
  BY <1>3, <1>4, <1>5, <1>6, <1>7 DEF IInv

----------------------------------------------------------------------------
(* Every action preserves the invariant *)

LEMMA InitInv == Init => IInv
<1> SUFFICES ASSUME Init PROVE IInv
  OBVIOUS
<1>1. Len(disk) = 0 /\ disk \in Seq(Slots) /\ MaxSlots \in Nat /\ Erased \in Slots
  BY ModesAssumption DEF Init, Slots
<1>2. \A i \in Indexes : /\ indices[i] = << >> /\ indices[i] \in Seq(Entries)
                         /\ IsSorted(indices[i])
  BY DEF Init, IsSorted
<1>3. reply \in Replies
  BY <1>1, StatusesListed DEF Init, Replies, Operations
<1>4. TypeOK
  <2>1. indices \in [Indexes -> Seq(Entries)] /\ currentIndex \in Indexes
    BY <1>2 DEF Init, Indexes
  <2>2. currentRecord \in 0..Len(indices[currentIndex]) /\ currentOffset \in 0..Len(disk)
    BY <1>1, <1>2, <2>1 DEF Init, None
  <2>3. exists \in BOOLEAN /\ mode = "Closed" /\ buffered \in 0..1 /\ buffered <= Len(disk)
    BY <1>1 DEF Init
  <2>4. Len(disk) <= MaxSlots
    BY <1>1
  <2>5. lastReadValid \in BOOLEAN /\ atEndSeen \in BOOLEAN
    BY DEF Init
  <2>6. QED
    BY <1>1, <1>3, <2>1, <2>2, <2>3, <2>4, <2>5 DEF TypeOK, Replies, Slots
<1>5. IndexesSorted /\ IndexesMatchDisk /\ CursorConsistent /\ ClosedIsFlushed
  BY <1>2 DEF Init, IndexesSorted, IndexesMatchDisk, CursorConsistent, ClosedIsFlushed
<1>6. QED
  BY <1>4, <1>5 DEF IInv

LEMMA FreshCursorStep ==
  ASSUME IInv, FreshCursor,
         exists' \in BOOLEAN,
         disk' \in Disks,
         buffered' \in 0..1, buffered' <= Len(disk'),
         mode' \in OpenModes \cup {"Closed"}, mode' = "Closed" => buffered' = 0,
         indices' \in [Indexes -> Seq(Entries)],
         \A i \in Indexes : IsSorted(indices'[i]),
         mode' \in {"Input", "Output", "IoMode"} =>
           \A i \in Indexes : Matches(i, indices'[i], disk'),
         reply' \in Replies
  PROVE  IInv'
<1>1. /\ currentIndex' = Primary /\ currentRecord' = 0 /\ currentOffset' = None
      /\ lastReadValid' = FALSE /\ atEndSeen' = FALSE
  BY DEF FreshCursor
<1>2. Primary \in Indexes
  BY DEF Indexes
<1>3. indices'[Primary] \in Seq(Entries)
  BY <1>2
<1>4. currentRecord' \in 0..Len(indices'[currentIndex'])
  BY <1>1, <1>3
<1>5. QED
  BY <1>1, <1>2, <1>4, StoreStep

LEMMA EmptyIndexes ==
  /\ [i \in Indexes |-> << >>] \in [Indexes -> Seq(Entries)]
  /\ \A i \in Indexes : [j \in Indexes |-> << >>][i] = << >>
  /\ IsSorted(<< >>)
BY DEF IsSorted

LEMMA OpenInv == ASSUME IInv, Open PROVE IInv'
<1>1. ASSUME NEW m \in OpenModes, OpenFile(m) PROVE IInv'
  <2>1. /\ mode = "Closed" /\ exists' = TRUE /\ mode' = m /\ buffered' = buffered
        /\ disk' = IF m = "Output" THEN << >> ELSE disk
        /\ indices' = OpenedIndices(m, disk') /\ FreshCursor
    BY <1>1 DEF OpenFile
  <2>2. disk' \in Disks
    BY <2>1, InvFacts DEF Disks
  <2>3. buffered' \in 0..1 /\ buffered' <= Len(disk')
    BY <2>1, <2>2, DiskSlots DEF IInv, ClosedIsFlushed
  <2>4. \A i \in Indexes : /\ indices'[i] \in Seq(Entries) /\ IsSorted(indices'[i])
                           /\ m \in {"Input", "IoMode"} => Matches(i, indices'[i], disk')
    <3>1. TAKE i \in Indexes
    <3>2. indices'[i] = IF m \in {"Input", "IoMode"} THEN BuildEntries(i, disk') ELSE << >>
      BY <2>1 DEF OpenedIndices
    <3>3. QED
      BY <2>2, <3>2, BuildEntriesMatches, EmptyIndexes DEF Matches
  <2>5. m = "Output" => \A i \in Indexes : Matches(i, indices'[i], disk')
    <3>1. SUFFICES ASSUME m = "Output", NEW i \in Indexes PROVE Matches(i, indices'[i], disk')
      OBVIOUS
    <3>2. disk' = << >> /\ indices'[i] = << >>
      BY <2>1, <3>1 DEF OpenedIndices
    <3>3. LiveEntries(i, << >>) = {}
      BY DEF LiveEntries, Live
    <3>4. QED
      BY <3>2, <3>3 DEF Matches, Enumerates, IsSorted
  <2>6. reply' \in Replies
    BY <1>1, AnswerTypes, StatusesListed DEF OpenFile, Operations, Slots
  <2>7. indices' \in [Indexes -> Seq(Entries)]
    BY <2>1, <2>4 DEF OpenedIndices
  <2>8. QED
    BY <2>1, <2>2, <2>3, <2>4, <2>5, <2>6, <2>7, FreshCursorStep
       DEF IInv, ClosedIsFlushed
<1>2. ASSUME NEW m \in OpenModes, OpenMissing(m) PROVE IInv'
  BY <1>2, RefuseStep, StatusesListed DEF OpenMissing, Operations
<1>3. CASE OpenTwice
  BY <1>3, RefuseStep, StatusesListed DEF OpenTwice, Operations
<1>4. QED
  BY <1>1, <1>2, <1>3 DEF Open

LEMMA CloseInv == ASSUME IInv, Close \/ CloseUnopened \/ Crash PROVE IInv'
<1>1. CASE Close
  <2>1. /\ exists' = exists /\ disk' = disk /\ buffered' = 0 /\ mode' = "Closed"
        /\ indices' = [i \in Indexes |-> << >>] /\ FreshCursor
    BY <1>1 DEF Close
  <2>2. reply' \in Replies
    BY <1>1, AnswerTypes, StatusesListed DEF Close, Operations, Slots
  <2>3. exists' \in BOOLEAN /\ buffered' \in 0..1 /\ buffered' <= Len(disk') /\ disk' \in Disks
    BY <2>1, InvFacts DEF IInv, TypeOK
  <2>4. QED
    BY <2>1, <2>2, <2>3, EmptyIndexes, FreshCursorStep
<1>2. CASE CloseUnopened
  BY <1>2, RefuseStep, StatusesListed DEF CloseUnopened, Operations
<1>3. CASE Crash
  <2>1. /\ exists' = exists /\ disk' = SubSeq(disk, 1, Len(disk) - buffered) /\ buffered' = 0
        /\ mode' = "Closed" /\ indices' = [i \in Indexes |-> << >>] /\ FreshCursor
    BY <1>3 DEF Crash
  <2>2. reply' \in Replies
    BY <1>3, AnswerTypes, StatusesListed DEF Crash, Operations, Slots
  <2>3. disk' \in Disks
    <3>1. buffered \in 0..1 /\ buffered <= Len(disk)
      BY DEF IInv, TypeOK
    <3>2. Len(disk) - buffered \in 0..Len(disk)
      BY <3>1, InvFacts
    <3>3. disk \in Seq(Slots) /\ Len(disk) <= MaxSlots /\ MaxSlots \in Nat /\ Len(disk) \in Nat
      BY InvFacts DEF Disks
    <3>4. /\ disk' \in Seq(Slots)
          /\ Len(disk') = Len(disk) - buffered
      BY <2>1, <3>2, <3>3
    <3>5. QED
      BY <3>2, <3>3, <3>4 DEF Disks
  <2>4. exists' \in BOOLEAN /\ buffered' \in 0..1 /\ buffered' <= Len(disk')
    BY <2>1, <2>3, DiskSlots DEF IInv, TypeOK
  <2>5. QED
    BY <2>1, <2>2, <2>3, <2>4, EmptyIndexes, FreshCursorStep
<1>4. QED
  BY <1>1, <1>2, <1>3

LEMMA ReadInv == ASSUME IInv, Read PROVE IInv'
<1>1. CASE ReadNextRecord
  <2> DEFINE e == indices[currentIndex]
             n == currentRecord + 1
             o == e[n].offset
  <2>1. /\ Readable /\ currentRecord < Len(e) /\ currentRecord' = currentRecord + 1
        /\ SelectRecord(o)
        /\ Deliver("readNext", SuccessStatus(currentIndex, n), disk[o])
        /\ UNCHANGED <<store, mode, indices, currentIndex>>
    BY <1>1 DEF ReadNextRecord
  <2>2. /\ e \in Seq(Entries) /\ Len(e) \in Nat /\ disk \in Disks /\ currentIndex \in Indexes
        /\ Matches(currentIndex, e, disk)
    BY <2>1, InvFacts DEF Readable
  <2>3. currentRecord \in Nat
    BY <2>2 DEF IInv, TypeOK
  <2>4. n \in DOMAIN e /\ n \in 0..Len(e)
    BY <2>1, <2>2, <2>3
  <2>5. o \in Live(disk) /\ disk[o] \in Slots
    BY <2>2, <2>4, MatchingEntries, DiskSlots DEF Slots
  <2>6. reply' \in Replies
    <3>1. "readNext" \in Operations
      BY DEF Operations
    <3>2. QED
      BY <2>1, <2>5, <3>1, AnswerTypes, SuccessStatusType
  <2> HIDE DEF o, e
  <2>7. QED
    BY <2>1, <2>2, <2>4, <2>5, <2>6, CursorStep DEF SelectRecord, e
<1>2. CASE ReadNextAtEnd
  <2>1. reply' \in Replies
    BY <1>2, AnswerTypes, StatusesListed DEF ReadNextAtEnd, Operations, Slots
  <2>2. /\ lastReadValid' = FALSE /\ atEndSeen' = TRUE
        /\ UNCHANGED <<store, mode, indices, currentIndex, currentRecord, currentOffset>>
    BY <1>2 DEF ReadNextAtEnd
  <2>3. QED
    BY <2>1, <2>2, CursorStep DEF IInv, TypeOK
<1>3. ASSUME NEW i \in Indexes, NEW p \in Probes, ReadKeyFound(i, p) PROVE IInv'
  <2> DEFINE e == indices[i]
             n == Lower(i, p)
             o == e[n + 1].offset
  <2>1. /\ Readable /\ n < Upper(i, p) /\ currentIndex' = i /\ currentRecord' = n + 1
        /\ SelectRecord(o)
        /\ Deliver("readKey", SuccessStatus(i, n + 1), disk[o])
        /\ UNCHANGED <<store, mode, indices>>
    BY <1>3 DEF ReadKeyFound
  <2>2. /\ e \in Seq(Entries) /\ Len(e) \in Nat /\ disk \in Disks /\ Matches(i, e, disk)
        /\ e \in Seq(Entry) /\ IsSorted(e)
    BY <2>1, InvFacts DEF Readable
  <2>3. p[1] \in Nat /\ p[2] \in Nat
    BY KeysAssumption
  <2>4. n \in 0..Len(e) /\ Upper(i, p) \in 0..Len(e)
    BY <2>2, <2>3, BoundsInIndex DEF Lower, Upper
  <2> HIDE DEF e, n
  <2>5. n + 1 \in DOMAIN e /\ n + 1 \in 0..Len(e)
    BY <2>1, <2>2, <2>4
  <2>6. o \in Live(disk) /\ disk[o] \in Slots
    BY <2>2, <2>5, MatchingEntries, DiskSlots DEF Slots
  <2>7. reply' \in Replies
    <3>1. "readKey" \in Operations
      BY DEF Operations
    <3>2. QED
      BY <2>1, <2>6, <3>1, AnswerTypes, SuccessStatusType
  <2> HIDE DEF o
  <2>8. QED
    BY <2>1, <2>2, <2>5, <2>6, <2>7, CursorStep DEF SelectRecord, e
<1>4. ASSUME NEW i \in Indexes, NEW p \in Probes, ReadKeyNotFound(i, p) PROVE IInv'
  <2>1. reply' \in Replies
    BY <1>4, AnswerTypes, StatusesListed DEF ReadKeyNotFound, Operations, Slots
  <2>2. /\ lastReadValid' = FALSE
        /\ UNCHANGED <<store, mode, indices, currentIndex, currentRecord, currentOffset, atEndSeen>>
    BY <1>4 DEF ReadKeyNotFound
  <2>3. QED
    BY <2>1, <2>2, CursorStep DEF IInv, TypeOK
<1>5. CASE ReadDenied
  BY <1>5, RefuseStep, StatusesListed DEF ReadDenied, Operations
<1>6. QED
  BY <1>1, <1>2, <1>3, <1>4, <1>5 DEF Read

LEMMA StartInv == ASSUME IInv, Start PROVE IInv'
<1>1. CASE StartUnopened
  BY <1>1, RefuseStep, StatusesListed DEF StartUnopened, Operations
<1>2. ASSUME NEW i \in Indexes, NEW p \in Probes, NEW rel \in Relations, StartFound(i, p, rel)
      PROVE  IInv'
  <2>1. PICK n \in 0..MaxSlots : /\ StartTarget(i, p, rel, n) /\ currentIndex' = i
                                 /\ currentRecord' = n /\ currentOffset' = None
    BY <1>2 DEF StartFound
  <2>2. p[1] \in Nat /\ p[2] \in Nat
    BY KeysAssumption
  <2>3. indices[i] \in Seq(Entry) /\ IsSorted(indices[i]) /\ Len(indices[i]) \in Nat
    BY InvFacts
  <2>4. Lower(i, p) \in 0..Len(indices[i]) /\ Upper(i, p) \in 0..Len(indices[i])
    BY <2>2, <2>3, BoundsInIndex DEF Lower, Upper
  <2>5. n \in 0..Len(indices[i])
    BY <2>1, <2>3, <2>4 DEF StartTarget
  <2>6. reply' \in Replies
    BY <1>2, AnswerTypes, StatusesListed DEF StartFound, Operations, Slots
  <2>7. UNCHANGED <<store, mode, indices, lastReadValid, atEndSeen>>
    BY <1>2 DEF StartFound
  <2>8. QED
    BY <2>1, <2>5, <2>6, <2>7, CursorStep DEF IInv, TypeOK, CursorConsistent
<1>3. ASSUME NEW i \in Indexes, NEW p \in Probes, NEW rel \in Relations,
             StartNotFound(i, p, rel)
      PROVE  IInv'
  BY <1>3, RefuseStep, StatusesListed DEF StartNotFound, Operations
<1>4. QED
  BY <1>1, <1>2, <1>3 DEF Start

LEMMA WriteInv == ASSUME IInv, Write PROVE IInv'
<1>1. ASSUME NEW r \in Records, WriteRecord(r) PROVE IInv'
  <2> DEFINE o == WriteOffset
             x(i) == [key |-> KeyOf(i, r), offset |-> o]
  <2>1. /\ Len(disk) < MaxSlots
        /\ disk' = Append(disk, r)
        /\ buffered' \in IF mode = "IoMode" THEN {0} ELSE {0, 1}
        /\ indices' = [i \in Indexes |-> InsertEntry(i, indices[i], r, o)]
        /\ currentRecord' = currentRecord + 1
        /\ UNCHANGED <<exists, mode, currentIndex, currentOffset, lastReadValid, atEndSeen>>
        /\ mode # "Closed"
    BY <1>1 DEF WriteRecord, Writable
  <2>2. /\ Len(disk) \in Nat /\ MaxSlots \in Nat /\ disk \in Disks
        /\ currentIndex \in Indexes
        /\ \A i \in Indexes : /\ indices[i] \in Seq(Entries) /\ IsSorted(indices[i])
                              /\ Len(indices[i]) \in Nat
    BY InvFacts
  <2>3. o \in 1..MaxSlots /\ (mode # "Extend" => o = Len(disk) + 1)
    BY <2>1, <2>2 DEF WriteOffset
  <2>4. \A i \in Indexes : /\ disk' \in Disks
                           /\ Live(disk') = Live(disk) \cup {Len(disk) + 1}
                           /\ mode # "Extend" =>
                                /\ LiveEntries(i, disk') = LiveEntries(i, disk) \cup {x(i)}
                                /\ x(i) \notin LiveEntries(i, disk)
    <3>1. TAKE i \in Indexes
    <3>2. mode # "Extend" => x(i) = EntryOf(i, r, Len(disk) + 1)
      BY <2>3 DEF EntryOf
    <3> HIDE DEF x
    <3>3. disk \in Disks /\ Len(disk) < MaxSlots /\ disk' = Appended(disk, r)
      BY <2>1, <2>2 DEF Appended
    <3>4. QED
      BY <3>2, <3>3, LiveEntriesAppend
  <2> HIDE DEF o
  <2>5. \A i \in Indexes :
          /\ indices'[i] \in Seq(Entries)
          /\ Len(indices'[i]) = Len(indices[i]) + 1
          /\ IsSorted(indices'[i])
          /\ \A E : Enumerates(indices[i], E) /\ x(i) \notin E
                      => Enumerates(indices'[i], E \cup {x(i)})
    <3>1. TAKE i \in Indexes
    <3>2. PICK n : /\ n = LowerBound(indices[i], KeyOf(i, r)) \/ n = UpperBound(indices[i], KeyOf(i, r))
                   /\ indices'[i] = InsertAfter(indices[i], n, x(i))
      BY <2>1 DEF InsertEntry
    <3>3. QED
      <4>1. indices[i] \in Seq(Entries) /\ IsSorted(indices[i])
        BY <2>2
      <4>2. o \in 1..MaxSlots /\ x(i) = [key |-> KeyOf(i, r), offset |-> o]
        BY <2>3
      <4> HIDE DEF x
      <4>3. QED
        BY <3>2, <4>1, <4>2, InsertMatches
  <2>6. mode' \in {"Input", "Output", "IoMode"} =>
          \A i \in Indexes : Matches(i, indices'[i], disk')
    <3>1. SUFFICES ASSUME mode \in {"Input", "Output", "IoMode"}, NEW i \in Indexes
                   PROVE  Matches(i, indices'[i], disk')
      BY <2>1
    <3>2. Enumerates(indices[i], LiveEntries(i, disk))
      BY <3>1, InvFacts DEF Matches
    <3>3. /\ LiveEntries(i, disk') = LiveEntries(i, disk) \cup {x(i)}
          /\ x(i) \notin LiveEntries(i, disk)
      BY <2>4, <3>1
    <3>4. /\ IsSorted(indices'[i])
          /\ \A E : Enumerates(indices[i], E) /\ x(i) \notin E
                      => Enumerates(indices'[i], E \cup {x(i)})
      BY <2>5
    <3> HIDE DEF x
    <3>5. Enumerates(indices'[i], LiveEntries(i, disk) \cup {x(i)})
      BY <3>2, <3>3, <3>4
    <3>6. QED
      BY <3>3, <3>4, <3>5 DEF Matches
  <2>7. currentRecord' \in 0..Len(indices'[currentIndex'])
    <3>1. /\ currentRecord \in 0..Len(indices[currentIndex])
          /\ Len(indices[currentIndex]) \in Nat
          /\ Len(indices'[currentIndex]) = Len(indices[currentIndex]) + 1
      BY <2>2, <2>5 DEF IInv, TypeOK
    <3>2. currentRecord + 1 \in 0..(Len(indices[currentIndex]) + 1)
      BY <3>1
    <3>3. QED
      BY <2>1, <3>1, <3>2
  <2>8. currentOffset' = None \/ currentOffset' \in Live(disk')
    BY <2>1, <2>2, <2>4 DEF IInv, CursorConsistent
  <2>9. buffered' \in 0..1 /\ buffered' <= Len(disk')
    <3>1. Len(disk') = Len(disk) + 1
      BY <2>1, <2>2 DEF Disks
    <3>2. buffered' \in 0..1
      BY <2>1
    <3>3. QED
      BY <2>2, <3>1, <3>2
  <2>10. reply' \in Replies
    BY <1>1, AnswerTypes, StatusesListed DEF WriteRecord, Operations, Slots
  <2>11. indices' \in [Indexes -> Seq(Entries)]
    BY <2>1, <2>5
  <2>12. /\ exists' \in BOOLEAN /\ mode' \in OpenModes \cup {"Closed"}
         /\ lastReadValid' \in BOOLEAN /\ atEndSeen' \in BOOLEAN
         /\ ~(lastReadValid' /\ atEndSeen')
         /\ mode' # "Closed" /\ currentIndex' \in Indexes /\ disk' \in Disks
    BY <2>1, <2>2, <2>4 DEF IInv, TypeOK, CursorConsistent
  <2>13. QED
    BY <2>5, <2>6, <2>7, <2>8, <2>9, <2>10, <2>11, <2>12, StoreStep
<1>2. ASSUME NEW r \in Records, WriteOutOfSequence(r) PROVE IInv'
  BY <1>2, RefuseStep, StatusesListed DEF WriteOutOfSequence, Operations
<1>3. ASSUME NEW r \in Records, WriteDuplicate(r) PROVE IInv'
  BY <1>3, RefuseStep, StatusesListed DEF WriteDuplicate, Operations
<1>4. CASE WriteDenied
  BY <1>4, RefuseStep, StatusesListed DEF WriteDenied, Operations
<1>5. QED
  BY <1>1, <1>2, <1>3, <1>4 DEF Write

(* The search for a primary key finds the live record that has it. *)
LEMMA OffsetOfFinds ==
  ASSUME IInv, mode = "IoMode", NEW i \in Indexes, NEW k \in Nat, HasKey(indices[i], k)
  PROVE  /\ OffsetOf(indices[i], k) \in Live(disk)
         /\ KeyOf(i, disk[OffsetOf(indices[i], k)]) = k
<1> DEFINE e == indices[i]
           n == LowerBound(e, k)
<1>1. e \in Seq(Entry) /\ e \in Seq(Entries) /\ IsSorted(e) /\ Matches(i, e, disk) /\ disk \in Disks
  BY InvFacts
<1>2. Len(e) \in Nat /\ n \in 0..Len(e) /\ \A j \in DOMAIN e : e[j].key < k <=> j <= n
  BY <1>1, BoundsInIndex
<1>3. PICK j \in DOMAIN e : e[j].key = k
  BY DEF HasKey
<1>4. DOMAIN e = 1..Len(e) /\ \A m \in DOMAIN e : e[m].key \in Nat
  BY <1>1, EntriesHaveKeys
<1>5. \A a, b \in DOMAIN e : a < b => e[a].key <= e[b].key
  BY <1>1 DEF IsSorted
<1> HIDE DEF e, n
<1>6. ~(j <= n) /\ j \in 1..Len(e)
  BY <1>2, <1>3, <1>4
<1>7. n + 1 \in DOMAIN e /\ ~(n + 1 <= n) /\ n + 1 <= j
  BY <1>2, <1>4, <1>6
<1>8. ~(e[n + 1].key < k)
  BY <1>2, <1>7
<1>9. e[n + 1].key <= k
  <2>1. CASE n + 1 = j
    BY <1>3, <2>1
  <2>2. CASE n + 1 < j
    BY <1>3, <1>5, <1>7, <2>2
  <2>3. QED
    BY <1>2, <1>6, <1>7, <2>1, <2>2
<1>10. e[n + 1].key = k
  BY <1>4, <1>7, <1>8, <1>9
<1>11. /\ e[n + 1].offset \in Live(disk)
       /\ e[n + 1].key = KeyOf(i, disk[e[n + 1].offset])
  BY <1>1, <1>7, MatchingEntries
<1>12. QED
  BY <1>10, <1>11 DEF OffsetOf, e, n

LEMMA OffsetOfRecordFinds ==
  ASSUME IInv, mode = "IoMode", NEW r \in Records, Known(r)
  PROVE  OffsetOfRecord(r) \in Live(disk) /\ disk[OffsetOfRecord(r)].pk = r.pk
<1>1. Primary \in Indexes /\ r.pk \in Nat
  BY KeysAssumption DEF Indexes, Records
<1>2. QED
  BY <1>1, OffsetOfFinds DEF Known, OffsetOfRecord, KeyOf

LEMMA CapToRange ==
  ASSUME NEW n \in Nat, NEW m \in Nat
  PROVE  CapTo(n, m) \in 0..m
BY DEF CapTo

LEMMA PositionsInIndex ==
  ASSUME NEW e \in Seq(Entries), NEW o, PositionsOf(e, o) # {}
  PROVE  /\ (CHOOSE j \in PositionsOf(e, o) : TRUE) \in DOMAIN e
         /\ (CHOOSE j \in PositionsOf(e, o) : TRUE) - 1 \in 0..Len(e)
<1> DEFINE j == CHOOSE m \in PositionsOf(e, o) : TRUE
<1>1. j \in PositionsOf(e, o)
  OBVIOUS
<1>2. j \in DOMAIN e /\ DOMAIN e = 1..Len(e) /\ Len(e) \in Nat
  BY <1>1 DEF PositionsOf
<1> HIDE DEF j
<1>3. j - 1 \in 0..Len(e)
  BY <1>2
<1>4. QED
  BY <1>2, <1>3 DEF j

LEMMA RewriteInv == ASSUME IInv, Rewrite PROVE IInv'
<1>1. ASSUME NEW r \in Records, RewriteRecord(r) PROVE IInv'
  <2> DEFINE o == OffsetOfRecord(r)
             d == [disk EXCEPT ![o] = r]
  <2>1. /\ mode = "IoMode" /\ Known(r)
        /\ disk' = d /\ indices' = RewrittenIndices(r, o)
        /\ currentRecord' = RepositionedRecord(indices'[currentIndex], NextOffset)
        /\ UNCHANGED <<exists, buffered, mode, currentIndex, currentOffset, lastReadValid, atEndSeen>>
    BY <1>1 DEF RewriteRecord
  <2>2. o \in Live(disk)
    BY <2>1, OffsetOfRecordFinds
  <2>3. disk \in Disks /\ o \in DOMAIN disk /\ r \in Slots /\ currentIndex \in Indexes
    BY <2>2, InvFacts DEF Live, Slots
  <2> HIDE DEF o
  <2>4. /\ d \in Disks /\ Len(d) = Len(disk) /\ d[o] = r /\ o \in Live(d)
        /\ \A p \in Live(disk) : p # o => p \in Live(d)
    <3>1. d = Replaced(disk, o, r)
      BY DEF Replaced
    <3> HIDE DEF d
    <3>2. QED
      BY <2>3, <3>1, ReplacedSlot
  <2> HIDE DEF d
  <2>5. \A i \in Indexes : indices'[i] \in Seq(Entries) /\ Matches(i, indices'[i], d)
    <3>1. TAKE i \in Indexes
    <3>2. BuildEntries(i, d) \in Seq(Entries) /\ Matches(i, BuildEntries(i, d), d)
      BY <2>4, BuildEntriesMatches
    <3>3. \/ indices'[i] = BuildEntries(i, d)
          \/ indices'[i] = MoveToEndOfEquals(BuildEntries(i, d), KeyOf(i, d[o]), o)
      BY <2>1, <2>4 DEF RewrittenIndices, d
    <3>4. QED
      BY <2>4, <3>2, <3>3, MoveToEndOfEqualsMatches
  <2>6. currentRecord' \in 0..Len(indices'[currentIndex'])
    <3>1. indices'[currentIndex] \in Seq(Entries) /\ Len(indices'[currentIndex]) \in Nat
      BY <2>3, <2>5
    <3>2. currentRecord \in Nat
      BY InvFacts DEF IInv, TypeOK
    <3>3. QED
      BY <2>1, <3>1, <3>2, CapToRange, PositionsInIndex DEF RepositionedRecord
  <2>7. currentOffset' = None \/ currentOffset' \in Live(disk')
    BY <2>1, <2>4 DEF IInv, CursorConsistent
  <2>8. reply' \in Replies
    BY <1>1, AnswerTypes, StatusesListed DEF RewriteRecord, Operations, Slots
  <2>9. indices' \in [Indexes -> Seq(Entries)]
    BY <2>1, <2>5 DEF RewrittenIndices
  <2>10. /\ exists' \in BOOLEAN /\ mode' \in OpenModes \cup {"Closed"} /\ mode' # "Closed"
         /\ buffered' \in 0..1 /\ buffered' <= Len(disk')
         /\ lastReadValid' \in BOOLEAN /\ atEndSeen' \in BOOLEAN
         /\ ~(lastReadValid' /\ atEndSeen')
         /\ currentIndex' \in Indexes /\ disk' \in Disks
    BY <2>1, <2>3, <2>4 DEF IInv, TypeOK, CursorConsistent
  <2>11. QED
    BY <2>1, <2>5, <2>6, <2>7, <2>8, <2>9, <2>10, StoreStep DEF Matches
<1>2. ASSUME NEW r \in Records, RewriteClash(r) PROVE IInv'
  BY <1>2, RefuseStep, StatusesListed DEF RewriteClash, Operations
<1>3. ASSUME NEW r \in Records, RewriteUnknown(r) PROVE IInv'
  BY <1>3, RefuseStep, StatusesListed DEF RewriteUnknown, Operations
<1>4. CASE RewriteWithoutRead
  BY <1>4, RefuseStep, StatusesListed DEF RewriteWithoutRead, Operations
<1>5. QED
  BY <1>1, <1>2, <1>3, <1>4 DEF Rewrite

LEMMA DeleteAtInv ==
  ASSUME IInv, mode = "IoMode", NEW o \in Live(disk), DeleteAt(o)
  PROVE  IInv'
<1> DEFINE d == [disk EXCEPT ![o] = Erased]
<1>1. /\ disk' = d /\ indices' = RebuiltIndices(disk')
      /\ currentRecord' = CursorAfterDelete(o, indices'[currentIndex])
      /\ currentOffset' = None /\ lastReadValid' = FALSE
      /\ UNCHANGED <<exists, buffered, mode, currentIndex, atEndSeen>>
  BY DEF DeleteAt
<1>2. disk \in Disks /\ o \in DOMAIN disk /\ Erased \in Slots /\ currentIndex \in Indexes
  BY InvFacts DEF Live, Slots
<1>3. d \in Disks /\ Len(d) = Len(disk)
  <2>1. d = Replaced(disk, o, Erased)
    BY DEF Replaced
  <2> HIDE DEF d
  <2>2. QED
    BY <1>2, <2>1, ReplacedSlot
<1> HIDE DEF d
<1>4. \A i \in Indexes : indices'[i] \in Seq(Entries) /\ Matches(i, indices'[i], disk')
  BY <1>1, <1>3, BuildEntriesMatches DEF RebuiltIndices
<1>5. currentRecord' \in 0..Len(indices'[currentIndex'])
  <2> DEFINE here == PositionsOf(indices[currentIndex], o)
             n == IF here = {} THEN currentRecord ELSE (CHOOSE j \in here : TRUE) - 1
  <2>1. Len(indices'[currentIndex]) \in Nat
    BY <1>2, <1>4
  <2>2. indices[currentIndex] \in Seq(Entries) /\ currentRecord \in Nat
    BY InvFacts DEF IInv, TypeOK
  <2>3. here # {} => (CHOOSE j \in here : TRUE) - 1 \in Nat
    BY <2>2, PositionsInIndex
  <2> HIDE DEF here
  <2>4. n \in Nat
    BY <2>2, <2>3
  <2> HIDE DEF n
  <2>5. CapTo(n, Len(indices'[currentIndex])) \in 0..Len(indices'[currentIndex])
    BY <2>1, <2>4, CapToRange
  <2>6. QED
    BY <1>1, <2>5 DEF CursorAfterDelete, n, here
<1>6. reply' \in Replies
  BY AnswerTypes, StatusesListed DEF DeleteAt, Operations, Slots
<1>7. indices' \in [Indexes -> Seq(Entries)]
  BY <1>1, <1>4 DEF RebuiltIndices
<1>8. /\ exists' \in BOOLEAN /\ mode' \in OpenModes \cup {"Closed"} /\ mode' # "Closed"
      /\ buffered' \in 0..1 /\ buffered' <= Len(disk') /\ atEndSeen' \in BOOLEAN
  BY <1>1, <1>3 DEF IInv, TypeOK
<1>9. QED
  BY <1>1, <1>2, <1>3, <1>4, <1>5, <1>6, <1>7, <1>8, StoreStep DEF Matches

LEMMA DeleteInv == ASSUME IInv, Delete PROVE IInv'
<1>1. ASSUME NEW r \in Records, DeleteRecord(r) PROVE IInv'
  BY <1>1, OffsetOfRecordFinds, DeleteAtInv DEF DeleteRecord
<1>2. ASSUME NEW r \in Records, DeleteUnknown(r) PROVE IInv'
  <2>1. reply' \in Replies
    BY <1>2, AnswerTypes, StatusesListed DEF DeleteUnknown, Operations, Slots
  <2>2. /\ lastReadValid' = FALSE
        /\ UNCHANGED <<store, mode, indices, currentIndex, currentRecord, currentOffset, atEndSeen>>
    BY <1>2 DEF DeleteUnknown
  <2>3. QED
    BY <2>1, <2>2, CursorStep DEF IInv, TypeOK
<1>3. CASE DeleteCurrent
  <2>1. CASE currentOffset = None
    BY <1>3, <2>1, RefuseStep, StatusesListed DEF DeleteCurrent, Operations
  <2>2. CASE currentOffset # None
    BY <1>3, <2>2, DeleteAtInv DEF DeleteCurrent, IInv, CursorConsistent
  <2>3. QED
    BY <2>1, <2>2
<1>4. QED
  BY <1>1, <1>2, <1>3 DEF Delete

LEMMA InductiveInvariant == IInv /\ [Next]_vars => IInv'
<1> SUFFICES ASSUME IInv, [Next]_vars PROVE IInv'
  OBVIOUS
<1>1. CASE UNCHANGED vars
  <2>1. UNCHANGED <<store, mode, indices, cursor>> /\ reply' = reply
    BY <1>1 DEF vars
  <2>2. reply \in Replies
    BY DEF IInv, TypeOK, Replies, Slots
  <2>3. QED
    BY <2>1, <2>2, CursorStep DEF cursor, IInv, TypeOK, CursorConsistent
<1>2. CASE Open
  BY <1>2, OpenInv
<1>3. CASE Close \/ CloseUnopened \/ Crash
  BY <1>3, CloseInv
<1>4. CASE Read
  BY <1>4, ReadInv
<1>5. CASE Start
  BY <1>5, StartInv
<1>6. CASE Write
  BY <1>6, WriteInv
<1>7. CASE Rewrite
  BY <1>7, RewriteInv
<1>8. CASE Delete
  BY <1>8, DeleteInv
<1>9. CASE UpdateDenied
  BY <1>9, RefuseStep, StatusesListed DEF UpdateDenied, Operations
<1>10. QED
  BY <1>1, <1>2, <1>3, <1>4, <1>5, <1>6, <1>7, <1>8, <1>9 DEF Next

LEMMA InvariantHolds == Spec => []IInv
BY InitInv, InductiveInvariant, PTL DEF Spec

(* Every variable of an indexed file keeps its type, and the cursor stays  *)
(* within the index it follows, whatever calls a program makes.            *)
THEOREM TypeCorrect == Spec => []TypeOK
<1>1. IInv => TypeOK
  BY DEF IInv
<1>2. QED
  BY <1>1, InvariantHolds, PTL

(* The indexes of an open file list exactly its records, in key order.     *)
THEOREM IndexesAlwaysMatch == Spec => []IndexesMatchDisk
<1>1. IInv => IndexesMatchDisk
  BY DEF IInv
<1>2. QED
  BY <1>1, InvariantHolds, PTL

(* The cursor flags never contradict each other, and DELETE is never left  *)
(* pointing at a record that is gone.                                      *)
THEOREM CursorAlwaysConsistent == Spec => []CursorConsistent
<1>1. IInv => CursorConsistent
  BY DEF IInv
<1>2. QED
  BY <1>1, InvariantHolds, PTL

----------------------------------------------------------------------------
(* Keys stay unique, in programs that do not OPEN EXTEND *)

LEMMA LiveHasKey ==
  ASSUME IInv, mode \in {"Input", "Output", "IoMode"}, NEW i \in Indexes, NEW o \in Live(disk)
  PROVE  HasKey(indices[i], KeyOf(i, disk[o]))
<1>1. disk \in Disks /\ indices[i] \in Seq(Entries) /\ Matches(i, indices[i], disk)
  BY InvFacts
<1>2. PICK n \in DOMAIN indices[i] : indices[i][n] = EntryAt(i, disk, o)
  BY <1>1, MatchingEntries
<1>3. QED
  BY <1>2, EntryAtFields DEF HasKey

LEMMA WriteKeepsKeysUnique ==
  ASSUME IInv, KeysUnique, mode # "Extend", NEW r \in Records, WriteRecord(r)
  PROVE  KeysUnique'
<1> DEFINE n == Len(disk) + 1
<1>1. /\ mode \in {"Input", "Output", "IoMode"} /\ ~DuplicatesKey(r)
      /\ disk \in Disks /\ Len(disk) < MaxSlots /\ disk' = Append(disk, r)
  BY InvFacts DEF WriteRecord, Writable
<1>2. /\ Len(disk) \in Nat /\ DOMAIN disk = 1..Len(disk) /\ Live(disk) \subseteq 1..Len(disk)
      /\ disk \in Seq(Slots) /\ r \in Slots
  BY <1>1, DiskSlots DEF Disks, Slots
<1>3. disk'[n] = r /\ \A o \in 1..Len(disk) : disk'[o] = disk[o]
  BY <1>1, <1>2
<1>4. Live(disk') = Live(disk) \cup {n}
  <2>1. disk' = Appended(disk, r) /\ Primary \in Indexes
    BY <1>1 DEF Appended, Indexes
  <2>2. QED
    BY <1>1, <2>1, LiveEntriesAppend
<1>5. \A i \in Indexes, o \in Live(disk) : ~NotUnique(i) => KeyOf(i, disk[o]) # KeyOf(i, r)
  BY <1>1, LiveHasKey DEF DuplicatesKey
<1>6. \A o \in Live(disk) : o # n
  BY <1>2
<1> HIDE DEF n
<1>7. ASSUME NEW i \in Indexes, NEW o1 \in Live(disk'), NEW o2 \in Live(disk'),
             ~NotUnique(i), KeyOf(i, disk'[o1]) = KeyOf(i, disk'[o2])
      PROVE  o1 = o2
  <2>1. CASE o1 \in Live(disk) /\ o2 \in Live(disk)
    BY <1>2, <1>3, <1>7, <2>1 DEF KeysUnique
  <2>2. CASE o1 = n /\ o2 = n
    BY <2>2
  <2>3. CASE o1 = n /\ o2 \in Live(disk)
    BY <1>2, <1>3, <1>5, <1>7, <2>3
  <2>4. CASE o1 \in Live(disk) /\ o2 = n
    BY <1>2, <1>3, <1>5, <1>7, <2>4
  <2>5. QED
    BY <1>4, <2>1, <2>2, <2>3, <2>4
<1>8. QED
  BY <1>7 DEF KeysUnique, Live, NotUnique, KeyOf

LEMMA RewriteKeepsKeysUnique ==
  ASSUME IInv, KeysUnique, NEW r \in Records, RewriteRecord(r)
  PROVE  KeysUnique'
<1> DEFINE o == OffsetOfRecord(r)
<1>1. mode = "IoMode" /\ Known(r) /\ ~ClashesWithOther(r, o) /\ disk' = [disk EXCEPT ![o] = r]
  BY DEF RewriteRecord
<1>2. disk \in Disks /\ o \in Live(disk) /\ o \in DOMAIN disk /\ r \in Slots
  BY <1>1, InvFacts, OffsetOfRecordFinds DEF Live, Slots
<1> HIDE DEF o
<1>3. /\ disk'[o] = r
      /\ \A p \in Live(disk') : p # o => p \in Live(disk) /\ disk'[p] = disk[p]
  <2>1. disk' = Replaced(disk, o, r)
    BY <1>1 DEF Replaced
  <2>2. QED
    BY <1>2, <2>1, ReplacedSlot
<1>4. ASSUME NEW i \in Indexes, NEW p \in Live(disk), p # o, ~NotUnique(i)
      PROVE  KeyOf(i, disk[p]) # KeyOf(i, r)
  <2>1. SUFFICES ASSUME KeyOf(i, disk[p]) = KeyOf(i, r) PROVE FALSE
    OBVIOUS
  <2>2. HasKey(indices[i], KeyOf(i, r)) /\ KeyOf(i, r) \in Nat
    BY <1>1, <2>1, LiveHasKey, KeyTypes
  <2>3. OffsetOf(indices[i], KeyOf(i, r)) = o
    BY <1>1, <1>4, <2>2 DEF ClashesWithOther
  <2>4. KeyOf(i, disk[o]) = KeyOf(i, r)
    BY <1>1, <2>2, <2>3, OffsetOfFinds
  <2>5. QED
    BY <1>2, <1>4, <2>1, <2>4 DEF KeysUnique
<1>5. ASSUME NEW i \in Indexes, NEW o1 \in Live(disk'), NEW o2 \in Live(disk'),
             ~NotUnique(i), KeyOf(i, disk'[o1]) = KeyOf(i, disk'[o2])
      PROVE  o1 = o2
  <2>1. CASE o1 # o /\ o2 # o
    BY <1>3, <1>5, <2>1 DEF KeysUnique
  <2>2. CASE o1 = o /\ o2 # o
    BY <1>3, <1>4, <1>5, <2>2
  <2>3. CASE o1 # o /\ o2 = o
    BY <1>3, <1>4, <1>5, <2>3
  <2>4. QED
    BY <2>1, <2>2, <2>3
<1>6. QED
  BY <1>5 DEF KeysUnique, Live, NotUnique, KeyOf

(* A step that only removes records cannot make two keys equal. *)
LEMMA FewerRecords ==
  ASSUME KeysUnique, \A o \in Live(disk') : o \in Live(disk) /\ disk'[o] = disk[o]
  PROVE  KeysUnique'
<1>1. ASSUME NEW i \in Indexes, NEW o1 \in Live(disk'), NEW o2 \in Live(disk'),
             ~NotUnique(i), KeyOf(i, disk'[o1]) = KeyOf(i, disk'[o2])
      PROVE  o1 = o2
  BY <1>1 DEF KeysUnique
<1>2. QED
  BY <1>1 DEF KeysUnique, Live, NotUnique, KeyOf

LEMMA DeleteKeepsKeysUnique ==
  ASSUME IInv, KeysUnique, Delete
  PROVE  KeysUnique'
<1>1. ASSUME mode = "IoMode", NEW o \in Live(disk), DeleteAt(o) PROVE KeysUnique'
  <2>1. disk \in Disks /\ o \in DOMAIN disk /\ Erased \in Slots
    BY InvFacts DEF Live, Slots
  <2>2. disk' = Replaced(disk, o, Erased)
    BY <1>1 DEF DeleteAt, Replaced
  <2>3. /\ disk'[o] = Erased
        /\ \A p \in Live(disk') : p # o => p \in Live(disk) /\ disk'[p] = disk[p]
    BY <2>1, <2>2, ReplacedSlot
  <2>4. o \notin Live(disk')
    BY <2>3 DEF Live
  <2>5. QED
    BY <2>3, <2>4, FewerRecords
<1>2. ASSUME disk' = disk PROVE KeysUnique'
  BY <1>2, FewerRecords DEF Live
<1>3. ASSUME NEW r \in Records, DeleteRecord(r) PROVE KeysUnique'
  BY <1>1, <1>3, OffsetOfRecordFinds DEF DeleteRecord
<1>4. ASSUME NEW r \in Records, DeleteUnknown(r) PROVE KeysUnique'
  BY <1>2, <1>4 DEF DeleteUnknown, store
<1>5. CASE DeleteCurrent
  <2>1. CASE currentOffset = None
    BY <1>2, <1>5, <2>1 DEF DeleteCurrent, Refuse, store
  <2>2. CASE currentOffset # None
    BY <1>1, <1>5, <2>2 DEF DeleteCurrent, IInv, CursorConsistent
  <2>3. QED
    BY <2>1, <2>2
<1>6. QED
  BY <1>3, <1>4, <1>5 DEF Delete

LEMMA KeysUniqueStep ==
  ASSUME "Extend" \notin OpenModes
  PROVE  IInv /\ KeysUnique /\ [Next]_vars => KeysUnique'
<1> SUFFICES ASSUME IInv, KeysUnique, [Next]_vars PROVE KeysUnique'
  OBVIOUS
<1>1. ASSUME disk' = disk PROVE KeysUnique'
  BY <1>1, FewerRecords DEF Live
<1>2. mode # "Extend"
  BY DEF IInv, TypeOK
<1>3. CASE UNCHANGED vars
  BY <1>1, <1>3 DEF vars, store
<1>4. CASE Open
  <2>1. ASSUME NEW m \in OpenModes, OpenFile(m) PROVE KeysUnique'
    <3>1. CASE disk' = << >>
      BY <3>1, FewerRecords DEF Live
    <3>2. CASE disk' = disk
      BY <1>1, <3>2
    <3>3. QED
      BY <2>1, <3>1, <3>2 DEF OpenFile
  <2>2. CASE OpenTwice \/ \E m \in OpenModes : OpenMissing(m)
    BY <1>1, <2>2 DEF OpenTwice, OpenMissing, Refuse, store
  <2>3. QED
    BY <1>4, <2>1, <2>2 DEF Open
<1>5. CASE Close \/ CloseUnopened
  BY <1>1, <1>5 DEF Close, CloseUnopened, Refuse, store
<1>6. CASE Crash
  <2>1. disk' = SubSeq(disk, 1, Len(disk) - buffered)
    BY <1>6 DEF Crash
  <2>2. disk \in Seq(Slots) /\ Len(disk) \in Nat /\ buffered \in 0..Len(disk)
    BY InvFacts DEF Disks, IInv, TypeOK
  <2>3. Len(disk) - buffered \in 0..Len(disk)
    BY <2>2
  <2>4. /\ DOMAIN disk' \subseteq DOMAIN disk
        /\ \A o \in DOMAIN disk' : disk'[o] = disk[o]
    BY <2>1, <2>2, <2>3
  <2>5. QED
    BY <2>4, FewerRecords DEF Live
<1>7. CASE Read
  BY <1>1, <1>7 DEF Read, ReadNextRecord, ReadNextAtEnd, ReadKeyFound, ReadKeyNotFound,
                    ReadDenied, Refuse, store
<1>8. CASE Start
  BY <1>1, <1>8 DEF Start, StartFound, StartNotFound, StartUnopened, Refuse, store
<1>9. CASE Write
  <2>1. ASSUME NEW r \in Records, WriteRecord(r) PROVE KeysUnique'
    BY <1>2, <2>1, WriteKeepsKeysUnique
  <2>2. CASE WriteDenied \/ \E r \in Records : WriteOutOfSequence(r) \/ WriteDuplicate(r)
    BY <1>1, <2>2 DEF WriteDenied, WriteOutOfSequence, WriteDuplicate, Refuse, store
  <2>3. QED
    BY <1>9, <2>1, <2>2 DEF Write
<1>10. CASE Rewrite
  <2>1. ASSUME NEW r \in Records, RewriteRecord(r) PROVE KeysUnique'
    BY <2>1, RewriteKeepsKeysUnique
  <2>2. CASE RewriteWithoutRead \/ \E r \in Records : RewriteClash(r) \/ RewriteUnknown(r)
    BY <1>1, <2>2 DEF RewriteWithoutRead, RewriteClash, RewriteUnknown, Refuse, store
  <2>3. QED
    BY <1>10, <2>1, <2>2 DEF Rewrite
<1>11. CASE Delete
  BY <1>11, DeleteKeepsKeysUnique
<1>12. CASE UpdateDenied
  BY <1>1, <1>12 DEF UpdateDenied, Refuse, store
<1>13. QED
  BY <1>3, <1>4, <1>5, <1>6, <1>7, <1>8, <1>9, <1>10, <1>11, <1>12 DEF Next

(* Without OPEN EXTEND no two records ever share a key that is declared    *)
(* unique, whatever WRITEs, REWRITEs, DELETEs and crashes happen.          *)
THEOREM KeysAlwaysUnique ==
  ASSUME "Extend" \notin OpenModes
  PROVE  Spec => []KeysUnique
<1>1. Init => KeysUnique
  BY DEF Init, KeysUnique, Live
<1>2. QED
  BY <1>1, KeysUniqueStep, InvariantHolds, PTL DEF Spec

----------------------------------------------------------------------------
(* A file loaded in ascending order of its keys stays in that order *)

(* The last entry of the primary index has the greatest primary key.       *)
LEMMA NewKeyIsGreatest ==
  ASSUME IInv, mode \in {"Input", "Output", "IoMode"}, Access = "Sequential",
         NEW r \in Records, ~OutOfSequence(r), NEW o \in Live(disk)
  PROVE  disk[o].pk < r.pk
<1> DEFINE e == indices[Primary]
<1>1. /\ disk \in Disks /\ e \in Seq(Entries) /\ e \in Seq(Entry) /\ Matches(Primary, e, disk)
      /\ Len(e) \in Nat /\ Primary \in Indexes
  BY InvFacts DEF Indexes
<1> HIDE DEF e
<1>2. PICK n \in DOMAIN e : e[n] = EntryAt(Primary, disk, o)
  BY <1>1, MatchingEntries
<1>3. e[n].key = disk[o].pk /\ n \in 1..Len(e)
  BY <1>1, <1>2, EntryAtFields DEF KeyOf
<1>4. e # << >> /\ Len(e) \in DOMAIN e
  BY <1>1, <1>3
<1>5. ~(e[Len(e)].key >= r.pk)
  BY <1>4 DEF OutOfSequence, e
<1>6. e[n].key <= e[Len(e)].key
  BY <1>1, <1>3, <1>4, EntriesHaveKeys DEF Matches, IsSorted
<1>7. e[n].key \in Nat /\ e[Len(e)].key \in Nat /\ r.pk \in Nat
  BY <1>1, <1>3, <1>4, EntriesHaveKeys, KeysAssumption DEF Records
<1>8. QED
  BY <1>3, <1>5, <1>6, <1>7

LEMMA WriteKeepsKeyOrder ==
  ASSUME IInv, LoadedInKeyOrder, mode # "Extend", NEW r \in Records, WriteRecord(r)
  PROVE  LoadedInKeyOrder'
<1> DEFINE n == Len(disk) + 1
<1>1. /\ mode \in {"Input", "Output", "IoMode"} /\ ~OutOfSequence(r)
      /\ disk \in Disks /\ Len(disk) < MaxSlots /\ disk' = Append(disk, r)
  BY InvFacts DEF WriteRecord, Writable
<1>2. /\ Len(disk) \in Nat /\ DOMAIN disk = 1..Len(disk) /\ Live(disk) \subseteq 1..Len(disk)
      /\ disk \in Seq(Slots) /\ r \in Slots
  BY <1>1, DiskSlots DEF Disks, Slots
<1>3. disk'[n] = r /\ \A o \in 1..Len(disk) : disk'[o] = disk[o]
  BY <1>1, <1>2
<1>4. Live(disk') = Live(disk) \cup {n}
  <2>1. disk' = Appended(disk, r) /\ Primary \in Indexes
    BY <1>1 DEF Appended, Indexes
  <2>2. QED
    BY <1>1, <2>1, LiveEntriesAppend
<1>5. ~(n < n) /\ \A o \in Live(disk) : ~(n < o)
  BY <1>2
<1> HIDE DEF n
<1>6. ASSUME Access = "Sequential", NEW o1 \in Live(disk'), NEW o2 \in Live(disk'), o1 < o2
      PROVE  disk'[o1].pk < disk'[o2].pk
  <2>1. o1 \in Live(disk)
    <3>1. o2 \in Live(disk) \/ o2 = n
      BY <1>4
    <3>2. o1 # n
      BY <1>5, <1>6, <3>1
    <3>3. QED
      BY <1>4, <3>2
  <2>2. CASE o2 \in Live(disk)
    BY <1>2, <1>3, <1>6, <2>1, <2>2 DEF LoadedInKeyOrder
  <2>3. CASE o2 = n
    BY <1>1, <1>2, <1>3, <1>6, <2>1, <2>3, NewKeyIsGreatest
  <2>4. QED
    BY <1>4, <2>2, <2>3
<1>7. QED
  BY <1>6 DEF LoadedInKeyOrder, Live

(* A step that removes records, and changes none of the primary keys left. *)
KeysStay == \A o \in Live(disk') : o \in Live(disk) /\ disk'[o].pk = disk[o].pk

LEMMA KeysStayInOrder ==
  ASSUME LoadedInKeyOrder, KeysStay
  PROVE  LoadedInKeyOrder'
<1>1. ASSUME Access = "Sequential", NEW o1 \in Live(disk'), NEW o2 \in Live(disk'), o1 < o2
      PROVE  disk'[o1].pk < disk'[o2].pk
  BY <1>1 DEF LoadedInKeyOrder, KeysStay
<1>2. QED
  BY <1>1 DEF LoadedInKeyOrder, Live

(* REWRITE looks its record up by the primary key, which it so keeps.      *)
LEMMA RewriteKeepsPrimaryKeys ==
  ASSUME IInv, NEW r \in Records, RewriteRecord(r)
  PROVE  KeysStay
<1> DEFINE o == OffsetOfRecord(r)
<1>1. mode = "IoMode" /\ Known(r) /\ disk' = Replaced(disk, o, r)
  BY DEF RewriteRecord, Replaced
<1>2. disk \in Disks /\ o \in Live(disk) /\ disk[o].pk = r.pk /\ r \in Slots
  BY <1>1, InvFacts, OffsetOfRecordFinds DEF Slots
<1> HIDE DEF o
<1>3. /\ disk'[o] = r
      /\ \A p \in Live(disk') : p # o => p \in Live(disk) /\ disk'[p] = disk[p]
  BY <1>1, <1>2, ReplacedSlot DEF Live
<1>4. QED
  BY <1>2, <1>3 DEF KeysStay

LEMMA DeleteKeepsPrimaryKeys ==
  ASSUME IInv, Delete
  PROVE  KeysStay
<1>1. ASSUME mode = "IoMode", NEW o \in Live(disk), DeleteAt(o) PROVE KeysStay
  <2>1. disk \in Disks /\ o \in DOMAIN disk /\ Erased \in Slots
    BY InvFacts DEF Live, Slots
  <2>2. disk' = Replaced(disk, o, Erased)
    BY <1>1 DEF DeleteAt, Replaced
  <2>3. /\ disk'[o] = Erased
        /\ \A p \in Live(disk') : p # o => p \in Live(disk) /\ disk'[p] = disk[p]
    BY <2>1, <2>2, ReplacedSlot
  <2>4. o \notin Live(disk')
    BY <2>3 DEF Live
  <2>5. QED
    BY <2>3, <2>4 DEF KeysStay
<1>2. ASSUME disk' = disk PROVE KeysStay
  BY <1>2 DEF KeysStay, Live
<1>3. ASSUME NEW r \in Records, DeleteRecord(r) PROVE KeysStay
  BY <1>1, <1>3, OffsetOfRecordFinds DEF DeleteRecord
<1>4. ASSUME NEW r \in Records, DeleteUnknown(r) PROVE KeysStay
  BY <1>2, <1>4 DEF DeleteUnknown, store
<1>5. CASE DeleteCurrent
  <2>1. CASE currentOffset = None
    BY <1>2, <1>5, <2>1 DEF DeleteCurrent, Refuse, store
  <2>2. CASE currentOffset # None
    BY <1>1, <1>5, <2>2 DEF DeleteCurrent, IInv, CursorConsistent
  <2>3. QED
    BY <2>1, <2>2
<1>6. QED
  BY <1>3, <1>4, <1>5 DEF Delete

LEMMA KeyOrderStep ==
  ASSUME "Extend" \notin OpenModes
  PROVE  IInv /\ LoadedInKeyOrder /\ [Next]_vars => LoadedInKeyOrder'
<1> SUFFICES ASSUME IInv, LoadedInKeyOrder, [Next]_vars PROVE LoadedInKeyOrder'
  OBVIOUS
<1>1. ASSUME disk' = disk PROVE LoadedInKeyOrder'
  BY <1>1, KeysStayInOrder DEF KeysStay, Live
<1>2. mode # "Extend"
  BY DEF IInv, TypeOK
<1>3. CASE UNCHANGED vars
  BY <1>1, <1>3 DEF vars, store
<1>4. CASE Open
  <2>1. ASSUME NEW m \in OpenModes, OpenFile(m) PROVE LoadedInKeyOrder'
    <3>1. CASE disk' = << >>
      BY <3>1, KeysStayInOrder DEF KeysStay, Live
    <3>2. QED
      BY <1>1, <2>1, <3>1 DEF OpenFile
  <2>2. CASE OpenTwice \/ \E m \in OpenModes : OpenMissing(m)
    BY <1>1, <2>2 DEF OpenTwice, OpenMissing, Refuse, store
  <2>3. QED
    BY <1>4, <2>1, <2>2 DEF Open
<1>5. CASE Close \/ CloseUnopened
  BY <1>1, <1>5 DEF Close, CloseUnopened, Refuse, store
<1>6. CASE Crash
  <2>1. disk' = SubSeq(disk, 1, Len(disk) - buffered)
    BY <1>6 DEF Crash
  <2>2. disk \in Seq(Slots) /\ Len(disk) \in Nat /\ buffered \in 0..Len(disk)
    BY InvFacts DEF Disks, IInv, TypeOK
  <2>3. Len(disk) - buffered \in 0..Len(disk)
    BY <2>2
  <2>4. /\ DOMAIN disk' \subseteq DOMAIN disk
        /\ \A o \in DOMAIN disk' : disk'[o] = disk[o]
    BY <2>1, <2>2, <2>3
  <2>5. QED
    BY <2>4, KeysStayInOrder DEF KeysStay, Live
<1>7. CASE Read
  BY <1>1, <1>7 DEF Read, ReadNextRecord, ReadNextAtEnd, ReadKeyFound, ReadKeyNotFound,
                    ReadDenied, Refuse, store
<1>8. CASE Start
  BY <1>1, <1>8 DEF Start, StartFound, StartNotFound, StartUnopened, Refuse, store
<1>9. CASE Write
  <2>1. ASSUME NEW r \in Records, WriteRecord(r) PROVE LoadedInKeyOrder'
    BY <1>2, <2>1, WriteKeepsKeyOrder
  <2>2. CASE WriteDenied \/ \E r \in Records : WriteOutOfSequence(r) \/ WriteDuplicate(r)
    BY <1>1, <2>2 DEF WriteDenied, WriteOutOfSequence, WriteDuplicate, Refuse, store
  <2>3. QED
    BY <1>9, <2>1, <2>2 DEF Write
<1>10. CASE Rewrite
  <2>1. ASSUME NEW r \in Records, RewriteRecord(r) PROVE LoadedInKeyOrder'
    BY <2>1, RewriteKeepsPrimaryKeys, KeysStayInOrder
  <2>2. CASE RewriteWithoutRead \/ \E r \in Records : RewriteClash(r) \/ RewriteUnknown(r)
    BY <1>1, <2>2 DEF RewriteWithoutRead, RewriteClash, RewriteUnknown, Refuse, store
  <2>3. QED
    BY <1>10, <2>1, <2>2 DEF Rewrite
<1>11. CASE Delete
  BY <1>11, DeleteKeepsPrimaryKeys, KeysStayInOrder
<1>12. CASE UpdateDenied
  BY <1>1, <1>12 DEF UpdateDenied, Refuse, store
<1>13. QED
  BY <1>3, <1>4, <1>5, <1>6, <1>7, <1>8, <1>9, <1>10, <1>11, <1>12 DEF Next

(* With ACCESS SEQUENTIAL the records of a file always ascend in their     *)
(* primary keys, over the sessions of a program that does not OPEN EXTEND, *)
(* its REWRITEs, DELETEs and crashes (status 21, write_indexed_record).    *)
THEOREM AlwaysLoadedInKeyOrder ==
  ASSUME "Extend" \notin OpenModes
  PROVE  Spec => []LoadedInKeyOrder
<1>1. Init => LoadedInKeyOrder
  BY DEF Init, LoadedInKeyOrder, Live
<1>2. QED
  BY <1>1, KeyOrderStep, InvariantHolds, PTL DEF Spec

----------------------------------------------------------------------------
(* What a call may answer *)

Promised == reply'.op = "crash" \/ reply'.status \in Answers(Statement(reply'.op), mode)

(* A call other than READ is answered as its name says.                    *)
LEMMA AnswerPromised ==
  ASSUME NEW op \in Operations \ {"readNext", "readKey"}, NEW status,
         status \in Answers(op, mode), Answer(op, status) \/ Refuse(op, status)
  PROVE  Promised
<1>1. reply' = [op |-> op, status |-> status, rec |-> Erased]
  BY DEF Answer, Refuse
<1>2. reply'.op = op /\ reply'.status = status
  BY <1>1
<1>3. QED
  BY <1>2 DEF Promised, Statement

LEMMA ReadPromised ==
  ASSUME NEW op \in {"readNext", "readKey"}, NEW status, NEW r, status \in ReadAnswers(mode),
         Answer(op, status) \/ Refuse(op, status) \/ Deliver(op, status, r)
  PROVE  Promised
<1>1. reply'.op = op /\ reply'.status = status
  BY DEF Answer, Refuse, Deliver
<1>2. QED
  BY <1>1 DEF Promised, Statement, Answers

LEMMA PromisedStep == IInv /\ [Next]_vars => Promised \/ UNCHANGED vars
<1> SUFFICES ASSUME IInv, Next PROVE Promised
  OBVIOUS
<1>1. mode \in {"Input", "Output", "IoMode", "Extend", "Closed"}
  BY ModesAssumption DEF IInv, TypeOK
<1>2. CASE Open
  <2>1. ASSUME NEW m \in OpenModes, OpenFile(m) PROVE Promised
    <3>1. PICK status \in {FsOk, FsOptionalCreated} : Answer("open", status)
      BY <2>1 DEF OpenFile
    <3>2. status \in Answers("open", mode)
      BY <2>1 DEF OpenFile, Answers, OpenAnswers
    <3>3. QED
      BY <3>1, <3>2, AnswerPromised DEF Operations
  <2>2. ASSUME NEW m \in OpenModes, OpenMissing(m) PROVE Promised
    BY <2>2, AnswerPromised DEF OpenMissing, Answers, OpenAnswers, Operations
  <2>3. CASE OpenTwice
    BY <2>3, AnswerPromised DEF OpenTwice, Answers, OpenAnswers, Operations
  <2>4. QED
    BY <1>2, <2>1, <2>2, <2>3 DEF Open
<1>3. CASE Close
  BY <1>3, AnswerPromised DEF Close, Answers, CloseAnswers, Operations
<1>4. CASE CloseUnopened
  BY <1>4, AnswerPromised DEF CloseUnopened, Answers, CloseAnswers, Operations
<1>5. CASE Crash
  BY <1>5 DEF Crash, Answer, Promised
<1>6. CASE Read
  <2>1. CASE ReadNextRecord
    <3> DEFINE n == currentRecord + 1
               status == SuccessStatus(currentIndex, n)
               r == disk[indices[currentIndex][n].offset]
    <3>1. Deliver("readNext", status, r) /\ Readable
      BY <2>1 DEF ReadNextRecord
    <3>2. status \in ReadAnswers(mode)
      BY <3>1 DEF SuccessStatus, ReadAnswers, Readable
    <3> HIDE DEF status, r
    <3>3. QED
      BY <3>1, <3>2, ReadPromised
  <2>2. CASE ReadNextAtEnd
    <3>1. PICK status \in {FsNoValidNextRecord, FsAtEnd} : Answer("readNext", status)
      BY <2>2 DEF ReadNextAtEnd
    <3>2. status \in ReadAnswers(mode)
      BY <2>2 DEF ReadNextAtEnd, ReadAnswers, Readable
    <3>3. QED
      BY <3>1, <3>2, ReadPromised
  <2>3. CASE ReadDenied
    BY <2>3, ReadPromised DEF ReadDenied, ReadAnswers, Readable
  <2>4. ASSUME NEW i \in Indexes, NEW p \in Probes, ReadKeyFound(i, p) PROVE Promised
    <3> DEFINE n == Lower(i, p) + 1
               status == SuccessStatus(i, n)
               r == disk[indices[i][n].offset]
    <3>1. Deliver("readKey", status, r) /\ Readable
      BY <2>4 DEF ReadKeyFound
    <3>2. status \in ReadAnswers(mode)
      BY <3>1 DEF SuccessStatus, ReadAnswers, Readable
    <3> HIDE DEF status, r
    <3>3. QED
      BY <3>1, <3>2, ReadPromised
  <2>5. ASSUME NEW i \in Indexes, NEW p \in Probes, ReadKeyNotFound(i, p) PROVE Promised
    BY <2>5, ReadPromised DEF ReadKeyNotFound, ReadAnswers, Readable
  <2>6. QED
    BY <1>6, <2>1, <2>2, <2>3, <2>4, <2>5 DEF Read
<1>7. CASE Start
  <2>1. CASE StartUnopened
    BY <2>1, AnswerPromised DEF StartUnopened, Answers, StartAnswers, Operations
  <2>2. ASSUME NEW i \in Indexes, NEW p \in Probes, NEW rel \in Relations,
               StartFound(i, p, rel) \/ StartNotFound(i, p, rel)
        PROVE  Promised
    BY <2>2, AnswerPromised DEF StartFound, StartNotFound, Answers, StartAnswers, Operations
  <2>3. QED
    BY <1>7, <2>1, <2>2 DEF Start
<1>8. CASE Write
  BY <1>1, <1>8, AnswerPromised
     DEF Write, WriteDenied, WriteRecord, WriteOutOfSequence, WriteDuplicate, Writable, Answers,
         WriteAnswers, Operations
<1>9. CASE Rewrite
  BY <1>9, AnswerPromised
     DEF Rewrite, RewriteWithoutRead, RewriteRecord, RewriteClash, RewriteUnknown, Answers,
         RewriteAnswers, Operations
<1>10. CASE Delete
  BY <1>10, AnswerPromised
     DEF Delete, DeleteCurrent, DeleteRecord, DeleteUnknown, DeleteAt, Answers, DeleteAnswers,
         Operations
<1>11. CASE UpdateDenied
  BY <1>11, AnswerPromised
     DEF UpdateDenied, Answers, RewriteAnswers, DeleteAnswers, Operations
<1>12. QED
  BY <1>2, <1>3, <1>4, <1>5, <1>6, <1>7, <1>8, <1>9, <1>10, <1>11 DEF Next

(* Every call of an indexed file is answered as the generated code is      *)
(* promised (FileAnswers), whatever came before it.                        *)
THEOREM AnswersAlwaysAsPromised == Spec => AnswersAsPromised
<1>1. IInv /\ [Next]_vars
        => [reply'.op = "crash" \/ reply'.status \in Answers(Statement(reply'.op), mode)]_vars
  BY PromisedStep DEF Promised
<1>2. QED
  BY <1>1, InvariantHolds, PTL DEF Spec, AnswersAsPromised

----------------------------------------------------------------------------
(* What an update does to a scan *)

(* No function gives N things M < N places of their own. *)
LEMMA TooFewPlaces ==
  ASSUME NEW N \in Nat, NEW M \in Nat, M < N, NEW f \in [1..N -> 1..M]
  PROVE  \E x, y \in 1..N : x # y /\ f[x] = f[y]
<1>1. /\ IsFiniteSet(1..N) /\ IsFiniteSet(1..M)
      /\ Cardinality(1..N) = N /\ Cardinality(1..M) = M
  BY FS_Interval
<1>2. QED
  BY <1>1, FS_PigeonHole

(* Two sorted listings of the same entries have the same keys in the same  *)
(* places, however each orders the entries with equal keys.                *)
LEMMA KeyNotEarlier ==
  ASSUME NEW a \in Seq(Entry), NEW b \in Seq(Entry), IsSorted(a), IsSorted(b),
         NEW E, Enumerates(a, E), Enumerates(b, E), NEW n \in DOMAIN a, n \in DOMAIN b
  PROVE  ~(a[n].key < b[n].key)
<1> DEFINE place == [m \in 1..n |-> CHOOSE k \in DOMAIN b : b[k] = a[m]]
<1>1. /\ DOMAIN a = 1..Len(a) /\ Len(a) \in Nat /\ DOMAIN b = 1..Len(b) /\ Len(b) \in Nat
      /\ (\A j \in DOMAIN a : a[j].key \in Nat) /\ (\A j \in DOMAIN b : b[j].key \in Nat)
  BY EntriesHaveKeys
<1>2. n \in Nat /\ n > 0 /\ 1..n \subseteq DOMAIN a
  BY <1>1
<1>3. SUFFICES ASSUME a[n].key < b[n].key PROVE FALSE
  OBVIOUS
<1>4. ASSUME NEW m \in 1..n PROVE place[m] \in 1..(n - 1) /\ b[place[m]] = a[m]
  <2>1. PICK k \in DOMAIN b : b[k] = a[m]
    BY <1>2 DEF Enumerates
  <2>2. place[m] \in DOMAIN b /\ b[place[m]] = a[m]
    BY <2>1
  <2> HIDE DEF place
  <2>3. a[m].key <= a[n].key
    <3>1. m \in DOMAIN a /\ (m = n \/ m < n)
      BY <1>2
    <3>2. m < n => a[m].key <= a[n].key
      BY <3>1 DEF IsSorted
    <3>3. QED
      BY <1>1, <3>1, <3>2
  <2>4. ~(n <= place[m])
    <3>1. SUFFICES ASSUME n <= place[m] PROVE FALSE
      OBVIOUS
    <3>2. b[n].key <= b[place[m]].key
      <4>1. n < place[m] => b[n].key <= b[place[m]].key
        BY <2>2 DEF IsSorted
      <4>2. n = place[m] \/ n < place[m]
        BY <1>1, <1>2, <2>2, <3>1
      <4>3. QED
        BY <1>1, <2>2, <4>1, <4>2
    <3>3. b[n].key <= a[m].key
      BY <2>2, <3>2
    <3>4. a[n].key \in Nat /\ b[n].key \in Nat /\ a[m].key \in Nat
      BY <1>1, <1>2
    <3>5. QED
      BY <1>3, <2>3, <3>3, <3>4
  <2>5. QED
    BY <1>1, <1>2, <2>2, <2>4
<1>5. DOMAIN place = 1..n
  OBVIOUS
<1>6. place \in [1..n -> 1..(n - 1)]
  BY <1>4
<1> HIDE DEF place
<1>7. n - 1 \in Nat /\ n - 1 < n
  BY <1>2
<1>8. PICK x, y \in 1..n : x # y /\ place[x] = place[y]
  BY <1>2, <1>6, <1>7, TooFewPlaces
<1>9. a[x] = a[y]
  BY <1>4, <1>8
<1>10. QED
  BY <1>2, <1>8, <1>9 DEF Enumerates

LEMMA SameKeys ==
  ASSUME NEW a \in Seq(Entry), NEW b \in Seq(Entry), IsSorted(a), IsSorted(b),
         NEW E, Enumerates(a, E), Enumerates(b, E), NEW n \in DOMAIN a, n \in DOMAIN b
  PROVE  a[n].key = b[n].key
<1>1. ~(a[n].key < b[n].key) /\ ~(b[n].key < a[n].key)
  BY KeyNotEarlier
<1>2. a[n].key \in Nat /\ b[n].key \in Nat
  BY EntriesHaveKeys
<1>3. QED
  BY <1>1, <1>2

(* Two listings of the same entries are of one length.                     *)
LEMMA NotMore ==
  ASSUME NEW a \in Seq(Entry), NEW b \in Seq(Entry), NEW E, Enumerates(a, E), Enumerates(b, E)
  PROVE  Len(b) <= Len(a)
<1> DEFINE place == [n \in 1..Len(b) |-> CHOOSE m \in DOMAIN a : a[m] = b[n]]
<1>1. /\ DOMAIN a = 1..Len(a) /\ Len(a) \in Nat /\ DOMAIN b = 1..Len(b) /\ Len(b) \in Nat
  OBVIOUS
<1>2. SUFFICES ASSUME Len(a) < Len(b) PROVE FALSE
  BY <1>1
<1>3. ASSUME NEW n \in 1..Len(b) PROVE place[n] \in 1..Len(a) /\ a[place[n]] = b[n]
  <2>1. PICK m \in DOMAIN a : a[m] = b[n]
    BY <1>1 DEF Enumerates
  <2>2. QED
    BY <1>1, <2>1
<1>4. place \in [1..Len(b) -> 1..Len(a)]
  BY <1>3
<1> HIDE DEF place
<1>5. PICK x, y \in 1..Len(b) : x # y /\ place[x] = place[y]
  BY <1>1, <1>2, <1>4, TooFewPlaces
<1>6. b[x] = b[y]
  BY <1>3, <1>5
<1>7. QED
  BY <1>1, <1>5, <1>6 DEF Enumerates

LEMMA SameLength ==
  ASSUME NEW a \in Seq(Entry), NEW b \in Seq(Entry), NEW E, Enumerates(a, E), Enumerates(b, E)
  PROVE  Len(b) = Len(a)
<1>1. Len(b) <= Len(a) /\ Len(a) <= Len(b) /\ Len(a) \in Nat /\ Len(b) \in Nat
  BY NotMore
<1>2. QED
  BY <1>1

(* Matching indexes over the same slots are of one length.                 *)
LEMMA NotLonger ==
  ASSUME NEW i \in Indexes, NEW c \in Disks, NEW d \in Disks, Live(d) \subseteq Live(c),
         NEW e \in Seq(Entries), NEW f \in Seq(Entries), Matches(i, e, c), Matches(i, f, d)
  PROVE  Len(f) <= Len(e)
<1> DEFINE place == [n \in 1..Len(f) |-> CHOOSE m \in DOMAIN e : e[m].offset = f[n].offset]
<1>1. /\ DOMAIN e = 1..Len(e) /\ Len(e) \in Nat /\ DOMAIN f = 1..Len(f) /\ Len(f) \in Nat
  OBVIOUS
<1>2. SUFFICES ASSUME Len(e) < Len(f) PROVE FALSE
  BY <1>1
<1>3. ASSUME NEW n \in 1..Len(f)
      PROVE  place[n] \in 1..Len(e) /\ e[place[n]].offset = f[n].offset
  <2>1. f[n].offset \in Live(c)
    BY <1>1, MatchingEntries
  <2>2. PICK m \in DOMAIN e : e[m] = EntryAt(i, c, f[n].offset)
    BY <2>1, MatchingEntries
  <2>3. e[m].offset = f[n].offset
    BY <2>2, EntryAtFields
  <2>4. QED
    BY <1>1, <2>3
<1>4. place \in [1..Len(f) -> 1..Len(e)]
  BY <1>3
<1> HIDE DEF place
<1>5. PICK x, y \in 1..Len(f) : x # y /\ place[x] = place[y]
  BY <1>1, <1>2, <1>4, TooFewPlaces
<1>6. f[x].offset = f[y].offset
  BY <1>3, <1>5
<1>7. f[x] = EntryAt(i, d, f[x].offset) /\ f[y] = EntryAt(i, d, f[y].offset)
  BY <1>1, MatchingEntries
<1>8. f[x] = f[y]
  BY <1>6, <1>7
<1>9. QED
  BY <1>1, <1>5, <1>8 DEF Matches, Enumerates

(* What the invariant says of the index a scan follows, before a step in   *)
(* I-O mode and after it.                                                  *)
LEMMA ActiveIndex ==
  ASSUME IInv, IInv', mode = "IoMode", mode' = mode, currentIndex' = currentIndex
  PROVE  /\ currentIndex \in Indexes /\ disk \in Disks /\ disk' \in Disks
         /\ indices[currentIndex] \in Seq(Entries) /\ indices'[currentIndex] \in Seq(Entries)
         /\ indices[currentIndex] \in Seq(Entry) /\ indices'[currentIndex] \in Seq(Entry)
         /\ Matches(currentIndex, indices[currentIndex], disk)
         /\ Matches(currentIndex, indices'[currentIndex], disk')
         /\ currentRecord \in 0..Len(indices[currentIndex])
<1>1. /\ currentIndex \in Indexes /\ disk \in Disks /\ indices[currentIndex] \in Seq(Entries)
      /\ indices[currentIndex] \in Seq(Entry)
      /\ Matches(currentIndex, indices[currentIndex], disk)
  BY InvFacts
<1>2. TypeOK' /\ IndexesSorted' /\ IndexesMatchDisk'
  BY DEF IInv
<1>3. disk' \in Disks /\ indices'[currentIndex] \in Seq(Entries)
  BY <1>1, <1>2 DEF TypeOK, Disks, Slots
<1>4. Matches(currentIndex, indices'[currentIndex], disk')
  BY <1>1, <1>2 DEF IndexesMatchDisk, Matches, LiveEntries, Live, EntryAt
<1>5. currentRecord \in 0..Len(indices[currentIndex])
  BY DEF IInv, TypeOK
<1>6. QED
  BY <1>1, <1>3, <1>4, <1>5, SeqOfEntries

(* The next record of a scan is a record of the file.                      *)
LEMMA NextOffsetLive ==
  ASSUME IInv, mode = "IoMode", NextOffset # None
  PROVE  NextOffset \in Live(disk)
<1>1. /\ currentIndex \in Indexes /\ indices[currentIndex] \in Seq(Entries) /\ disk \in Disks
      /\ Matches(currentIndex, indices[currentIndex], disk)
      /\ Len(indices[currentIndex]) \in Nat /\ currentRecord \in Nat
  BY InvFacts DEF IInv, TypeOK
<1>2. currentRecord < Len(indices[currentIndex])
  BY DEF NextOffset
<1>3. currentRecord + 1 \in DOMAIN indices[currentIndex]
  BY <1>1, <1>2
<1>4. NextOffset = indices[currentIndex][currentRecord + 1].offset
  BY <1>2 DEF NextOffset
<1>5. QED
  BY <1>1, <1>3, <1>4, MatchingEntries

LEMMA RewriteKeepsPlace ==
  ASSUME IInv, IInv', NEW r \in Records, RewriteRecord(r)
  PROVE  NextOffset' = NextOffset
<1> DEFINE next == NextOffset
           e == indices'[currentIndex]
           j == CHOOSE m \in PositionsOf(e, next) : TRUE
           o == OffsetOfRecord(r)
<1>1. /\ mode = "IoMode" /\ mode' = mode /\ currentIndex' = currentIndex /\ Known(r)
      /\ disk' = Replaced(disk, o, r)
      /\ currentRecord' = RepositionedRecord(e, next)
  BY DEF RewriteRecord, Replaced
<1>2. /\ e \in Seq(Entries) /\ Matches(currentIndex, e, disk') /\ disk' \in Disks
      /\ disk \in Disks /\ currentIndex \in Indexes
      /\ indices[currentIndex] \in Seq(Entries)
      /\ Matches(currentIndex, indices[currentIndex], disk)
      /\ currentRecord \in 0..Len(indices[currentIndex])
  BY <1>1, ActiveIndex
<1>3. Live(disk') = Live(disk)
  <2>1. o \in Live(disk) /\ o \in DOMAIN disk /\ r \in Slots
    BY <1>1, OffsetOfRecordFinds DEF Live, Slots
  <2> HIDE DEF o
  <2>2. /\ o \in Live(disk')
        /\ \A p \in Live(disk) : p # o => p \in Live(disk')
        /\ \A p \in Live(disk') : p # o => p \in Live(disk)
    BY <1>1, <1>2, <2>1, ReplacedSlot
  <2>3. QED
    BY <2>1, <2>2
<1>4. NextOffset' = IF currentRecord' < Len(e) THEN e[currentRecord' + 1].offset ELSE None
  BY <1>1 DEF NextOffset
<1> HIDE DEF next, e
<1>5. CASE next # None
  <2>1. next \in Live(disk')
    BY <1>1, <1>3, <1>5, NextOffsetLive DEF next
  <2>2. PICK n \in DOMAIN e : e[n] = EntryAt(currentIndex, disk', next)
    BY <1>2, <2>1, MatchingEntries
  <2>3. n \in PositionsOf(e, next)
    BY <2>2, EntryAtFields DEF PositionsOf
  <2>4. j \in PositionsOf(e, next)
    BY <2>3
  <2>5. currentRecord' = j - 1
    BY <1>1, <2>3 DEF RepositionedRecord
  <2>6. j \in 1..Len(e) /\ Len(e) \in Nat /\ e[j].offset = next
    BY <1>2, <2>4 DEF PositionsOf
  <2> HIDE DEF j
  <2>7. currentRecord' < Len(e) /\ currentRecord' + 1 = j
    BY <2>5, <2>6
  <2>8. QED
    BY <1>4, <2>6, <2>7 DEF next
<1>6. CASE next = None
  <2>1. PositionsOf(e, next) = {}
    <3>1. \A n \in DOMAIN e : e[n].offset \in 1..Len(disk') /\ Len(disk') \in Nat
      BY <1>2, MatchingEntries, DiskSlots
    <3>2. QED
      BY <1>6, <3>1 DEF PositionsOf, None
  <2>2. ~(currentRecord < Len(indices[currentIndex]))
    <3>1. SUFFICES ASSUME currentRecord < Len(indices[currentIndex]) PROVE FALSE
      OBVIOUS
    <3>2. currentRecord + 1 \in DOMAIN indices[currentIndex]
      BY <1>2, <3>1
    <3>3. /\ indices[currentIndex][currentRecord + 1].offset \in 1..Len(disk)
          /\ Len(disk) \in Nat
      BY <1>2, <3>2, MatchingEntries, DiskSlots
    <3>4. QED
      BY <1>6, <3>1, <3>3 DEF next, NextOffset, None
  <2>3. Len(e) <= Len(indices[currentIndex]) /\ Len(e) \in Nat
    BY <1>2, <1>3, NotLonger
  <2>4. currentRecord' = Len(e)
    BY <1>1, <1>2, <2>1, <2>2, <2>3 DEF RepositionedRecord, CapTo
  <2>5. QED
    BY <1>4, <1>6, <2>3, <2>4 DEF next
<1>7. QED
  BY <1>5, <1>6

(* After a DELETE the key at the cursor is the one behind the deleted      *)
(* entry, also when the rebuilt index orders equal keys anew.              *)
LEMMA DeleteResumesBehind ==
  ASSUME IInv, IInv', mode = "IoMode", NEW o \in Live(disk), DeleteAt(o),
         NEW n \in DOMAIN indices[currentIndex],
         disk'[indices[currentIndex][n].offset] = Erased
  PROVE  KeyAt(indices'[currentIndex'], currentRecord' + 1) = KeyAt(indices[currentIndex], n + 1)
<1> DEFINE i == currentIndex
           e == indices[i]
           f == indices'[i]
           E == LiveEntries(i, disk)
           F == LiveEntries(i, disk')
           rest == RemovePosition(e, n)
<1>1. /\ disk' = [disk EXCEPT ![o] = Erased] /\ mode' = mode /\ currentIndex' = i
      /\ currentRecord' = CursorAfterDelete(o, f)
  BY DEF DeleteAt
<1>2. /\ i \in Indexes /\ e \in Seq(Entries) /\ e \in Seq(Entry) /\ disk \in Disks
      /\ Matches(i, e, disk)
      /\ f \in Seq(Entries) /\ f \in Seq(Entry) /\ Matches(i, f, disk') /\ disk' \in Disks
  BY <1>1, ActiveIndex
<1>3. /\ n \in DOMAIN e /\ DOMAIN e = 1..Len(e) /\ Len(e) \in Nat
      /\ DOMAIN f = 1..Len(f) /\ Len(f) \in Nat
  BY <1>2, EntriesHaveKeys
<1>4. e[n].offset = o /\ e[n] = EntryAt(i, disk, o)
  <2>1. e[n].offset \in Live(disk) /\ e[n] = EntryAt(i, disk, e[n].offset)
    BY <1>2, <1>3, MatchingEntries
  <2>2. e[n].offset = o
    <3>1. SUFFICES ASSUME e[n].offset # o PROVE FALSE
      OBVIOUS
    <3>2. disk'[e[n].offset] = disk[e[n].offset] /\ disk[e[n].offset] # Erased
      BY <1>1, <2>1, <3>1 DEF Live
    <3>3. QED
      BY <3>2
  <2>3. QED
    BY <2>1, <2>2
<1>5. \A m \in DOMAIN e : e[m].offset = o => m = n
  <2>1. \A m \in DOMAIN e : e[m] = EntryAt(i, disk, e[m].offset)
    BY <1>2, MatchingEntries
  <2>2. \A m \in DOMAIN e : e[m].offset = o => e[m] = e[n]
    BY <1>4, <2>1
  <2>3. QED
    BY <1>2, <1>3, <2>2 DEF Matches, Enumerates
<1>6. F = E \ {e[n]}
  <2>1. Live(disk') = Live(disk) \ {o}
    BY <1>1 DEF Live
  <2>2. \A p \in Live(disk') : EntryAt(i, disk', p) = EntryAt(i, disk, p)
    BY <1>1, <2>1 DEF EntryAt, Live
  <2>3. \A p \in Live(disk) : EntryAt(i, disk, p) = EntryAt(i, disk, o) => p = o
    BY EntryAtFields
  <2>4. QED
    BY <1>4, <2>1, <2>2, <2>3 DEF LiveEntries
<1> HIDE DEF i, e, f
<1>7. /\ rest \in Seq(Entry) /\ Len(rest) = Len(e) - 1 /\ IsSorted(rest)
      /\ Enumerates(rest, F)
  <2>1. IsSorted(e) /\ Enumerates(e, E)
    BY <1>2 DEF Matches
  <2> HIDE DEF E, F
  <2>2. Enumerates(RemovePosition(e, n), E \ {e[n]})
    BY <1>2, <1>3, <2>1, RemovePositionKeepsOrder
  <2>3. QED
    BY <1>2, <1>3, <1>6, <2>1, <2>2, RemovePositionKeepsOrder
<1>8. IsSorted(f) /\ Enumerates(f, F)
  BY <1>2 DEF Matches
<1>9. \A m \in 1..(Len(e) - 1) : m >= n => rest[m] = e[m + 1]
  BY <1>3 DEF RemovePosition
<1>10. DOMAIN rest = 1..(Len(e) - 1)
  BY <1>7, EntriesHaveKeys
<1> HIDE DEF rest, E, F
<1>11. Len(f) = Len(e) - 1
  BY <1>2, <1>7, <1>8, SameLength
<1>12. currentRecord' = n - 1
  <2>1. n \in PositionsOf(e, o) /\ \A m \in PositionsOf(e, o) : m = n
    BY <1>3, <1>4, <1>5 DEF PositionsOf
  <2>2. (CHOOSE m \in PositionsOf(e, o) : TRUE) = n /\ PositionsOf(e, o) # {}
    BY <2>1
  <2>3. CursorAfterDelete(o, f) = CapTo(n - 1, Len(f))
    BY <2>2 DEF CursorAfterDelete, e, i
  <2>4. n - 1 <= Len(f)
    BY <1>3, <1>11
  <2>5. QED
    BY <1>1, <2>3, <2>4 DEF CapTo, f
<1>13. currentRecord' + 1 = n
  BY <1>3, <1>12
<1>14. KeyAt(f, n) = KeyAt(e, n + 1)
  <2>1. CASE n \in DOMAIN f
    <3>1. n \in DOMAIN rest /\ n + 1 \in DOMAIN e
      BY <1>3, <1>10, <1>11, <2>1
    <3>2. rest[n] = e[n + 1]
      BY <1>3, <1>9, <1>10, <3>1
    <3>3. f[n].key = rest[n].key
      BY <1>2, <1>7, <1>8, <2>1, <3>1, SameKeys
    <3>4. KeyAt(f, n) = {f[n].key} /\ KeyAt(e, n + 1) = {e[n + 1].key}
      BY <2>1, <3>1 DEF KeyAt
    <3>5. QED
      BY <3>2, <3>3, <3>4
  <2>2. CASE n \notin DOMAIN f
    <3>1. n + 1 \notin DOMAIN e
      BY <1>3, <1>11, <2>2
    <3>2. QED
      BY <2>2, <3>1 DEF KeyAt
  <2>3. QED
    BY <2>1, <2>2
<1>15. QED
  BY <1>1, <1>13, <1>14 DEF e, f, i

(* A record written before the cursor pushes the cursor along with the     *)
(* records behind it.                                                      *)
LEMMA WriteBeforeKeepsPlace ==
  ASSUME IInv, mode = "IoMode", NEW r \in Records, WriteRecord(r),
         NEW k \in KeyAt(indices[currentIndex], currentRecord + 1),
         KeyOf(currentIndex, disk'[Len(disk')]) < k
  PROVE  NextOffset' = NextOffset
<1> DEFINE i == currentIndex
           e == indices[i]
           c == currentRecord
           x == [key |-> KeyOf(i, r), offset |-> WriteOffset]
           m == IF NotUnique(i) THEN UpperBound(e, KeyOf(i, r)) ELSE LowerBound(e, KeyOf(i, r))
           f == InsertAfter(e, m, x)
<1>1. /\ i \in Indexes /\ e \in Seq(Entry) /\ IsSorted(e) /\ disk \in Disks
      /\ Len(e) \in Nat /\ DOMAIN e = 1..Len(e) /\ c \in Nat
      /\ \A j \in DOMAIN e : e[j].key \in Nat
  BY InvFacts, EntriesHaveKeys DEF IInv, TypeOK
<1>2. /\ disk' = Append(disk, r) /\ currentRecord' = c + 1 /\ currentIndex' = i
      /\ indices'[i] = f
  BY <1>1 DEF WriteRecord, InsertEntry
<1>3. disk'[Len(disk')] = r
  BY <1>1, <1>2 DEF Disks
<1>4. c + 1 \in DOMAIN e /\ k = e[c + 1].key
  BY DEF KeyAt
<1>5. KeyOf(i, r) \in Nat /\ KeyOf(i, r) < e[c + 1].key
  BY <1>1, <1>3, <1>4, KeyTypes
<1>6. m \in Nat /\ m <= c
  <2>1. /\ LowerBound(e, KeyOf(i, r)) \in 0..Len(e)
        /\ \A j \in DOMAIN e : e[j].key < KeyOf(i, r) <=> j <= LowerBound(e, KeyOf(i, r))
        /\ UpperBound(e, KeyOf(i, r)) \in 0..Len(e)
        /\ \A j \in DOMAIN e : e[j].key <= KeyOf(i, r) <=> j <= UpperBound(e, KeyOf(i, r))
    BY <1>1, <1>5, BoundsInIndex
  <2>2. ~(e[c + 1].key <= KeyOf(i, r)) /\ ~(e[c + 1].key < KeyOf(i, r))
    BY <1>1, <1>4, <1>5
  <2>3. ~(c + 1 <= m) /\ m \in 0..Len(e)
    BY <1>4, <2>1, <2>2
  <2> HIDE DEF m, e, c
  <2>4. QED
    BY <1>1, <2>3
<1> HIDE DEF m, x, e, c, i
<1>7. /\ DOMAIN f = 1..(Len(e) + 1) /\ Len(f) = Len(e) + 1
      /\ \A j \in 1..(Len(e) + 1) :
           f[j] = IF j <= m THEN e[j] ELSE IF j = m + 1 THEN x ELSE e[j - 1]
  BY <1>1 DEF InsertAfter
<1> HIDE DEF f
<1>8. c + 2 \in 1..(Len(e) + 1) /\ ~(c + 2 <= m) /\ c + 2 # m + 1 /\ (c + 2) - 1 = c + 1
  BY <1>1, <1>4, <1>6
<1>9. f[c + 2] = e[c + 1]
  BY <1>7, <1>8
<1>10. c < Len(e) /\ c + 1 < Len(f) /\ (c + 1) + 1 = c + 2
  BY <1>1, <1>4, <1>7
<1>11. NextOffset = e[c + 1].offset
  BY <1>10 DEF NextOffset, e, c, i
<1>12. NextOffset' = f[(c + 1) + 1].offset
  BY <1>2, <1>10 DEF NextOffset
<1>13. QED
  BY <1>9, <1>10, <1>11, <1>12

(* Which calls answer FsOk to a WRITE, a REWRITE and a DELETE.             *)
Said(op) == reply'.op = op /\ reply'.status = FsOk

LEMMA OtherReplies ==
  ASSUME Open \/ Close \/ CloseUnopened \/ Crash \/ Read \/ Start \/ UpdateDenied
  PROVE  ~Said("write") /\ ~Said("rewrite") /\ ~Said("delete")
<1>1. \A op, status, r : Deliver(op, status, r) => reply'.op = op
  BY DEF Deliver
<1>2. \A op, status : Answer(op, status) \/ Refuse(op, status) => reply'.op = op /\ reply'.status = status
  BY DEF Answer, Refuse
<1>3. CASE Open
  BY <1>2, <1>3 DEF Open, OpenFile, OpenMissing, OpenTwice, Said
<1>4. CASE Close \/ CloseUnopened \/ Crash
  BY <1>2, <1>4 DEF Close, CloseUnopened, Crash, Said
<1>5. CASE Read
  <2>1. CASE ReadNextRecord \/ \E i \in Indexes, p \in Probes : ReadKeyFound(i, p)
    BY <1>1, <2>1 DEF ReadNextRecord, ReadKeyFound, Said
  <2>2. CASE ReadNextAtEnd \/ ReadDenied \/ \E i \in Indexes, p \in Probes : ReadKeyNotFound(i, p)
    BY <1>2, <2>2 DEF ReadNextAtEnd, ReadDenied, ReadKeyNotFound, Said
  <2>3. QED
    BY <1>5, <2>1, <2>2 DEF Read
<1>6. CASE Start
  BY <1>2, <1>6 DEF Start, StartUnopened, StartFound, StartNotFound, Said
<1>7. CASE UpdateDenied
  BY <1>2, <1>7 DEF UpdateDenied, FsOk, FsIoModeRequired, Said
<1>8. QED
  BY <1>3, <1>4, <1>5, <1>6, <1>7

LEMMA UpdateReplies ==
  ASSUME IInv, Write \/ Rewrite \/ Delete
  PROVE  /\ Said("write") => \E r \in Records : WriteRecord(r)
         /\ Said("rewrite") => \E r \in Records : RewriteRecord(r)
         /\ Said("delete") => mode = "IoMode" /\ \E o \in Live(disk) : DeleteAt(o)
<1>1. \A op, status : Answer(op, status) \/ Refuse(op, status) => reply'.op = op /\ reply'.status = status
  BY DEF Answer, Refuse
<1>2. CASE Write
  <2>1. ASSUME NEW r \in Records, WriteRecord(r) PROVE ~Said("rewrite") /\ ~Said("delete")
    BY <1>1, <2>1 DEF WriteRecord, Said
  <2>2. CASE WriteDenied \/ \E r \in Records : WriteOutOfSequence(r) \/ WriteDuplicate(r)
    <3>1. reply'.op = "write" /\ reply'.status # FsOk
      BY <1>1, <2>2 DEF WriteDenied, WriteOutOfSequence, WriteDuplicate, FsOk, FsSequenceError,
                        FsDuplicateKey, FsWriteNotPermitted
    <3>2. QED
      BY <3>1 DEF Said
  <2>3. QED
    BY <1>2, <2>1, <2>2 DEF Write
<1>3. CASE Rewrite
  <2>1. ASSUME NEW r \in Records, RewriteRecord(r) PROVE ~Said("write") /\ ~Said("delete")
    BY <1>1, <2>1 DEF RewriteRecord, Said
  <2>2. CASE RewriteWithoutRead \/ \E r \in Records : RewriteClash(r) \/ RewriteUnknown(r)
    <3>1. reply'.op = "rewrite" /\ reply'.status # FsOk
      BY <1>1, <2>2 DEF RewriteWithoutRead, RewriteClash, RewriteUnknown, FsOk, FsDuplicateKey,
                        FsRecNotFound, FsRewriteWithoutRead
    <3>2. QED
      BY <3>1 DEF Said
  <2>3. QED
    BY <1>3, <2>1, <2>2 DEF Rewrite
<1>4. CASE Delete
  <2>1. \A o : DeleteAt(o) => reply'.op = "delete"
    BY <1>1 DEF DeleteAt
  <2>2. ASSUME NEW r \in Records, DeleteRecord(r)
        PROVE  mode = "IoMode" /\ \E o \in Live(disk) : DeleteAt(o)
    BY <2>2, OffsetOfRecordFinds DEF DeleteRecord
  <2>3. CASE \E r \in Records : DeleteUnknown(r)
    <3>1. reply'.op = "delete" /\ reply'.status # FsOk
      BY <1>1, <2>3 DEF DeleteUnknown, FsOk, FsRecNotFound
    <3>2. QED
      BY <3>1 DEF Said
  <2>4. CASE DeleteCurrent /\ currentOffset = None
    <3>1. reply'.op = "delete" /\ reply'.status # FsOk
      BY <1>1, <2>4 DEF DeleteCurrent, FsOk, FsRecNotFound
    <3>2. QED
      BY <3>1 DEF Said
  <2>5. ASSUME DeleteCurrent, currentOffset # None
        PROVE  mode = "IoMode" /\ \E o \in Live(disk) : DeleteAt(o)
    BY <2>5 DEF DeleteCurrent, IInv, CursorConsistent
  <2>6. QED
    BY <1>4, <2>1, <2>2, <2>3, <2>4, <2>5 DEF Delete, Said
<1>5. QED
  BY <1>2, <1>3, <1>4

LEMMA ScanStep ==
  ASSUME IInv, IInv', Next
  PROVE  ScanKeepsPlaceStep
<1> DEFINE e == indices[currentIndex]
<1>1. ASSUME Said("write") PROVE \E r \in Records : WriteRecord(r)
  BY <1>1, OtherReplies, UpdateReplies DEF Next
<1>2. ASSUME Said("rewrite") PROVE \E r \in Records : RewriteRecord(r)
  BY <1>2, OtherReplies, UpdateReplies DEF Next
<1>3. ASSUME Said("delete") PROVE mode = "IoMode" /\ \E o \in Live(disk) : DeleteAt(o)
  BY <1>3, OtherReplies, UpdateReplies DEF Next
<1>4. ASSUME Said("rewrite") PROVE NextOffset' = NextOffset
  BY <1>2, <1>4, RewriteKeepsPlace
<1>5. ASSUME Said("delete"), NEW n \in DOMAIN e, disk'[e[n].offset] = Erased
      PROVE  KeyAt(indices'[currentIndex'], currentRecord' + 1) = KeyAt(e, n + 1)
  <2>1. PICK o \in Live(disk) : DeleteAt(o)
    BY <1>3, <1>5
  <2>2. mode = "IoMode"
    BY <1>3, <1>5
  <2>3. QED
    BY <1>5, <2>1, <2>2, DeleteResumesBehind
<1>6. ASSUME mode = "IoMode", Said("write"), NEW k \in KeyAt(e, currentRecord + 1),
             KeyOf(currentIndex, disk'[Len(disk')]) < k
      PROVE  NextOffset' = NextOffset
  BY <1>1, <1>6, WriteBeforeKeepsPlace
<1> HIDE DEF e
<1>7. QED
  BY <1>4, <1>5, <1>6 DEF ScanKeepsPlaceStep, Said, e

(* REWRITE never moves a scan, DELETE resumes it right behind the record   *)
(* it erased, and a WRITE of a lower key leaves it: for records read by    *)
(* either key, with DUPLICATES and without, and with EXTEND sessions.      *)
THEOREM ScanAlwaysKeepsPlace == Spec => ScanKeepsPlace
<1>1. IInv /\ IInv' /\ [Next]_vars => [ScanKeepsPlaceStep]_vars
  BY ScanStep
<1>2. QED
  BY <1>1, InvariantHolds, PTL DEF Spec, ScanKeepsPlace

-----------------------------------------------------------------------------
(* IndexedFile implements KeyedStore, for any keys, probes and number of   *)
(* slots and any access mode: every step maps to a step of the keyed store *)
(* or to none.                                                             *)

(* The records of the slots d, the keys among them, and the keys of the    *)
(* last n slots.                                                           *)
Stored(d) == {d[o].pk : o \in Live(d)}
RecordsOf(d) == [k \in Stored(d) |-> d[CHOOSE o \in Live(d) : d[o].pk = k].alt]
LastKeys(d, n) == {d[o].pk : o \in (Len(d) - n + 1)..Len(d)}
OneRecordPerKey(d) == \A o1, o2 \in Live(d) : d[o1].pk = d[o2].pk => o1 = o2

(* Nothing is erased in a file that is only written.                       *)
NoneErased == mode = "Output" => Live(disk) = DOMAIN disk

LEMMA WriteErasesNone ==
  ASSUME IInv, NoneErased, NEW r \in Records, WriteRecord(r)
  PROVE  NoneErased'
<1>1. SUFFICES ASSUME mode = "Output" PROVE Live(disk)' = DOMAIN disk'
  BY DEF WriteRecord, NoneErased
<1>2. /\ disk \in Disks /\ Len(disk) < MaxSlots /\ disk' = Append(disk, r)
      /\ Primary \in Indexes /\ Live(disk) = DOMAIN disk
  BY <1>1, InvFacts DEF WriteRecord, Indexes, NoneErased
<1>3. disk \in Seq(Slots) /\ r \in Slots /\ DOMAIN disk = 1..Len(disk) /\ Len(disk) \in Nat
  BY <1>2, DiskSlots DEF Disks, Slots
<1>4. Live(disk') = Live(disk) \cup {Len(disk) + 1}
  BY <1>2, LiveEntriesAppend DEF Appended
<1>5. DOMAIN disk' = 1..(Len(disk) + 1)
  BY <1>2, <1>3
<1>6. QED
  BY <1>2, <1>3, <1>4, <1>5 DEF Live

LEMMA NoneErasedStep == IInv /\ NoneErased /\ [Next]_vars => NoneErased'
<1> SUFFICES ASSUME IInv, NoneErased, [Next]_vars PROVE NoneErased'
  OBVIOUS
<1>1. ASSUME mode' = "Output" => mode = "Output" /\ disk' = disk PROVE NoneErased'
  BY <1>1 DEF NoneErased, Live
<1>2. CASE UNCHANGED vars
  BY <1>1, <1>2 DEF vars, store
<1>3. CASE Open
  <2>1. ASSUME NEW m \in OpenModes, OpenFile(m), mode' = "Output" PROVE NoneErased'
    <3>1. disk' = << >>
      BY <2>1 DEF OpenFile
    <3>2. DOMAIN disk' = {} /\ Live(disk') = {}
      BY <3>1 DEF Live
    <3>3. QED
      BY <3>2 DEF NoneErased, Live
  <2>2. CASE OpenTwice \/ \E m \in OpenModes : OpenMissing(m)
    BY <1>1, <2>2 DEF OpenTwice, OpenMissing, Refuse, store
  <2>3. QED
    BY <1>1, <1>3, <2>1, <2>2 DEF Open
<1>4. CASE Close \/ CloseUnopened \/ Crash
  BY <1>1, <1>4 DEF Close, CloseUnopened, Crash, Refuse, store
<1>5. CASE Read
  BY <1>1, <1>5 DEF Read, ReadNextRecord, ReadNextAtEnd, ReadKeyFound, ReadKeyNotFound,
                    ReadDenied, Refuse, store
<1>6. CASE Start
  BY <1>1, <1>6 DEF Start, StartFound, StartNotFound, StartUnopened, Refuse, store
<1>7. CASE Write
  <2>1. ASSUME NEW r \in Records, WriteRecord(r) PROVE NoneErased'
    BY <2>1, WriteErasesNone
  <2>2. CASE WriteDenied \/ \E r \in Records : WriteOutOfSequence(r) \/ WriteDuplicate(r)
    BY <1>1, <2>2 DEF WriteDenied, WriteOutOfSequence, WriteDuplicate, Refuse, store
  <2>3. QED
    BY <1>7, <2>1, <2>2 DEF Write
<1>8. CASE Rewrite
  <2>1. ASSUME NEW r \in Records, RewriteRecord(r) PROVE NoneErased'
    BY <1>1, <2>1 DEF RewriteRecord
  <2>2. CASE RewriteWithoutRead \/ \E r \in Records : RewriteClash(r) \/ RewriteUnknown(r)
    BY <1>1, <2>2 DEF RewriteWithoutRead, RewriteClash, RewriteUnknown, Refuse, store
  <2>3. QED
    BY <1>8, <2>1, <2>2 DEF Rewrite
<1>9. CASE Delete
  <2>1. \A o : mode = "IoMode" /\ DeleteAt(o) => mode' = "IoMode"
    BY DEF DeleteAt
  <2>2. \A r : DeleteUnknown(r) => mode' = mode /\ disk' = disk
    BY DEF DeleteUnknown, store
  <2>3. QED
    BY <1>1, <1>9, <2>1, <2>2 DEF Delete, DeleteRecord, DeleteCurrent, Refuse, store
<1>10. CASE UpdateDenied
  BY <1>1, <1>10 DEF UpdateDenied, Refuse, store
<1>11. QED
  BY <1>2, <1>3, <1>4, <1>5, <1>6, <1>7, <1>8, <1>9, <1>10 DEF Next

(* Only a file that is being written has a record a crash would lose, and  *)
(* a file that does not exist has no records.                              *)
BufferInv ==
  /\ mode # "Output" => buffered = 0
  /\ mode # "Closed" => exists
  /\ ~exists => disk = << >>

StoreInv == IInv /\ KeysUnique /\ NoneErased /\ BufferInv

-----------------------------------------------------------------------------
(* The mapping *)

LEMMA KeyedStatuses ==
  /\ Keyed!FsOk = FsOk /\ Keyed!FsDuplicateAltSuccess = FsDuplicateAltSuccess
  /\ Keyed!FsOptionalCreated = FsOptionalCreated /\ Keyed!FsAtEnd = FsAtEnd
  /\ Keyed!FsSequenceError = FsSequenceError /\ Keyed!FsDuplicateKey = FsDuplicateKey
  /\ Keyed!FsRecNotFound = FsRecNotFound /\ Keyed!FsNotFound = FsNotFound
  /\ Keyed!FsAlreadyOpen = FsAlreadyOpen /\ Keyed!FsNotOpen = FsNotOpen
  /\ Keyed!FsRewriteWithoutRead = FsRewriteWithoutRead
  /\ Keyed!FsNoValidNextRecord = FsNoValidNextRecord
  /\ Keyed!FsReadNotPermitted = FsReadNotPermitted
  /\ Keyed!FsWriteNotPermitted = FsWriteNotPermitted
  /\ Keyed!FsIoModeRequired = FsIoModeRequired
BY DEF Keyed!FsOk, FsOk, Keyed!FsDuplicateAltSuccess, FsDuplicateAltSuccess,
       Keyed!FsOptionalCreated, FsOptionalCreated, Keyed!FsAtEnd, FsAtEnd,
       Keyed!FsSequenceError, FsSequenceError, Keyed!FsDuplicateKey, FsDuplicateKey,
       Keyed!FsRecNotFound, FsRecNotFound, Keyed!FsNotFound, FsNotFound,
       Keyed!FsAlreadyOpen, FsAlreadyOpen, Keyed!FsNotOpen, FsNotOpen,
       Keyed!FsRewriteWithoutRead, FsRewriteWithoutRead,
       Keyed!FsNoValidNextRecord, FsNoValidNextRecord,
       Keyed!FsReadNotPermitted, FsReadNotPermitted,
       Keyed!FsWriteNotPermitted, FsWriteNotPermitted,
       Keyed!FsIoModeRequired, FsIoModeRequired

LEMMA MappedRecords ==
  /\ [k \in StoredKeys |-> StoredAlternate(k)] = RecordsOf(disk)
  /\ [k \in StoredKeys |-> StoredAlternate(k)]' = RecordsOf(disk')
  /\ {disk[o].pk : o \in (Len(disk) - buffered + 1)..Len(disk)} = LastKeys(disk, buffered)
  /\ {disk[o].pk : o \in (Len(disk) - buffered + 1)..Len(disk)}' = LastKeys(disk', buffered')
BY DEF RecordsOf, Stored, StoredKeys, StoredAlternate, LastKeys

LEMMA KeyedAnswers ==
  /\ \A op, status : Answer(op, status) => Keyed!Says(op, status)
  /\ \A op, status : Refuse(op, status) => Keyed!Only(op, status)
<1>1. \A op, status : Answer(op, status) => Keyed!Says(op, status)
  BY DEF Answer, Keyed!Says, Keyed!NoRecord, Erased
<1>2. ASSUME UNCHANGED <<store, mode, indices, cursor>>
      PROVE  /\ [k \in StoredKeys |-> StoredAlternate(k)]' = [k \in StoredKeys |-> StoredAlternate(k)]
             /\ {disk[o].pk : o \in (Len(disk) - buffered + 1)..Len(disk)}'
                  = {disk[o].pk : o \in (Len(disk) - buffered + 1)..Len(disk)}
             /\ mode' = mode /\ currentIndex' = currentIndex
  BY <1>2, MappedRecords DEF store, cursor
<1>3. \A op, status : Refuse(op, status) => Keyed!Only(op, status)
  BY <1>1, <1>2 DEF Refuse, Keyed!Only
<1>4. QED
  BY <1>1, <1>3

(* The records of slots with distinct keys.                                *)
LEMMA RecordsOfSlots ==
  ASSUME NEW d \in Disks, OneRecordPerKey(d)
  PROVE  /\ DOMAIN RecordsOf(d) = Stored(d)
         /\ \A o \in Live(d) : /\ d[o] \in Records /\ d[o].pk \in Stored(d)
                               /\ RecordsOf(d)[d[o].pk] = d[o].alt
         /\ Stored(d) \subseteq PrimaryKeys
<1>1. \A o \in Live(d) : d[o] \in Records
  BY DiskSlots
<1>2. ASSUME NEW o \in Live(d)
      PROVE  d[o].pk \in Stored(d) /\ RecordsOf(d)[d[o].pk] = d[o].alt
  <2>1. d[o].pk \in Stored(d)
    BY DEF Stored
  <2>2. (CHOOSE p \in Live(d) : d[p].pk = d[o].pk) = o
    BY DEF OneRecordPerKey
  <2>3. QED
    BY <2>1, <2>2 DEF RecordsOf
<1>3. Stored(d) \subseteq PrimaryKeys
  BY <1>1 DEF Stored, Records
<1>4. QED
  BY <1>1, <1>2, <1>3 DEF RecordsOf

(* They are the only function that gives each key its alternate key.       *)
LEMMA RecordsOfIsOnly ==
  ASSUME NEW d \in Disks, OneRecordPerKey(d), NEW g, g = [k \in Stored(d) |-> g[k]],
         \A o \in Live(d) : g[d[o].pk] = d[o].alt
  PROVE  RecordsOf(d) = g
<1>1. \A k \in Stored(d) : \E o \in Live(d) : k = d[o].pk
  BY DEF Stored
<1>2. \A o \in Live(d) : RecordsOf(d)[d[o].pk] = g[d[o].pk]
  BY RecordsOfSlots
<1>3. \A k \in Stored(d) : RecordsOf(d)[k] = g[k]
  BY <1>1, <1>2
<1>4. RecordsOf(d) = [k \in Stored(d) |-> RecordsOf(d)[k]]
  BY DEF RecordsOf
<1>5. QED
  BY <1>3, <1>4

(* What the keyed store sees of an open file.                              *)
LEMMA KeyedView ==
  ASSUME StoreInv
  PROVE  /\ disk \in Disks /\ OneRecordPerKey(disk)
         /\ Keyed!Present = Stored(disk)
         /\ Keyed!Readable = Readable /\ Keyed!Writable = Writable
         /\ \A o \in Live(disk) :
              /\ disk[o] \in Records /\ disk[o].pk \in Stored(disk)
              /\ \A i \in Indexes : Keyed!KeyIn(i, disk[o].pk) = KeyOf(i, disk[o])
              /\ \A op, status : Deliver(op, status, disk[o]) => Keyed!Gives(op, status, disk[o].pk)
         /\ \A k, a : Keyed!AltTaken(k, a) <=>
              ~AltDuplicates /\ \E o \in Live(disk) : disk[o].pk # k /\ disk[o].alt = a
<1>1. disk \in Disks
  BY InvFacts DEF StoreInv
<1>2. OneRecordPerKey(disk)
  BY DEF StoreInv, KeysUnique, OneRecordPerKey, NotUnique, KeyOf, Indexes, Primary, Alternate
<1>3. Keyed!Present = Stored(disk)
  BY DEF Keyed!Present, StoredKeys, Stored
<1>4. Keyed!Readable = Readable /\ Keyed!Writable = Writable
  BY DEF Keyed!Readable, Keyed!Writable, Readable, Writable
<1>5. ASSUME NEW o \in Live(disk)
      PROVE  /\ disk[o] \in Records /\ disk[o].pk \in Stored(disk)
             /\ [k \in StoredKeys |-> StoredAlternate(k)][disk[o].pk] = disk[o].alt
  BY <1>1, <1>2, RecordsOfSlots, MappedRecords
<1>6. ASSUME NEW o \in Live(disk), NEW i \in Indexes
      PROVE  Keyed!KeyIn(i, disk[o].pk) = KeyOf(i, disk[o])
  BY <1>5 DEF Keyed!KeyIn, KeyOf, Primary
<1>7. ASSUME NEW o \in Live(disk), NEW op, NEW status, Deliver(op, status, disk[o])
      PROVE  Keyed!Gives(op, status, disk[o].pk)
  <2>1. disk[o] = [pk |-> disk[o].pk, alt |-> disk[o].alt]
    BY <1>5 DEF Records
  <2>2. QED
    BY <1>5, <1>7, <2>1 DEF Keyed!Gives, Keyed!Record, Deliver
<1>8. ASSUME NEW k, NEW a
      PROVE  Keyed!AltTaken(k, a) <=>
               ~AltDuplicates /\ \E o \in Live(disk) : disk[o].pk # k /\ disk[o].alt = a
  <2>1. \A j \in Stored(disk) : \E o \in Live(disk) : j = disk[o].pk
    BY DEF Stored
  <2>2. Keyed!AltTaken(k, a) <=>
          ~AltDuplicates /\ \E j \in Stored(disk) \ {k} : RecordsOf(disk)[j] = a
    BY <1>3, MappedRecords DEF Keyed!AltTaken
  <2>3. \A o \in Live(disk) : disk[o].pk \in Stored(disk) /\ RecordsOf(disk)[disk[o].pk] = disk[o].alt
    BY <1>1, <1>2, RecordsOfSlots
  <2>4. QED
    BY <2>1, <2>2, <2>3
<1>9. QED
  BY <1>1, <1>2, <1>3, <1>4, <1>5, <1>6, <1>7, <1>8

LEMMA BufferStep ==
  ASSUME "Extend" \notin OpenModes, IInv, BufferInv, [Next]_vars
  PROVE  BufferInv'
<1>1. ASSUME exists' = exists, disk' = disk, buffered' = buffered, mode' = mode PROVE BufferInv'
  BY <1>1 DEF BufferInv
<1>2. /\ mode \in {"Input", "Output", "IoMode", "Closed"}
      /\ \A op, status : Refuse(op, status) => BufferInv'
  BY <1>1, ModesAssumption DEF IInv, TypeOK, Refuse, store
<1>3. CASE UNCHANGED vars
  BY <1>1, <1>3 DEF vars, store
<1>4. CASE Open
  BY <1>2, <1>4 DEF Open, OpenFile, OpenMissing, OpenTwice, BufferInv
<1>5. CASE Close \/ CloseUnopened
  BY <1>2, <1>5 DEF Close, CloseUnopened, BufferInv
<1>6. CASE Crash
  <2>1. exists /\ mode # "Closed" /\ mode' = "Closed" /\ exists' = exists /\ buffered' = 0
    BY <1>6 DEF Crash, BufferInv
  <2>2. QED
    BY <2>1 DEF BufferInv
<1>7. CASE Read
  BY <1>1, <1>2, <1>7 DEF Read, ReadNextRecord, ReadNextAtEnd, ReadKeyFound, ReadKeyNotFound,
                          ReadDenied, store
<1>8. CASE Start
  BY <1>1, <1>2, <1>8 DEF Start, StartFound, StartNotFound, StartUnopened, store
<1>9. CASE Write
  <2>1. ASSUME NEW r \in Records, WriteRecord(r) PROVE BufferInv'
    <3>1. exists' = exists /\ mode' = mode /\ mode \in {"Output", "IoMode"} /\ exists
      BY <1>2, <2>1 DEF WriteRecord, Writable, BufferInv
    <3>2. mode = "IoMode" => buffered' = 0
      BY <2>1 DEF WriteRecord
    <3>3. QED
      BY <3>1, <3>2 DEF BufferInv
  <2>2. QED
    BY <1>2, <1>9, <2>1 DEF Write, WriteDenied, WriteOutOfSequence, WriteDuplicate
<1>10. CASE Rewrite
  BY <1>2, <1>10 DEF Rewrite, RewriteRecord, RewriteClash, RewriteUnknown, RewriteWithoutRead,
                     BufferInv
<1>11. CASE Delete
  <2>1. \A o : mode = "IoMode" /\ DeleteAt(o) => BufferInv'
    BY DEF DeleteAt, BufferInv
  <2>2. \A r : DeleteUnknown(r) => BufferInv'
    BY <1>1 DEF DeleteUnknown, store
  <2>3. QED
    BY <1>2, <1>11, <2>1, <2>2 DEF Delete, DeleteRecord, DeleteCurrent
<1>12. CASE UpdateDenied
  BY <1>2, <1>12 DEF UpdateDenied
<1>13. QED
  BY <1>3, <1>4, <1>5, <1>6, <1>7, <1>8, <1>9, <1>10, <1>11, <1>12 DEF Next

LEMMA StoreInvHolds ==
  ASSUME "Extend" \notin OpenModes
  PROVE  Spec => []StoreInv
<1>1. Init => NoneErased /\ BufferInv
  BY DEF Init, NoneErased, BufferInv
<1>2. IInv /\ NoneErased /\ [Next]_vars => NoneErased'
  BY NoneErasedStep
<1>3. IInv /\ BufferInv /\ [Next]_vars => BufferInv'
  BY BufferStep
<1>4. IInv /\ KeysUnique /\ NoneErased /\ BufferInv => StoreInv
  BY DEF StoreInv
<1>5. QED
  BY <1>1, <1>2, <1>3, <1>4, InvariantHolds, KeysAlwaysUnique, PTL DEF Spec

-----------------------------------------------------------------------------
(* Every call maps to a call of the keyed store *)

(* The calls that leave records and buffer alone.                          *)
LEMMA SameRecords ==
  ASSUME UNCHANGED store
  PROVE  /\ [k \in StoredKeys |-> StoredAlternate(k)]' = [k \in StoredKeys |-> StoredAlternate(k)]
         /\ {disk[o].pk : o \in (Len(disk) - buffered + 1)..Len(disk)}'
              = {disk[o].pk : o \in (Len(disk) - buffered + 1)..Len(disk)}
BY MappedRecords DEF store

(* With nothing in the buffer a crash loses nothing.                       *)
LEMMA NothingBuffered ==
  ASSUME NEW d \in Disks
  PROVE  LastKeys(d, 0) = {}
<1>1. Len(d) \in Nat
  BY DiskSlots
<1>2. (Len(d) - 0 + 1)..Len(d) = {}
  BY <1>1
<1>3. QED
  BY <1>2 DEF LastKeys

LEMMA InitMaps == Init => Keyed!Init
<1> SUFFICES ASSUME Init PROVE Keyed!Init
  OBVIOUS
<1>1. disk = << >> /\ buffered = 0 /\ Live(disk) = {}
  BY DEF Init, Live
<1>2. disk \in Disks
  BY <1>1, ModesAssumption DEF Disks
<1>3. [k \in StoredKeys |-> StoredAlternate(k)] = [k \in {} |-> 0]
  BY <1>1 DEF StoredKeys
<1>4. {disk[o].pk : o \in (Len(disk) - buffered + 1)..Len(disk)} = {}
  BY <1>1, <1>2, MappedRecords, NothingBuffered
<1>5. QED
  BY <1>3, <1>4, KeyedStatuses DEF Init, Keyed!Init, Keyed!NoRecord, Erased, Primary

LEMMA OpenMaps ==
  ASSUME StoreInv, Open
  PROVE  Keyed!Next
<1>1. ASSUME NEW m \in OpenModes, OpenFile(m) PROVE Keyed!Open(m)
  <2>1. /\ mode = "Closed" /\ mode' = m /\ disk' = (IF m = "Output" THEN << >> ELSE disk)
        /\ buffered' = buffered /\ currentIndex' = 1
    BY <1>1 DEF OpenFile, FreshCursor, Primary
  <2>2. buffered = 0 /\ disk \in Disks /\ disk' \in Disks
    BY <2>1, KeyedView, ModesAssumption DEF StoreInv, BufferInv, Disks
  <2>3. LastKeys(disk', buffered') = LastKeys(disk, buffered)
    BY <2>1, <2>2, NothingBuffered
  <2>4. RecordsOf(disk') = IF m = "Output" THEN [k \in {} |-> 0] ELSE RecordsOf(disk)
    <3>1. CASE m = "Output"
      <4>1. Live(disk') = {} /\ Stored(disk') = {}
        BY <2>1, <3>1 DEF Live, Stored
      <4>2. QED
        BY <3>1, <4>1 DEF RecordsOf
    <3>2. CASE m # "Output"
      BY <2>1, <3>2
    <3>3. QED
      BY <3>1, <3>2
  <2>5. \E s \in {FsOk, FsOptionalCreated} : Keyed!Says("open", s)
    BY <1>1, KeyedAnswers DEF OpenFile
  <2>6. QED
    BY <2>1, <2>3, <2>4, <2>5, MappedRecords, KeyedStatuses DEF Keyed!Open
<1>2. ASSUME NEW m \in OpenModes, OpenMissing(m) PROVE Keyed!OpenRefused
  <2>1. mode = "Closed" /\ disk = << >> /\ Keyed!Only("open", FsNotFound)
    BY <1>2, KeyedAnswers DEF OpenMissing, StoreInv, BufferInv
  <2>2. Keyed!Present = {}
    BY <2>1, KeyedView DEF Stored, Live
  <2>3. QED
    BY <2>1, <2>2, KeyedStatuses DEF Keyed!OpenRefused
<1>3. CASE OpenTwice
  BY <1>3, KeyedAnswers, KeyedStatuses DEF OpenTwice, Keyed!OpenRefused, Keyed!Next
<1>4. QED
  BY <1>1, <1>2, <1>3 DEF Open, Keyed!Next

LEMMA CloseMaps ==
  ASSUME StoreInv, Close \/ CloseUnopened
  PROVE  Keyed!Next
<1>1. CASE Close
  <2>1. disk' = disk /\ buffered' = 0 /\ disk \in Disks
    BY <1>1, KeyedView DEF Close
  <2>2. LastKeys(disk', buffered') = {}
    BY <2>1, NothingBuffered
  <2>3. Keyed!Close
    BY <1>1, <2>1, <2>2, MappedRecords, KeyedAnswers, KeyedStatuses
       DEF Close, FreshCursor, Primary, Keyed!Close
  <2>4. QED
    BY <2>3 DEF Keyed!Next
<1>2. CASE CloseUnopened
  BY <1>2, KeyedAnswers, KeyedStatuses DEF CloseUnopened, Keyed!Denied, Keyed!Next
<1>3. QED
  BY <1>1, <1>2

(* A crash loses the record of the last WRITE if it is still buffered.     *)
LEMMA CrashMaps ==
  ASSUME StoreInv, StoreInv', Crash
  PROVE  Keyed!Crash
<1> DEFINE n == Len(disk) - buffered
<1>1. /\ mode # "Closed" /\ mode' = "Closed" /\ disk' = SubSeq(disk, 1, n) /\ buffered' = 0
      /\ currentIndex' = 1
  BY DEF Crash, FreshCursor, Primary
<1>2. disk \in Disks /\ OneRecordPerKey(disk) /\ disk' \in Disks
  BY KeyedView, InvFacts DEF StoreInv, IInv, TypeOK, Disks, Slots
<1>3. OneRecordPerKey(disk')
  BY DEF StoreInv, KeysUnique, OneRecordPerKey, NotUnique, KeyOf, Indexes, Primary, Alternate, Live
<1>4. Len(disk) \in Nat /\ DOMAIN disk = 1..Len(disk) /\ buffered \in 0..1 /\ buffered <= Len(disk)
      /\ disk \in Seq(Slots)
  BY <1>2, DiskSlots DEF StoreInv, IInv, TypeOK, Disks
<1>5. n \in 0..Len(disk) /\ DOMAIN disk' = 1..n /\ \A o \in 1..n : disk'[o] = disk[o]
  BY <1>1, <1>4
<1>6. \A o : o \in Live(disk') <=> o \in Live(disk) /\ o <= n
  BY <1>4, <1>5 DEF Live
<1>7. \A o \in Live(disk) : o > n => disk[o].pk \in LastKeys(disk, buffered)
  BY <1>4 DEF LastKeys, Live
<1>8. ASSUME NEW o \in Live(disk), o <= n PROVE disk[o].pk \notin LastKeys(disk, buffered)
  <2>1. SUFFICES ASSUME NEW p \in (n + 1)..Len(disk), disk[o].pk = disk[p].pk PROVE FALSE
    BY DEF LastKeys
  <2>2. buffered # 0
    BY <1>4, <2>1
  <2>3. p \in Live(disk)
    BY <1>4, <1>5, <2>1, <2>2 DEF StoreInv, BufferInv, NoneErased
  <2>4. o = p
    BY <1>2, <1>8, <2>1, <2>3 DEF OneRecordPerKey
  <2>5. QED
    BY <1>4, <1>5, <1>8, <2>1, <2>4
<1> HIDE DEF n
<1>9. Stored(disk') = Stored(disk) \ LastKeys(disk, buffered)
  <2>1. ASSUME NEW k \in Stored(disk') PROVE k \in Stored(disk) \ LastKeys(disk, buffered)
    <3>1. PICK o \in Live(disk') : k = disk'[o].pk
      BY DEF Stored
    <3>2. o \in Live(disk) /\ o <= n /\ disk'[o] = disk[o]
      BY <1>4, <1>5, <1>6, <3>1 DEF Live
    <3>3. QED
      BY <1>8, <3>1, <3>2 DEF Stored
  <2>2. ASSUME NEW k \in Stored(disk) \ LastKeys(disk, buffered) PROVE k \in Stored(disk')
    <3>1. PICK o \in Live(disk) : k = disk[o].pk
      BY DEF Stored
    <3>2. o \in 1..Len(disk) /\ ~(o > n)
      BY <1>4, <1>7, <3>1 DEF Live
    <3>3. o \in Live(disk') /\ disk'[o] = disk[o]
      BY <1>4, <1>5, <1>6, <3>2
    <3>4. QED
      BY <3>1, <3>3 DEF Stored
  <2>3. QED
    BY <2>1, <2>2
<1> DEFINE g == [k \in Stored(disk') |-> RecordsOf(disk)[k]]
<1>10. RecordsOf(disk') = g
  <2>1. \A o \in Live(disk') : o \in Live(disk) /\ disk'[o] = disk[o]
    BY <1>4, <1>5, <1>6 DEF Live
  <2>2. \A o \in Live(disk') : g[disk'[o].pk] = disk'[o].alt
    BY <1>2, <1>3, <2>1, RecordsOfSlots
  <2> HIDE DEF g
  <2>3. g = [k \in Stored(disk') |-> g[k]]
    BY DEF g
  <2>4. QED
    BY <1>2, <1>3, <2>2, <2>3, RecordsOfIsOnly
<1>11. LastKeys(disk', buffered') = {}
  BY <1>1, <1>2, NothingBuffered
<1>12. Keyed!Says("crash", FsOk)
  BY KeyedAnswers DEF Crash
<1>13. RecordsOf(disk') = [k \in Keyed!Present \ LastKeys(disk, buffered) |-> RecordsOf(disk)[k]]
  BY <1>9, <1>10, KeyedView
<1>14. QED
  BY <1>1, <1>11, <1>12, <1>13, MappedRecords, KeyedStatuses DEF Keyed!Crash

(* The neighbours of an entry share its key when any other record does.    *)
LEMMA SharedByNeighbour ==
  ASSUME StoreInv, mode \in {"Input", "Output", "IoMode"}, NEW i \in Indexes,
         NEW n \in DOMAIN indices[i]
  PROVE  LET o == indices[i][n].offset
         IN  /\ o \in Live(disk)
             /\ Keyed!FoundStatus(i, disk[o].pk) = SuccessStatus(i, n)
<1> DEFINE e == indices[i]
           o == e[n].offset
           key == KeyOf(i, disk[o])
<1>1. /\ e \in Seq(Entries) /\ e \in Seq(Entry) /\ Matches(i, e, disk) /\ disk \in Disks
      /\ IsSorted(e) /\ DOMAIN e = 1..Len(e) /\ Len(e) \in Nat
      /\ \A j \in DOMAIN e : e[j].key \in Nat
  BY InvFacts, EntriesHaveKeys DEF StoreInv
<1>2. o \in Live(disk) /\ e[n].key = key
  BY <1>1, MatchingEntries
<1>3. /\ \A m \in DOMAIN e : /\ e[m].offset \in Live(disk) /\ e[m].key = KeyOf(i, disk[e[m].offset])
                             /\ e[m] = EntryAt(i, disk, e[m].offset)
      /\ \A p \in Live(disk) : \E m \in DOMAIN e : e[m] = EntryAt(i, disk, p)
  BY <1>1, MatchingEntries
<1> HIDE DEF o
<1>4. Keyed!Shared(i, disk[o].pk)
        <=> \E p \in Live(disk) : p # o /\ KeyOf(i, disk[p]) = key
  <2>1. \A j \in Keyed!Present : \E p \in Live(disk) : j = disk[p].pk
    BY KeyedView DEF Stored
  <2>2. \A p \in Live(disk) : /\ disk[p].pk \in Keyed!Present
                              /\ Keyed!KeyIn(i, disk[p].pk) = KeyOf(i, disk[p])
    BY KeyedView
  <2>3. \A p \in Live(disk) : disk[p].pk = disk[o].pk <=> p = o
    BY <1>2, KeyedView DEF OneRecordPerKey
  <2>4. QED
    BY <1>2, <2>1, <2>2, <2>3 DEF Keyed!Shared
<1> DEFINE shares(m) == m \in DOMAIN e /\ e[m].key = e[n].key
<1> HIDE DEF e
<1>5. (\E p \in Live(disk) : p # o /\ KeyOf(i, disk[p]) = key)
        <=> \E m \in DOMAIN e : m # n /\ e[m].key = e[n].key
  <2>1. ASSUME NEW p \in Live(disk), p # o, KeyOf(i, disk[p]) = key
        PROVE  \E m \in DOMAIN e : m # n /\ e[m].key = e[n].key
    <3>1. PICK m \in DOMAIN e : e[m] = EntryAt(i, disk, p)
      BY <1>3
    <3>2. e[m].key = key /\ e[m].offset = p
      BY <2>1, <3>1, EntryAtFields
    <3>3. m # n
      BY <2>1, <3>2 DEF o, e
    <3>4. QED
      BY <1>2, <3>2, <3>3
  <2>2. ASSUME NEW m \in DOMAIN e, m # n, e[m].key = e[n].key
        PROVE  \E p \in Live(disk) : p # o /\ KeyOf(i, disk[p]) = key
    <3>1. e[m].offset \in Live(disk) /\ KeyOf(i, disk[e[m].offset]) = key
      BY <1>2, <1>3, <2>2
    <3>2. e[m].offset # o
      <4>1. SUFFICES ASSUME e[m].offset = o PROVE FALSE
        OBVIOUS
      <4>2. e[m] = e[n]
        BY <1>3, <4>1 DEF o, e
      <4>3. QED
        BY <1>1, <2>2, <4>2 DEF Matches, Enumerates, e
    <3>3. QED
      BY <3>1, <3>2
  <2>3. QED
    BY <2>1, <2>2
<1>6. (\E m \in DOMAIN e : m # n /\ e[m].key = e[n].key) <=> shares(n - 1) \/ shares(n + 1)
  <2>1. n \in 1..Len(e) /\ \A a, b \in DOMAIN e : a < b => e[a].key <= e[b].key
    BY <1>1 DEF IsSorted, e
  <2>2. ASSUME NEW m \in DOMAIN e, m < n, e[m].key = e[n].key PROVE shares(n - 1)
    <3>1. n - 1 \in DOMAIN e /\ (n - 1 = m \/ m < n - 1) /\ n - 1 < n
      BY <1>1, <2>1, <2>2
    <3>2. e[m].key <= e[n - 1].key /\ e[n - 1].key <= e[n].key
      BY <1>1, <2>1, <2>2, <3>1
    <3>3. QED
      BY <1>1, <2>1, <2>2, <3>1, <3>2
  <2>3. ASSUME NEW m \in DOMAIN e, n < m, e[m].key = e[n].key PROVE shares(n + 1)
    <3>1. n + 1 \in DOMAIN e /\ (n + 1 = m \/ n + 1 < m) /\ n < n + 1
      BY <1>1, <2>1, <2>3
    <3>2. e[n].key <= e[n + 1].key /\ e[n + 1].key <= e[m].key
      BY <1>1, <2>1, <2>3, <3>1
    <3>3. QED
      BY <1>1, <2>1, <2>3, <3>1, <3>2
  <2>4. \A m \in DOMAIN e : m # n => m < n \/ n < m
    BY <1>1, <2>1
  <2>5. shares(n - 1) => n - 1 # n
    BY <2>1
  <2>6. shares(n + 1) => n + 1 # n
    BY <2>1
  <2>7. QED
    BY <2>2, <2>3, <2>4, <2>5, <2>6
<1>7. SuccessStatus(i, n) =
        IF NotUnique(i) /\ (shares(n - 1) \/ shares(n + 1)) THEN FsDuplicateAltSuccess ELSE FsOk
  BY DEF SuccessStatus, e
<1> HIDE DEF shares
<1>8. Keyed!FoundStatus(i, disk[o].pk) = SuccessStatus(i, n)
  BY <1>4, <1>5, <1>6, <1>7, KeyedStatuses DEF Keyed!FoundStatus, NotUnique, Alternate
<1>9. QED
  BY <1>2, <1>8 DEF o, e

LEMMA ReadNextMaps ==
  ASSUME StoreInv, ReadNextRecord
  PROVE  Keyed!Next
<1> DEFINE n == currentRecord + 1
           o == indices[currentIndex][n].offset
<1>1. /\ Readable /\ currentRecord < Len(indices[currentIndex])
      /\ Deliver("readNext", SuccessStatus(currentIndex, n), disk[o])
      /\ UNCHANGED store /\ mode' = mode /\ currentIndex' = currentIndex
  BY DEF ReadNextRecord, store
<1>2. mode \in {"Input", "Output", "IoMode"} /\ currentIndex \in Indexes /\ n \in DOMAIN indices[currentIndex]
  <2>1. currentIndex \in Indexes /\ currentRecord \in Nat /\ indices[currentIndex] \in Seq(Entries)
        /\ Len(indices[currentIndex]) \in Nat
    BY InvFacts DEF StoreInv, IInv, TypeOK
  <2>2. QED
    BY <1>1, <2>1 DEF Readable
<1> HIDE DEF n
<1>3. o \in Live(disk) /\ Keyed!FoundStatus(currentIndex, disk[o].pk) = SuccessStatus(currentIndex, n)
  BY <1>2, SharedByNeighbour
<1> HIDE DEF o
<1>4. /\ disk[o].pk \in Keyed!Present /\ disk[o].pk \in PrimaryKeys /\ Keyed!Readable
      /\ Keyed!Gives("readNext", SuccessStatus(currentIndex, n), disk[o].pk)
  BY <1>1, <1>3, KeyedView, RecordsOfSlots
<1>5. Keyed!Scan(disk[o].pk)
  BY <1>1, <1>3, <1>4, SameRecords DEF Keyed!Scan
<1>6. QED
  BY <1>4, <1>5 DEF Keyed!Next

(* The entries a key argument matches are those between the bounds.        *)
LEMMA BoundsMatch ==
  ASSUME StoreInv, mode # "Closed", NEW i \in Indexes, NEW p \in Probes, "Extend" \notin OpenModes
  PROVE  /\ mode \in {"Input", "Output", "IoMode"}
         /\ p[1] \in Nat /\ p[2] \in Nat
         /\ indices[i] \in Seq(Entries) /\ Len(indices[i]) \in 0..MaxSlots /\ MaxSlots \in Nat
         /\ DOMAIN indices[i] = 1..Len(indices[i])
         /\ Lower(i, p) \in 0..Len(indices[i]) /\ Upper(i, p) \in 0..Len(indices[i])
         /\ \A j \in DOMAIN indices[i] :
              /\ indices[i][j].key \in Nat
              /\ indices[i][j].key < p[1] <=> j <= Lower(i, p)
              /\ indices[i][j].key <= p[2] <=> j <= Upper(i, p)
         /\ \A j \in DOMAIN indices[i] :
              /\ indices[i][j].offset \in Live(disk)
              /\ indices[i][j].key = Keyed!KeyIn(i, disk[indices[i][j].offset].pk)
              /\ disk[indices[i][j].offset].pk \in Keyed!Present
              /\ disk[indices[i][j].offset].pk \in PrimaryKeys
         /\ \A k \in Keyed!Present : \E j \in DOMAIN indices[i] :
              /\ indices[i][j].key = Keyed!KeyIn(i, k) /\ k = disk[indices[i][j].offset].pk
<1> DEFINE e == indices[i]
<1>1. mode \in {"Input", "Output", "IoMode"}
  BY ModesAssumption DEF StoreInv, IInv, TypeOK
<1>2. p[1] \in Nat /\ p[2] \in Nat
  BY KeysAssumption
<1>3. /\ e \in Seq(Entries) /\ e \in Seq(Entry) /\ Matches(i, e, disk) /\ disk \in Disks
      /\ IsSorted(e) /\ DOMAIN e = 1..Len(e) /\ Len(e) \in Nat
      /\ \A j \in DOMAIN e : e[j].key \in Nat
  BY <1>1, InvFacts, EntriesHaveKeys DEF StoreInv
<1> HIDE DEF e
<1>4. /\ Lower(i, p) \in 0..Len(e) /\ Upper(i, p) \in 0..Len(e)
      /\ \A j \in DOMAIN e : /\ e[j].key < p[1] <=> j <= Lower(i, p)
                             /\ e[j].key <= p[2] <=> j <= Upper(i, p)
  BY <1>2, <1>3, BoundsInIndex DEF Lower, Upper, e
<1>5. /\ \A j \in DOMAIN e : /\ e[j].offset \in Live(disk)
                             /\ e[j].key = KeyOf(i, disk[e[j].offset])
                             /\ e[j] = EntryAt(i, disk, e[j].offset)
      /\ \A o \in Live(disk) : \E j \in DOMAIN e : e[j] = EntryAt(i, disk, o)
  BY <1>3, MatchingEntries
<1>6. /\ Keyed!Present = Stored(disk)
      /\ Stored(disk) \subseteq PrimaryKeys
      /\ \A o \in Live(disk) : disk[o].pk \in Stored(disk) /\ Keyed!KeyIn(i, disk[o].pk) = KeyOf(i, disk[o])
  BY KeyedView, RecordsOfSlots
<1>7. \A j \in DOMAIN e : /\ e[j].offset \in Live(disk)
                          /\ e[j].key = Keyed!KeyIn(i, disk[e[j].offset].pk)
                          /\ disk[e[j].offset].pk \in Keyed!Present
                          /\ disk[e[j].offset].pk \in PrimaryKeys
  BY <1>5, <1>6
<1>8. ASSUME NEW k \in Keyed!Present
      PROVE  \E j \in DOMAIN e : e[j].key = Keyed!KeyIn(i, k) /\ k = disk[e[j].offset].pk
  <2>1. PICK o \in Live(disk) : k = disk[o].pk
    BY <1>6 DEF Stored
  <2>2. PICK j \in DOMAIN e : e[j] = EntryAt(i, disk, o)
    BY <1>5
  <2>3. e[j].offset = o
    BY <2>2, EntryAtFields
  <2>4. QED
    BY <1>7, <2>1, <2>3
<1>9. Len(e) <= MaxSlots /\ MaxSlots \in Nat
  <2> DEFINE f == [j \in 1..Len(e) |-> e[j].offset]
  <2>1. MaxSlots \in Nat /\ Len(disk) \in Nat /\ Len(disk) <= MaxSlots /\ Live(disk) \subseteq 1..Len(disk)
    BY <1>3, DiskSlots, ModesAssumption
  <2>2. \A a, b \in 1..Len(e) : e[a].offset = e[b].offset => a = b
    BY <1>3, <1>5 DEF Matches, Enumerates
  <2>3. f \in Injection(1..Len(e), 1..Len(disk))
    BY <1>3, <1>5, <2>1, <2>2 DEF Injection, IsInjective
  <2> HIDE DEF f
  <2>4. /\ IsFiniteSet(1..Len(disk)) /\ Cardinality(1..Len(disk)) = Len(disk)
        /\ Cardinality(1..Len(e)) = Len(e)
    <3>1. ASSUME NEW size \in Nat PROVE IsFiniteSet(1..size) /\ Cardinality(1..size) = size
      <4>1. 1 \in Int /\ size \in Int /\ size - 1 + 1 = size /\ (1 > size <=> size = 0)
        OBVIOUS
      <4>2. /\ IsFiniteSet(1..size)
            /\ Cardinality(1..size) = IF 1 > size THEN 0 ELSE size - 1 + 1
        BY ONLY <4>1, FS_Interval
      <4>3. QED
        BY ONLY <4>1, <4>2
    <3>2. Len(e) \in Nat /\ Len(disk) \in Nat
      BY <1>3, <2>1
    <3>3. QED
      BY ONLY <3>1, <3>2
  <2>5. Cardinality(1..Len(e)) <= Cardinality(1..Len(disk))
    BY <2>3, <2>4, FS_Injection
  <2>6. QED
    BY <1>3, <2>1, <2>4, <2>5
<1>10. QED
  BY <1>1, <1>2, <1>3, <1>4, <1>7, <1>8, <1>9 DEF e

LEMMA ReadMaps ==
  ASSUME "Extend" \notin OpenModes, StoreInv, Read
  PROVE  Keyed!Next
<1>1. CASE ReadNextRecord
  BY <1>1, ReadNextMaps
<1>2. CASE ReadNextAtEnd
  <2>1. PICK status \in {FsNoValidNextRecord, FsAtEnd} : Answer("readNext", status)
    BY <1>2 DEF ReadNextAtEnd
  <2>2. Readable /\ UNCHANGED <<store, mode, currentIndex>>
    BY <1>2 DEF ReadNextAtEnd
  <2>3. Keyed!Only("readNext", status)
    BY <2>1, <2>2, KeyedAnswers, SameRecords DEF Keyed!Only
  <2>4. Keyed!ScanEnd
    BY <2>1, <2>2, <2>3, KeyedView, KeyedStatuses DEF Keyed!ScanEnd
  <2>5. QED
    BY <2>4 DEF Keyed!Next
<1>3. CASE ReadDenied
  <2>1. Keyed!Denied
    BY <1>3, KeyedAnswers, KeyedView, KeyedStatuses DEF ReadDenied, Keyed!Denied
  <2>2. QED
    BY <2>1 DEF Keyed!Next
<1>4. ASSUME NEW i \in Indexes, NEW p \in Probes, ReadKeyFound(i, p) PROVE Keyed!Next
  <2> DEFINE e == indices[i]
             n == Lower(i, p) + 1
             o == e[n].offset
             k == disk[o].pk
  <2>1. /\ Readable /\ Lower(i, p) < Upper(i, p) /\ mode # "Closed"
        /\ Deliver("readKey", SuccessStatus(i, n), disk[o])
        /\ UNCHANGED store /\ mode' = mode /\ currentIndex' = i
    BY <1>4 DEF ReadKeyFound, Readable
  <2>2. /\ mode \in {"Input", "Output", "IoMode"} /\ p[1] \in Nat /\ p[2] \in Nat
        /\ Lower(i, p) \in 0..Len(e) /\ Upper(i, p) \in 0..Len(e) /\ Len(e) \in Nat
        /\ DOMAIN e = 1..Len(e)
        /\ \A j \in DOMAIN e : /\ e[j].key \in Nat
                               /\ e[j].key < p[1] <=> j <= Lower(i, p)
                               /\ e[j].key <= p[2] <=> j <= Upper(i, p)
    BY <2>1, BoundsMatch
  <2>3. /\ \A j \in DOMAIN e : /\ e[j].offset \in Live(disk)
                               /\ e[j].key = Keyed!KeyIn(i, disk[e[j].offset].pk)
                               /\ disk[e[j].offset].pk \in Keyed!Present
                               /\ disk[e[j].offset].pk \in PrimaryKeys
        /\ \A m \in Keyed!Present : \E j \in DOMAIN e :
              /\ e[j].key = Keyed!KeyIn(i, m) /\ m = disk[e[j].offset].pk
    BY <2>1, BoundsMatch
  <2>4. /\ n \in DOMAIN e /\ ~(n <= Lower(i, p)) /\ n <= Upper(i, p)
    BY <2>1, <2>2
  <2>5. Keyed!FoundStatus(i, k) = SuccessStatus(i, n) /\ IsSorted(e)
    BY <2>2, <2>4, SharedByNeighbour, InvFacts DEF StoreInv
  <2> HIDE DEF e, n
  <2>6. Keyed!KeyIn(i, k) = e[n].key /\ k \in Keyed!Present /\ k \in PrimaryKeys /\ o \in Live(disk)
    BY <2>3, <2>4
  <2>7. k \in Keyed!Matching(i, p)
    BY <2>2, <2>4, <2>6 DEF Keyed!Matching
  <2>8. ASSUME NEW j \in Keyed!Matching(i, p) PROVE Keyed!KeyIn(i, k) <= Keyed!KeyIn(i, j)
    <3>1. PICK m \in DOMAIN e : e[m].key = Keyed!KeyIn(i, j)
      BY <2>3, <2>8 DEF Keyed!Matching
    <3>2. e[m].key \in p[1]..p[2]
      BY <2>8, <3>1 DEF Keyed!Matching
    <3>3. ~(m <= Lower(i, p))
      BY <2>2, <3>1, <3>2
    <3>4. m = n \/ n < m
      BY <2>2, <3>1, <3>3 DEF n
    <3>5. e[n].key <= e[m].key
      BY <2>2, <2>4, <2>5, <3>1, <3>4 DEF IsSorted
    <3>6. QED
      BY <2>6, <3>1, <3>5
  <2>9. Keyed!Readable /\ Keyed!Gives("readKey", SuccessStatus(i, n), k)
    BY <2>1, <2>6, KeyedView
  <2>10. Keyed!Fetch(i, p, k)
    BY <2>1, <2>5, <2>7, <2>8, <2>9, SameRecords DEF Keyed!Fetch
  <2> HIDE DEF k
  <2>11. i \in 1..2
    BY DEF Indexes, Primary, Alternate
  <2>12. QED
    BY <2>6, <2>10, <2>11 DEF Keyed!Next
<1>5. ASSUME NEW i \in Indexes, NEW p \in Probes, ReadKeyNotFound(i, p) PROVE Keyed!Next
  <2> DEFINE e == indices[i]
  <2>1. /\ Readable /\ Lower(i, p) >= Upper(i, p) /\ mode # "Closed"
        /\ UNCHANGED <<store, mode, currentIndex>> /\ Answer("readKey", FsRecNotFound)
    BY <1>5 DEF ReadKeyNotFound, Readable
  <2>2. /\ p[1] \in Nat /\ p[2] \in Nat
        /\ Lower(i, p) \in 0..Len(e) /\ Upper(i, p) \in 0..Len(e) /\ Len(e) \in Nat
        /\ DOMAIN e = 1..Len(e)
        /\ \A j \in DOMAIN e : /\ e[j].key \in Nat
                               /\ e[j].key < p[1] <=> j <= Lower(i, p)
                               /\ e[j].key <= p[2] <=> j <= Upper(i, p)
        /\ \A m \in Keyed!Present : \E j \in DOMAIN e : e[j].key = Keyed!KeyIn(i, m)
    BY <2>1, BoundsMatch
  <2> HIDE DEF e
  <2>3. Keyed!Matching(i, p) = {}
    <3>1. SUFFICES ASSUME NEW k \in Keyed!Matching(i, p) PROVE FALSE
      OBVIOUS
    <3>2. k \in Keyed!Present /\ Keyed!KeyIn(i, k) \in p[1]..p[2]
      BY DEF Keyed!Matching
    <3>3. PICK j \in DOMAIN e : e[j].key = Keyed!KeyIn(i, k)
      BY <2>2, <3>2
    <3>4. ~(j <= Lower(i, p)) /\ j <= Upper(i, p)
      BY <2>2, <3>2, <3>3
    <3>5. QED
      BY <2>1, <2>2, <3>3, <3>4
  <2>4. Keyed!Readable /\ Keyed!Only("readKey", FsRecNotFound)
    BY <2>1, KeyedView, KeyedAnswers, SameRecords DEF Keyed!Only
  <2>5. Keyed!FetchNothing(i, p) /\ i \in 1..2
    BY <2>3, <2>4, KeyedStatuses DEF Keyed!FetchNothing, Indexes, Primary, Alternate
  <2>6. QED
    BY <2>5 DEF Keyed!Next
<1>6. QED
  BY <1>1, <1>2, <1>3, <1>4, <1>5 DEF Read

LEMMA StartMaps ==
  ASSUME "Extend" \notin OpenModes, StoreInv, Start
  PROVE  Keyed!Next
<1>1. CASE StartUnopened
  <2>1. Keyed!Denied
    BY <1>1, KeyedAnswers, KeyedStatuses DEF StartUnopened, Keyed!Denied
  <2>2. QED
    BY <2>1 DEF Keyed!Next
<1>2. ASSUME NEW i \in Indexes, NEW p \in Probes, NEW rel \in Relations,
             StartFound(i, p, rel) \/ StartNotFound(i, p, rel)
      PROVE  Keyed!Next
  <2> DEFINE e == indices[i]
  <2>1. mode # "Closed" /\ i \in 1..2 /\ rel \in Keyed!Relations
    BY <1>2 DEF StartFound, StartNotFound, Indexes, Primary, Alternate, Relations, Keyed!Relations
  <2>2. /\ p[1] \in Nat /\ p[2] \in Nat
        /\ Lower(i, p) \in 0..Len(e) /\ Upper(i, p) \in 0..Len(e) /\ Len(e) \in 0..MaxSlots
        /\ MaxSlots \in Nat /\ DOMAIN e = 1..Len(e)
        /\ \A j \in DOMAIN e : /\ e[j].key \in Nat
                               /\ e[j].key < p[1] <=> j <= Lower(i, p)
                               /\ e[j].key <= p[2] <=> j <= Upper(i, p)
    BY <2>1, BoundsMatch
  <2>3. /\ \A j \in DOMAIN e : \E k \in Keyed!Present : e[j].key = Keyed!KeyIn(i, k)
        /\ \A k \in Keyed!Present : \E j \in DOMAIN e : e[j].key = Keyed!KeyIn(i, k)
    BY <2>1, BoundsMatch
  <2> DEFINE Holds(key) == \/ rel = "EQ" /\ key \in p[1]..p[2]
                           \/ rel = "GT" /\ key > p[2]
                           \/ rel = "GE" /\ key >= p[1]
                           \/ rel = "LT" /\ key < p[1]
                           \/ rel = "LE" /\ key <= p[2]
  <2>4. \A k : Keyed!Related(i, p, rel, k) <=> Holds(Keyed!KeyIn(i, k))
    BY DEF Keyed!Related
  <2>5. (\E k \in Keyed!Present : Keyed!Related(i, p, rel, k)) <=> \E j \in DOMAIN e : Holds(e[j].key)
    <3> HIDE DEF Holds, e
    <3>1. QED
      BY <2>3, <2>4
  <2>6. (\E n \in 0..MaxSlots : StartTarget(i, p, rel, n)) <=> \E j \in DOMAIN e : Holds(e[j].key)
    <3> DEFINE l == Lower(i, p)
               u == Upper(i, p)
    <3>1. \A n \in Nat : StartTarget(i, p, rel, n) <=>
            \/ rel = "EQ" /\ n = l /\ n < u
            \/ rel = "GT" /\ n = u /\ n < Len(e)
            \/ rel = "GE" /\ n = l /\ n < Len(e)
            \/ rel = "LT" /\ n = l - 1 /\ n >= 0
            \/ rel = "LE" /\ n = u - 1 /\ n >= 0
      BY DEF StartTarget
    <3> HIDE DEF l, u, e
    <3>2. /\ l \in 0..Len(e) /\ u \in 0..Len(e) /\ Len(e) \in 0..MaxSlots /\ MaxSlots \in Nat
          /\ DOMAIN e = 1..Len(e)
          /\ \A j \in 1..Len(e) : /\ e[j].key \in Nat
                                  /\ e[j].key < p[1] <=> j <= l
                                  /\ e[j].key <= p[2] <=> j <= u
      BY <2>2 DEF l, u
    <3>3. CASE rel = "EQ"
      <4>1. (\E j \in DOMAIN e : Holds(e[j].key)) <=> l < u
        <5>1. ASSUME NEW j \in 1..Len(e), e[j].key \in p[1]..p[2] PROVE l < u
          BY <2>2, <3>2, <5>1
        <5>2. ASSUME l < u PROVE l + 1 \in 1..Len(e) /\ e[l + 1].key \in p[1]..p[2]
          <6>1. l + 1 \in 1..Len(e) /\ ~(l + 1 <= l) /\ l + 1 <= u
            BY <3>2, <5>2
          <6>2. QED
            BY <2>2, <3>2, <6>1
        <5>3. QED
          BY <3>2, <3>3, <5>1, <5>2
      <4>2. QED
        BY <3>1, <3>2, <3>3, <4>1
    <3>4. CASE rel = "GT"
      <4>1. (\E j \in DOMAIN e : Holds(e[j].key)) <=> u < Len(e)
        <5>1. ASSUME NEW j \in 1..Len(e), e[j].key > p[2] PROVE u < Len(e)
          BY <2>2, <3>2, <5>1
        <5>2. ASSUME u < Len(e) PROVE u + 1 \in 1..Len(e) /\ e[u + 1].key > p[2]
          <6>1. u + 1 \in 1..Len(e) /\ ~(u + 1 <= u)
            BY <3>2, <5>2
          <6>2. QED
            BY <2>2, <3>2, <6>1
        <5>3. QED
          BY <3>2, <3>4, <5>1, <5>2
      <4>2. QED
        BY <3>1, <3>2, <3>4, <4>1
    <3>5. CASE rel = "GE"
      <4>1. (\E j \in DOMAIN e : Holds(e[j].key)) <=> l < Len(e)
        <5>1. ASSUME NEW j \in 1..Len(e), e[j].key >= p[1] PROVE l < Len(e)
          BY <2>2, <3>2, <5>1
        <5>2. ASSUME l < Len(e) PROVE l + 1 \in 1..Len(e) /\ e[l + 1].key >= p[1]
          <6>1. l + 1 \in 1..Len(e) /\ ~(l + 1 <= l)
            BY <3>2, <5>2
          <6>2. QED
            BY <2>2, <3>2, <6>1
        <5>3. QED
          BY <3>2, <3>5, <5>1, <5>2
      <4>2. QED
        BY <3>1, <3>2, <3>5, <4>1
    <3>6. CASE rel = "LT"
      <4>1. (\E j \in DOMAIN e : Holds(e[j].key)) <=> l >= 1
        <5>1. ASSUME NEW j \in 1..Len(e), e[j].key < p[1] PROVE l >= 1
          BY <2>2, <3>2, <5>1
        <5>2. ASSUME l >= 1 PROVE l \in 1..Len(e) /\ e[l].key < p[1]
          BY <2>2, <3>2, <5>2
        <5>3. QED
          BY <3>2, <3>6, <5>1, <5>2
      <4>2. \A n \in 0..MaxSlots : StartTarget(i, p, rel, n) <=> n = l - 1
        BY <3>1, <3>2, <3>6
      <4>3. (\E n \in 0..MaxSlots : n = l - 1) <=> l >= 1
        BY <3>2
      <4> HIDE DEF Holds
      <4>4. QED
        BY ONLY <4>1, <4>2, <4>3
    <3>7. CASE rel = "LE"
      <4>1. (\E j \in DOMAIN e : Holds(e[j].key)) <=> u >= 1
        <5>1. ASSUME NEW j \in 1..Len(e), e[j].key <= p[2] PROVE u >= 1
          BY <2>2, <3>2, <5>1
        <5>2. ASSUME u >= 1 PROVE u \in 1..Len(e) /\ e[u].key <= p[2]
          BY <2>2, <3>2, <5>2
        <5>3. \A key : Holds(key) <=> key <= p[2]
          BY <3>7
        <5>4. DOMAIN e = 1..Len(e)
          BY <3>2
        <5> HIDE DEF Holds
        <5>5. QED
          BY <5>1, <5>2, <5>3, <5>4
      <4>2. \A n \in 0..MaxSlots : StartTarget(i, p, rel, n) <=> n = u - 1
        BY <3>1, <3>2, <3>7
      <4>3. (\E n \in 0..MaxSlots : n = u - 1) <=> u >= 1
        BY <3>2
      <4> HIDE DEF Holds
      <4>4. QED
        BY ONLY <4>1, <4>2, <4>3
    <3>8. QED
      BY <3>3, <3>4, <3>5, <3>6, <3>7 DEF Relations
  <2> HIDE DEF Holds
  <2>7. CASE StartFound(i, p, rel)
    <3>1. \E k \in Keyed!Present : Keyed!Related(i, p, rel, k)
      BY <2>5, <2>6, <2>7 DEF StartFound
    <3>2. currentIndex' = i /\ UNCHANGED store /\ mode' = mode /\ Keyed!Says("start", FsOk)
      BY <2>7, KeyedAnswers DEF StartFound
    <3>3. Keyed!Position(i, p, rel)
      BY <2>1, <3>1, <3>2, KeyedStatuses, SameRecords DEF Keyed!Position
    <3>4. QED
      BY <2>1, <3>3 DEF Keyed!Next
  <2>8. CASE StartNotFound(i, p, rel)
    <3>1. ~ \E k \in Keyed!Present : Keyed!Related(i, p, rel, k)
      BY <2>5, <2>6, <2>8 DEF StartNotFound
    <3>2. Keyed!Only("start", FsRecNotFound)
      BY <2>8, KeyedAnswers DEF StartNotFound
    <3>3. Keyed!PositionNothing(i, p, rel)
      BY <2>1, <3>1, <3>2, KeyedStatuses DEF Keyed!PositionNothing
    <3>4. QED
      BY <2>1, <3>3 DEF Keyed!Next
  <2>9. QED
    BY <1>2, <2>7, <2>8
<1>3. QED
  BY <1>1, <1>2 DEF Start

(* The searches of WRITE and REWRITE find a key exactly when a record has  *)
(* it.                                                                     *)
LEMMA HasKeyMeans ==
  ASSUME StoreInv, mode \in {"Input", "Output", "IoMode"}, NEW i \in Indexes, NEW k
  PROVE  HasKey(indices[i], k) <=> \E o \in Live(disk) : KeyOf(i, disk[o]) = k
<1>1. indices[i] \in Seq(Entries) /\ Matches(i, indices[i], disk) /\ disk \in Disks
  BY InvFacts DEF StoreInv
<1>2. ASSUME HasKey(indices[i], k) PROVE \E o \in Live(disk) : KeyOf(i, disk[o]) = k
  BY <1>1, <1>2, MatchingEntries DEF HasKey
<1>3. ASSUME NEW o \in Live(disk), KeyOf(i, disk[o]) = k PROVE HasKey(indices[i], k)
  BY <1>3, LiveHasKey DEF StoreInv
<1>4. QED
  BY <1>2, <1>3

LEMMA OpenForUpdate ==
  ASSUME StoreInv, "Extend" \notin OpenModes, mode # "Closed"
  PROVE  mode \in {"Input", "Output", "IoMode"}
BY ModesAssumption DEF StoreInv, IInv, TypeOK

LEMMA KeyOfIndexes ==
  ASSUME NEW r
  PROVE  /\ Indexes = {Primary, Alternate} /\ Primary # Alternate
         /\ KeyOf(Primary, r) = r.pk /\ KeyOf(Alternate, r) = r.alt
         /\ ~NotUnique(Primary) /\ (NotUnique(Alternate) <=> AltDuplicates)
BY DEF Indexes, Primary, Alternate, KeyOf, NotUnique

(* What the key checks of WRITE find.                                      *)
LEMMA DuplicatesMeans ==
  ASSUME StoreInv, mode \in {"Input", "Output", "IoMode"}, NEW r \in Records
  PROVE  DuplicatesKey(r) <=> r.pk \in Stored(disk) \/ Keyed!AltTaken(r.pk, r.alt)
<1>1. DuplicatesKey(r) <=> \/ HasKey(indices[Primary], r.pk)
                           \/ ~AltDuplicates /\ HasKey(indices[Alternate], r.alt)
  BY KeyOfIndexes DEF DuplicatesKey
<1>2. HasKey(indices[Primary], r.pk) <=> \E o \in Live(disk) : disk[o].pk = r.pk
  BY HasKeyMeans, KeyOfIndexes
<1>3. HasKey(indices[Alternate], r.alt) <=> \E o \in Live(disk) : disk[o].alt = r.alt
  BY HasKeyMeans, KeyOfIndexes
<1>4. Keyed!AltTaken(r.pk, r.alt) <=>
        ~AltDuplicates /\ \E o \in Live(disk) : disk[o].pk # r.pk /\ disk[o].alt = r.alt
  BY KeyedView
<1>5. r.pk \in Stored(disk) <=> \E o \in Live(disk) : disk[o].pk = r.pk
  BY DEF Stored
<1>6. QED
  BY <1>1, <1>2, <1>3, <1>4, <1>5

LEMMA WriteRecordMaps ==
  ASSUME "Extend" \notin OpenModes, StoreInv, StoreInv', NEW r \in Records, WriteRecord(r)
  PROVE  Keyed!Insert(r.pk, r.alt)
<1> DEFINE n == Len(disk) + 1
           g == [j \in Stored(disk) \cup {r.pk} |-> IF j = r.pk THEN r.alt ELSE RecordsOf(disk)[j]]
<1>1. /\ Writable /\ ~DuplicatesKey(r) /\ Len(disk) < MaxSlots /\ disk' = Append(disk, r)
      /\ buffered' \in (IF mode = "IoMode" THEN {0} ELSE {0, 1})
      /\ mode' = mode /\ currentIndex' = currentIndex /\ mode # "Closed"
      /\ Answer("write", FsOk)
  BY DEF WriteRecord, Writable
<1>2. disk \in Disks /\ OneRecordPerKey(disk) /\ mode \in {"Input", "Output", "IoMode"}
  BY <1>1, KeyedView, OpenForUpdate
<1>3. disk' \in Disks
  BY InvFacts DEF StoreInv, IInv, TypeOK, Disks, Slots
<1>4. OneRecordPerKey(disk')
  BY DEF StoreInv, KeysUnique, OneRecordPerKey, NotUnique, KeyOf, Indexes, Primary, Alternate, Live
<1>5. r.pk \notin Stored(disk) /\ ~Keyed!AltTaken(r.pk, r.alt)
  BY <1>1, <1>2, DuplicatesMeans
<1>6. /\ Len(disk) \in Nat /\ DOMAIN disk = 1..Len(disk) /\ disk \in Seq(Slots) /\ r \in Slots
  BY <1>2, DiskSlots DEF Disks, Slots
<1>7. disk'[n] = r /\ (\A o \in 1..Len(disk) : disk'[o] = disk[o]) /\ Len(disk') = n /\ n \in Nat
  BY <1>1, <1>6
<1>8. Live(disk') = Live(disk) \cup {n}
  <2>1. disk' = Appended(disk, r) /\ Primary \in Indexes
    BY <1>1, KeyOfIndexes DEF Appended
  <2>2. QED
    BY <1>1, <1>2, <2>1, LiveEntriesAppend
<1>9. \A o \in Live(disk) : o # n /\ disk'[o] = disk[o]
  BY <1>6, <1>7 DEF Live
<1>10. LastKeys(disk', buffered') \in IF mode = "IoMode" THEN {{}} ELSE {{}, {r.pk}}
  <2>1. CASE buffered' = 0
    BY <1>3, <2>1, NothingBuffered
  <2>2. CASE buffered' = 1
    <3>1. (Len(disk') - buffered' + 1)..Len(disk') = {n}
      BY <1>7, <2>2
    <3> HIDE DEF n
    <3>2. LastKeys(disk', buffered') = {r.pk}
      BY <1>7, <3>1 DEF LastKeys
    <3>3. QED
      BY <1>1, <2>2, <3>2
  <2>3. QED
    BY <1>1, <2>1, <2>2
<1> HIDE DEF n
<1>11. Stored(disk') = Stored(disk) \cup {r.pk}
  BY <1>7, <1>8, <1>9 DEF Stored
<1>12. RecordsOf(disk') = g
  <2>1. \A o \in Live(disk') : g[disk'[o].pk] = disk'[o].alt
    <3>1. g[disk'[n].pk] = disk'[n].alt
      BY <1>7
    <3>2. ASSUME NEW o \in Live(disk) PROVE g[disk'[o].pk] = disk'[o].alt
      <4>1. /\ disk'[o] = disk[o] /\ disk[o].pk \in Stored(disk) /\ disk[o].pk # r.pk
            /\ RecordsOf(disk)[disk[o].pk] = disk[o].alt
        BY <1>2, <1>5, <1>9, RecordsOfSlots
      <4>2. QED
        BY <4>1
    <3>3. QED
      BY <1>8, <3>1, <3>2
  <2>2. g = [j \in Stored(disk') |-> g[j]]
    BY <1>11
  <2> HIDE DEF g
  <2>3. QED
    BY <1>3, <1>4, <2>1, <2>2, RecordsOfIsOnly
<1>13. Keyed!Says("write", FsOk) /\ Keyed!Writable /\ Keyed!Present = Stored(disk)
  BY <1>1, KeyedAnswers, KeyedView
<1>14. QED
  BY <1>1, <1>5, <1>10, <1>12, <1>13, MappedRecords, KeyedStatuses DEF Keyed!Insert

LEMMA WriteMaps ==
  ASSUME "Extend" \notin OpenModes, StoreInv, StoreInv', Write
  PROVE  Keyed!Next
<1>1. \A r \in Records : r.pk \in PrimaryKeys /\ r.alt \in AlternateKeys
  BY DEF Records
<1>2. ASSUME NEW r \in Records, WriteRecord(r) PROVE Keyed!Next
  BY <1>1, <1>2, WriteRecordMaps DEF Keyed!Next
<1>3. ASSUME NEW r \in Records, WriteDuplicate(r) PROVE Keyed!Next
  <2>1. Writable /\ DuplicatesKey(r) /\ mode # "Closed" /\ Keyed!Only("write", FsDuplicateKey)
    BY <1>3, KeyedAnswers DEF WriteDuplicate, Writable
  <2>2. r.pk \in Stored(disk) \/ Keyed!AltTaken(r.pk, r.alt)
    BY <2>1, DuplicatesMeans, OpenForUpdate
  <2>3. Keyed!InsertRefused(r.pk, r.alt)
    BY <2>1, <2>2, KeyedView, KeyedStatuses DEF Keyed!InsertRefused
  <2>4. QED
    BY <1>1, <2>3 DEF Keyed!Next
<1>4. ASSUME NEW r \in Records, WriteOutOfSequence(r) PROVE Keyed!Next
  <2> DEFINE e == indices[Primary]
  <2>1. /\ Writable /\ mode # "Closed" /\ Keyed!Only("write", FsSequenceError)
        /\ Access = "Sequential" /\ e # << >> /\ e[Len(e)].key >= r.pk
    BY <1>4, KeyedAnswers DEF WriteOutOfSequence, OutOfSequence, Writable
  <2>2. e \in Seq(Entries) /\ Matches(Primary, e, disk) /\ disk \in Disks /\ Primary \in Indexes
    BY <2>1, OpenForUpdate, InvFacts DEF StoreInv, Indexes
  <2> HIDE DEF e
  <2>3. Len(e) \in DOMAIN e
    BY <2>1, <2>2
  <2>4. e[Len(e)].offset \in Live(disk) /\ e[Len(e)].key = disk[e[Len(e)].offset].pk
    BY <2>2, <2>3, MatchingEntries, KeyOfIndexes
  <2>5. disk[e[Len(e)].offset].pk \in Keyed!Present /\ Keyed!Writable
    BY <2>1, <2>4, KeyedView
  <2>6. Keyed!InsertRefused(r.pk, r.alt)
    BY <2>1, <2>4, <2>5, KeyedStatuses DEF Keyed!InsertRefused
  <2>7. QED
    BY <1>1, <2>6 DEF Keyed!Next
<1>5. CASE WriteDenied
  <2>1. Keyed!Denied
    BY <1>5, KeyedAnswers, KeyedView, KeyedStatuses DEF WriteDenied, Keyed!Denied
  <2>2. QED
    BY <2>1 DEF Keyed!Next
<1>6. QED
  BY <1>2, <1>3, <1>4, <1>5 DEF Write

(* An update of the file outside OPEN OUTPUT has nothing in the buffer.    *)
LEMMA UpdatedRecords ==
  ASSUME StoreInv, StoreInv', mode = "IoMode", mode' = mode, buffered' = buffered
  PROVE  /\ disk \in Disks /\ disk' \in Disks /\ OneRecordPerKey(disk) /\ OneRecordPerKey(disk')
         /\ {disk[o].pk : o \in (Len(disk) - buffered + 1)..Len(disk)}'
              = {disk[o].pk : o \in (Len(disk) - buffered + 1)..Len(disk)}
<1>1. disk \in Disks /\ OneRecordPerKey(disk)
  BY KeyedView
<1>2. disk' \in Disks
  BY InvFacts DEF StoreInv, IInv, TypeOK, Disks, Slots
<1>3. OneRecordPerKey(disk')
  BY DEF StoreInv, KeysUnique, OneRecordPerKey, NotUnique, KeyOf, Indexes, Primary, Alternate, Live
<1>4. buffered = 0 /\ buffered' = 0
  BY DEF StoreInv, BufferInv
<1>5. LastKeys(disk, buffered) = {} /\ LastKeys(disk', buffered') = {}
  BY <1>1, <1>2, <1>4, NothingBuffered
<1>6. QED
  BY <1>1, <1>2, <1>3, <1>5, MappedRecords

LEMMA RewriteRecordMaps ==
  ASSUME StoreInv, StoreInv', NEW r \in Records, RewriteRecord(r)
  PROVE  Keyed!Update(r.pk, r.alt)
<1> DEFINE o == OffsetOfRecord(r)
           g == [RecordsOf(disk) EXCEPT ![r.pk] = r.alt]
<1>1. /\ mode = "IoMode" /\ Known(r) /\ ~ClashesWithOther(r, o)
      /\ disk' = [disk EXCEPT ![o] = r]
      /\ mode' = mode /\ currentIndex' = currentIndex /\ buffered' = buffered
      /\ Answer("rewrite", FsOk)
  BY DEF RewriteRecord
<1>2. o \in Live(disk) /\ disk[o].pk = r.pk
  BY <1>1, OffsetOfRecordFinds DEF StoreInv
<1> HIDE DEF o
<1>3. disk \in Disks /\ disk' \in Disks /\ OneRecordPerKey(disk) /\ OneRecordPerKey(disk')
  BY <1>1, UpdatedRecords
<1>4. r # Erased
  BY ErasedNotRecord
<1>5. /\ Live(disk') = Live(disk) /\ disk'[o] = r
      /\ \A p \in Live(disk) : p # o => disk'[p] = disk[p] /\ disk[p].pk # r.pk
  BY <1>1, <1>2, <1>3, <1>4 DEF Live, OneRecordPerKey
<1>6. Stored(disk') = Stored(disk)
  BY <1>2, <1>5 DEF Stored
<1>7. DOMAIN RecordsOf(disk) = Stored(disk) /\ r.pk \in Stored(disk)
  BY <1>2, <1>3, RecordsOfSlots
<1>8. RecordsOf(disk') = g
  <2>1. g = [j \in Stored(disk') |-> g[j]]
    <3> DEFINE h == RecordsOf(disk)
    <3>1. h = [j \in Stored(disk) |-> h[j]]
      BY DEF RecordsOf
    <3> HIDE DEF h
    <3> DEFINE e == [h EXCEPT ![r.pk] = r.alt]
    <3>2. e = [j \in Stored(disk) |-> e[j]]
      BY <3>1
    <3>3. g = e
      BY DEF h
    <3> HIDE DEF e, g
    <3>4. QED
      BY <1>6, <3>2, <3>3
  <2>2. g[r.pk] = r.alt /\ \A k \in Stored(disk) : k # r.pk => g[k] = RecordsOf(disk)[k]
    BY <1>7
  <2>3. \A p \in Live(disk) : disk[p].pk \in Stored(disk) /\ RecordsOf(disk)[disk[p].pk] = disk[p].alt
    BY <1>3, RecordsOfSlots
  <2> HIDE DEF g
  <2>4. \A p \in Live(disk') : g[disk'[p].pk] = disk'[p].alt
    BY <1>5, <2>2, <2>3
  <2>5. QED
    BY <1>3, <2>1, <2>4, RecordsOfIsOnly
<1>9. ~Keyed!AltTaken(r.pk, r.alt)
  <2>1. SUFFICES ASSUME ~AltDuplicates, NEW p \in Live(disk), disk[p].pk # r.pk, disk[p].alt = r.alt
                 PROVE  FALSE
    BY KeyedView
  <2>2. HasKey(indices[Alternate], r.alt) /\ Alternate \in Indexes
    BY <1>1, <2>1, HasKeyMeans, KeyOfIndexes
  <2>3. r.alt \in Nat
    BY KeysAssumption DEF Records
  <2>4. /\ OffsetOf(indices[Alternate], r.alt) \in Live(disk)
        /\ disk[OffsetOf(indices[Alternate], r.alt)].alt = r.alt
    BY <1>1, <2>2, <2>3, OffsetOfFinds, KeyOfIndexes DEF StoreInv
  <2>5. OffsetOf(indices[Alternate], r.alt) = o
    BY <1>1, <2>1, <2>2, KeyOfIndexes DEF ClashesWithOther
  <2>6. p = o
    BY <2>1, <2>2, <2>4, <2>5, KeyOfIndexes DEF StoreInv, KeysUnique
  <2>7. QED
    BY <1>2, <2>1, <2>6
<1>10. /\ [k \in StoredKeys |-> StoredAlternate(k)]'
            = [[k \in StoredKeys |-> StoredAlternate(k)] EXCEPT ![r.pk] = r.alt]
       /\ {disk[p].pk : p \in (Len(disk) - buffered + 1)..Len(disk)}'
            = {disk[p].pk : p \in (Len(disk) - buffered + 1)..Len(disk)}
  BY <1>1, <1>8, MappedRecords, UpdatedRecords
<1>11. Keyed!Says("rewrite", FsOk) /\ r.pk \in Keyed!Present
  BY <1>1, <1>7, KeyedAnswers, KeyedView
<1>12. QED
  BY <1>1, <1>9, <1>10, <1>11, KeyedStatuses DEF Keyed!Update

LEMMA RewriteMaps ==
  ASSUME StoreInv, StoreInv', Rewrite
  PROVE  Keyed!Next
<1>1. \A r \in Records : r.pk \in PrimaryKeys /\ r.alt \in AlternateKeys
  BY DEF Records
<1>2. ASSUME NEW r \in Records, RewriteRecord(r) PROVE Keyed!Next
  BY <1>1, <1>2, RewriteRecordMaps DEF Keyed!Next
<1>3. ASSUME NEW r \in Records, RewriteClash(r) PROVE Keyed!Next
  <2> DEFINE o == OffsetOfRecord(r)
  <2>1. /\ mode = "IoMode" /\ Known(r) /\ ClashesWithOther(r, o)
        /\ Keyed!Only("rewrite", FsDuplicateKey)
    BY <1>3, KeyedAnswers DEF RewriteClash
  <2>2. o \in Live(disk) /\ disk[o].pk = r.pk
    BY <2>1, OffsetOfRecordFinds DEF StoreInv
  <2>3. /\ ~AltDuplicates /\ HasKey(indices[Alternate], r.alt)
        /\ OffsetOf(indices[Alternate], r.alt) # o
    BY <2>1, KeyOfIndexes DEF ClashesWithOther, OffsetOfRecord
  <2> HIDE DEF o
  <2> DEFINE p == OffsetOf(indices[Alternate], r.alt)
  <2>4. r.alt \in Nat /\ Alternate \in Indexes
    BY KeysAssumption, KeyOfIndexes DEF Records
  <2>5. p \in Live(disk) /\ disk[p].alt = r.alt
    BY <2>1, <2>3, <2>4, OffsetOfFinds, KeyOfIndexes DEF StoreInv
  <2>6. disk[p].pk # r.pk
    BY <2>2, <2>3, <2>5, KeyedView DEF OneRecordPerKey
  <2>7. Keyed!AltTaken(r.pk, r.alt)
    BY <2>3, <2>5, <2>6, KeyedView
  <2>8. r.pk \in Keyed!Present
    BY <2>2, KeyedView
  <2>9. Keyed!UpdateRefused(r.pk, r.alt)
    BY <2>1, <2>7, <2>8, KeyedStatuses DEF Keyed!UpdateRefused
  <2>10. QED
    BY <1>1, <2>9 DEF Keyed!Next
<1>4. ASSUME NEW r \in Records, RewriteUnknown(r) PROVE Keyed!Next
  <2>1. mode = "IoMode" /\ ~Known(r) /\ Keyed!Only("rewrite", FsRecNotFound)
    BY <1>4, KeyedAnswers DEF RewriteUnknown
  <2>2. r.pk \notin Keyed!Present
    <3>1. HasKey(indices[Primary], r.pk) <=> \E o \in Live(disk) : disk[o].pk = r.pk
      BY <2>1, HasKeyMeans, KeyOfIndexes
    <3>2. Keyed!Present = Stored(disk)
      BY KeyedView
    <3>3. QED
      BY <2>1, <3>1, <3>2 DEF Known, Stored
  <2>3. Keyed!UpdateRefused(r.pk, r.alt)
    BY <2>1, <2>2, KeyedStatuses DEF Keyed!UpdateRefused
  <2>4. QED
    BY <1>1, <2>3 DEF Keyed!Next
<1>5. CASE RewriteWithoutRead
  <2>1. mode = "IoMode" /\ Keyed!Only("rewrite", FsRewriteWithoutRead)
    BY <1>5, KeyedAnswers DEF RewriteWithoutRead
  <2>2. \A k, a : Keyed!UpdateRefused(k, a)
    BY <2>1, KeyedStatuses DEF Keyed!UpdateRefused
  <2>3. QED
    BY <2>2, KeysAssumption DEF Keyed!Next
<1>6. QED
  BY <1>2, <1>3, <1>4, <1>5 DEF Rewrite

LEMMA DeleteAtMaps ==
  ASSUME StoreInv, StoreInv', mode = "IoMode", NEW o \in Live(disk), DeleteAt(o)
  PROVE  Keyed!Remove(disk[o].pk) /\ disk[o].pk \in PrimaryKeys
<1> DEFINE k == disk[o].pk
           g == [j \in Stored(disk) \ {k} |-> RecordsOf(disk)[j]]
<1>1. /\ disk' = [disk EXCEPT ![o] = Erased] /\ buffered' = buffered
      /\ mode' = mode /\ currentIndex' = currentIndex /\ Answer("delete", FsOk)
  BY DEF DeleteAt
<1>2. disk \in Disks /\ disk' \in Disks /\ OneRecordPerKey(disk) /\ OneRecordPerKey(disk')
  BY <1>1, UpdatedRecords
<1>3. Live(disk') = Live(disk) \ {o} /\ \A p \in Live(disk') : disk'[p] = disk[p]
  BY <1>1 DEF Live
<1>4. \A p \in Live(disk) : disk[p].pk = k <=> p = o
  BY <1>2 DEF OneRecordPerKey
<1>5. k \in Stored(disk) /\ k \in PrimaryKeys
  BY <1>2, RecordsOfSlots
<1> HIDE DEF k
<1>6. Stored(disk') = Stored(disk) \ {k}
  BY <1>3, <1>4 DEF Stored
<1>7. RecordsOf(disk') = g
  <2>1. g = [j \in Stored(disk') |-> g[j]]
    BY <1>6
  <2>2. \A p \in Live(disk) : disk[p].pk \in Stored(disk) /\ RecordsOf(disk)[disk[p].pk] = disk[p].alt
    BY <1>2, RecordsOfSlots
  <2>3. \A p \in Live(disk') : g[disk'[p].pk] = disk'[p].alt
    BY <1>3, <1>4, <2>2
  <2> HIDE DEF g
  <2>4. QED
    BY <1>2, <2>1, <2>3, RecordsOfIsOnly
<1>8. Keyed!Says("delete", FsOk) /\ Keyed!Present = Stored(disk)
  BY <1>1, KeyedAnswers, KeyedView
<1>9. Keyed!Remove(k)
  BY <1>1, <1>5, <1>7, <1>8, MappedRecords, UpdatedRecords, KeyedStatuses DEF Keyed!Remove
<1>10. QED
  BY <1>5, <1>9 DEF k

LEMMA DeleteMaps ==
  ASSUME StoreInv, StoreInv', Delete
  PROVE  Keyed!Next
<1>1. ASSUME mode = "IoMode", NEW o \in Live(disk), DeleteAt(o) PROVE Keyed!Next
  BY <1>1, DeleteAtMaps DEF Keyed!Next
<1>2. ASSUME mode = "IoMode", Keyed!Only("delete", FsRecNotFound) PROVE Keyed!Next
  BY <1>2, KeyedStatuses DEF Keyed!RemoveNothing, Keyed!Next
<1>3. ASSUME NEW r \in Records, DeleteRecord(r) PROVE Keyed!Next
  BY <1>1, <1>3, OffsetOfRecordFinds DEF DeleteRecord, StoreInv
<1>4. ASSUME NEW r \in Records, DeleteUnknown(r) PROVE Keyed!Next
  <2>1. mode = "IoMode" /\ UNCHANGED <<store, mode, currentIndex>> /\ Keyed!Says("delete", FsRecNotFound)
    BY <1>4, KeyedAnswers DEF DeleteUnknown
  <2>2. QED
    BY <1>2, <2>1, SameRecords DEF Keyed!Only
<1>5. CASE DeleteCurrent
  <2>1. CASE currentOffset = None
    BY <1>2, <1>5, <2>1, KeyedAnswers DEF DeleteCurrent
  <2>2. CASE currentOffset # None
    BY <1>1, <1>5, <2>2 DEF DeleteCurrent, StoreInv, IInv, CursorConsistent
  <2>3. QED
    BY <2>1, <2>2
<1>6. QED
  BY <1>3, <1>4, <1>5 DEF Delete

LEMMA StepMaps ==
  ASSUME "Extend" \notin OpenModes, StoreInv, StoreInv', [Next]_vars
  PROVE  [Keyed!Next]_(Keyed!vars)
<1>1. CASE UNCHANGED vars
  BY <1>1, SameRecords DEF vars, cursor, Keyed!vars
<1>2. CASE Crash
  BY <1>2, CrashMaps DEF Keyed!Next
<1>3. CASE UpdateDenied
  <2>1. Keyed!Denied
    BY <1>3, KeyedAnswers, KeyedStatuses DEF UpdateDenied, Keyed!Denied
  <2>2. QED
    BY <2>1 DEF Keyed!Next
<1>4. QED
  BY <1>1, <1>2, <1>3, OpenMaps, CloseMaps, ReadMaps, StartMaps, WriteMaps, RewriteMaps,
     DeleteMaps DEF Next

(* Every call of an indexed file answers as the keyed set of records does: *)
(* what is written is what is later found, by either key and across CLOSE  *)
(* and OPEN, the statuses 02, 21, 22 and 23 are returned exactly when the  *)
(* records call for them, and a crash loses at most the record of the last *)
(* WRITE (all of cobol-runtime/src/file_io.rs for indexed files).          *)
THEOREM IndexedFileIsKeyedStore ==
  ASSUME "Extend" \notin OpenModes
  PROVE  Spec => ImplementsKeyedStore
<1>1. Init => Keyed!Init
  BY InitMaps
<1>2. StoreInv /\ StoreInv' /\ [Next]_vars => [Keyed!Next]_(Keyed!vars)
  BY StepMaps
<1>3. QED
  BY <1>1, <1>2, StoreInvHolds, PTL DEF Spec, ImplementsKeyedStore, Keyed!Spec
=============================================================================
