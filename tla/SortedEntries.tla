--------------------------- MODULE SortedEntries ---------------------------
(***************************************************************************)
(* The sorted vectors of (key, offset) pairs an indexed file keeps for     *)
(* each of its keys (FileIndex.entries in cobol-runtime/src/file_io.rs).   *)
(***************************************************************************)
EXTENDS Integers, Sequences, FiniteSets

(* The order of a stable sort by key of entries listed in offset order. *)
Before(a, b) == a.key < b.key \/ (a.key = b.key /\ a.offset < b.offset)

Sorted(E) ==
  [n \in 1..Cardinality(E) |->
     CHOOSE e \in E : Cardinality({f \in E : Before(f, e)}) = n - 1]

(* partition_point over sorted entries: how many keys are below k. *)
LowerBound(e, k) ==
  CHOOSE n \in 0..Len(e) : \A j \in DOMAIN e : e[j].key < k <=> j <= n
UpperBound(e, k) == LowerBound(e, k + 1)

InsertAfter(e, n, x) ==
  [j \in 1..(Len(e) + 1) |-> IF j <= n THEN e[j] ELSE IF j = n + 1 THEN x ELSE e[j - 1]]
RemovePosition(e, n) ==
  [j \in 1..(Len(e) - 1) |-> IF j < n THEN e[j] ELSE e[j + 1]]

(* Positions (from 1) in e of the entry of the record at offset o. *)
PositionsOf(e, o) == {j \in DOMAIN e : e[j].offset = o}
HasKey(e, k) == \E j \in DOMAIN e : e[j].key = k
OffsetOf(e, k) == e[LowerBound(e, k) + 1].offset

IsSorted(e) == \A m, n \in DOMAIN e : m < n => e[m].key <= e[n].key

(* e lists each element of E exactly once. *)
Enumerates(e, E) ==
  /\ \A n \in DOMAIN e : e[n] \in E
  /\ \A x \in E : \E n \in DOMAIN e : e[n] = x
  /\ \A m, n \in DOMAIN e : e[m] = e[n] => m = n
=============================================================================
