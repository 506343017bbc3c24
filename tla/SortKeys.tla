------------------------------ MODULE SortKeys ------------------------------
(***************************************************************************)
(* How the runtime orders two records of a SORT or MERGE                   *)
(* (cobol-runtime/src/sort_merge.rs): a record lies in the sort area as    *)
(* bytes, a key names some of them and a type the generated code chose     *)
(* from the picture of the field.  A record is here the tuple of the       *)
(* values of its fields; the bytes are what the generated code stores of   *)
(* them.                                                                   *)
(*                                                                         *)
(* A key is [field, usage, digits, ascending], field an index into the     *)
(* record and usage one of                                                 *)
(*   "X"                PIC X: the value is the code of the character      *)
(*   "Comp"             PIC S9(digits) COMP                                *)
(*   "Zoned"            PIC S9(digits), the sign in the last digit         *)
(*   "LeadingSeparate", "TrailingSeparate"  the sign in a byte of its own. *)
(***************************************************************************)
EXTENDS Integers, SequencesExt

Absolute(n) == IF n < 0 THEN -n ELSE n
Digit(n, place) == (Absolute(n) \div 10^place) % 10
Minus == 45
Plus == 43

(* '0' to '9', or '}', 'J' to 'R' for a last digit that bears the minus.   *)
Overpunched(digit) == IF digit = 0 THEN 125 ELSE 73 + digit

Digits(n, count) == [i \in 1..count |-> 48 + Digit(n, count - i)]
SignByte(n) == IF n < 0 THEN Minus ELSE Plus

BinaryBytes(digits) == IF digits <= 4 THEN 2 ELSE IF digits <= 9 THEN 4 ELSE 8

(* The bytes of a field that holds n.                                      *)
Stored(key, n) ==
  CASE key.usage = "X" -> <<n>>
    [] key.usage = "Comp" -> [i \in 1..BinaryBytes(key.digits) |-> (n \div 256^(i - 1)) % 256]
    [] key.usage = "Zoned" ->
         IF n < 0 THEN [Digits(n, key.digits) EXCEPT ![key.digits] = Overpunched(Digit(n, 0))]
                  ELSE Digits(n, key.digits)
    [] key.usage = "LeadingSeparate" -> <<SignByte(n)>> \o Digits(n, key.digits)
    [] key.usage = "TrailingSeparate" -> Digits(n, key.digits) \o <<SignByte(n)>>

(* What the generated code tells the runtime of a key.                     *)
KeyType(key) ==
  CASE key.usage = "Comp" -> IF key.digits <= 8 THEN "SignedBinary" ELSE "Alpha"
    [] key.usage = "X" -> "Alpha"
    [] OTHER -> "DisplayNumeric"

AlphaLess(a, b) ==
  \E i \in 1..Len(b) :
    /\ \A j \in 1..(i - 1) : j <= Len(a) /\ a[j] = b[j]
    /\ i > Len(a) \/ a[i] < b[i]

(* Little-endian, the last byte bears the sign.                            *)
SignedLe(bytes) ==
  LET top == Last(bytes)
  IN  FoldRight(LAMBDA byte, value : value * 256 + byte, Front(bytes),
                IF top >= 128 THEN top - 256 ELSE top)

IsSign(byte) == byte \in {Plus, Minus}

(* Bytes that are no digits are passed over.                               *)
Unsigned(bytes) ==
  FoldLeft(LAMBDA v, byte : IF byte \in 48..57 THEN v * 10 + byte - 48 ELSE v, 0, bytes)

(* Variant for a mutant: a trailing sign is passed over like any byte that *)
(* is no digit.                                                            *)
DisplayNumericLeadingOnly(bytes) ==
  LET value == Unsigned(bytes)
  IN  IF Head(bytes) = Minus THEN -value ELSE value

(* A sign at either end, the trailing one the stronger.                    *)
DisplayNumeric(bytes) ==
  LET value == Unsigned(bytes)
      sign == IF IsSign(Last(bytes)) THEN Last(bytes) ELSE Head(bytes)
  IN  IF sign = Minus THEN -value ELSE value

KeyLess(key, a, b) ==
  CASE KeyType(key) = "SignedBinary" -> SignedLe(a) < SignedLe(b)
    [] KeyType(key) = "DisplayNumeric" -> DisplayNumeric(a) < DisplayNumeric(b)
    [] KeyType(key) = "Alpha" -> AlphaLess(a, b)

(* compare_records answers Less: the first key that tells r from s puts r  *)
(* first.                                                                  *)
Precedes(keys, r, s) ==
  LET Before(i, x, y) == KeyLess(keys[i], Stored(keys[i], x[keys[i].field]),
                                          Stored(keys[i], y[keys[i].field]))
  IN  \E i \in 1..Len(keys) :
        /\ \A j \in 1..(i - 1) : ~Before(j, r, s) /\ ~Before(j, s, r)
        /\ IF keys[i].ascending THEN Before(i, r, s) ELSE Before(i, s, r)

(* Variant for a mutant: equal records change places.                      *)
SortedUnstable(keys, records) ==
  LET Ahead(sorted, r) == {i \in DOMAIN sorted : Precedes(keys, sorted[i], r)}
      Behind(r) == [sorted \in Seq(Range(records)) |->
                      InsertAt(sorted, Cardinality(Ahead(sorted, r)) + 1, r)]
  IN  FoldLeft(LAMBDA sorted, r : Behind(r)[sorted], <<>>, records)

(* sort_by, a stable sort: each record goes behind those it is not before. *)
Sorted(keys, records) ==
  LET Ahead(sorted, r) == {i \in DOMAIN sorted : ~Precedes(keys, r, sorted[i])}
      Behind(r) == [sorted \in Seq(Range(records)) |->
                      InsertAt(sorted, Cardinality(Ahead(sorted, r)) + 1, r)]
  IN  FoldLeft(LAMBDA sorted, r : Behind(r)[sorted], <<>>, records)

(***************************************************************************)
(* What COBOL says of the same records: by the values of the keys, equal   *)
(* ones in the order they came.                                            *)
(***************************************************************************)
ValueBefore(keys, r, s) ==
  \E i \in 1..Len(keys) :
    LET f == keys[i].field
    IN  /\ \A j \in 1..(i - 1) : r[keys[j].field] = s[keys[j].field]
        /\ IF keys[i].ascending THEN r[f] < s[f] ELSE r[f] > s[f]

Rank(keys, records, i) ==
  Cardinality({j \in 1..Len(records) :
                 \/ ValueBefore(keys, records[j], records[i])
                 \/ j <= i /\ ~ValueBefore(keys, records[i], records[j])})

InOrder(keys, records) ==
  [n \in 1..Len(records) |->
     records[CHOOSE i \in 1..Len(records) : Rank(keys, records, i) = n]]
=============================================================================
