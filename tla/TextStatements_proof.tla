------------------------ MODULE TextStatements_proof ------------------------
(***************************************************************************)
(* Proofs about STRING, UNSTRING and INSPECT, for any operands,            *)
(* delimiters, fields, items and markers.                                  *)
(***************************************************************************)
EXTENDS TextStatements, SequenceLemmas

-----------------------------------------------------------------------------
(* STRING *)

LEMMA PlacesAre ==
  ASSUME NEW text, NEW word, NEW first \in Nat, NEW last \in Nat, Len(word) \in Nat
  PROVE  /\ Places(text, word, first, last) \in SUBSET Nat
         /\ \A i \in Places(text, word, first, last) :
              first <= i /\ i + Len(word) <= last + 1 /\ word # <<>>
BY DEF Places

LEMMA DelimiterIs ==
  ASSUME NEW S, NEW text \in Seq(S), NEW word, IsText(word)
  PROVE  /\ FindDelimiter(text, word) \in 0..Len(text)
         /\ \A i \in Places(text, word, 1, Len(text)) : FindDelimiter(text, word) < i
         /\ Places(text, word, 1, Len(text)) # {} =>
              FindDelimiter(text, word) + 1 \in Places(text, word, 1, Len(text))
<1> DEFINE P == Places(text, word, 1, Len(text)) \cup {Len(text) + 1}
<1>1. Len(text) \in Nat /\ Len(word) \in Nat
  BY DEF IsText
<1>2. P \in SUBSET Nat /\ P # {} /\ \A i \in P : 1 <= i
  BY <1>1, PlacesAre
<1> HIDE DEF P
<1>3. Min(P) \in P /\ Min(P) <= Len(text) + 1
  <2>1. Len(text) + 1 \in P
    BY DEF P
  <2>2. QED
    BY <1>2, <2>1, MinIsLeast
<1>4. FindDelimiter(text, word) = Min(P) - 1
  BY DEF FindDelimiter, P
<1>5. Min(P) \in Nat /\ 1 <= Min(P)
  BY <1>2, <1>3
<1>6. /\ \A i \in Places(text, word, 1, Len(text)) : i \in Nat /\ Min(P) <= i /\ i <= Len(text)
      /\ \A i \in Places(text, word, 1, Len(text)) : Min(P) # Len(text) + 1
  <2>1. \A i \in Places(text, word, 1, Len(text)) : i \in P
    BY DEF P
  <2>2. \A i \in P : Min(P) <= i /\ i \in Nat
    BY <1>2, MinIsLeast
  <2>3. \A i \in Places(text, word, 1, Len(text)) : i <= Len(text)
    <3>1. \A i \in Places(text, word, 1, Len(text)) : i \in Nat /\ i + Len(word) <= Len(text) + 1 /\ word # <<>>
      BY <1>1, PlacesAre
    <3>2. word # <<>> => Len(word) # 0
      BY DEF IsText
    <3>3. QED
      BY <1>1, <3>1, <3>2
  <2>4. QED
    BY <1>1, <1>5, <2>1, <2>2, <2>3
<1>7. Places(text, word, 1, Len(text)) # {} => Min(P) \in Places(text, word, 1, Len(text))
  <2>1. Min(P) = Len(text) + 1 \/ Min(P) \in Places(text, word, 1, Len(text))
    BY <1>3 DEF P
  <2>2. QED
    BY <1>6, <2>1
<1> HIDE DEF P
<1>8. QED
  BY <1>1, <1>3, <1>4, <1>5, <1>6, <1>7

LEMMA EffectiveIs ==
  ASSUME NEW operands \in Operands
  PROVE  FlattenSeq([k \in 1..Len(operands) |-> Effective(operands[k])]) \in Seq(Char)
<1> DEFINE s == [k \in 1..Len(operands) |-> Effective(operands[k])]
<1>1. Len(operands) \in Nat
  BY TextAssumption DEF IsText
<1>2. ASSUME NEW k \in 1..Len(operands) PROVE Effective(operands[k]) \in Seq(Char)
  <2>1. IsText(operands[k].text) /\ IsText(operands[k].delimiter)
    BY TextAssumption
  <2>2. operands[k].text \in Seq(Char)
    <3>1. ToSet(operands[k].text) \subseteq Char
      BY DEF Char
    <3>2. QED
      BY <2>1, <3>1 DEF IsText
  <2>3. FindDelimiter(operands[k].text, operands[k].delimiter) \in 0..Len(operands[k].text)
    BY <2>1, <2>2, DelimiterIs
  <2>4. QED
    BY <2>2, <2>3, PrefixProperties DEF Effective
<1>3. s \in Seq(Seq(Char))
  BY <1>1, <1>2
<1>4. QED
  BY <1>3, FlattenType

\* The whole of what STRING did to the line.
IsLineOf(field, at, cut, all) ==
  /\ field = MoveString(all, LineWidth)
  /\ at = Min({Len(all), LineWidth}) + 1
  /\ cut <=> Len(all) > LineWidth

(* A STRING from behind the characters that were sent on puts its own      *)
(* behind them, as far as the line goes.                                   *)
LEMMA ConcatIsLine ==
  ASSUME NEW operands \in Operands, NEW all \in Seq(Char), NEW at, NEW field,
         IsLineOf(field, at, FALSE, all)
  PROVE  LET joined == FlattenSeq([k \in 1..Len(operands) |-> Effective(operands[k])])
             done == StringConcat(operands, field, at)
         IN all \o joined \in Seq(Char) /\ IsLineOf(done.field, done.pointer, done.overflow, all \o joined)
<1> DEFINE joined == FlattenSeq([k \in 1..Len(operands) |-> Effective(operands[k])])
           done == StringConcat(operands, field, at)
           n == Len(all)
           m == Len(joined)
           both == all \o joined
<1>1. LineWidth \in Nat
  BY TextAssumption
<1>2. joined \in Seq(Char)
  BY EffectiveIs
<1> HIDE DEF joined
<1>3. /\ both \in Seq(Char) /\ n \in Nat /\ m \in Nat /\ Len(both) = n + m
      /\ \A i \in 1..(n + m) : both[i] = IF i <= n THEN all[i] ELSE joined[i - n]
  BY <1>2, ConcatProperties
<1>4. n <= LineWidth /\ at = n + 1
  <2>1. ~(n > LineWidth)
    BY DEF IsLineOf
  <2>2. Min({n, LineWidth}) = n
    BY <1>1, <1>3, <2>1, MinOfTwo
  <2>3. QED
    BY <1>1, <1>3, <2>1, <2>2 DEF IsLineOf
<1>5. Len(field) = LineWidth /\ \A i \in 1..LineWidth : field[i] = IF i <= n THEN all[i] ELSE Space
  BY <1>1 DEF IsLineOf, MoveString
<1> DEFINE put == IF m <= LineWidth - n THEN m ELSE LineWidth - n
<1>6. Max({0, at - 1}) = n
  <2>1. at - 1 \in Nat /\ at - 1 = n
    BY <1>3, <1>4
  <2>2. QED
    BY <2>1, MaxOfTwo
<1>7. Min({m, Max({0, LineWidth - n})}) = put
  <2>1. LineWidth - n \in Nat
    BY <1>1, <1>3, <1>4
  <2>2. Max({0, LineWidth - n}) = LineWidth - n
    BY <2>1, MaxOfTwo
  <2>3. QED
    BY <1>3, <2>1, <2>2, MinOfTwo
<1>8. done = [field |-> [i \in 1..LineWidth |-> IF i > n /\ i <= n + put THEN joined[i - n] ELSE field[i]],
              pointer |-> n + put + 1, overflow |-> put < m]
  <2> DEFINE c == Max({0, at - 1})
             d == Min({m, Max({0, LineWidth - c})})
  <2>1. done = [field |-> [i \in 1..LineWidth |-> IF i > c /\ i <= c + d THEN joined[i - c] ELSE field[i]],
                pointer |-> c + d + 1, overflow |-> d < m]
    BY <1>5 DEF StringConcat, joined
  <2>2. c = n /\ d = put
    BY <1>6, <1>7
  <2> HIDE DEF c, d, done, put
  <2>3. QED
    BY <2>1, <2>2
<1> HIDE DEF done
<1>9. done.field = MoveString(both, LineWidth)
  <2>1. ASSUME NEW i \in 1..LineWidth
        PROVE  (IF i > n /\ i <= n + put THEN joined[i - n] ELSE field[i]) = (IF i <= n + m THEN both[i] ELSE Space)
    BY <1>1, <1>3, <1>4, <1>5
  <2>2. MoveString(both, LineWidth) = [i \in 1..LineWidth |-> IF i <= n + m THEN both[i] ELSE Space]
    BY <1>3 DEF MoveString
  <2> HIDE DEF both, put
  <2>3. QED
    BY <1>8, <2>1, <2>2
<1>10. done.pointer = Min({n + m, LineWidth}) + 1
  <2>1. Min({n + m, LineWidth}) = IF n + m <= LineWidth THEN n + m ELSE LineWidth
    BY <1>1, <1>3, MinOfTwo
  <2>2. n + put + 1 = Min({n + m, LineWidth}) + 1
    BY <1>1, <1>3, <1>4, <2>1
  <2>3. QED
    BY <1>8, <2>2
<1>11. done.overflow <=> n + m > LineWidth
  <2>1. put < m <=> n + m > LineWidth
    BY <1>1, <1>3, <1>4
  <2>2. done.overflow = (put < m)
    <3> HIDE DEF put, both
    <3>1. QED
      BY <1>8
  <2>3. QED
    BY <2>1, <2>2
<1>12. IsLineOf(done.field, done.pointer, done.overflow, both)
  <2> HIDE DEF both
  <2>1. QED
    BY <1>3, <1>9, <1>10, <1>11 DEF IsLineOf
<1>13. QED
  BY <1>3, <1>12 DEF joined, done
-----------------------------------------------------------------------------
(* UNSTRING: parts of a text *)

LEMMA SliceIs ==
  ASSUME NEW S, NEW text \in Seq(S), NEW a \in Nat \ {0}, NEW b \in Nat, a <= b + 1, b <= Len(text)
  PROVE  /\ SubSeq(text, a, b) \in Seq(S) /\ Len(SubSeq(text, a, b)) = b + 1 - a
         /\ \A k \in 1..(b + 1 - a) : SubSeq(text, a, b)[k] = text[a + k - 1]
OBVIOUS

LEMMA SliceOfSlice ==
  ASSUME NEW S, NEW text \in Seq(S), NEW a \in Nat \ {0}, NEW b \in Nat, a <= b + 1, b <= Len(text),
         NEW c \in Nat \ {0}, NEW d \in Nat, c <= d + 1, d <= b + 1 - a
  PROVE  SubSeq(SubSeq(text, a, b), c, d) = SubSeq(text, a + c - 1, a + d - 1)
<1> DEFINE s == SubSeq(text, a, b)
           x == SubSeq(s, c, d)
           y == SubSeq(text, a + c - 1, a + d - 1)
<1>1. Len(text) \in Nat
  OBVIOUS
<1>2. s \in Seq(S) /\ Len(s) = b + 1 - a /\ \A k \in 1..(b + 1 - a) : s[k] = text[a + k - 1]
  BY SliceIs
<1>3. a + c - 1 \in Nat \ {0} /\ a + d - 1 \in Nat /\ a + c - 1 <= (a + d - 1) + 1 /\ a + d - 1 <= Len(text)
  BY <1>1
<1>4. /\ y \in Seq(S) /\ Len(y) = (a + d - 1) + 1 - (a + c - 1)
      /\ \A k \in 1..((a + d - 1) + 1 - (a + c - 1)) : y[k] = text[(a + c - 1) + k - 1]
  BY <1>3, SliceIs
<1> HIDE DEF s
<1>5. x \in Seq(S) /\ Len(x) = d + 1 - c /\ \A k \in 1..(d + 1 - c) : x[k] = s[c + k - 1]
  BY <1>2, SliceIs
<1> HIDE DEF x, y
<1>6. Len(x) = Len(y)
  BY <1>4, <1>5
<1>7. ASSUME NEW k \in 1..(d + 1 - c) PROVE x[k] = y[k]
  <2>1. x[k] = s[c + k - 1] /\ c + k - 1 \in 1..(b + 1 - a)
    <3>1. x[k] = s[c + k - 1]
      BY <1>5
    <3>2. k \in Nat /\ 1 <= k /\ k <= d + 1 - c
      OBVIOUS
    <3>3. c + k - 1 \in Int /\ 1 <= c + k - 1 /\ c + k - 1 <= b + 1 - a
      BY <3>2
    <3>4. QED
      BY <3>1, <3>3
  <2>2. s[c + k - 1] = text[a + (c + k - 1) - 1]
    BY <1>2, <2>1
  <2>3. y[k] = text[(a + c - 1) + k - 1]
    BY SMTT(30), <1>4
  <2>4. a + (c + k - 1) - 1 = (a + c - 1) + k - 1
    OBVIOUS
  <2>5. QED
    BY <2>1, <2>2, <2>3, <2>4
<1>8. x = y
  BY <1>4, <1>5, <1>6, <1>7, SeqEqual
<1>9. QED
  BY <1>8 DEF x, y, s

LEMMA SlicesJoin ==
  ASSUME NEW S, NEW text \in Seq(S), NEW a \in Nat \ {0}, NEW b \in Nat, NEW c \in Nat,
         a <= b + 1, b <= c, c <= Len(text)
  PROVE  SubSeq(text, a, b) \o SubSeq(text, b + 1, c) = SubSeq(text, a, c)
<1> DEFINE x == SubSeq(text, a, b)
           y == SubSeq(text, b + 1, c)
           z == SubSeq(text, a, c)
<1>1. Len(text) \in Nat
  OBVIOUS
<1>2. x \in Seq(S) /\ Len(x) = b + 1 - a /\ \A k \in 1..(b + 1 - a) : x[k] = text[a + k - 1]
  BY <1>1, SliceIs
<1>3. y \in Seq(S) /\ Len(y) = c + 1 - (b + 1) /\ \A k \in 1..(c + 1 - (b + 1)) : y[k] = text[(b + 1) + k - 1]
  BY <1>1, SliceIs
<1>4. z \in Seq(S) /\ Len(z) = c + 1 - a /\ \A k \in 1..(c + 1 - a) : z[k] = text[a + k - 1]
  BY <1>1, SliceIs
<1> HIDE DEF x, y, z
<1>5. /\ x \o y \in Seq(S) /\ Len(x \o y) = Len(x) + Len(y)
      /\ \A k \in 1..(Len(x) + Len(y)) : (x \o y)[k] = IF k <= Len(x) THEN x[k] ELSE y[k - Len(x)]
  BY <1>2, <1>3, ConcatProperties
<1>6. ASSUME NEW k \in 1..(c + 1 - a) PROVE (x \o y)[k] = z[k]
  <2>1. CASE k <= b + 1 - a
    BY <1>2, <1>3, <1>4, <1>5, <2>1
  <2>2. CASE ~(k <= b + 1 - a)
    <3>1. k - (b + 1 - a) \in 1..(c + 1 - (b + 1)) /\ (b + 1) + (k - (b + 1 - a)) - 1 = a + k - 1
      BY <2>2
    <3>2. (x \o y)[k] = y[k - (b + 1 - a)]
      <4>1. k \in 1..(Len(x) + Len(y)) /\ ~(k <= Len(x))
        BY <1>2, <1>3, <2>2
      <4>2. (x \o y)[k] = y[k - Len(x)]
        BY <1>5, <4>1
      <4>3. QED
        BY <1>2, <4>2
    <3>3. y[k - (b + 1 - a)] = text[a + k - 1]
      BY <1>3, <3>1
    <3>4. QED
      BY <1>4, <3>2, <3>3
  <2>3. QED
    BY <2>1, <2>2
<1>7. Len(x \o y) = Len(z) /\ Len(z) = c + 1 - a
  BY <1>2, <1>3, <1>4, <1>5
<1>8. x \o y = z
  BY <1>4, <1>5, <1>6, <1>7, SeqEqual
<1>9. QED
  BY <1>8 DEF x, y, z

-----------------------------------------------------------------------------
(* UNSTRING: delimiters *)

\* A match: the first place of any of the delimiters, or the end.
FirstMatch(text, delims, at, word) ==
  /\ at \in 0..Len(text)
  /\ \A k \in 1..Len(delims) : \A i \in Places(text, delims[k], 1, Len(text)) : at < i
  /\ \/ word = <<>> /\ at = Len(text)
     \/ word # <<>> /\ word \in Seq(Char) /\ at + 1 \in Places(text, word, 1, Len(text))

AreWords(delims) == Len(delims) \in Nat /\ \A k \in 1..Len(delims) : IsText(delims[k])

LEMMA FirstMatchIs ==
  ASSUME NEW text \in Seq(Char), NEW delims, AreWords(delims)
  PROVE  FirstMatch(text, delims, FindUnstringDelimiter(text, delims).at,
                    FindUnstringDelimiter(text, delims).word)
<1> DEFINE found == {k \in 1..Len(delims) : Places(text, delims[k], 1, Len(text)) # {}}
           at(k) == FindDelimiter(text, delims[k])
           earliest == {k \in found : \A j \in found : at(k) <= at(j)}
           match == FindUnstringDelimiter(text, delims)
<1>1. Len(text) \in Nat /\ Len(delims) \in Nat /\ \A k \in 1..Len(delims) : Len(delims[k]) \in Nat
  BY DEF AreWords, IsText
<1>2. \A k \in 1..Len(delims) :
        /\ at(k) \in 0..Len(text)
        /\ \A i \in Places(text, delims[k], 1, Len(text)) : at(k) < i
        /\ k \in found => at(k) + 1 \in Places(text, delims[k], 1, Len(text))
  BY DelimiterIs DEF AreWords
<1>3. match = IF found = {} THEN [at |-> Len(text), word |-> <<>>]
              ELSE [at |-> at(Min(earliest)), word |-> delims[Min(earliest)]]
  BY DEF FindUnstringDelimiter
<1> HIDE DEF match, at
<1>4. CASE found = {}
  <2>1. match.at = Len(text) /\ match.word = <<>>
    BY <1>3, <1>4
  <2>2. \A k \in 1..Len(delims) : Places(text, delims[k], 1, Len(text)) = {}
    BY <1>4
  <2>3. Len(text) \in 0..Len(text)
    BY <1>1
  <2>4. FirstMatch(text, delims, match.at, match.word)
    BY <2>1, <2>2, <2>3 DEF FirstMatch
  <2>5. QED
    BY <2>4 DEF match
<1>5. CASE found # {}
  <2> DEFINE A == {at(k) : k \in found}
  <2>1. A \in SUBSET Nat /\ A # {}
    <3>1. \A k \in found : k \in 1..Len(delims)
      OBVIOUS
    <3>2. \A k \in found : at(k) \in Nat
      <4> HIDE DEF found
      <4>1. QED
        BY <1>1, <1>2, <3>1
    <3> HIDE DEF found
    <3>3. QED
      BY <1>5, <3>2
  <2>2. PICK least \in A : \A n \in A : least <= n
    <3> HIDE DEF A
    <3>1. QED
      BY <2>1, MinIsLeast
  <2>3. PICK k \in found : least = at(k)
    BY <2>2
  <2>4. earliest # {} /\ earliest \in SUBSET Nat
    <3>1. \A j \in found : at(j) \in A
      OBVIOUS
    <3>2. k \in found /\ \A j \in found : at(k) <= at(j)
      <4> HIDE DEF found, A
      <4>1. QED
        BY <2>2, <2>3, <3>1
    <3>3. earliest \subseteq found /\ k \in earliest
      <4> HIDE DEF found
      <4>1. QED
        BY <3>2
    <3>4. found \in SUBSET Nat
      BY <1>1
    <3>5. QED
      BY <3>3, <3>4
  <2> DEFINE first == Min(earliest)
  <2>5. first \in earliest
    <3> HIDE DEF earliest
    <3>1. QED
      BY <2>4, MinIsLeast
  <2>6. match.at = at(first) /\ match.word = delims[first]
    BY <1>3, <1>5
  <2> HIDE DEF first
  <2>7. first \in found /\ first \in 1..Len(delims) /\ \A j \in found : at(first) <= at(j)
    BY <2>5
  <2>8. ASSUME NEW j \in 1..Len(delims), NEW i \in Places(text, delims[j], 1, Len(text)) PROVE at(first) < i
    <3>1. j \in found /\ at(j) < i /\ at(first) <= at(j)
      BY <1>2, <2>7, <2>8
    <3>2. i \in Nat /\ at(first) \in Nat /\ at(j) \in Nat
      <4>1. i \in Nat
        BY <1>1, <2>8, PlacesAre
      <4>2. QED
        BY <1>2, <2>7, <4>1
    <3>3. QED
      BY <3>1, <3>2
  <2>9. at(first) + 1 \in Places(text, delims[first], 1, Len(text))
    BY <1>2, <2>7
  <2>10. delims[first] # <<>> /\ delims[first] \in Seq(Char)
    <3> DEFINE i == at(first) + 1
               last == i + Len(delims[first]) - 1
    <3>1. SubSeq(text, i, last) = delims[first] /\ delims[first] # <<>>
      BY <2>9 DEF Places
    <3>2. i \in Nat \ {0} /\ i + Len(delims[first]) <= Len(text) + 1
      <4>1. Len(delims[first]) \in Nat /\ 1 \in Nat
        BY <1>1, <2>7
      <4>2. 1 <= i /\ i \in Nat /\ i + Len(delims[first]) <= Len(text) + 1
        BY <1>1, <2>9, <4>1, PlacesAre
      <4>3. QED
        BY <4>2
    <3>3. last \in Nat /\ i <= last + 1 /\ last <= Len(text)
      BY SMTT(30), <1>1, <2>7, <3>2
    <3> HIDE DEF i, last
    <3>4. SubSeq(text, i, last) \in Seq(Char)
      BY <3>2, <3>3, SliceIs
    <3>5. QED
      BY <3>1, <3>4
  <2>11. at(first) \in 0..Len(text)
    BY <1>2, <2>7
  <2>12. FirstMatch(text, delims, match.at, match.word)
    BY <2>6, <2>8, <2>9, <2>10, <2>11 DEF FirstMatch
  <2>13. QED
    BY <2>12 DEF match
<1>6. QED
  BY <1>4, <1>5

-----------------------------------------------------------------------------
(* UNSTRING: the repetitions of a delimiter *)

Copies(word, n) == FlattenSeq([k \in 1..n |-> word])

LEMMA CopiesAre ==
  ASSUME NEW S, NEW word \in Seq(S), NEW n \in Nat
  PROVE  /\ Copies(word, n) \in Seq(S)
         /\ Copies(word, n + 1) = word \o Copies(word, n)
         /\ Copies(word, 0) = <<>>
<1> DEFINE s(m) == [k \in 1..m |-> word]
<1>1. \A m \in Nat : s(m) \in Seq(Seq(S)) /\ Len(s(m)) = m /\ \A k \in 1..m : s(m)[k] = word
  OBVIOUS
<1>2. s(0) = <<>>
  OBVIOUS
<1>3. \A m \in Nat : Copies(word, m) = FlattenSeq(s(m))
  BY DEF Copies
<1> HIDE DEF s
<1>4. n + 1 \in Nat /\ AreSequences(s(n), S) /\ AreSequences(s(n + 1), S) /\ IsTail(s(n), s(n + 1))
  <2>1. n + 1 \in Nat
    OBVIOUS
  <2>2. s(n) \in Seq(Seq(S)) /\ Len(s(n)) = n /\ \A k \in 1..n : s(n)[k] = word
    BY <1>1
  <2>3. s(n + 1) \in Seq(Seq(S)) /\ Len(s(n + 1)) = n + 1 /\ \A k \in 1..(n + 1) : s(n + 1)[k] = word
    BY <1>1, <2>1
  <2>4. \A i \in 1..n : s(n)[i] = s(n + 1)[i + 1]
    BY <2>2, <2>3
  <2>5. QED
    BY <2>1, <2>2, <2>3, <2>4 DEF AreSequences, IsTail
<1>5. FlattenSeq(s(n + 1)) = s(n + 1)[1] \o FlattenSeq(s(n))
  BY <1>4, FlattenFirst
<1>6. s(n + 1)[1] = word
  BY <1>1, <1>4
<1>7. FlattenSeq(s(n)) \in Seq(S)
  BY <1>1, FlattenType
<1>8. QED
  BY <1>2, <1>3, <1>4, <1>5, <1>6, <1>7, FlattenEmpty

LEMMA TimesDiv ==
  ASSUME NEW n \in Nat, NEW k \in Nat \ {0}
  PROVE  (n * k) \div k = n /\ (n + 1) * k = n * k + k
OBVIOUS

LEMMA CopiesLen ==
  ASSUME NEW S, NEW word \in Seq(S), NEW n \in Nat
  PROVE  Len(Copies(word, n)) = n * Len(word)
<1> DEFINE T == {m \in Nat : Len(Copies(word, m)) = m * Len(word)}
           k == Len(word)
<1>1. k \in Nat
  OBVIOUS
<1>2. 0 \in T
  BY <1>1, CopiesAre
<1>3. ASSUME NEW m \in T PROVE m + 1 \in T
  <2>1. m \in Nat /\ Len(Copies(word, m)) = m * k
    OBVIOUS
  <2>2. Copies(word, m) \in Seq(S) /\ Copies(word, m + 1) = word \o Copies(word, m)
    BY <2>1, CopiesAre
  <2>3. Len(Copies(word, m + 1)) = k + m * k
    BY <2>1, <2>2, ConcatProperties
  <2>4. (m + 1) * k = k + m * k
    BY <1>1, <2>1
  <2>5. QED
    BY <2>1, <2>3, <2>4
<1>4. T \in SUBSET Nat
  OBVIOUS
<1> HIDE DEF T
<1>5. T = Nat
  BY <1>2, <1>3, <1>4, SetInduction
<1>6. QED
  BY <1>5 DEF T

\* The function that PastRepeats takes its value from.
IsPast(f, text, word, from) ==
  f = [i \in from..(Len(text) + 1) |->
         IF i \in Places(text, word, i, Len(text)) THEN f[i + Len(word)] ELSE i]

\* From one place to another there is nothing but the word.
OnlyRepeats(text, word, from, to) ==
  /\ to \in from..(Len(text) + 1)
  /\ \E n \in Nat : SubSeq(text, from, to - 1) = Copies(word, n)

LEMMA PastStep ==
  ASSUME NEW text \in Seq(Char), NEW word \in Seq(Char), NEW i \in Nat \ {0}, i <= Len(text) + 1,
         i \in Places(text, word, i, Len(text))
  PROVE  /\ word # <<>> /\ SubSeq(text, i, i + Len(word) - 1) = word
         /\ Len(word) \in Nat \ {0} /\ i + Len(word) <= Len(text) + 1
<1>1. Len(word) \in Nat /\ Len(text) \in Nat /\ (word # <<>> => Len(word) # 0)
  OBVIOUS
<1>2. SubSeq(text, i, i + Len(word) - 1) = word /\ word # <<>>
  BY DEF Places
<1>3. i + Len(word) <= Len(text) + 1
  BY <1>1, PlacesAre
<1>4. QED
  BY <1>1, <1>2, <1>3

LEMMA PastExists ==
  ASSUME NEW text \in Seq(Char), NEW word \in Seq(Char), NEW from \in Nat \ {0}, from <= Len(text) + 1
  PROVE  \E f : IsPast(f, text, word, from)
<1> DEFINE last == Len(text) + 1
           here(i) == i \in Places(text, word, i, Len(text))
           stop == {i \in from..last : ~here(i)}
           base == [i \in from..last |-> i]
           to == [i \in from..last |-> i + Len(word)]
           op == [i \in from..last |-> [v \in Int |-> v]]
<1>1. from \in Int /\ last \in Int /\ Len(word) \in Nat
  OBVIOUS
<1>2. ASSUME NEW i \in from..last PROVE base[i] \in Int
  OBVIOUS
<1>3. ASSUME NEW i \in from..last, i \notin stop
      PROVE  to[i] \in from..last /\ to[i] > i /\ op[i] \in [Int -> Int]
  <2>1. i \in Nat \ {0} /\ i <= Len(text) + 1 /\ here(i)
    BY <1>3
  <2>2. Len(word) \in Nat \ {0} /\ i + Len(word) <= Len(text) + 1
    BY <2>1, PastStep
  <2>3. QED
    BY <2>2
<1>4. PICK f \in [from..last -> Int] : LooksAhead(f, from, last, stop, base, to, op)
  <2> HIDE DEF last, stop, base, to, op
  <2>1. QED
    BY <1>1, <1>2, <1>3, LookAheadExists
<1>5. ASSUME NEW i \in from..last PROVE f[i] = IF here(i) THEN f[i + Len(word)] ELSE i
  <2>1. f[i] = IF i \in stop THEN base[i] ELSE op[i][f[to[i]]]
    BY <1>4 DEF LooksAhead
  <2>2. CASE here(i)
    <3>1. i \notin stop
      BY <2>2
    <3>2. to[i] \in from..last /\ to[i] = i + Len(word)
      BY <1>3, <3>1
    <3>3. op[i][f[to[i]]] = f[to[i]]
      BY <1>4, <3>2
    <3>4. f[i] = f[i + Len(word)]
      <4> HIDE DEF stop, to, op
      <4>1. QED
        BY <2>1, <3>1, <3>2, <3>3
    <3>5. QED
      BY <2>2, <3>4
  <2>3. CASE ~here(i)
    BY <2>1, <2>3
  <2>4. QED
    BY <2>2, <2>3
<1>6. f = [i \in from..last |-> IF here(i) THEN f[i + Len(word)] ELSE i]
  <2> HIDE DEF here, last
  <2>1. QED
    BY <1>4, <1>5
<1>7. QED
  BY <1>6 DEF IsPast

(* Behind a delimiter that was found PastRepeats passes its repetitions    *)
(* and nothing else.                                                       *)
LEMMA PastIsBehindRepeats ==
  ASSUME NEW text \in Seq(Char), NEW word \in Seq(Char), NEW from \in Nat \ {0}, from <= Len(text) + 1
  PROVE  OnlyRepeats(text, word, from, PastRepeats(text, word, from))
<1> DEFINE last == Len(text) + 1
<1>1. PICK f : IsPast(f, text, word, from) /\ PastRepeats(text, word, from) = f[from]
  <2>1. PastRepeats(text, word, from) = (CHOOSE f : IsPast(f, text, word, from))[from]
    BY DEF PastRepeats, IsPast
  <2>2. QED
    BY <2>1, PastExists
<1>2. Len(text) \in Nat /\ from \in from..last /\ from \in Int /\ last \in Int
  OBVIOUS
<1>3. \A i \in from..last : f[i] = IF i \in Places(text, word, i, Len(text)) THEN f[i + Len(word)] ELSE i
  <2> DEFINE e == [i \in from..last |-> IF i \in Places(text, word, i, Len(text)) THEN f[i + Len(word)] ELSE i]
  <2>1. f = e
    BY <1>1 DEF IsPast
  <2>2. \A i \in from..last : e[i] = IF i \in Places(text, word, i, Len(text)) THEN f[i + Len(word)] ELSE i
    OBVIOUS
  <2> HIDE DEF e
  <2>3. QED
    BY <2>1, <2>2
<1> DEFINE S == {i \in from..last : OnlyRepeats(text, word, i, f[i])}
<1>4. ASSUME NEW i \in from..last, \A j \in from..last : j > i => j \in S
      PROVE  i \in S
  <2>1. i \in Nat \ {0} /\ i <= Len(text) + 1
    BY <1>2
  <2>2. CASE i \in Places(text, word, i, Len(text))
    <3> DEFINE j == i + Len(word)
    <3>1. /\ SubSeq(text, i, i + Len(word) - 1) = word
          /\ Len(word) \in Nat \ {0} /\ i + Len(word) <= Len(text) + 1
      BY <2>1, <2>2, PastStep
    <3>2. j \in from..last /\ j > i /\ f[i] = f[j]
      BY <1>2, <1>3, <2>1, <2>2, <3>1
    <3>3. OnlyRepeats(text, word, j, f[j])
      <4> HIDE DEF j
      <4>1. QED
        BY <1>4, <3>2
    <3>4. PICK n \in Nat : f[j] \in j..(Len(text) + 1) /\ SubSeq(text, j, f[j] - 1) = Copies(word, n)
      <4> HIDE DEF j
      <4>1. QED
        BY <3>3 DEF OnlyRepeats
    <3>5. SubSeq(text, i, j - 1) \o SubSeq(text, (j - 1) + 1, f[j] - 1) = SubSeq(text, i, f[j] - 1)
      <4>1. j - 1 \in Nat /\ i <= (j - 1) + 1
        BY <2>1, <3>1
      <4>2. f[j] - 1 \in Nat /\ j - 1 <= f[j] - 1 /\ f[j] - 1 <= Len(text)
        BY <1>2, <2>1, <3>1, <3>4
      <4> HIDE DEF j
      <4>3. QED
        BY <2>1, <4>1, <4>2, SlicesJoin
    <3>6. (j - 1) + 1 = j /\ j - 1 = i + Len(word) - 1
      BY <2>1, <3>1
    <3>7. SubSeq(text, i, f[j] - 1) = word \o Copies(word, n)
      <4> HIDE DEF j
      <4>1. QED
        BY <3>1, <3>4, <3>5, <3>6
    <3>8. SubSeq(text, i, f[j] - 1) = Copies(word, n + 1) /\ n + 1 \in Nat
      <4>1. Copies(word, n + 1) = word \o Copies(word, n)
        BY CopiesAre
      <4>2. n + 1 \in Nat
        OBVIOUS
      <4>3. SubSeq(text, i, f[j] - 1) = Copies(word, n + 1)
        BY <3>7, <4>1, Zenon
      <4>4. QED
        BY <4>2, <4>3
    <3>9. f[j] \in i..(Len(text) + 1)
      BY <1>2, <2>1, <3>1, <3>4
    <3> HIDE DEF j
    <3>10. QED
      BY <3>2, <3>8, <3>9 DEF OnlyRepeats
  <2>3. CASE i \notin Places(text, word, i, Len(text))
    <3>1. f[i] = i
      BY <1>3, <2>3
    <3>2. SubSeq(text, i, i - 1) = <<>>
      BY <2>1
    <3>3. Copies(word, 0) = <<>>
      BY CopiesAre
    <3>4. i \in i..(Len(text) + 1) /\ 0 \in Nat
      BY <1>2, <2>1
    <3>5. QED
      BY <3>1, <3>2, <3>3, <3>4 DEF OnlyRepeats
  <2>4. QED
    BY <2>2, <2>3
<1>5. from..last \subseteq S
  <2> HIDE DEF S, last
  <2>1. QED
    BY <1>2, <1>4, DownwardInduction
<1>6. from \in S
  BY <1>2, <1>5
<1>7. QED
  BY <1>1, <1>6

-----------------------------------------------------------------------------
(* UNSTRING: one receiving field *)

\* TakenApart, of one field: text from p to q - 1 is what it was given.
SpellsOut(g, text, all) ==
  /\ g.count <= Len(text)
  /\ SubSeq(g.field, 1, Min({g.count, Len(g.field)})) = SubSeq(text, 1, Min({g.count, Len(g.field)}))
  /\ LET behind == Rest(text, g.count + 1)
         repeats == IF g.delimiter = <<>> THEN 0 ELSE Len(behind) \div Len(g.delimiter)
     IN /\ behind = FlattenSeq([k \in 1..repeats |-> g.delimiter])
        /\ repeats <= 1 \/ all

Taken(text, words, all, g, p, q) ==
  /\ p < q
  /\ SpellsOut(g, SubSeq(text, p, q - 1), all)
  /\ g.delimiter = <<>> /\ words # {} => q = Len(text) + 1
  /\ \A w \in words : Places(SubSeq(SubSeq(text, p, q - 1), 1, g.count), w, 1, g.count) = {}

Given == [field : Seq(Char), delimiter : Seq(Char), count : Nat]

\* From p on there are `size` characters, and up to q n times the word.
Divides(text, p, size, q, word, n, all) ==
  /\ p + size <= q /\ q <= Len(text) + 1
  /\ SubSeq(text, p + size, q - 1) = Copies(word, n)
  /\ word = <<>> => n = 0
  /\ n <= 1 \/ all

\* What a receiving field of `target` places is given of `size` characters.
GivenOf(text, p, size, word, target) ==
  [field |-> MoveString(SubSeq(Rest(text, p), 1, size), target), delimiter |-> word, count |-> size]

(* A field that takes `size` characters, with n times the delimiter behind *)
(* them.                                                                   *)
LEMMA TakenSpells ==
  ASSUME NEW text \in Seq(Char), NEW p \in Nat \ {0}, NEW size \in Nat, NEW q \in Nat,
         NEW word \in Seq(Char), NEW n \in Nat, NEW all \in BOOLEAN, NEW target \in Nat,
         Divides(text, p, size, q, word, n, all)
  PROVE  SpellsOut(GivenOf(text, p, size, word, target), SubSeq(text, p, q - 1), all)
<1> DEFINE t == SubSeq(text, p, q - 1)
           taken == SubSeq(Rest(text, p), 1, size)
           field == MoveString(taken, target)
           m == Min({size, target})
           behind == Rest(t, size + 1)
           repeats == IF word = <<>> THEN 0 ELSE Len(behind) \div Len(word)
           g == [field |-> field, delimiter |-> word, count |-> size]
<1>0. /\ p + size <= q /\ q <= Len(text) + 1
      /\ SubSeq(text, p + size, q - 1) = Copies(word, n)
      /\ word = <<>> => n = 0
      /\ n <= 1 \/ all
  BY DEF Divides
<1> USE <1>0
<1>1. Len(text) \in Nat /\ p <= Len(text) + 1 /\ q - 1 \in Nat /\ p <= (q - 1) + 1 /\ q - 1 <= Len(text)
  BY <1>0
<1>2. t \in Seq(Char) /\ Len(t) = q - p /\ \A k \in 1..(q - p) : t[k] = text[p + k - 1]
  <2>1. /\ t \in Seq(Char) /\ Len(t) = (q - 1) + 1 - p
        /\ \A k \in 1..((q - 1) + 1 - p) : t[k] = text[p + k - 1]
    BY <1>1, SliceIs
  <2>2. (q - 1) + 1 - p = q - p
    OBVIOUS
  <2> HIDE DEF t
  <2>3. QED
    BY <2>1, <2>2
<1>3. taken \in Seq(Char) /\ Len(taken) = size /\ \A k \in 1..size : taken[k] = text[p + k - 1]
  <2> DEFINE r == Rest(text, p)
  <2>1. r \in Seq(Char) /\ Len(r) = Len(text) + 1 - p /\ \A k \in 1..(Len(text) + 1 - p) : r[k] = text[p + k - 1]
    BY <1>1, SliceIs DEF Rest
  <2> HIDE DEF r
  <2>2. size \in 0..Len(r)
    BY <1>1, <2>1
  <2>3. /\ SubSeq(r, 1, size) \in Seq(Char) /\ Len(SubSeq(r, 1, size)) = size
        /\ \A k \in 1..size : SubSeq(r, 1, size)[k] = r[k]
    BY <2>1, <2>2, PrefixProperties
  <2>4. \A k \in 1..size : r[k] = text[p + k - 1]
    BY <1>1, <2>1
  <2>5. taken = SubSeq(r, 1, size)
    BY DEF r
  <2> HIDE DEF taken
  <2>6. QED
    BY <2>3, <2>4, <2>5
<1>4. /\ field \in Seq(Char) /\ Len(field) = target
      /\ \A k \in 1..target : field[k] = IF k <= size THEN taken[k] ELSE Space
  <2> HIDE DEF taken
  <2>1. field = [k \in 1..target |-> IF k <= size THEN taken[k] ELSE Space]
    BY <1>3 DEF MoveString
  <2>2. Space \in Char
    BY DEF Char
  <2>3. \A k \in 1..target : (IF k <= size THEN taken[k] ELSE Space) \in Char
    BY <1>3, <2>2
  <2> HIDE DEF field
  <2>4. field \in [1..target -> Char]
    BY <2>1, <2>3
  <2>5. QED
    BY <2>1, <2>4, FunctionIsSequence
<1>5. m \in Nat /\ m <= size /\ m <= target
  BY MinOfTwo
<1> HIDE DEF m
<1>6. SubSeq(field, 1, m) = SubSeq(t, 1, m)
  <2> HIDE DEF field, t, taken
  <2>1. m \in 0..Len(field) /\ m \in 0..Len(t)
    BY <1>1, <1>2, <1>4, <1>5
  <2>2. /\ SubSeq(field, 1, m) \in Seq(Char) /\ Len(SubSeq(field, 1, m)) = m
        /\ \A k \in 1..m : SubSeq(field, 1, m)[k] = field[k]
    BY <1>4, <2>1, PrefixProperties
  <2>3. /\ SubSeq(t, 1, m) \in Seq(Char) /\ Len(SubSeq(t, 1, m)) = m
        /\ \A k \in 1..m : SubSeq(t, 1, m)[k] = t[k]
    BY <1>2, <2>1, PrefixProperties
  <2>4. \A k \in 1..m : field[k] = t[k]
    <3>1. TAKE k \in 1..m
    <3>2. k \in 1..target /\ k \in 1..size /\ k \in 1..(q - p) /\ k <= size
      BY <1>5
    <3>3. field[k] = taken[k]
      BY <1>4, <3>2
    <3>4. taken[k] = text[p + k - 1] /\ t[k] = text[p + k - 1]
      BY <1>2, <1>3, <3>2
    <3>5. QED
      BY <3>3, <3>4
  <2>5. QED
    BY <2>2, <2>3, <2>4, SeqEqual
<1>7. behind = Copies(word, n)
  <2>1. behind = SubSeq(t, size + 1, q - p)
    <3> HIDE DEF t
    <3>1. QED
      BY <1>2 DEF Rest
  <2>2. SubSeq(t, size + 1, q - p) = SubSeq(text, p + (size + 1) - 1, p + (q - p) - 1)
    <3>1. size + 1 \in Nat \ {0} /\ q - p \in Nat /\ size + 1 <= (q - p) + 1 /\ q - p <= (q - 1) + 1 - p
      BY <1>1
    <3>2. QED
      BY <1>1, <3>1, SliceOfSlice
  <2>3. p + (size + 1) - 1 = p + size /\ p + (q - p) - 1 = q - 1
    BY <1>1
  <2> HIDE DEF t, behind
  <2>4. QED
    BY <2>1, <2>2, <2>3
<1>8. repeats = n
  <2>1. CASE word = <<>>
    BY <2>1
  <2>2. CASE word # <<>>
    <3>1. Len(word) \in Nat \ {0}
      BY <2>2
    <3>2. Len(behind) = n * Len(word)
      <4> HIDE DEF behind
      <4>1. QED
        BY <1>7, CopiesLen
    <3>3. (n * Len(word)) \div Len(word) = n
      BY <3>1, TimesDiv
    <3> HIDE DEF behind
    <3>4. QED
      BY <2>2, <3>2, <3>3
  <2>3. QED
    BY <2>1, <2>2
<1>9. g.count = size /\ g.field = field /\ g.delimiter = word
  BY DEF g
<1>10. size <= Len(t)
  BY <1>1, <1>2
<1>11. SpellsOut(g, t, all)
  <2> HIDE DEF t, field, g, taken
  <2>1. Min({g.count, Len(g.field)}) = m
    BY <1>4, <1>9 DEF m
  <2>2. SubSeq(g.field, 1, m) = SubSeq(t, 1, m)
    BY <1>6, <1>9
  <2>3. Rest(t, g.count + 1) = behind
    BY <1>9
  <2>4. (IF g.delimiter = <<>> THEN 0 ELSE Len(behind) \div Len(g.delimiter)) = n
    BY <1>8, <1>9
  <2>5. behind = FlattenSeq([k \in 1..n |-> g.delimiter])
    BY <1>7, <1>9 DEF Copies
  <2>6. g.count <= Len(t)
    BY <1>9, <1>10
  <2> HIDE DEF behind
  <2>7. QED
    BY <2>1, <2>2, <2>3, <2>4, <2>5, <2>6 DEF SpellsOut
<1>12. QED
  BY <1>11 DEF g, field, taken, t, GivenOf

\* The texts of the delimiters of an UNSTRING.
WordsOf(delims) == {delims[k] : k \in 1..Len(delims)}

(* One receiving field is given the characters up to the next delimiter,   *)
(* and that.                                                               *)
LEMMA FieldTaken ==
  ASSUME NEW text \in Seq(Char), NEW delims, AreWords(delims), NEW all \in BOOLEAN, all => delims # <<>>,
         NEW done, done.next \in 1..Len(text), NEW target \in Nat \ {0}
  PROVE  \E g \in Given :
           LET r == UnstringInto(text, delims, all, done, target)
           IN /\ r = [next |-> r.next, given |-> Append(done.given, g),
                      overflow |-> done.overflow \/ g.count > target]
              /\ r.next \in 1..(Len(text) + 1)
              /\ Taken(text, WordsOf(delims), all, g, done.next, r.next)
<1> DEFINE p == done.next
           R == Rest(text, p)
           match == FindUnstringDelimiter(R, delims)
           word == match.word
           size == IF delims = <<>> THEN Min({target, Len(R)}) ELSE match.at
           behind == p + size + Len(word)
           q == IF all THEN PastRepeats(text, word, behind) ELSE behind
           g == [field |-> MoveString(SubSeq(R, 1, size), target), delimiter |-> word, count |-> size]
           r == UnstringInto(text, delims, all, done, target)
<1>1. Len(text) \in Nat /\ p \in Nat \ {0} /\ p <= Len(text)
  OBVIOUS
<1>2. r = [next |-> q, given |-> Append(done.given, g), overflow |-> done.overflow \/ size > target]
  <2>1. ~(done.next > Len(text))
    BY <1>1
  <2>2. QED
    BY <2>1 DEF UnstringInto
<1> HIDE DEF r
<1>3. R \in Seq(Char) /\ Len(R) = Len(text) + 1 - p /\ \A k \in 1..(Len(text) + 1 - p) : R[k] = text[p + k - 1]
  BY <1>1, SliceIs DEF Rest
<1>R. R = SubSeq(text, p, Len(text))
  BY DEF Rest
<1> HIDE DEF R, p
<1>4. FirstMatch(R, delims, match.at, word)
  BY <1>3, FirstMatchIs
<1> HIDE DEF match
<1>5. /\ size \in Nat /\ size <= Len(R) /\ word \in Seq(Char)
      /\ delims = <<>> => size > 0 /\ word = <<>>
      /\ delims # <<>> => size = match.at
      /\ word # <<>> => delims # <<>> /\ size + 1 \in Places(R, word, 1, Len(R))
      /\ word = <<>> /\ delims # <<>> => size = Len(R)
  <2>1. match.at \in 0..Len(R) /\ Len(R) \in Nat \ {0}
    BY <1>1, <1>3, <1>4 DEF FirstMatch
  <2>2. Min({target, Len(R)}) \in Nat \ {0} /\ Min({target, Len(R)}) <= Len(R)
    BY <2>1, MinOfTwo
  <2>3. delims = <<>> => word = <<>>
    <3>1. delims = <<>> => match = [at |-> Len(R), word |-> <<>>]
      BY DEF FindUnstringDelimiter, match
    <3>2. QED
      BY <3>1
  <2>4. \/ word = <<>> /\ match.at = Len(R)
        \/ word # <<>> /\ word \in Seq(Char) /\ match.at + 1 \in Places(R, word, 1, Len(R))
    BY <1>4 DEF FirstMatch
  <2>5. <<>> \in Seq(Char)
    OBVIOUS
  <2>6. delims = <<>> => size = Min({target, Len(R)})
    OBVIOUS
  <2>7. delims # <<>> => size = match.at
    OBVIOUS
  <2> HIDE DEF word, size
  <2>8. CASE delims = <<>>
    <3>1. word = <<>> /\ size \in Nat \ {0} /\ size <= Len(R)
      BY <2>2, <2>3, <2>6, <2>8
    <3>2. QED
      BY <2>5, <2>8, <3>1
  <2>9. CASE delims # <<>>
    <3>1. size \in Nat /\ size <= Len(R) /\ size = match.at
      BY <2>1, <2>7, <2>9
    <3>2. QED
      BY <2>4, <2>5, <2>9, <3>1
  <2>10. QED
    BY <2>8, <2>9
<1> HIDE DEF size, word
<1>6. Len(word) \in Nat /\ (word = <<>> <=> Len(word) = 0)
  BY <1>5
<1>7. word # <<>> => SubSeq(text, p + size, behind - 1) = word /\ behind <= Len(text) + 1
  <2>1. SUFFICES ASSUME word # <<>>
                 PROVE  SubSeq(text, p + size, behind - 1) = word /\ behind <= Len(text) + 1
    OBVIOUS
  <2>2. SubSeq(R, size + 1, (size + 1) + Len(word) - 1) = word /\ (size + 1) + Len(word) <= Len(R) + 1
    <3>1. size + 1 \in Places(R, word, 1, Len(R))
      BY <1>5, <2>1
    <3>2. Len(R) \in Nat
      BY <1>3
    <3>3. (size + 1) + Len(word) <= Len(R) + 1
      BY <1>6, <3>1, <3>2, PlacesAre
    <3>4. QED
      BY <3>1, <3>3 DEF Places
  <2>3. SubSeq(R, size + 1, size + Len(word)) = SubSeq(text, p + (size + 1) - 1, p + (size + Len(word)) - 1)
    <3>1. size + 1 \in Nat \ {0} /\ size + Len(word) \in Nat /\ size + 1 <= (size + Len(word)) + 1
      BY <1>5, <1>6
    <3>2. size + Len(word) <= Len(text) + 1 - p /\ Len(text) <= Len(text) /\ p <= Len(text) + 1
      BY <1>1, <1>3, <1>5, <1>6, <2>2
    <3>3. SubSeq(SubSeq(text, p, Len(text)), size + 1, size + Len(word))
            = SubSeq(text, p + (size + 1) - 1, p + (size + Len(word)) - 1)
      <4> DEFINE c == size + 1
                 d == size + Len(word)
      <4>1. c \in Nat \ {0} /\ d \in Nat /\ c <= d + 1 /\ d <= Len(text) + 1 - p
        BY <3>1, <3>2
      <4>2. Len(text) \in Nat /\ p \in Nat \ {0} /\ p <= Len(text) + 1 /\ Len(text) <= Len(text)
        BY <1>1, <3>2
      <4> HIDE DEF c, d
      <4>3. SubSeq(SubSeq(text, p, Len(text)), c, d) = SubSeq(text, p + c - 1, p + d - 1)
        BY <4>1, <4>2, SliceOfSlice
      <4>4. QED
        BY <4>3 DEF c, d
    <3>4. QED
      BY <1>R, <3>3
  <2>4. /\ (size + 1) + Len(word) - 1 = size + Len(word) /\ p + (size + 1) - 1 = p + size
        /\ p + (size + Len(word)) - 1 = behind - 1
    BY <1>1, <1>5, <1>6
  <2>5. behind <= Len(text) + 1
    BY <1>1, <1>3, <1>5, <1>6, <2>2
  <2> HIDE DEF behind
  <2>6. QED
    BY <2>2, <2>3, <2>4, <2>5
<1>8. behind \in Nat \ {0} /\ p <= behind /\ behind <= Len(text) + 1
  <2>1. word = <<>> => behind <= Len(text) + 1
    BY <1>1, <1>3, <1>5, <1>6
  <2>2. QED
    BY <1>1, <1>5, <1>6, <1>7, <2>1
<1>9. PICK n \in Nat : /\ q \in behind..(Len(text) + 1)
                       /\ SubSeq(text, behind, q - 1) = Copies(word, n)
                       /\ n = 0 \/ all
  <2>1. CASE all
    <3>1. OnlyRepeats(text, word, behind, q)
      <4> HIDE DEF behind
      <4>1. QED
        BY <1>5, <1>8, <2>1, PastIsBehindRepeats
    <3> HIDE DEF q, behind
    <3>2. QED
      BY <2>1, <3>1 DEF OnlyRepeats
  <2>2. CASE ~all
    <3>1. q = behind
      BY <2>2
    <3>2. SubSeq(text, behind, q - 1) = <<>>
      <4> HIDE DEF behind, q
      <4>1. QED
        BY <1>8, <3>1
    <3>3. Copies(word, 0) = <<>>
      BY <1>5, CopiesAre
    <3> HIDE DEF q, behind
    <3>4. q \in behind..(Len(text) + 1)
      BY <1>1, <1>8, <3>1
    <3>5. SubSeq(text, behind, q - 1) = Copies(word, 0) /\ 0 \in Nat
      BY <3>2, <3>3
    <3>6. QED
      BY <3>4, <3>5
  <2>3. QED
    BY <2>1, <2>2
<1> HIDE DEF q
<1>q. q \in Nat /\ behind <= q /\ q <= Len(text) + 1
  <2> HIDE DEF behind
  <2>1. QED
    BY <1>1, <1>8, <1>9
<1>10. PICK m \in Nat : /\ SubSeq(text, p + size, q - 1) = Copies(word, m)
                        /\ word = <<>> => m = 0
                        /\ m <= 1 \/ all
  <2>1. CASE word = <<>>
    <3>1. q = p + size
      <4>1. behind = p + size
        BY <1>1, <1>5, <1>6, <2>1
      <4>2. Len(Copies(word, n)) = 0
        <5>1. Len(Copies(word, n)) = n * Len(word)
          BY <1>5, CopiesLen
        <5>2. n * 0 = 0
          OBVIOUS
        <5>3. QED
          BY <1>6, <2>1, <5>1, <5>2
      <4>4. Len(SubSeq(text, behind, q - 1)) = (q - 1) + 1 - behind
        <5>1. q - 1 \in Nat /\ behind <= (q - 1) + 1 /\ q - 1 <= Len(text)
          BY <1>1, <1>q, <1>8
        <5> HIDE DEF behind
        <5>2. QED
          BY <1>8, <5>1, SliceIs
      <4> HIDE DEF behind
      <4>5. QED
        BY SMTT(30), <1>8, <1>9, <1>q, <4>1, <4>2, <4>4
    <3>2. SubSeq(text, p + size, q - 1) = <<>>
      BY <1>1, <1>5, <3>1
    <3>3. Copies(word, 0) = <<>>
      BY <1>5, CopiesAre
    <3>4. SubSeq(text, p + size, q - 1) = Copies(word, 0)
      BY <3>2, <3>3, Zenon
    <3>5. 0 \in Nat /\ 0 <= 1
      OBVIOUS
    <3>6. QED
      BY <3>4, <3>5, Zenon
  <2>2. CASE word # <<>>
    <3>1. SubSeq(text, p + size, behind - 1) \o SubSeq(text, (behind - 1) + 1, q - 1) = SubSeq(text, p + size, q - 1)
      <4>1. /\ p + size \in Nat \ {0} /\ behind - 1 \in Nat /\ q - 1 \in Nat /\ p + size <= (behind - 1) + 1
            /\ behind - 1 <= q - 1 /\ q - 1 <= Len(text)
        <5>1. p + size \in Nat \ {0} /\ p + size <= behind
          BY <1>1, <1>5, <1>6
        <5> HIDE DEF behind
        <5>2. QED
          BY <1>1, <1>8, <1>q, <5>1
      <4> HIDE DEF behind
      <4>2. QED
        BY <4>1, SlicesJoin
    <3>2. (behind - 1) + 1 = behind
      BY <1>8
    <3>3. SubSeq(text, p + size, q - 1) = word \o Copies(word, n)
      <4> HIDE DEF behind
      <4>1. QED
        BY <1>7, <1>9, <2>2, <3>1, <3>2
    <3>4. Copies(word, n + 1) = word \o Copies(word, n)
      BY <1>5, CopiesAre
    <3>5. n + 1 \in Nat /\ (n + 1 <= 1 \/ all)
      BY <1>9
    <3>6. QED
      BY <2>2, <3>3, <3>4, <3>5
  <2>3. QED
    BY <2>1, <2>2
<1>11. q \in Nat /\ p + size <= q /\ q <= Len(text) + 1 /\ p < q
  <2>1. behind <= q /\ q \in Nat /\ q <= Len(text) + 1
    BY <1>q
  <2>2. p + size <= behind /\ (word # <<>> => p + size < behind)
    BY <1>1, <1>5, <1>6
  <2>3. word = <<>> => size > 0
    BY <1>1, <1>3, <1>5
  <2> HIDE DEF behind
  <2>4. QED
    BY <1>1, <1>5, <1>8, <2>1, <2>2, <2>3
<1>12. SpellsOut(g, SubSeq(text, p, q - 1), all)
  <2>1. target \in Nat /\ word \in Seq(Char) /\ size \in Nat
    BY <1>5
  <2>2. SpellsOut(GivenOf(text, p, size, word, target), SubSeq(text, p, q - 1), all)
    <3>1. /\ p \in Nat \ {0} /\ q \in Nat /\ p + size <= q /\ q <= Len(text) + 1
          /\ SubSeq(text, p + size, q - 1) = Copies(word, m) /\ (word = <<>> => m = 0)
          /\ (m <= 1 \/ all) /\ m \in Nat /\ all \in BOOLEAN
      BY <1>1, <1>10, <1>11
    <3>2. Divides(text, p, size, q, word, m, all)
      BY <3>1 DEF Divides
    <3>3. QED
      BY SMTT(30), <2>1, <3>1, <3>2, TakenSpells
  <2>3. g = GivenOf(text, p, size, word, target)
    BY DEF R, GivenOf
  <2> HIDE DEF g
  <2>4. QED
    BY <2>2, <2>3
<1>13. g \in Given /\ g.count = size /\ g.delimiter = word
  <2> DEFINE field == MoveString(SubSeq(R, 1, size), target)
  <2>1. field \in Seq(Char)
    <3> DEFINE taken == SubSeq(R, 1, size)
    <3>1. taken \in Seq(Char)
      BY <1>3, <1>5, PrefixProperties
    <3> HIDE DEF taken
    <3>2. \A k \in 1..target : (IF k <= Len(taken) THEN taken[k] ELSE Space) \in Char
      BY <3>1 DEF Char
    <3>3. MoveString(taken, target) \in [1..target -> Char]
      BY <3>2 DEF MoveString
    <3>4. QED
      BY <3>3, FunctionIsSequence DEF taken
  <2> HIDE DEF field
  <2>2. g = [field |-> field, delimiter |-> word, count |-> size]
    BY DEF g, field
  <2> HIDE DEF g
  <2>3. QED
    BY <1>5, <2>1, <2>2 DEF Given
<1>14. g.delimiter = <<>> /\ WordsOf(delims) # {} => q = Len(text) + 1
  <2> HIDE DEF g
  <2>1. SUFFICES ASSUME word = <<>>, WordsOf(delims) # {} PROVE q = Len(text) + 1
    BY <1>13
  <2>2. delims # <<>>
    BY <2>1 DEF WordsOf
  <2>3. size = Len(R)
    BY <1>5, <2>1, <2>2
  <2>4. QED
    BY <1>1, <1>3, <1>11, <2>3
<1>15. ASSUME NEW w \in WordsOf(delims)
       PROVE  Places(SubSeq(SubSeq(text, p, q - 1), 1, size), w, 1, size) = {}
  <2>1. PICK k \in 1..Len(delims) : w = delims[k]
    BY <1>15 DEF WordsOf
  <2>2. \A i \in Places(R, w, 1, Len(R)) : match.at < i
    BY <1>4, <2>1 DEF FirstMatch
  <2>3. size = match.at /\ Len(w) \in Nat /\ (w # <<>> => Len(w) # 0)
    <3>1. delims # <<>> /\ IsText(w)
      BY <2>1 DEF AreWords
    <3>2. QED
      BY <1>5, <3>1 DEF IsText
  <2> DEFINE s == SubSeq(SubSeq(text, p, q - 1), 1, size)
  <2>4. SUFFICES ASSUME NEW i \in Places(s, w, 1, size) PROVE FALSE
    OBVIOUS
  <2>5. i \in Nat \ {0} /\ i + Len(w) <= size + 1 /\ w # <<>> /\ SubSeq(s, i, i + Len(w) - 1) = w
    <3>1. 1 <= i /\ i \in Nat /\ i + Len(w) <= size + 1 /\ w # <<>>
      <4> HIDE DEF s
      <4>1. QED
        BY <1>5, <2>3, <2>4, PlacesAre
    <3>2. SubSeq(s, i, i + Len(w) - 1) = w
      <4> HIDE DEF s
      <4>1. QED
        BY <2>4 DEF Places
    <3> HIDE DEF s
    <3>3. QED
      BY <3>1, <3>2
  <2>6. s = SubSeq(R, 1, size)
    <3>1. s = SubSeq(text, p + 1 - 1, p + size - 1)
      <4>1. q - 1 \in Nat /\ p <= (q - 1) + 1 /\ q - 1 <= Len(text) /\ 1 <= size + 1 /\ size <= (q - 1) + 1 - p
        BY <1>1, <1>5, <1>11
      <4>2. QED
        BY <1>1, <1>5, <4>1, SliceOfSlice
    <3>2. SubSeq(R, 1, size) = SubSeq(text, p + 1 - 1, p + size - 1)
      <4>1. Len(text) <= Len(text) /\ p <= Len(text) + 1 /\ 1 <= size + 1 /\ size <= Len(text) + 1 - p
        BY <1>1, <1>3, <1>5
      <4>2. QED
        BY <1>1, <1>R, <1>5, <4>1, SliceOfSlice
    <3> HIDE DEF s
    <3>3. QED
      BY <3>1, <3>2
  <2>7. SubSeq(SubSeq(R, 1, size), i, i + Len(w) - 1) = SubSeq(R, i, i + Len(w) - 1)
    <3>1. i + Len(w) - 1 \in Nat /\ i <= (i + Len(w) - 1) + 1 /\ i + Len(w) - 1 <= size + 1 - 1
      BY <1>5, <2>3, <2>5
    <3>2. SubSeq(SubSeq(R, 1, size), i, i + Len(w) - 1) = SubSeq(R, 1 + i - 1, 1 + (i + Len(w) - 1) - 1)
      BY <1>3, <1>5, <2>5, <3>1, SliceOfSlice
    <3>3. 1 + i - 1 = i /\ 1 + (i + Len(w) - 1) - 1 = i + Len(w) - 1
      BY <2>3, <2>5
    <3>4. QED
      BY <3>2, <3>3
  <2>8. i \in Places(R, w, 1, Len(R))
    <3>1. SubSeq(R, i, i + Len(w) - 1) = w
      <4> HIDE DEF s
      <4>1. QED
        BY <2>5, <2>6, <2>7
    <3>2. i \in 1..(Len(R) - Len(w) + 1)
      <4> HIDE DEF s
      <4>1. i \in Int /\ 1 <= i /\ Len(R) \in Nat
        BY <1>3, <2>5
      <4>2. i <= Len(R) - Len(w) + 1
        BY <1>5, <2>3, <2>5, <4>1
      <4>3. QED
        BY <2>3, <4>1, <4>2
    <3>3. QED
      BY <2>5, <3>1, <3>2 DEF Places
  <2>9. size < i /\ i <= size
    BY <1>5, <2>2, <2>3, <2>5, <2>8
  <2>10. QED
    BY <1>5, <2>5, <2>9
<1>16. Taken(text, WordsOf(delims), all, g, p, q)
  <2> HIDE DEF g
  <2>1. QED
    BY <1>11, <1>12, <1>13, <1>14, <1>15 DEF Taken
<1>17. r.next = q /\ r = [next |-> q, given |-> Append(done.given, g), overflow |-> done.overflow \/ g.count > target]
  <2> HIDE DEF g
  <2>1. QED
    BY <1>2, <1>13
<1>18. q \in 1..(Len(text) + 1)
  BY <1>1, <1>11
<1> HIDE DEF g
<1>19. QED
  BY <1>13, <1>16, <1>17, <1>18 DEF r, p

-----------------------------------------------------------------------------
(* UNSTRING: the whole statement *)

\* TakenApart, of the text up to p - 1.
Apart(text, words, all, fields, p) ==
  \E at \in [0..Len(fields) -> 1..p] :
    /\ at[0] = 1 /\ at[Len(fields)] = p
    /\ \A k \in 1..Len(fields) : Taken(text, words, all, fields[k], at[k - 1], at[k])

LEMMA ApartOneMore ==
  ASSUME NEW text, NEW words, NEW all, NEW fields \in Seq(Given), NEW g \in Given,
         NEW p \in Nat \ {0}, NEW q \in Nat, Apart(text, words, all, fields, p), Taken(text, words, all, g, p, q)
  PROVE  Apart(text, words, all, Append(fields, g), q)
<1> DEFINE n == Len(fields)
           more == Append(fields, g)
<1>1. n \in Nat /\ Len(more) = n + 1 /\ more[n + 1] = g /\ \A k \in 1..n : more[k] = fields[k]
  OBVIOUS
<1>2. PICK at \in [0..n -> 1..p] :
        at[0] = 1 /\ at[n] = p /\ \A k \in 1..n : Taken(text, words, all, fields[k], at[k - 1], at[k])
  BY DEF Apart
<1>3. p < q
  BY DEF Taken
<1> DEFINE a == [k \in 0..(n + 1) |-> IF k = n + 1 THEN q ELSE at[k]]
<1>4. a \in [0..(n + 1) -> 1..q]
  <2>1. ASSUME NEW k \in 0..(n + 1), k # n + 1 PROVE at[k] \in 1..q
    <3>1. k \in 0..n
      BY <1>1, <2>1
    <3>2. at[k] \in 1..p
      BY <1>2, <3>1
    <3>3. QED
      BY <1>3, <3>2
  <2>2. q \in 1..q
    BY <1>3
  <2>3. QED
    BY <2>1, <2>2
<1>5. a[0] = 1 /\ a[n + 1] = q /\ \A k \in 0..n : a[k] = at[k]
  BY <1>1, <1>2
<1> HIDE DEF a, more, n
<1>6. ASSUME NEW k \in 1..(n + 1) PROVE Taken(text, words, all, more[k], a[k - 1], a[k])
  <2>1. CASE k = n + 1
    <3>1. a[k] = q /\ more[k] = g
      BY <1>1, <1>5, <2>1
    <3>2. k - 1 = n /\ n \in 0..n
      BY <1>1, <2>1
    <3>3. a[k - 1] = p
      BY <1>2, <1>5, <3>2
    <3>4. QED
      BY <3>1, <3>3
  <2>2. CASE k # n + 1
    <3>1. k \in 1..n /\ k \in 0..n /\ k - 1 \in 0..n
      BY <1>1, <2>2
    <3>2. more[k] = fields[k] /\ a[k] = at[k] /\ a[k - 1] = at[k - 1]
      BY <1>1, <1>5, <3>1
    <3>3. Taken(text, words, all, fields[k], at[k - 1], at[k])
      BY <1>2, <3>1
    <3>4. QED
      BY <3>2, <3>3
  <2>3. QED
    BY <2>1, <2>2
<1>7. QED
  <2>1. \E b \in [0..Len(more) -> 1..q] :
          /\ b[0] = 1 /\ b[Len(more)] = q
          /\ \A k \in 1..Len(more) : Taken(text, words, all, more[k], b[k - 1], b[k])
    BY <1>1, <1>4, <1>5, <1>6
  <2>2. QED
    BY <2>1 DEF Apart, more

\* The fold by which Unstring goes through the receiving fields.
IsUnstringing(f, text, delims, all, targets, base) ==
  f = [s \in SUBSET DOMAIN targets |->
        IF s = {} THEN base
        ELSE UnstringInto(text, delims, all, f[s \ {Max(s)}], targets[Max(s)])]

Progress(text) == [next : 1..(Len(text) + 1), given : Seq(Given), overflow : BOOLEAN]

LEMMA IntoKeepsProgress ==
  ASSUME NEW text \in Seq(Char), NEW delims, AreWords(delims), NEW all \in BOOLEAN, all => delims # <<>>,
         NEW d \in Progress(text), NEW target \in Nat \ {0}, NEW fields \in Seq(Given)
  PROVE  /\ UnstringInto(text, delims, all, d, target) \in Progress(text)
         /\ Apart(text, WordsOf(delims), all, fields \o d.given, d.next)
              => LET r == UnstringInto(text, delims, all, d, target)
                 IN Apart(text, WordsOf(delims), all, fields \o r.given, r.next)
<1> DEFINE r == UnstringInto(text, delims, all, d, target)
<1>1. d.next \in 1..(Len(text) + 1) /\ d.given \in Seq(Given) /\ d.overflow \in BOOLEAN /\ Len(text) \in Nat
  BY DEF Progress
<1>2. CASE d.next > Len(text)
  <2>1. r = d
    BY <1>2 DEF UnstringInto
  <2>2. QED
    BY <2>1
<1>3. CASE ~(d.next > Len(text))
  <2>1. d.next \in 1..Len(text)
    BY <1>1, <1>3
  <2>2. PICK g \in Given :
          /\ r = [next |-> r.next, given |-> Append(d.given, g), overflow |-> d.overflow \/ g.count > target]
          /\ r.next \in 1..(Len(text) + 1)
          /\ Taken(text, WordsOf(delims), all, g, d.next, r.next)
    BY <2>1, FieldTaken
  <2> HIDE DEF r
  <2>3. Append(d.given, g) \in Seq(Given) /\ (d.overflow \/ g.count > target) \in BOOLEAN
    BY <1>1
  <2>4. r.given = Append(d.given, g)
    BY <2>2
  <2>5. r \in Progress(text)
    <3> DEFINE more == Append(d.given, g)
               over == d.overflow \/ g.count > target
               next == r.next
    <3>1. r = [next |-> next, given |-> more, overflow |-> over]
      BY <2>2
    <3>2. next \in 1..(Len(text) + 1) /\ more \in Seq(Given) /\ over \in BOOLEAN
      BY <2>2, <2>3
    <3> HIDE DEF more, over, next
    <3>3. QED
      BY <3>1, <3>2 DEF Progress
  <2>6. fields \o Append(d.given, g) = Append(fields \o d.given, g) /\ fields \o d.given \in Seq(Given)
    BY SMTT(30), <1>1
  <2>7. ASSUME Apart(text, WordsOf(delims), all, fields \o d.given, d.next)
        PROVE  Apart(text, WordsOf(delims), all, fields \o r.given, r.next)
    <3>1. d.next \in Nat \ {0} /\ r.next \in Nat
      BY <2>1, <2>2
    <3>2. Apart(text, WordsOf(delims), all, Append(fields \o d.given, g), r.next)
      BY <2>2, <2>6, <2>7, <3>1, ApartOneMore
    <3>3. QED
      BY <2>4, <2>6, <3>2
  <2>8. QED
    BY <2>5, <2>7 DEF r
<1>4. QED
  BY <1>2, <1>3

(* An UNSTRING goes on where the ones before it left the text, and takes   *)
(* it apart as TakenApart says.                                            *)
LEMMA UnstringTakesApart ==
  ASSUME NEW text \in Seq(Char), NEW delims, AreWords(delims), NEW all \in BOOLEAN, all => delims # <<>>,
         NEW targets \in Seq(Nat \ {0}), NEW pointer0 \in 1..Len(text), NEW fields \in Seq(Given),
         Apart(text, WordsOf(delims), all, fields, pointer0)
  PROVE  LET done == Unstring(text, delims, all, targets, pointer0)
         IN /\ done.pointer \in 1..(Len(text) + 1) /\ done.given \in Seq(Given)
            /\ Apart(text, WordsOf(delims), all, fields \o done.given, done.pointer)
<1> DEFINE D == DOMAIN targets
           e == [s \in SUBSET D |-> Max(s)]
           base == [next |-> pointer0, given |-> <<>>, overflow |-> FALSE]
           step == [i \in D |-> [d \in Progress(text) |-> UnstringInto(text, delims, all, d, targets[i])]]
           Good == {d \in Progress(text) : Apart(text, WordsOf(delims), all, fields \o d.given, d.next)}
<1>1. IsFiniteSet(D) /\ \A s \in SUBSET D : s # {} => e[s] \in s /\ e[s] = Max(s)
  BY Indexes
<1>2. \A i \in D : targets[i] \in Nat \ {0}
  OBVIOUS
<1>3. step \in [D -> [Progress(text) -> Progress(text)]]
  <2>1. ASSUME NEW i \in D, NEW d \in Progress(text)
        PROVE  UnstringInto(text, delims, all, d, targets[i]) \in Progress(text)
    <3>1. targets[i] \in Nat \ {0} /\ <<>> \in Seq(Given)
      BY <1>2
    <3>2. QED
      BY <3>1, IntoKeepsProgress
  <2>2. QED
    BY <2>1
<1>4. base \in Good
  <2>1. base \in Progress(text)
    <3>1. pointer0 \in 1..(Len(text) + 1) /\ <<>> \in Seq(Given)
      OBVIOUS
    <3>2. QED
      BY <3>1 DEF Progress
  <2>2. fields \o base.given = fields /\ base.next = pointer0
    OBVIOUS
  <2> HIDE DEF base
  <2>3. Apart(text, WordsOf(delims), all, fields \o base.given, base.next)
    BY <2>2
  <2>4. QED
    BY <2>1, <2>3
<1>5. PICK f \in [SUBSET D -> Progress(text)] : IsFold(f, D, base, e, step)
  <2> DEFINE Z == Progress(text)
  <2>1. step \in [D -> [Z -> Z]] /\ base \in Z
    BY <1>3, <1>4
  <2> HIDE DEF D, e, step, Z, base
  <2>2. \E f \in [SUBSET D -> Z] : IsFold(f, D, base, e, step)
    BY <1>1, <2>1, FoldExists
  <2>3. QED
    BY <2>2 DEF Z
<1>6. \A s \in SUBSET D : s # {} => Max(s) \in D /\ s \ {Max(s)} \in SUBSET D
  BY <1>1
<1>7. IsUnstringing(f, text, delims, all, targets, base)
  <2>1. ASSUME NEW s \in SUBSET D, s # {}
        PROVE  f[s] = UnstringInto(text, delims, all, f[s \ {Max(s)}], targets[Max(s)])
    <3>1. f[s] = step[Max(s)][f[s \ {Max(s)}]]
      <4> HIDE DEF D, e, step, base
      <4>1. QED
        BY <1>1, <1>5, <2>1 DEF IsFold
    <3>2. f[s \ {Max(s)}] \in Progress(text) /\ Max(s) \in D
      BY <1>5, <1>6, <2>1
    <3>3. QED
      BY <3>1, <3>2
  <2>2. f[{}] = base
    <3> HIDE DEF e, step, base
    <3>1. QED
      BY <1>5 DEF IsFold
  <2> HIDE DEF base, step, e
  <2>3. QED
    BY <1>5, <2>1, <2>2 DEF IsUnstringing
<1> DEFINE g == CHOOSE h : IsUnstringing(h, text, delims, all, targets, base)
           done == Unstring(text, delims, all, targets, pointer0)
<1>8. IsUnstringing(g, text, delims, all, targets, base)
  BY <1>7
<1>9. done.pointer = g[D].next /\ done.given = g[D].given
  <2>1. Max({1, pointer0}) = pointer0 /\ ~(pointer0 > Len(text))
    <3>1. Len(text) \in Nat /\ pointer0 \in Nat /\ 1 <= pointer0 /\ pointer0 <= Len(text)
      OBVIOUS
    <3>2. QED
      BY <3>1, MaxOfTwo
  <2>2. FoldLeft(LAMBDA d, t : UnstringInto(text, delims, all, d, t), base, targets) = g[D]
    BY DEF FoldLeft, MapThenFoldSet, IsUnstringing
  <2> HIDE DEF g, D
  <2>3. done = [pointer |-> g[D].next, given |-> g[D].given,
                overflow |-> g[D].overflow \/ g[D].next <= Len(text)]
    BY <2>1, <2>2 DEF Unstring
  <2>4. QED
    BY <2>3
<1> HIDE DEF g, done, base
<1>10. ASSUME NEW s \in SUBSET D
       PROVE  g[s] = IF s = {} THEN base
                     ELSE UnstringInto(text, delims, all, g[s \ {Max(s)}], targets[Max(s)])
  BY <1>8 DEF IsUnstringing
<1>11. g[D] \in Good
  <2>1. g[{}] \in Good
    <3>1. g[{}] = base
      BY <1>10
    <3> HIDE DEF Good
    <3>2. QED
      BY <1>4, <3>1
  <2>2. ASSUME NEW s \in SUBSET D, s # {}, g[s \ {e[s]}] \in Good PROVE g[s] \in Good
    <3>1. e[s] = Max(s) /\ Max(s) \in D
      BY <1>1, <1>6, <2>2
    <3>2. targets[Max(s)] \in Nat \ {0}
      BY <1>2, <3>1
    <3> DEFINE d == g[s \ {Max(s)}]
               target == targets[Max(s)]
    <3>3. d \in Progress(text) /\ Apart(text, WordsOf(delims), all, fields \o d.given, d.next)
      BY <2>2, <3>1
    <3>4. g[s] = UnstringInto(text, delims, all, d, target)
      BY <1>10, <2>2
    <3> HIDE DEF d, target
    <3>5. /\ UnstringInto(text, delims, all, d, target) \in Progress(text)
          /\ LET r == UnstringInto(text, delims, all, d, target)
             IN Apart(text, WordsOf(delims), all, fields \o r.given, r.next)
      BY <3>2, <3>3, IntoKeepsProgress DEF target
    <3>6. QED
      BY <3>4, <3>5
  <2> HIDE DEF Good, e, D
  <2>3. QED
    BY <1>1, <2>1, <2>2, FoldKeeps
<1>12. QED
  <2> DEFINE d == g[D]
  <2>1. d \in Progress(text) /\ Apart(text, WordsOf(delims), all, fields \o d.given, d.next)
    BY <1>11
  <2> HIDE DEF d
  <2>2. d.next \in 1..(Len(text) + 1) /\ d.given \in Seq(Given)
    BY <2>1 DEF Progress
  <2>3. done.pointer = d.next /\ done.given = d.given
    BY <1>9 DEF d
  <2>4. QED
    BY <2>1, <2>2, <2>3 DEF done

-----------------------------------------------------------------------------
(* The statements of a program *)

All(list) == list # <<>> /\ list[1].all
Words(list) == [k \in 1..Len(list) |-> list[k].word]

Built(words, at, cut, field) == words \in Seq(Char) /\ IsLineOf(field, at, cut, words)

TakingApart(text, list, at, fields, n) ==
  /\ text \in Seq(Char) /\ Len(text) = LineWidth
  /\ list \in DelimiterLists
  /\ at \in 1..(Len(text) + 1)
  /\ fields \in Seq(Given) /\ n = Len(fields)
  /\ Apart(text, WordsOf(Words(list)), All(list), fields, at)

(* The inductive invariant: what the line holds and what was taken from it *)
(* while the program does the one or the other.                            *)
TextInv ==
  /\ phase = "build" => Built(sent, pointer, overflow, line)
  /\ phase = "apart" => TakingApart(source, delimiters, pointer, given, tally)

LEMMA ListsAre ==
  ASSUME NEW list \in DelimiterLists
  PROVE  AreWords(Words(list)) /\ All(list) \in BOOLEAN /\ (All(list) => Words(list) # <<>>)
<1>1. IsText(list) /\ \A k \in 1..Len(list) : IsText(list[k].word) /\ list[k].all \in BOOLEAN
  BY TextAssumption
<1>2. Len(list) \in Nat /\ (list # <<>> => 1 \in 1..Len(list))
  BY <1>1 DEF IsText
<1>3. Len(Words(list)) = Len(list) /\ \A k \in 1..Len(list) : Words(list)[k] = list[k].word
  BY <1>2 DEF Words
<1>4. AreWords(Words(list))
  BY <1>1, <1>2, <1>3 DEF AreWords
<1>5. All(list) \in BOOLEAN
  BY DEF All
<1>6. All(list) => Words(list) # <<>>
  <2>1. All(list) => Len(list) # 0
    BY <1>1, <1>2 DEF All, IsText
  <2>2. QED
    BY <1>3, <2>1
<1>7. QED
  BY <1>4, <1>5, <1>6

(* An empty line.                                                          *)
LEMMA NothingSent ==
  Built(<<>>, 1, FALSE, MoveString(<<>>, LineWidth))
<1>1. LineWidth \in Nat /\ <<>> \in Seq(Char) /\ Len(<<>>) = 0
  BY TextAssumption
<1>2. Min({0, LineWidth}) = 0
  BY <1>1, MinOfTwo
<1>3. QED
  BY <1>1, <1>2 DEF Built, IsLineOf

LEMMA InitText ==
  Init => TextInv
BY NothingSent DEF Init, TextInv

(* Each action keeps the invariant.                                        *)
LEMMA StringKeeps ==
  ASSUME TextInv, NEW operands \in Operands, StringStmt(operands)
  PROVE  TextInv'
<1> DEFINE joined == FlattenSeq([k \in 1..Len(operands) |-> Effective(operands[k])])
           done == StringConcat(operands, line, pointer)
<1>1. phase = "build" /\ phase' = "build" /\ overflow = FALSE
      /\ line' = done.field /\ pointer' = done.pointer /\ overflow' = done.overflow /\ sent' = sent \o joined
  <2>1. overflow \in BOOLEAN => (~overflow => overflow = FALSE)
    OBVIOUS
  <2>2. QED
    BY DEF StringStmt, TextInv, Built, IsLineOf
<1>2. Built(sent, pointer, FALSE, line)
  BY <1>1 DEF TextInv
<1>3. sent \o joined \in Seq(Char) /\ IsLineOf(done.field, done.pointer, done.overflow, sent \o joined)
  BY <1>2, ConcatIsLine DEF Built
<1> HIDE DEF joined, done
<1>4. Built(sent', pointer', overflow', line')
  BY <1>1, <1>3 DEF Built
<1>5. phase' # "apart"
  BY <1>1
<1>6. QED
  BY <1>4, <1>5 DEF TextInv

LEMMA TakeLineKeeps ==
  ASSUME TextInv, NEW chosen \in DelimiterLists, TakeLine(chosen)
  PROVE  TextInv'
<1>1. /\ phase = "build" /\ phase' = "apart" /\ source' = MoveString(line, LineWidth)
      /\ delimiters' = chosen /\ pointer' = 1 /\ tally' = 0 /\ given' = <<>>
  BY DEF TakeLine
<1>2. LineWidth \in Nat \ {0}
  BY TextAssumption
<1>3. sent \in Seq(Char) /\ line = MoveString(sent, LineWidth)
  BY <1>1 DEF TextInv, Built, IsLineOf
<1>4. line \in Seq(Char) /\ Len(line) = LineWidth
  <2>1. \A k \in 1..LineWidth : (IF k <= Len(sent) THEN sent[k] ELSE Space) \in Char
    BY <1>3 DEF Char
  <2>2. line \in [1..LineWidth -> Char]
    BY <1>3, <2>1 DEF MoveString
  <2>3. QED
    BY <1>2, <2>2, FunctionIsSequence
<1>5. source' \in Seq(Char) /\ Len(source') = LineWidth
  <2>1. \A k \in 1..LineWidth : (IF k <= Len(line) THEN line[k] ELSE Space) \in Char
    BY <1>4 DEF Char
  <2>2. source' \in [1..LineWidth -> Char]
    BY <1>1, <2>1 DEF MoveString
  <2>3. QED
    BY <1>2, <2>2, FunctionIsSequence
<1>6. Apart(source', WordsOf(Words(chosen)), All(chosen), <<>>, 1)
  <2> DEFINE at == [k \in 0..0 |-> 1]
  <2>1. at \in [0..Len(<<>>) -> 1..1] /\ at[0] = 1 /\ Len(<<>>) = 0 /\ 1..0 = {}
    OBVIOUS
  <2> HIDE DEF at
  <2>2. QED
    BY <2>1 DEF Apart
<1>7. TakingApart(source', chosen, 1, <<>>, 0)
  BY <1>2, <1>5, <1>6 DEF TakingApart
<1>8. QED
  BY <1>1, <1>7 DEF TextInv

LEMMA UnstringKeeps ==
  ASSUME TextInv, NEW targets \in TargetLists, UnstringStmt(targets)
  PROVE  TextInv'
<1> DEFINE done == Unstring(source, Words(delimiters), All(delimiters), targets, pointer)
<1>1. /\ phase = "apart" /\ phase' = "apart" /\ pointer <= Len(source)
      /\ pointer' = done.pointer /\ tally' = tally + Len(done.given) /\ given' = given \o done.given
      /\ source' = source /\ delimiters' = delimiters
  BY DEF UnstringStmt, Words, All
<1>2. TakingApart(source, delimiters, pointer, given, tally)
  BY <1>1 DEF TextInv
<1>3. /\ source \in Seq(Char) /\ delimiters \in DelimiterLists /\ given \in Seq(Given) /\ Len(source) \in Nat
      /\ pointer \in 1..Len(source)
      /\ Apart(source, WordsOf(Words(delimiters)), All(delimiters), given, pointer)
  BY <1>1, <1>2 DEF TakingApart
<1>4. AreWords(Words(delimiters)) /\ All(delimiters) \in BOOLEAN /\ (All(delimiters) => Words(delimiters) # <<>>)
  BY <1>3, ListsAre
<1>5. targets \in Seq(Nat \ {0})
  BY TextAssumption
<1>6. /\ done.pointer \in 1..(Len(source) + 1) /\ done.given \in Seq(Given)
      /\ Apart(source, WordsOf(Words(delimiters)), All(delimiters), given \o done.given, done.pointer)
  BY <1>3, <1>4, <1>5, UnstringTakesApart
<1> HIDE DEF done
<1>7. given \o done.given \in Seq(Given) /\ Len(given \o done.given) = Len(given) + Len(done.given)
  BY <1>3, <1>6, ConcatProperties
<1>8. TakingApart(source, delimiters, done.pointer, given \o done.given, tally + Len(done.given))
  BY <1>2, <1>6, <1>7 DEF TakingApart
<1>9. QED
  BY <1>1, <1>8 DEF TextInv

LEMMA InspectKeeps ==
  ASSUME NEW items, NEW replacing, NEW conversion, NEW counts, NEW text,
         Inspect(items, replacing, conversion, counts, text)
  PROVE  TextInv'
<1>1. phase' = "inspected"
  BY DEF Inspect
<1>2. QED
  BY <1>1 DEF TextInv

LEMMA MoveKeeps ==
  ASSUME NEW s, NEW x, Move(s, x)
  PROVE  TextInv'
<1>1. phase' = "moved"
  BY DEF Move
<1>2. QED
  BY <1>1 DEF TextInv

LEMMA NextLineKeeps ==
  ASSUME NextLine
  PROVE  TextInv'
<1>1. phase' = "build" /\ line' = MoveString(<<>>, LineWidth) /\ pointer' = 1 /\ overflow' = FALSE /\ sent' = <<>>
  BY DEF NextLine
<1>2. QED
  BY <1>1, NothingSent DEF TextInv

LEMMA TextInvKept ==
  TextInv /\ [Next]_vars => TextInv'
<1> SUFFICES ASSUME TextInv, [Next]_vars PROVE TextInv'
  OBVIOUS
<1>1. CASE UNCHANGED vars
  BY <1>1 DEF vars, TextInv
<1>2. ASSUME NEW operands \in Operands, StringStmt(operands) PROVE TextInv'
  BY <1>2, StringKeeps
<1>3. ASSUME NEW chosen \in DelimiterLists, TakeLine(chosen) PROVE TextInv'
  BY <1>3, TakeLineKeeps
<1>4. ASSUME NEW targets \in TargetLists, UnstringStmt(targets) PROVE TextInv'
  BY <1>4, UnstringKeeps
<1>5. ASSUME NEW items, Tallying(items) PROVE TextInv'
  BY <1>5, InspectKeeps DEF Tallying
<1>6. ASSUME NEW item, Replacing(<<item>>) PROVE TextInv'
  BY <1>6, InspectKeeps DEF Replacing
<1>7. ASSUME NEW both, TallyingReplacing(both[1], both[2]) PROVE TextInv'
  BY <1>7, InspectKeeps DEF TallyingReplacing
<1>8. ASSUME NEW conversion, Converting(conversion) PROVE TextInv'
  BY <1>8, InspectKeeps DEF Converting
<1>9. ASSUME NEW x, MoveLine(x) \/ MoveOn(x) PROVE TextInv'
  BY <1>9, MoveKeeps DEF MoveLine, MoveOn
<1>10. ASSUME NEW literal, NEW x, MoveLiteral(literal, x) PROVE TextInv'
  BY <1>10, MoveKeeps DEF MoveLiteral
<1>11. CASE NextLine
  BY <1>11, NextLineKeeps
<1>12. QED
  BY <1>1, <1>2, <1>3, <1>4, <1>5, <1>6, <1>7, <1>8, <1>9, <1>10, <1>11 DEF Next

LEMMA TextAlways ==
  Spec => []TextInv
BY InitText, TextInvKept, PTL DEF Spec

-----------------------------------------------------------------------------
(* The line a program builds by STRINGs holds the characters of all their  *)
(* operands in order, the pointer is behind them, and ON OVERFLOW was      *)
(* taken exactly when some did not fit (cobol_string_concat and the        *)
(* pointer that emit_statement stores back), for any operands, delimiters  *)
(* and size of the line.                                                   *)
THEOREM StringsSendTheirOperands ==
  Spec => []LineIsWhatWasSent
<1>1. TextInv => LineIsWhatWasSent
  BY DEF TextInv, Built, IsLineOf, LineIsWhatWasSent
<1>2. QED
  BY <1>1, TextAlways, PTL

LEMMA ApartIsTakenApart ==
  ASSUME TextInv
  PROVE  TakenApart
<1>1. SUFFICES ASSUME phase = "apart"
               PROVE  LET words == {delimiters[k].word : k \in 1..Len(delimiters)}
                          Piece(at, k) == SubSeq(source, at[k - 1], at[k] - 1)
                      IN /\ tally = Len(given)
                         /\ \E at \in [0..Len(given) -> 1..pointer] :
                              /\ at[0] = 1 /\ at[Len(given)] = pointer
                              /\ \A k \in 1..Len(given) :
                                   /\ at[k - 1] < at[k]
                                   /\ Spells(given[k], Piece(at, k))
                                   /\ given[k].delimiter = <<>> /\ words # {} => at[k] = Len(source) + 1
                                   /\ \A w \in words : Places(SubSeq(Piece(at, k), 1, given[k].count), w, 1, given[k].count) = {}
  BY DEF TakenApart
<1> DEFINE words == {delimiters[k].word : k \in 1..Len(delimiters)}
<1>2. TakingApart(source, delimiters, pointer, given, tally)
  BY <1>1 DEF TextInv
<1>3. tally = Len(given) /\ delimiters \in DelimiterLists
      /\ Apart(source, WordsOf(Words(delimiters)), All(delimiters), given, pointer)
  BY <1>2 DEF TakingApart
<1>4. WordsOf(Words(delimiters)) = words
  <2>1. Len(delimiters) \in Nat
    BY <1>3, TextAssumption DEF IsText
  <2>2. Len(Words(delimiters)) = Len(delimiters) /\ \A k \in 1..Len(delimiters) : Words(delimiters)[k] = delimiters[k].word
    BY <2>1 DEF Words
  <2>3. QED
    BY <2>2 DEF WordsOf
<1>5. PICK at \in [0..Len(given) -> 1..pointer] :
        /\ at[0] = 1 /\ at[Len(given)] = pointer
        /\ \A k \in 1..Len(given) : Taken(source, words, All(delimiters), given[k], at[k - 1], at[k])
  BY <1>3, <1>4 DEF Apart
<1>6. ASSUME NEW g, NEW text, SpellsOut(g, text, All(delimiters)) PROVE Spells(g, text)
  BY <1>6 DEF SpellsOut, Spells, All
<1> HIDE DEF words
<1>7. ASSUME NEW k \in 1..Len(given)
      PROVE  /\ at[k - 1] < at[k]
             /\ Spells(given[k], SubSeq(source, at[k - 1], at[k] - 1))
             /\ given[k].delimiter = <<>> /\ words # {} => at[k] = Len(source) + 1
             /\ \A w \in words : Places(SubSeq(SubSeq(source, at[k - 1], at[k] - 1), 1, given[k].count), w, 1, given[k].count) = {}
  <2>1. Taken(source, words, All(delimiters), given[k], at[k - 1], at[k])
    BY <1>5
  <2>2. QED
    BY <1>6, <2>1 DEF Taken
<1>8. QED
  BY <1>3, <1>5, <1>7 DEF words

(* The fields, delimiters and counts that any number of UNSTRINGs gave the *)
(* program spell the source up to the pointer, with no delimiter inside a  *)
(* field and one behind each but the last of the source, and TALLYING is   *)
(* their number (cobol_unstring, its pointer and tally stored back and     *)
(* read again), for any delimiters, receiving fields and line.             *)
THEOREM UnstringsTakeTheLineApart ==
  Spec => []TakenApart
<1>1. TextInv => TakenApart
  BY ApartIsTakenApart
<1>2. QED
  BY <1>1, TextAlways, PTL

-----------------------------------------------------------------------------
(* INSPECT: the part of the text an item is about *)

Phrases == {"characters", "all", "leading", "first"}

\* Parts of a text of n characters.
Parts(n) == {part \in [first : 1..(n + 1), last : 0..n] : part.first <= part.last + 1}

LEMMA PlacesIn ==
  ASSUME NEW S, NEW text \in Seq(S), NEW word, IsText(word), NEW part \in Parts(Len(text))
  PROVE  LET at == Places(text, word, part.first, part.last)
         IN /\ \A i \in at : /\ i \in Nat /\ part.first <= i /\ i + Len(word) <= part.last + 1
                             /\ Len(word) \in Nat /\ Len(word) > 0 /\ word # <<>>
            /\ at # {} => Min(at) \in at /\ \A i \in at : Min(at) <= i
<1> DEFINE at == Places(text, word, part.first, part.last)
<1>1. part.first \in Nat /\ part.last \in Nat /\ Len(word) \in Nat /\ (word # <<>> => Len(word) > 0)
  BY DEF Parts, IsText
<1>2. \A i \in at : i \in Nat /\ part.first <= i /\ i + Len(word) <= part.last + 1 /\ word # <<>>
  BY <1>1, PlacesAre
<1>3. at \in SUBSET Nat
  BY <1>2
<1> HIDE DEF at
<1>4. at # {} => Min(at) \in at /\ \A i \in at : Min(at) <= i
  BY <1>3, MinIsLeast
<1>5. QED
  BY <1>1, <1>2, <1>4 DEF at

LEMMA NarrowIs ==
  ASSUME NEW S, NEW text \in Seq(S), NEW mark, IsText(mark.word), NEW part \in Parts(Len(text))
  PROVE  LET at == Places(text, mark.word, part.first, part.last)
             new == Narrow(text, part, mark)
         IN /\ new \in Parts(Len(text))
            /\ mark.before => /\ new.first = part.first
                              /\ new.last = IF at = {} THEN part.last ELSE Min(at) - 1
            /\ ~mark.before => /\ new.last = part.last
                               /\ new.first = IF at = {} THEN part.last + 1 ELSE Min(at) + Len(mark.word)
<1> DEFINE at == Places(text, mark.word, part.first, part.last)
           n == Len(text)
<1>1. /\ part = [first |-> part.first, last |-> part.last]
      /\ part.first \in 1..(n + 1) /\ part.last \in 0..n /\ part.first <= part.last + 1 /\ n \in Nat
  BY DEF Parts
<1>2. at # {} => /\ Min(at) \in Nat /\ part.first <= Min(at) /\ Min(at) + Len(mark.word) <= part.last + 1
                 /\ Len(mark.word) \in Nat /\ Len(mark.word) > 0
  BY PlacesIn
<1> HIDE DEF at
<1>3. ASSUME NEW f \in 1..(n + 1), NEW l \in 0..n, f <= l + 1 PROVE [first |-> f, last |-> l] \in Parts(n)
  BY <1>3 DEF Parts
<1>4. CASE mark.before
  <2>1. Narrow(text, part, mark) = [first |-> part.first, last |-> IF at = {} THEN part.last ELSE Min(at) - 1]
    BY <1>1, <1>4 DEF Narrow, at
  <2>2. CASE at = {}
    BY <1>1, <1>3, <1>4, <2>1, <2>2 DEF at
  <2>3. CASE at # {}
    <3>1. Min(at) - 1 \in 0..n /\ part.first <= Min(at) - 1 + 1
      BY <1>1, <1>2, <2>3
    <3>2. QED
      BY <1>1, <1>3, <1>4, <2>1, <2>3, <3>1 DEF at
  <2>4. QED
    BY <2>2, <2>3
<1>5. CASE ~mark.before
  <2>1. Narrow(text, part, mark) =
          [first |-> IF at = {} THEN part.last + 1 ELSE Min(at) + Len(mark.word), last |-> part.last]
    BY <1>1, <1>5 DEF Narrow, at
  <2>2. CASE at = {}
    <3>1. Narrow(text, part, mark) = [first |-> part.last + 1, last |-> part.last]
      BY <2>1, <2>2
    <3>2. part.last + 1 \in 1..(n + 1) /\ part.last + 1 <= part.last + 1
      BY <1>1
    <3>3. [first |-> part.last + 1, last |-> part.last] \in Parts(n)
      BY <1>1, <1>3, <3>2
    <3>4. QED
      BY <1>5, <2>2, <3>1, <3>3 DEF at
  <2>3. CASE at # {}
    <3>1. Min(at) + Len(mark.word) \in 1..(n + 1) /\ Min(at) + Len(mark.word) <= part.last + 1
      BY <1>1, <1>2, <2>3
    <3>2. QED
      BY <1>1, <1>3, <1>5, <2>1, <2>3, <3>1 DEF at
  <2>4. QED
    BY <2>2, <2>3
<1>6. QED
  BY <1>4, <1>5

\* Narrowed, as a fold over the places of the marks.
IsNarrowing(f, text, part, marks, before) ==
  f = [s \in SUBSET DOMAIN marks |->
         IF s = {} THEN part
         ELSE IF marks[Max(s)].before = before THEN Narrow(text, f[s \ {Max(s)}], marks[Max(s)])
         ELSE f[s \ {Max(s)}]]

LEMMA NarrowedIsFold ==
  ASSUME NEW S, NEW text \in Seq(S), NEW marks, AreMarks(marks), NEW before \in BOOLEAN,
         NEW part \in Parts(Len(text))
  PROVE  \E f : IsNarrowing(f, text, part, marks, before) /\ Narrowed(text, part, marks, before) = f[DOMAIN marks]
<1> DEFINE D == DOMAIN marks
           X == Parts(Len(text))
           e == [s \in SUBSET D |-> Max(s)]
           step == [k \in D |-> [p \in X |-> IF marks[k].before = before THEN Narrow(text, p, marks[k]) ELSE p]]
<1>1. /\ IsFiniteSet(D) /\ D = 1..Len(marks) /\ \A s \in SUBSET D : s # {} => e[s] \in s /\ e[s] = Max(s)
  BY Indexes DEF AreMarks, IsText
<1>2. step \in [D -> [X -> X]]
  <2>1. ASSUME NEW k \in D, NEW p \in X PROVE Narrow(text, p, marks[k]) \in X
    <3>1. IsText(marks[k].word)
      BY <1>1 DEF AreMarks
    <3>2. QED
      BY <3>1, NarrowIs
  <2>2. QED
    BY <2>1
<1>3. PICK f \in [SUBSET D -> X] : IsFold(f, D, part, e, step)
  <2> HIDE DEF D, e, step, X
  <2>1. part \in X
    BY DEF X
  <2>2. QED
    BY <1>1, <1>2, <2>1, FoldExists
<1>4. IsNarrowing(f, text, part, marks, before)
  <2>1. ASSUME NEW s \in SUBSET D, s # {}
        PROVE  f[s] = IF marks[Max(s)].before = before THEN Narrow(text, f[s \ {Max(s)}], marks[Max(s)])
                      ELSE f[s \ {Max(s)}]
    <3>1. f[s] = step[Max(s)][f[s \ {Max(s)}]]
      <4> HIDE DEF D, e, step
      <4>1. QED
        BY <1>1, <1>3, <2>1 DEF IsFold
    <3>2. f[s \ {Max(s)}] \in X /\ Max(s) \in D
      BY <1>1, <1>3, <2>1
    <3> HIDE DEF X
    <3>3. QED
      BY <3>1, <3>2
  <2>2. f[{}] = part
    <3> HIDE DEF e, step
    <3>1. QED
      BY <1>3 DEF IsFold
  <2> HIDE DEF step, e
  <2>3. QED
    BY <1>3, <2>1, <2>2 DEF IsNarrowing
<1> DEFINE g == CHOOSE h : IsNarrowing(h, text, part, marks, before)
<1>5. IsNarrowing(g, text, part, marks, before)
  BY <1>4
<1>6. Narrowed(text, part, marks, before) = g[D]
  BY DEF Narrowed, FoldLeft, MapThenFoldSet, IsNarrowing
<1>7. QED
  BY <1>5, <1>6

(* At most one mark narrows.                                               *)
LEMMA NarrowedIs ==
  ASSUME NEW S, NEW text \in Seq(S), NEW marks, AreMarks(marks), OneOfEach(marks), NEW before \in BOOLEAN,
         NEW part \in Parts(Len(text))
  PROVE  /\ (\A k \in 1..Len(marks) : marks[k].before # before) => Narrowed(text, part, marks, before) = part
         /\ \A k \in 1..Len(marks) : marks[k].before = before =>
              Narrowed(text, part, marks, before) = Narrow(text, part, marks[k])
<1> DEFINE D == DOMAIN marks
           e == [s \in SUBSET D |-> Max(s)]
<1>1. /\ IsFiniteSet(D) /\ D = 1..Len(marks) /\ \A s \in SUBSET D : s # {} => e[s] \in s /\ e[s] = Max(s)
  BY Indexes DEF AreMarks, IsText
<1>2. PICK f : IsNarrowing(f, text, part, marks, before) /\ Narrowed(text, part, marks, before) = f[DOMAIN marks]
  BY NarrowedIsFold
<1>3. ASSUME NEW s \in SUBSET D
      PROVE  f[s] = IF s = {} THEN part
                    ELSE IF marks[Max(s)].before = before THEN Narrow(text, f[s \ {Max(s)}], marks[Max(s)])
                    ELSE f[s \ {Max(s)}]
  BY <1>2 DEF IsNarrowing
<1> DEFINE Right(s) == /\ (\A k \in s : marks[k].before # before) => f[s] = part
                       /\ \A k \in s : marks[k].before = before => f[s] = Narrow(text, part, marks[k])
           Good == {s \in SUBSET D : Right(s)}
           id == [s \in SUBSET D |-> s]
<1>4. Right({})
  BY <1>3
<1>5. ASSUME NEW s \in SUBSET D, s # {}, Right(s \ {Max(s)}) PROVE Right(s)
  <2>1. Max(s) \in s /\ s \subseteq 1..Len(marks)
    BY <1>1, <1>5
  <2>2. CASE marks[Max(s)].before = before
    <3>1. \A k \in s \ {Max(s)} : marks[k].before # before
      BY <2>1, <2>2 DEF OneOfEach
    <3>2. f[s \ {Max(s)}] = part
      BY <1>5, <3>1
    <3>3. f[s] = Narrow(text, part, marks[Max(s)])
      BY <1>3, <1>5, <2>2, <3>2
    <3>4. QED
      BY <2>1, <2>2, <3>1, <3>3
  <2>3. CASE marks[Max(s)].before # before
    <3>1. f[s] = f[s \ {Max(s)}]
      BY <1>3, <1>5, <2>3
    <3>2. QED
      BY <1>5, <2>1, <2>3, <3>1
  <2>4. QED
    BY <2>2, <2>3
<1>6. id[D] \in Good
  <2>1. id[{}] \in Good /\ \A s \in SUBSET D : id[s] = s
    BY <1>4
  <2>2. ASSUME NEW s \in SUBSET D, s # {}, id[s \ {e[s]}] \in Good PROVE id[s] \in Good
    <3>1. e[s] = Max(s) /\ id[s \ {e[s]}] = s \ {e[s]}
      BY <1>1, <2>2
    <3>2. Right(s \ {Max(s)})
      BY <2>2, <3>1
    <3> HIDE DEF Right
    <3>3. QED
      BY <1>5, <2>2, <3>2
  <2> HIDE DEF Good, e, D, id
  <2>3. QED
    BY <1>1, <2>1, <2>2, FoldKeeps
<1>7. Right(D)
  BY <1>6
<1> HIDE DEF D
<1>8. QED
  BY <1>1, <1>2, <1>7 DEF D

(* The places behind an AFTER marker, and those ahead of a BEFORE marker.  *)
LEMMA BehindMark ==
  ASSUME NEW S, NEW text \in Seq(S), NEW m, IsText(m.word), ~m.before,
         NEW whole \in Parts(Len(text)), whole.first = 1, whole.last = Len(text), NEW part, part = Narrow(text, whole, m)
  PROVE  /\ part \in Parts(Len(text)) /\ part.last = Len(text)
         /\ \A p \in 1..Len(text) :
              (\E i \in Places(text, m.word, 1, Len(text)) : i + Len(m.word) <= p) <=> part.first <= p
<1> DEFINE at == Places(text, m.word, 1, Len(text))
<1>1. part \in Parts(Len(text)) /\ part.last = Len(text)
      /\ part.first = IF at = {} THEN Len(text) + 1 ELSE Min(at) + Len(m.word)
  <2> DEFINE there == Places(text, m.word, whole.first, whole.last)
             new == Narrow(text, whole, m)
  <2>1. new \in Parts(Len(text))
    BY NarrowIs
  <2>2. ~m.before => /\ new.last = whole.last
                     /\ new.first = IF there = {} THEN whole.last + 1 ELSE Min(there) + Len(m.word)
    BY ZenonT(30), NarrowIs
  <2>3. there = at
    OBVIOUS
  <2> HIDE DEF there, at, new
  <2>4. QED
    BY <2>1, <2>2, <2>3 DEF new
<1>2. /\ \A i \in at : i \in Nat /\ Len(m.word) \in Nat
      /\ at # {} => Min(at) \in at /\ \A i \in at : Min(at) <= i
  BY PlacesIn
<1> HIDE DEF at
<1>3. ASSUME NEW p \in 1..Len(text) PROVE (\E i \in at : i + Len(m.word) <= p) <=> part.first <= p
  <2>1. CASE at = {}
    BY <1>1, <2>1
  <2>2. CASE at # {}
    <3>1. part.first = Min(at) + Len(m.word) /\ Min(at) \in at
      BY <1>1, <1>2, <2>2
    <3>2. \A i \in at : i + Len(m.word) <= p => Min(at) + Len(m.word) <= p
      BY <1>2, <2>2
    <3>3. QED
      BY <3>1, <3>2
  <2>3. QED
    BY <2>1, <2>2
<1>4. QED
  BY <1>1, <1>3 DEF at

LEMMA AheadOfMark ==
  ASSUME NEW S, NEW text \in Seq(S), NEW m, IsText(m.word), m.before,
         NEW part \in Parts(Len(text)), part.last = Len(text), NEW new, new = Narrow(text, part, m)
  PROVE  /\ new \in Parts(Len(text))
         /\ {p \in 1..Len(text) : part.first <= p /\
               ~\E i \in Places(text, m.word, 1, Len(text)) : i <= p /\ part.first <= i} = new.first..new.last
<1> DEFINE n == Len(text)
           at == Places(text, m.word, 1, n)
           here == Places(text, m.word, part.first, n)
<1>1. n \in Nat /\ part.first \in 1..(n + 1)
  BY DEF Parts
<1>2. new \in Parts(n) /\ new.first = part.first /\ new.last = IF here = {} THEN n ELSE Min(here) - 1
  <2>1. /\ Narrow(text, part, m) \in Parts(n) /\ Narrow(text, part, m).first = part.first
        /\ Narrow(text, part, m).last = IF Places(text, m.word, part.first, part.last) = {} THEN part.last
                                        ELSE Min(Places(text, m.word, part.first, part.last)) - 1
    BY NarrowIs
  <2>2. QED
    BY <2>1
<1>3. /\ \A i \in here : i \in Nat /\ part.first <= i /\ i <= n
      /\ here # {} => Min(here) \in here /\ \A i \in here : Min(here) <= i
  <2>1. /\ \A i \in here : i \in Nat /\ part.first <= i /\ i + Len(m.word) <= n + 1 /\ Len(m.word) \in Nat /\ Len(m.word) > 0
        /\ here # {} => Min(here) \in here /\ \A i \in here : Min(here) <= i
    BY PlacesIn
  <2> HIDE DEF here
  <2>2. QED
    BY <1>1, <2>1
<1>4. here = {i \in at : part.first <= i}
  <2>1. Len(m.word) \in Nat
    BY DEF IsText
  <2>2. \A i : i \in at <=> /\ i \in 1..(n - Len(m.word) + 1) /\ m.word # <<>>
                            /\ SubSeq(text, i, i + Len(m.word) - 1) = m.word
    BY DEF Places
  <2>3. \A i : i \in here <=> /\ i \in part.first..(n - Len(m.word) + 1) /\ m.word # <<>>
                              /\ SubSeq(text, i, i + Len(m.word) - 1) = m.word
    BY DEF Places
  <2> HIDE DEF at, here, n
  <2>4. \A i : i \in part.first..(n - Len(m.word) + 1) <=> i \in 1..(n - Len(m.word) + 1) /\ part.first <= i
    <3>1. n - Len(m.word) + 1 \in Int /\ part.first \in Int /\ 1 <= part.first
      BY <1>1, <2>1
    <3>2. QED
      BY <3>1
  <2>5. QED
    BY <2>2, <2>3, <2>4
<1> HIDE DEF at, here, n
<1>5. {p \in 1..n : part.first <= p /\ ~\E i \in at : i <= p /\ part.first <= i} =
        {p \in 1..n : part.first <= p /\ ~\E i \in here : i <= p}
  BY <1>4
<1>6. {p \in 1..n : part.first <= p /\ ~\E i \in here : i <= p} = new.first..new.last
  <2>1. CASE here = {}
    <3>1. {p \in 1..n : part.first <= p} = part.first..n
      BY <1>1
    <3>2. QED
      BY <1>2, <2>1, <3>1
  <2>2. CASE here # {}
    <3>1. Min(here) \in 1..n /\ part.first <= Min(here)
      BY <1>1, <1>3, <2>2
    <3>2. ASSUME NEW p \in 1..n PROVE (\E i \in here : i <= p) <=> Min(here) <= p
      BY <1>3, <2>2
    <3>3. {p \in 1..n : part.first <= p /\ ~\E i \in here : i <= p} =
            {p \in 1..n : part.first <= p /\ ~(Min(here) <= p)}
      BY <3>2
    <3>4. {p \in 1..n : part.first <= p /\ ~(Min(here) <= p)} = part.first..(Min(here) - 1)
      BY <1>1, <3>1
    <3>5. QED
      BY <1>2, <2>2, <3>3, <3>4
  <2>3. QED
    BY <2>1, <2>2
<1>7. QED
  BY <1>2, <1>5, <1>6 DEF at, n

\* The places behind all AFTER markers.
Behind(text, marks, p) ==
  \A m \in marks : ~m.before => \E i \in Places(text, m.word, 1, Len(text)) : i + Len(m.word) <= p

LEMMA ConcernedAre ==
  ASSUME NEW text, NEW marks
  PROVE  Concerned(text, marks) =
           {p \in 1..Len(text) : Behind(text, marks, p) /\ \A m \in marks : m.before =>
              ~\E i \in Places(text, m.word, 1, Len(text)) : i <= p /\ Behind(text, marks, i)}
BY DEF Concerned, Behind

LEMMA BehindIs ==
  ASSUME NEW S, NEW text \in Seq(S), NEW marks, AreMarks(marks), OneOfEach(marks),
         NEW whole \in Parts(Len(text)), whole.first = 1, whole.last = Len(text),
         NEW part, part = Narrowed(text, whole, marks, FALSE)
  PROVE  /\ part \in Parts(Len(text)) /\ part.last = Len(text)
         /\ \A p \in 1..Len(text) : Behind(text, ToSet(marks), p) <=> part.first <= p
<1>1. /\ \A k \in 1..Len(marks) : IsText(marks[k].word) /\ marks[k].before \in BOOLEAN
      /\ ToSet(marks) = {marks[k] : k \in 1..Len(marks)}
  BY DEF AreMarks, IsText, ToSet
<1>2. /\ (\A k \in 1..Len(marks) : marks[k].before) => part = whole
      /\ \A k \in 1..Len(marks) : ~marks[k].before => part = Narrow(text, whole, marks[k])
  <2>1. PICK no \in BOOLEAN : no = FALSE
    OBVIOUS
  <2>2. part = Narrowed(text, whole, marks, no)
    BY <2>1
  <2>3. /\ (\A k \in 1..Len(marks) : marks[k].before # no) => part = whole
        /\ \A k \in 1..Len(marks) : marks[k].before = no => part = Narrow(text, whole, marks[k])
    <3>1. (\A k \in 1..Len(marks) : marks[k].before # no) => Narrowed(text, whole, marks, no) = whole
      BY NarrowedIs
    <3>2. \A k \in 1..Len(marks) : marks[k].before = no => Narrowed(text, whole, marks, no) = Narrow(text, whole, marks[k])
      BY NarrowedIs
    <3>3. QED
      BY <2>2, <3>1, <3>2
  <2>4. QED
    BY <1>1, <2>1, <2>3
<1>3. CASE \A k \in 1..Len(marks) : marks[k].before
  <2>1. \A m \in ToSet(marks) : m.before
    BY <1>1, <1>3
  <2>2. \A p : Behind(text, ToSet(marks), p)
    BY <2>1 DEF Behind
  <2>3. part = whole
    BY <1>2, <1>3
  <2>4. \A p \in 1..Len(text) : part.first <= p
    <3>1. part.first = 1
      BY <2>3
    <3>2. \A p \in 1..Len(text) : 1 <= p
      OBVIOUS
    <3>3. QED
      BY <3>1, <3>2
  <2>5. QED
    BY <2>2, <2>3, <2>4
<1>4. ASSUME NEW k \in 1..Len(marks), ~marks[k].before
      PROVE  /\ part \in Parts(Len(text)) /\ part.last = Len(text)
             /\ \A p \in 1..Len(text) : Behind(text, ToSet(marks), p) <=> part.first <= p
  <2>1. \A m \in ToSet(marks) : ~m.before => m = marks[k]
    BY <1>1, <1>4 DEF OneOfEach
  <2>2. marks[k] \in ToSet(marks)
    BY <1>1
  <2>3. \A p : Behind(text, ToSet(marks), p) <=>
               \E i \in Places(text, marks[k].word, 1, Len(text)) : i + Len(marks[k].word) <= p
    BY <1>4, <2>1, <2>2 DEF Behind
  <2>4. part = Narrow(text, whole, marks[k]) /\ IsText(marks[k].word)
    BY <1>1, <1>2, <1>4
  <2>5. /\ part \in Parts(Len(text)) /\ part.last = Len(text)
        /\ \A p \in 1..Len(text) :
             (\E i \in Places(text, marks[k].word, 1, Len(text)) : i + Len(marks[k].word) <= p) <=> part.first <= p
    BY <1>4, <2>4, BehindMark
  <2>6. QED
    BY <2>3, <2>5
<1>5. QED
  BY <1>1, <1>3, <1>4

(* The part of an item is what it is about.                                *)
LEMMA PartIsConcerned ==
  ASSUME NEW S, NEW text \in Seq(S), NEW marks, AreMarks(marks), OneOfEach(marks)
  PROVE  /\ Part(text, marks) \in Parts(Len(text))
         /\ Concerned(text, ToSet(marks)) = Part(text, marks).first..Part(text, marks).last
<1> DEFINE n == Len(text)
           whole == [first |-> 1, last |-> n]
           p1 == Narrowed(text, whole, marks, FALSE)
           p2 == Part(text, marks)
<1>1. /\ n \in Nat /\ p2 = Narrowed(text, p1, marks, TRUE)
      /\ \A k \in 1..Len(marks) : IsText(marks[k].word) /\ marks[k].before \in BOOLEAN
      /\ ToSet(marks) = {marks[k] : k \in 1..Len(marks)}
  <2>1. p2 = Narrowed(text, p1, marks, TRUE)
    BY DEF Part
  <2>2. ToSet(marks) = {marks[k] : k \in 1..Len(marks)}
    <3>1. DOMAIN marks = 1..Len(marks)
      BY DEF AreMarks, IsText
    <3>2. QED
      BY <3>1 DEF ToSet
  <2>3. QED
    BY <2>1, <2>2 DEF AreMarks
<1>2. whole \in Parts(n) /\ whole.first = 1 /\ whole.last = n
  BY <1>1 DEF Parts
<1> HIDE DEF whole
<1>3. /\ p1 \in Parts(n) /\ p1.last = n
      /\ \A p \in 1..n : Behind(text, ToSet(marks), p) <=> p1.first <= p
  BY <1>2, BehindIs
<1> HIDE DEF p1, p2
<1>4. /\ (\A k \in 1..Len(marks) : ~marks[k].before) => p2 = p1
      /\ \A k \in 1..Len(marks) : marks[k].before => p2 = Narrow(text, p1, marks[k])
  <2>1. PICK yes \in BOOLEAN : yes = TRUE
    OBVIOUS
  <2>2. p2 = Narrowed(text, p1, marks, yes)
    BY <1>1, <2>1
  <2>3. /\ (\A k \in 1..Len(marks) : marks[k].before # yes) => p2 = p1
        /\ \A k \in 1..Len(marks) : marks[k].before = yes => p2 = Narrow(text, p1, marks[k])
    BY <1>3, <2>2, NarrowedIs
  <2>4. QED
    BY <1>1, <2>1, <2>3
<1>5. p1.first \in 1..(n + 1)
  BY <1>3 DEF Parts
<1>6. CASE \A k \in 1..Len(marks) : ~marks[k].before
  <2>1. \A m \in ToSet(marks) : ~m.before
    BY <1>1, <1>6
  <2>2. Concerned(text, ToSet(marks)) = {p \in 1..n : Behind(text, ToSet(marks), p)}
    BY <2>1, ConcernedAre
  <2>3. {p \in 1..n : p1.first <= p} = p1.first..n
    BY <1>1, <1>5
  <2>4. Concerned(text, ToSet(marks)) = p1.first..p1.last
    BY <1>3, <2>2, <2>3
  <2>5. p2 = p1
    BY <1>4, <1>6
  <2>6. QED
    BY <1>3, <2>4, <2>5 DEF p2
<1>7. ASSUME NEW k \in 1..Len(marks), marks[k].before
      PROVE  p2 \in Parts(n) /\ Concerned(text, ToSet(marks)) = p2.first..p2.last
  <2> DEFINE at == Places(text, marks[k].word, 1, n)
  <2>1. (\A m \in ToSet(marks) : m.before => m = marks[k]) /\ marks[k] \in ToSet(marks)
    BY <1>1, <1>7 DEF OneOfEach
  <2>2. Concerned(text, ToSet(marks)) =
          {p \in 1..n : Behind(text, ToSet(marks), p) /\ ~\E i \in at : i <= p /\ Behind(text, ToSet(marks), i)}
    BY <1>7, <2>1, ConcernedAre
  <2>3. p2 = Narrow(text, p1, marks[k]) /\ IsText(marks[k].word)
    BY <1>1, <1>4, <1>7
  <2>4. /\ p2 \in Parts(n)
        /\ {p \in 1..n : p1.first <= p /\ ~\E i \in at : i <= p /\ p1.first <= i} = p2.first..p2.last
    BY <1>3, <1>7, <2>3, AheadOfMark
  <2>5. \A i \in at : i \in 1..n
    <3>1. \A i \in at : i \in Nat /\ 1 <= i /\ i + Len(marks[k].word) <= n + 1 /\ Len(marks[k].word) \in Nat /\ Len(marks[k].word) > 0
      BY <1>2, <2>3, PlacesIn
    <3>2. QED
      BY <1>1, <3>1
  <2> HIDE DEF at
  <2>6. \A i \in at : Behind(text, ToSet(marks), i) <=> p1.first <= i
    BY <1>3, <2>5
  <2>7. {p \in 1..n : Behind(text, ToSet(marks), p) /\ ~\E i \in at : i <= p /\ Behind(text, ToSet(marks), i)} =
        {p \in 1..n : p1.first <= p /\ ~\E i \in at : i <= p /\ p1.first <= i}
    BY <1>3, <2>6
  <2>8. QED
    BY <2>2, <2>4, <2>7
<1>8. QED
  BY <1>1, <1>6, <1>7 DEF p2

-----------------------------------------------------------------------------
(* INSPECT: the scan for several items *)

Inspectable(items) == AreItems(items, Phrases) /\ \A k \in 1..Len(items) : OneOfEach(items[k].marks)

\* AsDefined, in operators of their own.
Size(item) == IF item.phrase = "characters" THEN 1 ELSE Len(item.word)
Reach(items, t) == t[1]..(t[1] + Size(items[t[2]]) - 1)
About(text, items, k) == Concerned(text, ToSet(items[k].marks))
Spots(text, items) ==
  {s \in (1..Len(text)) \X (1..Len(items)) :
     /\ Reach(items, s) \subseteq About(text, items, s[2])
     /\ \/ items[s[2]].phrase = "characters"
        \/ s[1] \in Places(text, items[s[2]].word, 1, Len(text))}
IsTaken(items, matches, s) ==
  \E t \in matches : s[1] \in Reach(items, t) /\ (t[1] = s[1] => t[2] < s[2])
MayMatch(text, items, matches, s) ==
  /\ items[s[2]].phrase = "leading" =>
       \A p \in About(text, items, s[2]) : p < s[1] => \E t \in matches : t[2] = s[2] /\ p \in Reach(items, t)
  /\ items[s[2]].phrase = "first" => ~\E t \in matches : t[2] = s[2] /\ t[1] < s[1]

AreMatches(text, items, matches) ==
  /\ matches \subseteq Spots(text, items)
  /\ \A s \in Spots(text, items) :
       s \in matches <=> MayMatch(text, items, matches, s) /\ ~IsTaken(items, matches, s)

LEMMA DefinedMatches ==
  ASSUME NEW text, NEW items, NEW matches, AreMatches(text, items, matches)
  PROVE  AsDefined(text, items, matches)
<1> DEFINE size(k) == IF items[k].phrase = "characters" THEN 1 ELSE Len(items[k].word)
           about == [k \in 1..Len(items) |-> Concerned(text, ToSet(items[k].marks))]
           covers(t) == t[1]..(t[1] + size(t[2]) - 1)
           spots == {s \in (1..Len(text)) \X (1..Len(items)) :
                  /\ covers(s) \subseteq about[s[2]]
                  /\ \/ items[s[2]].phrase = "characters"
                     \/ s[1] \in Places(text, items[s[2]].word, 1, Len(text))}
           taken(s) == \E t \in matches :
                    s[1] \in covers(t) /\ (t[1] = s[1] => t[2] < s[2])
           allowed(s) ==
             CASE items[s[2]].phrase = "leading" ->
                    \A p \in {q \in about[s[2]] : q < s[1]} : \E t \in matches : t[2] = s[2] /\ p \in covers(t)
               [] items[s[2]].phrase = "first" -> ~\E t \in matches : t[2] = s[2] /\ t[1] < s[1]
               [] OTHER -> TRUE
<1>1. \A t : covers(t) = Reach(items, t)
  BY DEF Reach, Size
<1>2. \A k \in 1..Len(items) : about[k] = About(text, items, k)
  BY DEF About
<1> HIDE DEF about
<1>3. spots = Spots(text, items)
  <2>1. \A s \in (1..Len(text)) \X (1..Len(items)) : about[s[2]] = About(text, items, s[2])
    BY <1>2
  <2> HIDE DEF covers
  <2>2. QED
    BY <1>1, <2>1 DEF Spots
<1>4. \A s : taken(s) <=> IsTaken(items, matches, s)
  <2> HIDE DEF covers
  <2>1. QED
    BY <1>1 DEF IsTaken
<1>5. ASSUME NEW s \in Spots(text, items) PROVE allowed(s) <=> MayMatch(text, items, matches, s)
  <2>1. about[s[2]] = About(text, items, s[2])
    BY <1>2 DEF Spots
  <2> HIDE DEF covers
  <2>2. CASE items[s[2]].phrase = "leading"
    BY <1>1, <2>1, <2>2 DEF MayMatch
  <2>3. CASE items[s[2]].phrase = "first"
    BY <2>3 DEF MayMatch
  <2>4. CASE items[s[2]].phrase \notin {"leading", "first"}
    BY <2>4 DEF MayMatch
  <2>5. QED
    BY <2>2, <2>3, <2>4
<1>6. AsDefined(text, items, matches) <=>
        matches \subseteq spots /\ \A s \in spots : s \in matches <=> allowed(s) /\ ~taken(s)
  BY DEF AsDefined, about
<1> HIDE DEF spots, taken, allowed
<1>7. QED
  BY <1>3, <1>4, <1>5, <1>6 DEF AreMatches

LEMMA ItemIs ==
  ASSUME NEW items, Inspectable(items), NEW k \in 1..Len(items)
  PROVE  /\ Len(items) \in Nat /\ items[k].phrase \in Phrases
         /\ AreMarks(items[k].marks) /\ OneOfEach(items[k].marks)
         /\ IsText(items[k].word) /\ Len(items[k].word) \in Nat /\ IsText(items[k].by) /\ Len(items[k].by) \in Nat
BY DEF Inspectable, AreItems, IsText

LEMMA SpotIs ==
  ASSUME NEW S, NEW text \in Seq(S), NEW items, Inspectable(items), NEW s \in Spots(text, items)
  PROVE  /\ s[1] \in 1..Len(text) /\ s[2] \in 1..Len(items) /\ s = <<s[1], s[2]>>
         /\ Size(items[s[2]]) \in Nat \ {0} /\ s[1] \in Reach(items, s)
         /\ Reach(items, s) \subseteq About(text, items, s[2]) /\ About(text, items, s[2]) \subseteq 1..Len(text)
<1>1. /\ s[1] \in 1..Len(text) /\ s[2] \in 1..Len(items) /\ s = <<s[1], s[2]>>
      /\ Reach(items, s) \subseteq About(text, items, s[2])
      /\ \/ items[s[2]].phrase = "characters"
         \/ s[1] \in Places(text, items[s[2]].word, 1, Len(text))
  BY DEF Spots
<1>2. Len(text) \in Nat /\ IsText(items[s[2]].word) /\ Len(items[s[2]].word) \in Nat
  BY <1>1, ItemIs
<1>3. s[1] \in Places(text, items[s[2]].word, 1, Len(text)) => Len(items[s[2]].word) # 0
  <2>1. s[1] \in Places(text, items[s[2]].word, 1, Len(text)) => items[s[2]].word # <<>>
    BY <1>2, PlacesAre
  <2>2. QED
    BY <1>2, <2>1 DEF IsText
<1>4. Size(items[s[2]]) \in Nat \ {0}
  BY <1>1, <1>2, <1>3 DEF Size
<1>5. s[1] \in Reach(items, s)
  BY <1>1, <1>4 DEF Reach
<1>6. About(text, items, s[2]) \subseteq 1..Len(text)
  BY DEF About, Concerned
<1>7. QED
  BY <1>1, <1>4, <1>5, <1>6

LEMMA SpotIff ==
  ASSUME NEW S, NEW text \in Seq(S), NEW items, Inspectable(items),
         NEW p \in 1..Len(text), NEW k \in 1..Len(items), NEW part, part = Part(text, items[k].marks)
  PROVE  /\ part \in Parts(Len(text)) /\ About(text, items, k) = part.first..part.last
         /\ <<p, k>> \in Spots(text, items) <=>
              /\ part.first <= p /\ p <= part.last
              /\ items[k].phrase = "characters" \/ p \in Places(text, items[k].word, p, part.last)
<1> DEFINE word == items[k].word
           n == Len(text)
<1>1. n \in Nat /\ AreMarks(items[k].marks) /\ OneOfEach(items[k].marks) /\ IsText(word) /\ Len(word) \in Nat
  BY ItemIs
<1>2. part \in Parts(n) /\ About(text, items, k) = part.first..part.last
  BY <1>1, PartIsConcerned DEF About
<1>3. part.first \in 1..(n + 1) /\ part.last \in 0..n
  BY <1>2 DEF Parts
<1>4. p \in Places(text, word, 1, n) <=>
        p + Len(word) <= n + 1 /\ word # <<>> /\ SubSeq(text, p, p + Len(word) - 1) = word
  <2>1. p \in 1..(n - Len(word) + 1) <=> p + Len(word) <= n + 1
    BY <1>1
  <2>2. QED
    BY <2>1 DEF Places
<1>5. p \in Places(text, word, p, part.last) <=>
        p + Len(word) <= part.last + 1 /\ word # <<>> /\ SubSeq(text, p, p + Len(word) - 1) = word
  <2>1. p \in p..(part.last - Len(word) + 1) <=> p + Len(word) <= part.last + 1
    BY <1>1, <1>3
  <2>2. QED
    BY <2>1 DEF Places
<1>6. word # <<>> => Len(word) # 0
  BY <1>1 DEF IsText
<1> DEFINE chars == items[k].phrase = "characters"
<1>7. <<p, k>> \in Spots(text, items) <=>
        /\ p..(p + Size(items[k]) - 1) \subseteq part.first..part.last
        /\ chars \/ p \in Places(text, word, 1, n)
  <2> DEFINE t == <<p, k>>
  <2>1. t \in (1..n) \X (1..Len(items)) /\ t[1] = p /\ t[2] = k
    OBVIOUS
  <2>2. Reach(items, t) = p..(p + Size(items[k]) - 1)
    BY <2>1 DEF Reach
  <2>3. t \in Spots(text, items) <=>
          /\ Reach(items, t) \subseteq About(text, items, t[2])
          /\ items[t[2]].phrase = "characters" \/ t[1] \in Places(text, items[t[2]].word, 1, n)
    BY <2>1 DEF Spots
  <2> HIDE DEF t
  <2>4. t \in Spots(text, items) <=>
          /\ p..(p + Size(items[k]) - 1) \subseteq part.first..part.last
          /\ chars \/ p \in Places(text, word, 1, n)
    BY <1>2, <2>1, <2>2, <2>3
  <2>5. QED
    BY <2>4 DEF t
<1> HIDE DEF word, n
<1>8. CASE chars
  <2>1. p..(p + Size(items[k]) - 1) = {p}
    BY <1>8 DEF Size
  <2>2. QED
    BY <1>2, <1>3, <1>7, <1>8, <2>1 DEF word, n
<1>9. CASE ~chars
  <2>1. Size(items[k]) = Len(word)
    BY <1>9 DEF Size, word
  <2>2. Len(word) # 0 => (p..(p + Len(word) - 1) \subseteq part.first..part.last <=>
                            part.first <= p /\ p + Len(word) <= part.last + 1)
    <3>1. ASSUME Len(word) # 0, p..(p + Len(word) - 1) \subseteq part.first..part.last
          PROVE  part.first <= p /\ p + Len(word) <= part.last + 1
      <4>1. p \in p..(p + Len(word) - 1) /\ p + Len(word) - 1 \in p..(p + Len(word) - 1)
        BY <1>1, <3>1
      <4>2. p \in part.first..part.last /\ p + Len(word) - 1 \in part.first..part.last
        BY <3>1, <4>1
      <4>3. QED
        BY <1>1, <1>3, <4>2
    <3>2. ASSUME part.first <= p, p + Len(word) <= part.last + 1
          PROVE  p..(p + Len(word) - 1) \subseteq part.first..part.last
      BY SMTT(30), <1>1, <1>3, <3>2
    <3>3. QED
      BY <3>1, <3>2
  <2>3. part.last <= n /\ (Len(word) # 0 /\ p + Len(word) <= part.last + 1 => p <= part.last)
    BY <1>1, <1>3
  <2>4. QED
    BY SMTT(30), <1>1, <1>2, <1>3, <1>4, <1>5, <1>6, <1>7, <1>9, <2>1, <2>2, <2>3 DEF word, n
<1>10. QED
  BY <1>8, <1>9

\* The items that match at a place, and the first of them.
Matching(text, items, scan, p) ==
  {k \in 1..Len(items) :
     /\ <<p, k>> \in Spots(text, items)
     /\ items[k].phrase = "leading" => k \notin scan.out
     /\ items[k].phrase = "first" => \A m \in scan.matches : m[2] # k}
Taker(text, items, scan, p) == Min(Matching(text, items, scan, p) \cup {Len(items) + 1})

\* What the scan has found when they have been tried.
Tried(text, items, scan, p) ==
  LET matching == Matching(text, items, scan, p)
      taker == Taker(text, items, scan, p)
  IN [matches |-> scan.matches \cup {<<p, k>> : k \in matching \cap {taker}},
      out |-> scan.out \cup {k \in 1..Len(items) : p \in About(text, items, k) /\ k < taker},
      next |-> p + (IF matching = {} THEN 1 ELSE Size(items[taker]))]

LEMMA TakerIs ==
  ASSUME NEW text, NEW items, Inspectable(items), NEW scan, NEW p
  PROVE  LET matching == Matching(text, items, scan, p)
             taker == Taker(text, items, scan, p)
         IN /\ taker \in 1..(Len(items) + 1)
            /\ matching = {} => taker = Len(items) + 1
            /\ matching # {} => taker \in matching /\ taker \in 1..Len(items) /\ \A k \in matching : taker <= k
<1> DEFINE matching == Matching(text, items, scan, p)
           N == Len(items)
           all == matching \cup {N + 1}
<1>1. N \in Nat
  BY DEF Inspectable, AreItems, IsText
<1>2. matching \subseteq 1..N
  BY DEF Matching
<1> HIDE DEF matching, N
<1>3. all \in SUBSET Nat /\ all # {}
  BY <1>1, <1>2
<1>4. Min(all) \in all /\ \A k \in all : Min(all) <= k
  <2> HIDE DEF all
  <2>1. QED
    BY <1>3, MinIsLeast
<1>5. Taker(text, items, scan, p) = Min(all)
  BY DEF Taker, matching, N
<1>6. CASE matching = {}
  BY <1>1, <1>4, <1>5, <1>6 DEF matching, N
<1>7. CASE matching # {}
  <2>1. PICK k \in matching : TRUE
    BY <1>7
  <2>2. Min(all) <= k /\ k \in 1..N
    BY <1>2, <1>4, <2>1
  <2>3. Min(all) # N + 1
    BY <1>1, <2>2
  <2>4. Min(all) \in matching
    BY <1>4, <2>3
  <2>5. Min(all) \in 1..N /\ \A j \in matching : Min(all) <= j
    BY <1>2, <1>4, <2>4
  <2>6. Min(all) \in 1..(N + 1)
    BY <1>1, <2>5
  <2> HIDE DEF all
  <2>7. QED
    BY <1>5, <1>7, <2>4, <2>5, <2>6 DEF matching, N
<1>8. QED
  BY <1>6, <1>7

LEMMA SeriesStepIs ==
  ASSUME NEW S, NEW text \in Seq(S), NEW items, Inspectable(items),
         NEW parts, parts = [k \in 1..Len(items) |-> Part(text, items[k].marks)],
         NEW scan, scan.next \in Nat, NEW p \in 1..Len(text)
  PROVE  SeriesStep(text, items, parts, scan, p) =
           IF p < scan.next THEN scan ELSE Tried(text, items, scan, p)
<1> DEFINE matching == Matching(text, items, scan, p)
           taker == Taker(text, items, scan, p)
           tryable == {k \in 1..Len(items) : parts[k].first <= p /\ p <= parts[k].last}
           here(k) == p \in Places(text, items[k].word, p, parts[k].last)
           cond(k) == CASE items[k].phrase = "characters" -> TRUE
                        [] items[k].phrase = "all" -> here(k)
                        [] items[k].phrase = "leading" -> k \notin scan.out /\ here(k)
                        [] items[k].phrase = "first" -> here(k) /\ \A m \in scan.matches : m[2] # k
                        [] OTHER -> FALSE
<1>1. \A k \in 1..Len(items) : parts[k] = Part(text, items[k].marks)
  OBVIOUS
<1>2. ASSUME NEW k \in 1..Len(items)
      PROVE  /\ k \in tryable <=> p \in About(text, items, k)
             /\ k \in {j \in tryable : cond(j)} <=> k \in matching
  <2>1. /\ parts[k] \in Parts(Len(text)) /\ About(text, items, k) = parts[k].first..parts[k].last
        /\ <<p, k>> \in Spots(text, items) <=>
              /\ parts[k].first <= p /\ p <= parts[k].last
              /\ items[k].phrase = "characters" \/ here(k)
    BY <1>1, SpotIff
  <2>2. parts[k].first \in Nat /\ parts[k].last \in Nat
    BY <2>1 DEF Parts
  <2>3. k \in tryable <=> p \in About(text, items, k)
    BY <2>1, <2>2
  <2>4. cond(k) <=> /\ items[k].phrase = "characters" \/ here(k)
                    /\ items[k].phrase = "leading" => k \notin scan.out
                    /\ items[k].phrase = "first" => \A m \in scan.matches : m[2] # k
    <3>1. items[k].phrase \in Phrases
      BY ItemIs
    <3> HIDE DEF here
    <3>2. CASE items[k].phrase = "characters"
      BY <3>2
    <3>3. CASE items[k].phrase = "all"
      BY <3>3
    <3>4. CASE items[k].phrase = "leading"
      BY <3>4
    <3>5. CASE items[k].phrase = "first"
      BY <3>5
    <3>6. QED
      BY <3>1, <3>2, <3>3, <3>4, <3>5 DEF Phrases
  <2> HIDE DEF here, cond
  <2>5. k \in matching <=> /\ <<p, k>> \in Spots(text, items)
                           /\ items[k].phrase = "leading" => k \notin scan.out
                           /\ items[k].phrase = "first" => \A m \in scan.matches : m[2] # k
    BY DEF Matching
  <2>6. k \in {j \in tryable : cond(j)} <=> parts[k].first <= p /\ p <= parts[k].last /\ cond(k)
    OBVIOUS
  <2> HIDE DEF tryable, matching
  <2>7. QED
    BY <2>1, <2>3, <2>4, <2>5, <2>6
<1>3. {j \in tryable : cond(j)} = matching
  <2>1. matching \subseteq 1..Len(items)
    BY DEF Matching
  <2> HIDE DEF matching, cond
  <2>2. QED
    BY <1>2, <2>1
<1>4. SeriesStep(text, items, parts, scan, p) =
        IF p < scan.next THEN scan
        ELSE [matches |-> scan.matches \cup {<<p, k>> : k \in {j \in tryable : cond(j)} \cap {Min({j \in tryable : cond(j)} \cup {Len(items) + 1})}},
              out |-> scan.out \cup {k \in tryable : k < Min({j \in tryable : cond(j)} \cup {Len(items) + 1})},
              next |-> IF {j \in tryable : cond(j)} = {} \/ items[Min({j \in tryable : cond(j)} \cup {Len(items) + 1})].phrase = "characters"
                       THEN p + 1
                       ELSE p + Len(items[Min({j \in tryable : cond(j)} \cup {Len(items) + 1})].word)]
  BY DEF SeriesStep
<1>5. Min(matching \cup {Len(items) + 1}) = taker
  BY DEF Taker
<1> HIDE DEF cond, matching, taker
<1>6. {k \in tryable : k < taker} = {k \in 1..Len(items) : p \in About(text, items, k) /\ k < taker}
  BY <1>2
<1> HIDE DEF tryable
<1>7. SeriesStep(text, items, parts, scan, p) =
        IF p < scan.next THEN scan
        ELSE [matches |-> scan.matches \cup {<<p, k>> : k \in matching \cap {taker}},
              out |-> scan.out \cup {k \in tryable : k < taker},
              next |-> IF matching = {} \/ items[taker].phrase = "characters" THEN p + 1 ELSE p + Len(items[taker].word)]
  BY <1>3, <1>4, <1>5
<1>8. (IF matching = {} \/ items[taker].phrase = "characters" THEN p + 1 ELSE p + Len(items[taker].word)) =
        p + (IF matching = {} THEN 1 ELSE Size(items[taker]))
  BY DEF Size
<1>9. QED
  <2>1. SeriesStep(text, items, parts, scan, p) =
          IF p < scan.next THEN scan
          ELSE [matches |-> scan.matches \cup {<<p, k>> : k \in matching \cap {taker}},
                out |-> scan.out \cup {k \in 1..Len(items) : p \in About(text, items, k) /\ k < taker},
                next |-> p + (IF matching = {} THEN 1 ELSE Size(items[taker]))]
    BY <1>6, <1>7, <1>8
  <2>2. QED
    BY <2>1 DEF Tried, matching, taker

\* What the scan has found when it has gone over the first p places.
Scanned(text, items, p, scan) ==
  /\ scan.matches \subseteq Spots(text, items) /\ scan.next \in Nat /\ p < scan.next
  /\ \A t \in scan.matches : t[1] <= p /\ \A q \in Reach(items, t) : q < scan.next
  /\ \A q \in 1..Len(text) : p < q /\ q < scan.next => \E t \in scan.matches : q \in Reach(items, t)
  /\ \A s \in Spots(text, items) : s[1] <= p =>
       (s \in scan.matches <=> MayMatch(text, items, scan.matches, s) /\ ~IsTaken(items, scan.matches, s))
  /\ \A k \in 1..Len(items) : items[k].phrase = "leading" =>
       (k \in scan.out <=> \E q \in About(text, items, k) :
                             q <= p /\ ~\E t \in scan.matches : t[2] = k /\ q \in Reach(items, t))

(* Matches further right do not matter at a place.                         *)
LEMMA LaterMatches ==
  ASSUME NEW S, NEW text \in Seq(S), NEW items, Inspectable(items), NEW p \in Nat,
         NEW matches, NEW more, matches \subseteq more, more \subseteq Spots(text, items),
         \A t \in more : t \in matches \/ p < t[1]
  PROVE  /\ \A s \in Spots(text, items) : s[1] <= p =>
              /\ MayMatch(text, items, matches, s) <=> MayMatch(text, items, more, s)
              /\ IsTaken(items, matches, s) <=> IsTaken(items, more, s)
         /\ \A k, q \in Nat : q <= p =>
              ((\E t \in matches : t[2] = k /\ q \in Reach(items, t)) <=> \E t \in more : t[2] = k /\ q \in Reach(items, t))
<1>1. \A t \in more : /\ t[1] \in Nat /\ t[2] \in Nat /\ Size(items[t[2]]) \in Nat
                      /\ \A q \in Nat : q \in Reach(items, t) => t[1] <= q
  <2>1. ASSUME NEW t \in more
        PROVE  /\ t[1] \in Nat /\ t[2] \in Nat /\ Size(items[t[2]]) \in Nat
               /\ \A q \in Nat : q \in Reach(items, t) => t[1] <= q
    <3>1. t[1] \in 1..Len(text) /\ t[2] \in 1..Len(items) /\ Size(items[t[2]]) \in Nat \ {0}
      BY SpotIs
    <3>2. Len(items) \in Nat
      BY <3>1, ItemIs
    <3>3. t[1] \in Nat /\ t[2] \in Nat
      BY <3>1, <3>2
    <3>4. QED
      BY <3>1, <3>3 DEF Reach
  <2>2. QED
    BY <2>1
<1>2. \A q \in Nat, t \in more : q <= p /\ q \in Reach(items, t) => t \in matches
  BY <1>1
<1>3. ASSUME NEW s \in Spots(text, items), s[1] <= p
      PROVE  /\ MayMatch(text, items, matches, s) <=> MayMatch(text, items, more, s)
             /\ IsTaken(items, matches, s) <=> IsTaken(items, more, s)
  <2>1. s[1] \in Nat /\ About(text, items, s[2]) \subseteq Nat
    <3>1. s[1] \in 1..Len(text) /\ About(text, items, s[2]) \subseteq 1..Len(text)
      BY SpotIs
    <3>2. QED
      BY <3>1
  <2>2. \A q \in About(text, items, s[2]) : q < s[1] =>
          ((\E t \in matches : t[2] = s[2] /\ q \in Reach(items, t)) <=> \E t \in more : t[2] = s[2] /\ q \in Reach(items, t))
    <3>1. \A q \in Nat : q < s[1] => q <= p
      BY <1>3, <2>1
    <3>2. QED
      BY <1>2, <2>1, <3>1
  <2>3. (\E t \in matches : t[2] = s[2] /\ t[1] < s[1]) <=> \E t \in more : t[2] = s[2] /\ t[1] < s[1]
    <3>1. \A t \in more : t[1] < s[1] => t \in matches
      BY <1>1, <1>3, <2>1
    <3>2. QED
      BY <3>1
  <2>4. IsTaken(items, matches, s) <=> IsTaken(items, more, s)
    BY <1>2, <1>3, <2>1 DEF IsTaken
  <2>5. QED
    BY <2>2, <2>3, <2>4 DEF MayMatch
<1>4. QED
  BY <1>2, <1>3

LEMMA ScanSkips ==
  ASSUME NEW S, NEW text \in Seq(S), NEW items, Inspectable(items), Undisturbed(text, items),
         NEW p \in Nat, NEW n, n = p + 1, n \in 1..Len(text), NEW scan, Scanned(text, items, p, scan), n < scan.next
  PROVE  Scanned(text, items, n, scan)
<1> DEFINE M == scan.matches
           Own(k, q) == \E t \in M : t[2] = k /\ q \in Reach(items, t)
<1>1. /\ M \subseteq Spots(text, items) /\ scan.next \in Nat
      /\ \A t \in M : t[1] <= p /\ \A q \in Reach(items, t) : q < scan.next
      /\ \A q \in 1..Len(text) : p < q /\ q < scan.next => \E t \in M : q \in Reach(items, t)
      /\ \A s \in Spots(text, items) : s[1] <= p =>
           (s \in M <=> MayMatch(text, items, M, s) /\ ~IsTaken(items, M, s))
      /\ \A k \in 1..Len(items) : items[k].phrase = "leading" =>
           (k \in scan.out <=> \E q \in About(text, items, k) : q <= p /\ ~Own(k, q))
  BY DEF Scanned
<1> HIDE DEF M
<1>2. \A s \in Spots(text, items) : s[1] \in Nat /\ s[2] \in 1..Len(items)
  <2>1. ASSUME NEW s \in Spots(text, items) PROVE s[1] \in Nat /\ s[2] \in 1..Len(items)
    <3>1. s[1] \in 1..Len(text) /\ s[2] \in 1..Len(items)
      BY SpotIs
    <3>2. QED
      BY <3>1
  <2>2. QED
    BY <2>1
<1>3. PICK t \in M : n \in Reach(items, t)
  BY <1>1
<1>4. t \in Spots(text, items) /\ t[1] <= p /\ t[1] \in Nat /\ t[2] \in 1..Len(items) /\ ~IsTaken(items, M, t)
  BY <1>1, <1>2
<1>5. ASSUME NEW s \in Spots(text, items), s[1] <= n
      PROVE  s \in M <=> MayMatch(text, items, M, s) /\ ~IsTaken(items, M, s)
  <2>1. CASE s[1] <= p
    BY <1>1, <2>1
  <2>2. CASE ~(s[1] <= p)
    <3>1. s[1] = n
      BY <1>2, <1>5, <2>2
    <3>2. IsTaken(items, M, s)
      <4>1. t[1] # s[1]
        BY <1>4, <2>2
      <4>2. QED
        BY <1>3, <3>1, <4>1 DEF IsTaken
    <3>3. s \notin M
      BY <1>1, <2>2
    <3>4. QED
      BY <3>2, <3>3
  <2>3. QED
    BY <2>1, <2>2
<1>6. ASSUME NEW k \in 1..Len(items), items[k].phrase = "leading", n \in About(text, items, k), ~Own(k, n)
      PROVE  \E q \in About(text, items, k) : q <= p /\ ~Own(k, q)
  <2> DEFINE j == t[2]
             m == t[1]
  <2>1. j # k
    BY <1>3, <1>6
  <2>2. /\ k = 1
        /\ \A i \in 2..Len(items) : \A q \in Places(text, items[i].word, 1, Len(text)) :
             q \in About(text, items, k) \/ (q..(q + Len(items[i].word) - 1)) \cap About(text, items, k) = {}
    BY <1>6 DEF Undisturbed, About
  <2>3. j \in 2..Len(items) /\ 1 < j
    BY <1>4, <2>1, <2>2
  <2>4. /\ Reach(items, t) = m..(m + Size(items[j]) - 1)
        /\ items[j].phrase = "characters" \/ m \in Places(text, items[j].word, 1, Len(text))
    BY <1>4 DEF Reach, Spots
  <2>5. items[j].phrase # "characters"
    <3>1. ASSUME items[j].phrase = "characters" PROVE FALSE
      <4>1. n \in m..(m + 1 - 1)
        BY <1>3, <2>4, <3>1 DEF Size
      <4>2. n = m
        BY <1>4, <4>1
      <4>3. QED
        BY <1>4, <4>2
    <3>2. QED
      BY <3>1
  <2>6. Size(items[j]) = Len(items[j].word)
    BY <2>5 DEF Size
  <2> HIDE DEF j, m
  <2>7. m \in Places(text, items[j].word, 1, Len(text)) /\ n \in m..(m + Len(items[j].word) - 1)
    BY <1>3, <2>4, <2>5, <2>6
  <2>8. m \in About(text, items, k)
    BY <1>6, <2>2, <2>3, <2>7
  <2>9. ~Own(k, m)
    <3>1. ASSUME NEW u \in M, u[2] = k, m \in Reach(items, u) PROVE IsTaken(items, M, t)
      BY <2>2, <2>3, <3>1 DEF IsTaken, m, j
    <3>2. QED
      BY <1>4, <3>1
  <2>10. QED
    BY <1>4, <2>8, <2>9 DEF m
<1>7. ASSUME NEW k \in 1..Len(items), items[k].phrase = "leading"
      PROVE  k \in scan.out <=> \E q \in About(text, items, k) : q <= n /\ ~Own(k, q)
  <2>1. \A q \in About(text, items, k) : q <= n <=> q <= p \/ q = n
    <3>1. About(text, items, k) \subseteq 1..Len(text)
      BY DEF About, Concerned
    <3>2. \A q \in Nat : q <= n <=> q <= p \/ q = n
      OBVIOUS
    <3>3. \A q \in 1..Len(text) : q \in Nat
      OBVIOUS
    <3>4. QED
      BY <3>1, <3>2, <3>3
  <2> HIDE DEF Own
  <2>2. QED
    BY <1>1, <1>6, <1>7, <2>1
<1>8. \A u \in M : u[1] <= n
  <2>1. \A u \in M : u[1] <= p /\ u[1] \in Nat
    BY <1>1, <1>2
  <2>2. QED
    BY <2>1
<1>9. \A q \in 1..Len(text) : n < q => p < q
  OBVIOUS
<1>10. QED
  BY <1>1, <1>5, <1>7, <1>8, <1>9 DEF Scanned, M

LEMMA ScanTries ==
  ASSUME NEW S, NEW text \in Seq(S), NEW items, Inspectable(items), Undisturbed(text, items),
         NEW parts, parts = [k \in 1..Len(items) |-> Part(text, items[k].marks)],
         NEW p \in Nat, NEW n, n = p + 1, n \in 1..Len(text),
         NEW scan, Scanned(text, items, p, scan), ~(n < scan.next),
         NEW new, new = SeriesStep(text, items, parts, scan, n)
  PROVE  Scanned(text, items, n, new)
<1> DEFINE M == scan.matches
           more == new.matches
           N == Len(items)
           matching == Matching(text, items, scan, n)
           taker == Taker(text, items, scan, n)
           Own(k, q) == \E t \in M : t[2] = k /\ q \in Reach(items, t)
           Owns(k, q) == \E t \in more : t[2] = k /\ q \in Reach(items, t)
           size == IF matching = {} THEN 1 ELSE Size(items[taker])
           found == <<n, taker>>
<1>1. /\ M \subseteq Spots(text, items) /\ scan.next = n
      /\ \A t \in M : t[1] <= p /\ \A q \in Reach(items, t) : q < n
      /\ \A s \in Spots(text, items) : s[1] <= p =>
           (s \in M <=> MayMatch(text, items, M, s) /\ ~IsTaken(items, M, s))
      /\ \A k \in 1..N : items[k].phrase = "leading" =>
           (k \in scan.out <=> \E q \in About(text, items, k) : q <= p /\ ~Own(k, q))
  <2>1. scan.next \in Nat /\ p < scan.next
    BY DEF Scanned
  <2>2. scan.next = n
    BY <2>1
  <2>3. QED
    BY <2>2 DEF Scanned
<1>2. /\ taker \in 1..(N + 1) /\ N \in Nat
      /\ matching = {} => taker = N + 1
      /\ matching # {} => taker \in matching /\ taker \in 1..N /\ \A k \in matching : taker <= k
  <2>1. N \in Nat
    BY DEF Inspectable, AreItems, IsText
  <2>2. QED
    BY <2>1, TakerIs
<1>3. new = Tried(text, items, scan, n)
  <2>1. scan.next \in Nat
    BY <1>1
  <2>2. QED
    BY <2>1, SeriesStepIs
<1>4. /\ more = M \cup {<<n, k>> : k \in matching \cap {taker}} /\ new.next = n + size
      /\ new.out = scan.out \cup {k \in 1..N : n \in About(text, items, k) /\ k < taker}
  <2> DEFINE A == M \cup {<<n, k>> : k \in matching \cap {taker}}
             B == scan.out \cup {k \in 1..N : n \in About(text, items, k) /\ k < taker}
  <2>1. new = [matches |-> A, out |-> B, next |-> n + size]
    BY <1>3 DEF Tried
  <2> HIDE DEF A, B, size
  <2>2. more = A /\ new.out = B /\ new.next = n + size
    BY <2>1
  <2>3. QED
    BY <2>2 DEF A, B
<1>5. \A k \in 1..N : k \in matching <=>
        /\ <<n, k>> \in Spots(text, items)
        /\ items[k].phrase = "leading" => k \notin scan.out
        /\ items[k].phrase = "first" => \A m \in M : m[2] # k
  BY DEF Matching
<1> HIDE DEF M, more, matching, taker, N
<1>6. (\A t \in more : t \in M \/ (t = found /\ matching # {})) /\ (matching # {} => found \in more) /\ M \subseteq more
  <2>1. matching # {} => {<<n, k>> : k \in matching \cap {taker}} = {found}
    BY <1>2
  <2>2. matching = {} => {<<n, k>> : k \in matching \cap {taker}} = {}
    OBVIOUS
  <2>3. QED
    BY <1>4, <2>1, <2>2
<1>7. matching # {} => found \in Spots(text, items) /\ Reach(items, found) = n..(n + size - 1) /\ size \in Nat \ {0}
  <2>1. ASSUME matching # {} PROVE found \in Spots(text, items)
    BY <1>2, <1>5, <2>1
  <2>2. ASSUME found \in Spots(text, items) PROVE Size(items[taker]) \in Nat \ {0}
    BY <2>2, SpotIs
  <2>3. QED
    BY <2>1, <2>2 DEF Reach
<1>8. size \in Nat \ {0}
  BY <1>7
<1> HIDE DEF size, found
<1>9. more \subseteq Spots(text, items)
  BY <1>1, <1>6, <1>7
<1>10. found[1] = n /\ found[2] = taker
  BY DEF found
<1>11. /\ \A s \in Spots(text, items) : s[1] \in Nat /\ s[2] \in 1..N /\ s = <<s[1], s[2]>> /\ s[1] \in Reach(items, s)
       /\ \A k : About(text, items, k) \subseteq Nat
  <2>1. ASSUME NEW s \in Spots(text, items) PROVE s[1] \in Nat /\ s[2] \in 1..N /\ s = <<s[1], s[2]>> /\ s[1] \in Reach(items, s)
    <3>1. s[1] \in 1..Len(text) /\ s[2] \in 1..N /\ s = <<s[1], s[2]>> /\ s[1] \in Reach(items, s)
      BY SpotIs DEF N
    <3>2. QED
      BY <3>1
  <2>2. \A k : About(text, items, k) \subseteq Nat
    BY DEF About, Concerned
  <2>3. QED
    BY <2>1, <2>2
<1>12. /\ \A s \in Spots(text, items) : s[1] <= p =>
            /\ MayMatch(text, items, M, s) <=> MayMatch(text, items, more, s)
            /\ IsTaken(items, M, s) <=> IsTaken(items, more, s)
       /\ \A k, q \in Nat : q <= p => (Own(k, q) <=> Owns(k, q))
  <2>1. \A t \in more : t \in M \/ p < t[1]
    BY <1>6, <1>10
  <2>2. QED
    <3>1. \A s \in Spots(text, items) : s[1] <= p =>
            /\ MayMatch(text, items, M, s) <=> MayMatch(text, items, more, s)
            /\ IsTaken(items, M, s) <=> IsTaken(items, more, s)
      BY <1>6, <1>9, <2>1, LaterMatches
    <3>2. \A q \in Nat : \A t \in more : q <= p /\ q \in Reach(items, t) => t \in M
      <4>1. \A q \in Nat : \A t \in more : q <= p /\ q \in Reach(items, t) => ~(n <= q)
        <5>1. \A q \in Nat : q <= p => ~(n <= q)
          OBVIOUS
        <5>2. QED
          BY <5>1
      <4>2. matching # {} => \A q \in Reach(items, found) : n <= q
        <5>1. \A q \in n..(n + size - 1) : n <= q
          OBVIOUS
        <5>2. QED
          BY <1>7, <5>1
      <4>3. QED
        BY <1>6, <4>1, <4>2
    <3>3. \A k, q \in Nat : q <= p => (Own(k, q) <=> Owns(k, q))
      BY <1>6, <3>2
    <3>4. QED
      BY <3>1, <3>3
<1>13. \A t \in M : t[1] < n /\ t[1] # n /\ n \notin Reach(items, t)
  <2>1. \A t \in M : t[1] \in Nat /\ t[1] <= p /\ \A q \in Reach(items, t) : q < n
    BY <1>1, <1>11
  <2>2. QED
    BY <2>1
<1>14. n \in Nat /\ n < new.next /\ new.next \in Nat
  BY <1>4, <1>8
<1>15. \A t \in more : t[1] <= n /\ \A q \in Reach(items, t) : q < new.next
  <2>1. \A t \in M : t[1] <= n /\ \A q \in Reach(items, t) : q < new.next
    <3>1. \A t \in M : t[1] \in Nat /\ t[1] <= n
      BY <1>1, <1>11
    <3>2. \A t \in M : \A q \in Reach(items, t) : q \in Int /\ q < n
      BY <1>1 DEF Reach
    <3>3. QED
      BY SMTT(30), <1>14, <3>1, <3>2
  <2>2. matching # {} => found[1] <= n /\ \A q \in Reach(items, found) : q < new.next
    <3>1. ASSUME NEW q \in n..(n + size - 1) PROVE q < new.next
      BY <1>4, <1>8, <1>14
    <3>2. QED
      BY SMTT(30), <1>7, <1>10, <1>14, <3>1
  <2>3. QED
    BY <1>6, <2>1, <2>2
<1>16. ASSUME NEW q \in 1..Len(text), n < q, q < new.next PROVE \E t \in more : q \in Reach(items, t)
  <2>1. CASE matching = {}
    <3>1. new.next = n + 1
      BY <1>4, <2>1 DEF size
    <3>2. QED
      BY <1>14, <1>16, <3>1
  <2>2. CASE matching # {}
    <3>1. q \in n..(n + size - 1)
      BY <1>4, <1>8, <1>14, <1>16
    <3>2. QED
      BY <1>6, <1>7, <2>2, <3>1
  <2>3. QED
    BY <2>1, <2>2
<1>17. \A k \in Nat : Owns(k, n) <=> matching # {} /\ k = taker
  <2>1. matching # {} => n \in Reach(items, found)
    BY <1>7, <1>10, <1>11
  <2>2. QED
    BY <1>6, <1>10, <1>13, <2>1
<1>18. \A q \in Nat : (q < n <=> q <= p) /\ (q <= n <=> q <= p \/ q = n)
  OBVIOUS
<1>19. \A k \in 1..N : k \in Nat
  BY <1>2
<1>20. \A k \in 1..N : items[k].phrase = "leading" =>
         (k \in new.out <=> \E q \in About(text, items, k) : q <= n /\ ~Owns(k, q))
  <2>1. SUFFICES ASSUME NEW k \in 1..N, items[k].phrase = "leading"
                 PROVE  k \in new.out <=> \E q \in About(text, items, k) : q <= n /\ ~Owns(k, q)
    OBVIOUS
  <2>2. k = 1
    BY <2>1 DEF Undisturbed, N
  <2>3. k < taker <=> ~Owns(k, n)
    <3>1. matching = {} => k < taker
      BY <1>2, <2>2
    <3>2. matching # {} => (k < taker <=> k # taker)
      BY <1>2, <2>2
    <3>3. QED
      BY <1>17, <1>19, <3>1, <3>2
  <2>4. k \in new.out <=> k \in scan.out \/ (n \in About(text, items, k) /\ k < taker)
    BY <1>4
  <2>5. k \in scan.out <=> \E q \in About(text, items, k) : q <= p /\ ~Own(k, q)
    BY <1>1, <2>1
  <2>6. \A q \in About(text, items, k) : q <= p => (Own(k, q) <=> Owns(k, q))
    BY <1>11, <1>12, <1>19
  <2> HIDE DEF Own, Owns
  <2>7. QED
    <3>1. (\E q \in About(text, items, k) : q <= p /\ ~Own(k, q)) <=>
            \E q \in About(text, items, k) : q <= p /\ ~Owns(k, q)
      BY <2>6
    <3>2. (\E q \in About(text, items, k) : q <= n /\ ~Owns(k, q)) <=>
            (\E q \in About(text, items, k) : q <= p /\ ~Owns(k, q)) \/ (n \in About(text, items, k) /\ ~Owns(k, n))
      <4>1. \A q \in About(text, items, k) : q <= n <=> q <= p \/ q = n
        <5>1. About(text, items, k) \subseteq Nat
          BY <1>11
        <5>2. QED
          BY <1>18, <5>1
      <4>2. QED
        BY <4>1, Zenon
    <3>3. QED
      BY <2>3, <2>4, <2>5, <3>1, <3>2
<1>21. ASSUME NEW k \in 1..N, <<n, k>> \in Spots(text, items)
       PROVE  MayMatch(text, items, more, <<n, k>>) <=> k \in matching
  <2>1. items[k].phrase = "leading" =>
          ((\A q \in About(text, items, k) : q < n => Owns(k, q)) <=> k \notin scan.out)
    <3>1. \A q \in About(text, items, k) : q <= p => (Own(k, q) <=> Owns(k, q))
      BY <1>11, <1>12, <1>19
    <3> HIDE DEF Own, Owns
    <3>2. (\A q \in About(text, items, k) : q < n => Owns(k, q)) <=>
            ~\E q \in About(text, items, k) : q <= p /\ ~Own(k, q)
      <4>1. \A q \in About(text, items, k) : q < n <=> q <= p
        <5>1. About(text, items, k) \subseteq Nat
          BY <1>11
        <5>2. QED
          BY <1>18, <5>1
      <4>2. QED
        BY <3>1, <4>1, Zenon
    <3>3. items[k].phrase = "leading" =>
            (k \in scan.out <=> \E q \in About(text, items, k) : q <= p /\ ~Own(k, q))
      BY <1>1
    <3>4. QED
      BY <3>2, <3>3
  <2>2. (\E t \in more : t[2] = k /\ t[1] < n) <=> \E t \in M : t[2] = k
    <3>1. matching # {} => ~(found[1] < n)
      BY <1>10, <1>14
    <3>2. QED
      BY <1>6, <1>13, <3>1
  <2>3. MayMatch(text, items, more, <<n, k>>) <=>
          /\ items[k].phrase = "leading" => \A q \in About(text, items, k) : q < n => Owns(k, q)
          /\ items[k].phrase = "first" => ~\E t \in more : t[2] = k /\ t[1] < n
    BY DEF MayMatch
  <2> HIDE DEF Own, Owns
  <2>4. QED
    BY <1>5, <1>21, <2>1, <2>2, <2>3
<1>22. ASSUME NEW s \in Spots(text, items), s[1] <= n
       PROVE  s \in more <=> MayMatch(text, items, more, s) /\ ~IsTaken(items, more, s)
  <2>1. CASE s[1] <= p
    <3>1. s \in more <=> s \in M
      <4>1. s # found
        BY <1>10, <2>1
      <4>2. QED
        BY <1>6, <4>1
    <3>2. QED
      BY <1>1, <1>12, <2>1, <3>1
  <2>2. CASE ~(s[1] <= p)
    <3>1. s[1] = n /\ s[2] \in 1..N /\ s = <<n, s[2]>>
      <4>1. s[1] = n
        BY <1>11, <1>22, <2>2
      <4>2. QED
        BY <1>11, <4>1
    <3> DEFINE k == s[2]
    <3>2. s \in more <=> matching # {} /\ k = taker
      <4>1. s \notin M
        BY <1>1, <2>2
      <4>2. s = found <=> k = taker
        BY <3>1 DEF found
      <4>3. QED
        BY <1>6, <4>1, <4>2
    <3>3. IsTaken(items, more, s) <=> matching # {} /\ taker < k
      <4>1. matching # {} => n \in Reach(items, found)
        BY <1>7, <1>10, <1>11
      <4>2. IsTaken(items, more, s) <=> \E t \in more : n \in Reach(items, t) /\ (t[1] = n => t[2] < k)
        BY <3>1 DEF IsTaken
      <4>3. QED
        BY <1>6, <1>10, <1>13, <4>1, <4>2
    <3>4. MayMatch(text, items, more, s) <=> k \in matching
      BY <1>21, <3>1
    <3> HIDE DEF k
    <3>5. k \in matching => (k = taker <=> ~(taker < k))
      <4>1. k \in matching => taker <= k /\ taker \in Nat /\ k \in Nat
        BY <1>2, <1>19, <3>1 DEF k
      <4>2. QED
        BY <4>1
    <3>6. matching # {} /\ k = taker => k \in matching
      BY <1>2
    <3>7. QED
      BY <3>2, <3>3, <3>4, <3>5, <3>6
  <2>3. QED
    BY <2>1, <2>2
<1>23. QED
  BY <1>9, <1>14, <1>15, <1>16, <1>20, <1>22 DEF Scanned, more, N

PartsOf(text, items) == [k \in 1..Len(items) |-> Part(text, items[k].marks)]
Scans(text, items) == [matches : SUBSET Spots(text, items), out : SUBSET Nat, next : Nat]

LEMMA TriedIs ==
  ASSUME NEW S, NEW text \in Seq(S), NEW items, Inspectable(items),
         NEW scan \in Scans(text, items), NEW p \in 1..Len(text)
  PROVE  Tried(text, items, scan, p) \in Scans(text, items)
<1> DEFINE matching == Matching(text, items, scan, p)
           taker == Taker(text, items, scan, p)
           found == {<<p, k>> : k \in matching \cap {taker}}
           out == {k \in 1..Len(items) : p \in About(text, items, k) /\ k < taker}
           next == p + (IF matching = {} THEN 1 ELSE Size(items[taker]))
<1>1. scan.matches \subseteq Spots(text, items) /\ scan.out \subseteq Nat
  BY DEF Scans
<1>2. found \subseteq Spots(text, items)
  BY DEF Matching
<1>3. out \subseteq Nat
  OBVIOUS
<1>4. next \in Nat
  <2>1. matching # {} => taker \in 1..Len(items)
    BY TakerIs
  <2>2. \A k \in 1..Len(items) : Size(items[k]) \in Nat
    BY ItemIs DEF Size
  <2> HIDE DEF matching, taker
  <2>3. p \in Nat /\ (IF matching = {} THEN 1 ELSE Size(items[taker])) \in Nat
    BY <2>1, <2>2
  <2>4. QED
    BY <2>3
<1>5. Tried(text, items, scan, p) = [matches |-> scan.matches \cup found, out |-> scan.out \cup out, next |-> next]
  BY DEF Tried
<1> HIDE DEF found, out, next
<1>6. scan.matches \cup found \in SUBSET Spots(text, items) /\ scan.out \cup out \in SUBSET Nat
  BY <1>1, <1>2, <1>3
<1>7. QED
  BY <1>4, <1>5, <1>6 DEF Scans

\* Series, as a fold over the places of the text.
IsScan(f, text, items) ==
  f = [s \in SUBSET DOMAIN [p \in 1..Len(text) |-> p] |->
         IF s = {} THEN [matches |-> {}, out |-> {}, next |-> 1]
         ELSE SeriesStep(text, items, PartsOf(text, items), f[s \ {Max(s)}], [p \in 1..Len(text) |-> p][Max(s)])]

LEMMA SeriesIsFold ==
  ASSUME NEW S, NEW text \in Seq(S), NEW items, Inspectable(items)
  PROVE  \E f : IsScan(f, text, items) /\ Series(text, items) = f[DOMAIN [p \in 1..Len(text) |-> p]].matches
<1> DEFINE places == [p \in 1..Len(text) |-> p]
           D == DOMAIN places
           X == Scans(text, items)
           e == [s \in SUBSET D |-> Max(s)]
           start == [matches |-> {}, out |-> {}, next |-> 1]
           step == [p \in D |-> [scan \in X |-> SeriesStep(text, items, PartsOf(text, items), scan, places[p])]]
<1>1. places \in Seq(Nat) /\ \A p \in D : places[p] = p /\ p \in 1..Len(text)
  OBVIOUS
<1>2. IsFiniteSet(D) /\ \A s \in SUBSET D : s # {} => e[s] \in s /\ e[s] = Max(s)
  BY <1>1, Indexes
<1>3. step \in [D -> [X -> X]]
  <2>1. ASSUME NEW p \in D, NEW scan \in X PROVE SeriesStep(text, items, PartsOf(text, items), scan, places[p]) \in X
    <3>1. places[p] \in 1..Len(text) /\ scan.next \in Nat
      BY <1>1 DEF Scans
    <3> DEFINE q == places[p]
    <3> HIDE DEF q, places, X
    <3>2. SeriesStep(text, items, PartsOf(text, items), scan, q) =
            IF q < scan.next THEN scan ELSE Tried(text, items, scan, q)
      BY <3>1, SeriesStepIs DEF PartsOf, q
    <3>3. Tried(text, items, scan, q) \in X
      BY <3>1, TriedIs DEF q, X
    <3>4. QED
      BY <3>2, <3>3 DEF q
  <2> HIDE DEF X, places, D
  <2>2. QED
    BY <2>1
<1>4. start \in X
  BY DEF Scans
<1>5. PICK f \in [SUBSET D -> X] : IsFold(f, D, start, e, step)
  <2> HIDE DEF D, e, step, X, start
  <2>1. QED
    BY <1>2, <1>3, <1>4, FoldExists
<1>6. IsScan(f, text, items)
  <2>1. ASSUME NEW s \in SUBSET D, s # {}
        PROVE  f[s] = SeriesStep(text, items, PartsOf(text, items), f[s \ {Max(s)}], places[Max(s)])
    <3>1. f[s] = step[Max(s)][f[s \ {Max(s)}]]
      <4> HIDE DEF D, e, step
      <4>1. QED
        BY <1>2, <1>5, <2>1 DEF IsFold
    <3>2. f[s \ {Max(s)}] \in X /\ Max(s) \in D
      BY <1>2, <1>5, <2>1
    <3> HIDE DEF X, D, places
    <3>3. QED
      BY <3>1, <3>2
  <2>2. f[{}] = start
    <3> HIDE DEF e, step, start
    <3>1. QED
      BY <1>5 DEF IsFold
  <2> HIDE DEF step, e, X
  <2>3. QED
    BY <1>5, <2>1, <2>2 DEF IsScan
<1> DEFINE g == CHOOSE h : IsScan(h, text, items)
<1>7. IsScan(g, text, items)
  BY <1>6
<1>8. Series(text, items) = g[D].matches
  BY DEF Series, FoldLeft, MapThenFoldSet, IsScan, PartsOf
<1>9. QED
  BY <1>7, <1>8

LEMMA SeriesScanned ==
  ASSUME NEW S, NEW text \in Seq(S), NEW items, Inspectable(items), Undisturbed(text, items)
  PROVE  \E scan : Scanned(text, items, Len(text), scan) /\ Series(text, items) = scan.matches
<1> DEFINE n == Len(text)
           start == [matches |-> {}, out |-> {}, next |-> 1]
<1>1. n \in Nat
  OBVIOUS
<1>2. PICK f : IsScan(f, text, items) /\ Series(text, items) = f[DOMAIN [p \in 1..n |-> p]].matches
  BY SeriesIsFold
<1>3. ASSUME NEW s \in SUBSET (1..n)
      PROVE  f[s] = IF s = {} THEN start
                    ELSE SeriesStep(text, items, PartsOf(text, items), f[s \ {Max(s)}], [p \in 1..n |-> p][Max(s)])
  BY <1>2 DEF IsScan
<1> DEFINE Right(p) == Scanned(text, items, p, f[1..p])
           T == {p \in Nat : p <= n => Right(p)}
<1>4. Right(0)
  <2>1. 1..0 = {}
    OBVIOUS
  <2>2. f[1..0] = start
    BY <1>3, <2>1
  <2>3. \A s \in Spots(text, items) : ~(s[1] <= 0)
    <3>1. ASSUME NEW s \in Spots(text, items) PROVE s[1] \in 1..n
      BY SpotIs
    <3>2. \A q \in 1..n : ~(q <= 0)
      OBVIOUS
    <3>3. QED
      BY <3>1, <3>2
  <2>4. \A k : \A q \in About(text, items, k) : ~(q <= 0)
    <3>1. \A k : About(text, items, k) \subseteq 1..n
      BY DEF About, Concerned
    <3>2. \A q \in 1..n : ~(q <= 0)
      OBVIOUS
    <3>3. QED
      BY <3>1, <3>2
  <2>5. start.matches = {} /\ start.out = {} /\ start.next = 1
    OBVIOUS
  <2>6. \A q \in 1..n : ~(q < 1)
    OBVIOUS
  <2> HIDE DEF start, n
  <2>7. Scanned(text, items, 0, start)
    BY <2>3, <2>4, <2>5, <2>6 DEF Scanned, n
  <2>8. QED
    BY <2>2, <2>7
<1>5. ASSUME NEW p \in Nat, p + 1 <= n, Right(p) PROVE Right(p + 1)
  <2> DEFINE m == p + 1
             scan == f[1..p]
  <2>1. 1..m \in SUBSET (1..n) /\ 1..m # {} /\ (1..m) \ {m} = 1..p /\ m \in 1..n /\ m \in Nat
    BY <1>1, <1>5
  <2>2. Max(1..m) = m
    <3>1. 1..m \in SUBSET Nat /\ \A q \in 1..m : q <= m
      BY <2>1
    <3>2. Max(1..m) \in 1..m /\ m <= Max(1..m)
      <4> HIDE DEF m
      <4>1. m \in 1..m
        BY <2>1
      <4>2. QED
        BY <2>1, <3>1, <4>1, MaxIsGreatest
    <3>3. QED
      BY <2>1, <3>2
  <2> HIDE DEF m, n
  <2>3. f[1..m] = SeriesStep(text, items, PartsOf(text, items), scan, m)
    <3>1. [q \in 1..n |-> q][m] = m
      BY <2>1
    <3>2. QED
      BY <1>3, <2>1, <2>2, <3>1
  <2>4. Scanned(text, items, p, scan) /\ scan.next \in Nat
    BY <1>5 DEF Scanned
  <2> HIDE DEF scan
  <2>5. SeriesStep(text, items, PartsOf(text, items), scan, m) =
          IF m < scan.next THEN scan ELSE Tried(text, items, scan, m)
    BY <2>1, <2>4, SeriesStepIs DEF PartsOf, n
  <2>6. CASE m < scan.next
    <3>1. Scanned(text, items, m, scan)
      BY <2>1, <2>4, <2>6, ScanSkips DEF m, n
    <3>2. f[1..m] = scan
      BY <2>3, <2>5, <2>6
    <3>3. QED
      BY <3>1, <3>2 DEF m
  <2>7. CASE ~(m < scan.next)
    <3>1. Scanned(text, items, m, f[1..m])
      BY <2>1, <2>3, <2>4, <2>7, ScanTries DEF m, n, PartsOf
    <3>2. QED
      BY <3>1 DEF m
  <2>8. QED
    BY <2>6, <2>7
<1>6. T = Nat
  <2> HIDE DEF Right
  <2>1. T \in SUBSET Nat /\ 0 \in T /\ \A p \in T : p + 1 \in T
    BY <1>1, <1>4, <1>5
  <2> HIDE DEF T
  <2>2. QED
    BY <2>1, SetInduction
<1>7. Right(n)
  BY <1>1, <1>6
<1>8. QED
  <2>1. DOMAIN [p \in 1..n |-> p] = 1..n
    OBVIOUS
  <2>2. QED
    BY <1>2, <1>7, <2>1

(* The scan for several items finds the matches that INSPECT defines.      *)
LEMMA SeriesMatches ==
  ASSUME NEW S, NEW text \in Seq(S), NEW items, Inspectable(items), Undisturbed(text, items)
  PROVE  AreMatches(text, items, Series(text, items))
<1>1. PICK scan : Scanned(text, items, Len(text), scan) /\ Series(text, items) = scan.matches
  BY SeriesScanned
<1>2. \A s \in Spots(text, items) : s[1] <= Len(text)
  <2>1. ASSUME NEW s \in Spots(text, items) PROVE s[1] \in 1..Len(text)
    BY SpotIs
  <2>2. QED
    BY <2>1
<1>3. /\ scan.matches \subseteq Spots(text, items)
      /\ \A s \in Spots(text, items) :
           s \in scan.matches <=> MayMatch(text, items, scan.matches, s) /\ ~IsTaken(items, scan.matches, s)
  BY <1>1, <1>2 DEF Scanned
<1>4. QED
  BY <1>1, <1>3 DEF AreMatches

-----------------------------------------------------------------------------
(* INSPECT: the runtime's scans for one item *)

IsOne(text, items, part) ==
  Inspectable(items) /\ Len(items) = 1 /\ part = Part(text, items[1].marks)

\* The word of the item is at a place of its part.
IsHere(text, items, part, a) ==
  a + Len(items[1].word) - 1 <= part.last /\ SubSeq(text, a, a + Len(items[1].word) - 1) = items[1].word

LEMMA OneSpotIs ==
  ASSUME NEW S, NEW text \in Seq(S), NEW items, NEW part, IsOne(text, items, part)
  PROVE  /\ part \in Parts(Len(text)) /\ About(text, items, 1) = part.first..part.last
         /\ part.first \in Nat \ {0} /\ part.last \in Nat /\ part.first <= part.last + 1 /\ part.last <= Len(text)
         /\ items[1].phrase \in Phrases /\ Len(items[1].word) \in Nat /\ Len(items[1].by) \in Nat
         /\ \A t \in Spots(text, items) :
              /\ t = <<t[1], 1>> /\ t[2] = 1 /\ t[1] \in part.first..part.last
              /\ Reach(items, t) = t[1]..(t[1] + Size(items[1]) - 1) /\ Reach(items, t) \subseteq part.first..part.last
              /\ Size(items[1]) \in Nat \ {0}
              /\ items[1].phrase # "characters" =>
                   Size(items[1]) = Len(items[1].word) /\ IsHere(text, items, part, t[1])
<1>1. Inspectable(items) /\ Len(items) = 1 /\ part = Part(text, items[1].marks) /\ 1 \in 1..Len(items)
  BY DEF IsOne
<1>2. /\ items[1].phrase \in Phrases /\ AreMarks(items[1].marks) /\ OneOfEach(items[1].marks)
      /\ Len(items[1].word) \in Nat /\ Len(items[1].by) \in Nat
  BY <1>1, ItemIs
<1>3. part \in Parts(Len(text)) /\ About(text, items, 1) = part.first..part.last
  BY <1>1, <1>2, PartIsConcerned DEF About
<1>4. part.first \in Nat \ {0} /\ part.last \in Nat /\ part.first <= part.last + 1 /\ part.last <= Len(text)
  <2>1. part.first \in 1..(Len(text) + 1) /\ part.last \in 0..Len(text) /\ part.first <= part.last + 1 /\ Len(text) \in Nat
    BY <1>3 DEF Parts
  <2>2. QED
    BY <2>1
<1>5. ASSUME NEW t \in Spots(text, items)
      PROVE  /\ t = <<t[1], 1>> /\ t[2] = 1 /\ t[1] \in part.first..part.last
             /\ Reach(items, t) = t[1]..(t[1] + Size(items[1]) - 1) /\ Reach(items, t) \subseteq part.first..part.last
             /\ Size(items[1]) \in Nat \ {0}
             /\ items[1].phrase # "characters" =>
                  Size(items[1]) = Len(items[1].word) /\ IsHere(text, items, part, t[1])
  <2>1. /\ t[1] \in 1..Len(text) /\ t[2] \in 1..Len(items) /\ t = <<t[1], t[2]>>
        /\ Size(items[t[2]]) \in Nat \ {0} /\ t[1] \in Reach(items, t)
        /\ Reach(items, t) \subseteq About(text, items, t[2])
    BY <1>1, SpotIs
  <2>2. t[2] = 1 /\ t = <<t[1], 1>>
    <3>1. \A k \in 1..Len(items) : k = 1
      BY <1>1
    <3>2. t[2] = 1
      BY <2>1, <3>1
    <3>3. QED
      BY <2>1, <3>2
  <2>3. Reach(items, t) = t[1]..(t[1] + Size(items[1]) - 1)
    BY <2>2 DEF Reach
  <2>4. Reach(items, t) \subseteq part.first..part.last
    BY <1>3, <2>1, <2>2
  <2>5. ASSUME items[1].phrase # "characters"
        PROVE  Size(items[1]) = Len(items[1].word) /\ IsHere(text, items, part, t[1])
    <3>1. Size(items[1]) = Len(items[1].word)
      BY <2>5 DEF Size
    <3>2. t[1] \in Places(text, items[1].word, 1, Len(text))
      BY <2>2, <2>5 DEF Spots
    <3>3. SubSeq(text, t[1], t[1] + Len(items[1].word) - 1) = items[1].word
      BY <3>2 DEF Places
    <3>4. t[1] + Size(items[1]) - 1 \in Reach(items, t)
      <4>1. t[1] \in Nat /\ Size(items[1]) \in Nat \ {0}
        BY <2>1, <2>2
      <4>2. \A x, y \in Nat : y # 0 => x + y - 1 \in x..(x + y - 1)
        OBVIOUS
      <4>3. t[1] + Size(items[1]) - 1 \in t[1]..(t[1] + Size(items[1]) - 1)
        BY <4>1, <4>2
      <4>4. QED
        BY <2>3, <4>3
    <3>5. t[1] + Size(items[1]) - 1 <= part.last
      BY <2>4, <3>4
    <3>6. QED
      BY <3>1, <3>3, <3>5 DEF IsHere
  <2>6. t[1] \in part.first..part.last
    BY <2>1, <2>4
  <2>7. QED
    BY <2>1, <2>2, <2>3, <2>4, <2>5, <2>6
<1>6. QED
  BY <1>2, <1>3, <1>4, <1>5

LEMMA HereIsSpot ==
  ASSUME NEW S, NEW text \in Seq(S), NEW items, NEW part, IsOne(text, items, part),
         NEW a \in part.first..part.last, items[1].phrase = "characters" \/ (Len(items[1].word) # 0 /\ IsHere(text, items, part, a))
  PROVE  <<a, 1>> \in Spots(text, items)
<1>1. Inspectable(items) /\ Len(items) = 1 /\ part = Part(text, items[1].marks) /\ 1 \in 1..Len(items)
  BY DEF IsOne
<1>2. /\ part.first \in Nat \ {0} /\ part.last \in Nat /\ part.first <= part.last + 1 /\ part.last <= Len(text)
      /\ Len(items[1].word) \in Nat
  BY OneSpotIs
<1>3. a \in 1..Len(text) /\ part.first <= a /\ a <= part.last /\ a \in Nat
  BY <1>2
<1>4. <<a, 1>> \in Spots(text, items) <=>
        /\ part.first <= a /\ a <= part.last
        /\ items[1].phrase = "characters" \/ a \in Places(text, items[1].word, a, part.last)
  BY <1>1, <1>3, SpotIff
<1>5. ASSUME Len(items[1].word) # 0, IsHere(text, items, part, a) PROVE a \in Places(text, items[1].word, a, part.last)
  <2>1. a \in a..(part.last - Len(items[1].word) + 1)
    BY <1>2, <1>3, <1>5 DEF IsHere
  <2>2. items[1].word # <<>>
    BY <1>5
  <2>3. QED
    BY <1>5, <2>1, <2>2 DEF Places, IsHere
<1>6. QED
  BY <1>3, <1>4, <1>5

\* The scan comes to a place that no match from further left reaches over,
\* and at which the item may still match.
Comes(text, items, part, M, a) ==
  /\ a \in part.first..(part.last + 1)
  /\ \A t \in M : t[1] < a => a \notin Reach(items, t)
  /\ items[1].phrase = "leading" => \A p \in About(text, items, 1) : p < a => \E t \in M : p \in Reach(items, t)
  /\ items[1].phrase = "first" => \A t \in M : ~(t[1] < a)

Ones(text, items, part, M) ==
  IsOne(text, items, part) /\ items[1].phrase # "characters" /\ AreMatches(text, items, M)

LEMMA OneMatchIs ==
  ASSUME NEW S, NEW text \in Seq(S), NEW items, NEW part, NEW M, Ones(text, items, part, M),
         NEW step, step = Len(items[1].word)
  PROVE  /\ part.first \in Nat \ {0} /\ part.last \in Nat /\ part.first <= part.last + 1
         /\ part.last <= Len(text) /\ step \in Nat
         /\ About(text, items, 1) = part.first..part.last
         /\ \A t \in M : /\ t \in Spots(text, items) /\ t = <<t[1], 1>> /\ t[2] = 1 /\ t[1] \in part.first..part.last /\ t[1] \in Nat
                         /\ Reach(items, t) = t[1]..(t[1] + step - 1) /\ step # 0
                         /\ IsHere(text, items, part, t[1])
         /\ \A t, u \in M : t[1] \in Reach(items, u) => t[1] = u[1]
<1> DEFINE f == part.first
           l == part.last
<1>1. IsOne(text, items, part) /\ items[1].phrase # "characters" /\ AreMatches(text, items, M)
  BY DEF Ones
<1>2. /\ f \in Nat \ {0} /\ l \in Nat /\ f <= l + 1 /\ l <= Len(text) /\ step \in Nat
      /\ About(text, items, 1) = f..l
  BY <1>1, OneSpotIs
<1>3. ASSUME NEW t \in M
      PROVE  /\ t \in Spots(text, items) /\ t = <<t[1], 1>> /\ t[2] = 1 /\ t[1] \in f..l /\ t[1] \in Nat
             /\ Reach(items, t) = t[1]..(t[1] + step - 1) /\ step # 0
             /\ IsHere(text, items, part, t[1])
             /\ ~IsTaken(items, M, t)
  <2>1. t \in Spots(text, items) /\ ~IsTaken(items, M, t)
    BY <1>1 DEF AreMatches
  <2>2. /\ t = <<t[1], 1>> /\ t[2] = 1 /\ t[1] \in f..l
        /\ Reach(items, t) = t[1]..(t[1] + Size(items[1]) - 1) /\ Size(items[1]) \in Nat \ {0}
        /\ Size(items[1]) = step /\ IsHere(text, items, part, t[1])
    BY <1>1, <2>1, OneSpotIs
  <2>3. \A x \in f..l : x \in Nat
    BY <1>2
  <2>4. QED
    BY <2>1, <2>2, <2>3
<1>4. ASSUME NEW t \in M, NEW u \in M, t[1] \in Reach(items, u) PROVE t[1] = u[1]
  BY <1>3, <1>4 DEF IsTaken
<1>5. QED
  BY <1>2, <1>3, <1>4

(* Where the word is, it matches, and the scan goes on behind it.          *)
LEMMA MatchesHere ==
  ASSUME NEW S, NEW text \in Seq(S), NEW items, NEW part, NEW M, Ones(text, items, part, M),
         NEW a, Comes(text, items, part, M, a), NEW step, step = Len(items[1].word), step # 0,
         IsHere(text, items, part, a)
  PROVE  /\ <<a, 1>> \in M /\ Reach(items, <<a, 1>>) = a..(a + step - 1)
         /\ \A t \in M : t[1] < a \/ t = <<a, 1>> \/ ~(t[1] < a + step)
         /\ items[1].phrase # "first" => Comes(text, items, part, M, a + step)
<1> DEFINE f == part.first
           l == part.last
           s == <<a, 1>>
<1>1. /\ f \in Nat \ {0} /\ l \in Nat /\ f <= l + 1 /\ l <= Len(text) /\ step \in Nat
      /\ About(text, items, 1) = f..l
      /\ \A t \in M : /\ t \in Spots(text, items) /\ t = <<t[1], 1>> /\ t[2] = 1 /\ t[1] \in f..l /\ t[1] \in Nat
                      /\ Reach(items, t) = t[1]..(t[1] + step - 1)
      /\ \A t, u \in M : t[1] \in Reach(items, u) => t[1] = u[1]
  BY OneMatchIs
<1>2. /\ a \in f..(l + 1)
      /\ \A t \in M : t[1] < a => a \notin Reach(items, t)
      /\ items[1].phrase = "leading" => \A p \in About(text, items, 1) : p < a => \E t \in M : p \in Reach(items, t)
      /\ items[1].phrase = "first" => \A t \in M : ~(t[1] < a)
  BY DEF Comes
<1>3. a \in f..l /\ a \in Nat /\ a + step <= l + 1
  BY SMTT(30), <1>1, <1>2 DEF IsHere
<1>4. s \in Spots(text, items) /\ s[1] = a /\ s[2] = 1
  BY <1>3, HereIsSpot DEF Ones
<1>5. Reach(items, s) = a..(a + step - 1)
  <2>1. Size(items[1]) = step
    BY DEF Size, Ones
  <2>2. QED
    BY <1>4, <2>1 DEF Reach
<1> HIDE DEF s, f, l
<1>6. s \in M
  <2>1. MayMatch(text, items, M, s)
    <3>1. items[s[2]].phrase = "leading" =>
            \A p \in About(text, items, s[2]) : p < s[1] => \E t \in M : t[2] = s[2] /\ p \in Reach(items, t)
      BY <1>1, <1>2, <1>4
    <3>2. items[s[2]].phrase = "first" => ~\E t \in M : t[2] = s[2] /\ t[1] < s[1]
      BY <1>2, <1>4
    <3>3. QED
      BY <3>1, <3>2 DEF MayMatch
  <2>2. ~IsTaken(items, M, s)
    <3>1. ASSUME NEW t \in M, a \in Reach(items, t), t[1] = a => t[2] < 1 PROVE FALSE
      <4>1. t[1] \in Nat /\ a \in t[1]..(t[1] + step - 1) /\ t[2] = 1
        BY <1>1, <3>1
      <4>2. t[1] # a
        BY <3>1, <4>1
      <4>3. t[1] < a
        BY <1>3, <4>1, <4>2
      <4>4. QED
        BY <1>2, <3>1, <4>3
    <3>2. QED
      BY <1>4, <3>1 DEF IsTaken
  <2>3. QED
    BY <1>4, <2>1, <2>2 DEF AreMatches, Ones
<1>7. \A t \in M : t[1] < a \/ t = s \/ ~(t[1] < a + step)
  <2>1. ASSUME NEW t \in M, ~(t[1] < a), t[1] < a + step PROVE t = s
    <3>1. t[1] \in Nat
      BY <1>1
    <3>2. t[1] \in a..(a + step - 1)
      <4>1. \A x \in Nat : ~(x < a) /\ x < a + step => x \in a..(a + step - 1)
        <5>1. a \in Nat /\ step \in Nat
          BY <1>1, <1>3
        <5>2. QED
          BY ONLY <5>1
      <4>2. QED
        BY <2>1, <3>1, <4>1
    <3>3. t[1] = a
      BY <1>1, <1>4, <1>5, <1>6, <3>2
    <3>4. QED
      BY <1>1, <3>3 DEF s
  <2>2. QED
    BY <2>1
<1>8. ASSUME items[1].phrase # "first" PROVE Comes(text, items, part, M, a + step)
  <2>1. a + step \in f..(l + 1)
    BY <1>1, <1>3
  <2>2. ASSUME NEW t \in M, t[1] < a + step, a + step \in Reach(items, t) PROVE FALSE
    <3>1. t[1] \in Nat /\ a + step \in t[1]..(t[1] + step - 1)
      BY <1>1, <2>2
    <3>2. ~(t[1] <= a)
      <4>1. ASSUME t[1] < a PROVE FALSE
        <5>1. a \in t[1]..(t[1] + step - 1)
          BY <1>1, <1>3, <3>1, <4>1
        <5>2. QED
          BY <1>1, <1>2, <4>1, <5>1
      <4>2. t[1] # a
        BY <1>1, <1>3, <3>1
      <4>3. QED
        BY <1>3, <3>1, <4>1, <4>2
    <3>3. t = s
      BY <1>3, <1>7, <2>2, <3>1, <3>2
    <3>4. QED
      BY <1>3, <1>4, <3>2, <3>3
  <2>3. ASSUME items[1].phrase = "leading", NEW p \in About(text, items, 1), p < a + step
        PROVE  \E t \in M : p \in Reach(items, t)
    <3>1. p \in Nat
      BY <1>1
    <3>2. CASE p < a
      BY <1>2, <2>3, <3>2
    <3>3. CASE ~(p < a)
      <4>1. p \in a..(a + step - 1)
        BY SMTT(30), <1>1, <1>3, <2>3, <3>1, <3>3
      <4>2. QED
        BY <1>5, <1>6, <4>1
    <3>4. QED
      BY <3>2, <3>3
  <2>4. QED
    BY <1>8, <2>1, <2>2, <2>3 DEF Comes, f, l
<1>9. QED
  BY <1>5, <1>6, <1>7, <1>8 DEF s

(* Where it is not, the scan goes on at the next place, or, when the word  *)
(* no longer fits or the item is LEADING, it ends.                         *)
LEMMA NoMatchHere ==
  ASSUME NEW S, NEW text \in Seq(S), NEW items, NEW part, NEW M, Ones(text, items, part, M),
         NEW a, Comes(text, items, part, M, a), NEW step, step = Len(items[1].word), step # 0,
         ~IsHere(text, items, part, a)
  PROVE  /\ \A t \in M : t[1] # a
         /\ a + step - 1 > part.last => \A t \in M : t[1] < a
         /\ ~(a + step - 1 > part.last) /\ items[1].phrase = "leading" => \A t \in M : t[1] < a
         /\ ~(a + step - 1 > part.last) /\ items[1].phrase # "leading" => Comes(text, items, part, M, a + 1)
<1> DEFINE f == part.first
           l == part.last
<1>1. /\ f \in Nat \ {0} /\ l \in Nat /\ f <= l + 1 /\ l <= Len(text) /\ step \in Nat
      /\ About(text, items, 1) = f..l
      /\ \A t \in M : /\ t \in Spots(text, items) /\ t = <<t[1], 1>> /\ t[2] = 1 /\ t[1] \in f..l /\ t[1] \in Nat
                      /\ Reach(items, t) = t[1]..(t[1] + step - 1) /\ step # 0
                      /\ IsHere(text, items, part, t[1])
      /\ \A t, u \in M : t[1] \in Reach(items, u) => t[1] = u[1]
  BY OneMatchIs
<1>2. /\ a \in f..(l + 1)
      /\ \A t \in M : t[1] < a => a \notin Reach(items, t)
      /\ items[1].phrase = "first" => \A t \in M : ~(t[1] < a)
  BY DEF Comes
<1>3. a \in Nat
  BY <1>1, <1>2
<1>4. \A t \in M : t[1] # a
  BY <1>1
<1>5. ASSUME NEW t \in M PROVE t[1] + step - 1 <= l /\ t[1] \in Nat
  BY <1>1 DEF IsHere
<1> HIDE DEF f, l
<1>6. ASSUME a + step - 1 > l, NEW t \in M PROVE t[1] < a
  BY SMTT(30), <1>1, <1>3, <1>5, <1>6
<1>7. ASSUME ~(a + step - 1 > l), items[1].phrase = "leading", NEW t \in M PROVE t[1] < a
  <2>1. SUFFICES ASSUME ~(t[1] < a) PROVE FALSE
    OBVIOUS
  <2>2. a < t[1]
    BY <1>3, <1>4, <1>5, <2>1
  <2>3. a \in About(text, items, 1)
    BY SMTT(30), <1>1, <1>2, <1>3, <1>7
  <2>4. MayMatch(text, items, M, t)
    BY <1>1 DEF AreMatches, Ones
  <2>5. PICK u \in M : a \in Reach(items, u)
    BY <1>1, <1>7, <2>2, <2>3, <2>4 DEF MayMatch
  <2>6. u[1] \in Nat /\ a \in u[1]..(u[1] + step - 1) /\ u[1] # a
    BY <1>1, <1>4, <2>5
  <2>7. u[1] < a
    BY <1>3, <2>6
  <2>8. QED
    BY <1>2, <2>5, <2>7
<1>8. ASSUME ~(a + step - 1 > l), items[1].phrase # "leading" PROVE Comes(text, items, part, M, a + 1)
  <2>1. a + 1 \in f..(l + 1)
    BY SMTT(30), <1>1, <1>2, <1>3, <1>8
  <2>2. ASSUME NEW t \in M, t[1] < a + 1, a + 1 \in Reach(items, t) PROVE FALSE
    <3>1. t[1] \in Nat /\ a + 1 \in t[1]..(t[1] + step - 1) /\ t[1] # a
      BY <1>1, <1>4, <2>2
    <3>2. t[1] < a
      BY <1>3, <2>2, <3>1
    <3>3. a \in t[1]..(t[1] + step - 1)
      <4>1. \A x \in Nat : x < a /\ a + 1 \in x..(x + step - 1) => a \in x..(x + step - 1)
        <5>1. a \in Nat /\ step \in Nat
          BY <1>1, <1>3
        <5>2. QED
          BY ONLY <5>1
      <4>2. QED
        BY <3>1, <3>2, <4>1
    <3>4. QED
      BY <1>1, <1>2, <3>2, <3>3
  <2>3. ASSUME items[1].phrase = "first", NEW t \in M PROVE ~(t[1] < a + 1)
    BY <1>2, <1>3, <1>4, <1>5, <2>3
  <2>4. QED
    BY <1>8, <2>1, <2>2, <2>3 DEF Comes, f, l
<1>9. QED
  BY <1>4, <1>6, <1>7, <1>8 DEF l

(* It begins where the part begins.                                        *)
LEMMA ComesFirst ==
  ASSUME NEW S, NEW text \in Seq(S), NEW items, NEW part, NEW M, Ones(text, items, part, M)
  PROVE  Comes(text, items, part, M, part.first) /\ \A t \in M : ~(t[1] < part.first)
<1> DEFINE f == part.first
           l == part.last
<1>1. /\ f \in Nat \ {0} /\ l \in Nat /\ f <= l + 1
      /\ About(text, items, 1) = f..l /\ \A t \in M : t[1] \in f..l
  <2>1. IsOne(text, items, part) /\ M \subseteq Spots(text, items)
    BY DEF Ones, AreMatches
  <2>2. QED
    BY <2>1, OneSpotIs
<1> HIDE DEF f, l
<1>2. f \in f..(l + 1) /\ \A p \in f..l : ~(p < f)
  BY <1>1
<1>3. QED
  BY <1>1, <1>2 DEF Comes, f, l

\* The function that InspectTallying takes its value from.
IsCount(f, text, item, part, step) ==
  f = [i \in part.first..(part.last + 1) |->
         IF i + step - 1 <= part.last /\ SubSeq(text, i, i + step - 1) = item.word THEN 1 + f[i + step]
         ELSE IF item.phrase = "leading" \/ i + step - 1 > part.last THEN 0
         ELSE f[i + 1]]

LEMMA CountExists ==
  ASSUME NEW text, NEW item, NEW part, part.first \in Nat \ {0}, part.last \in Nat, NEW step \in Nat \ {0}
  PROVE  \E f : IsCount(f, text, item, part, step)
<1> DEFINE a == part.first
           b == part.last + 1
           here(i) == i + step - 1 <= part.last /\ SubSeq(text, i, i + step - 1) = item.word
           ends(i) == item.phrase = "leading" \/ i + step - 1 > part.last
           stop == {i \in a..b : ~here(i) /\ ends(i)}
           base == [i \in a..b |-> 0]
           to == [i \in a..b |-> IF here(i) THEN i + step ELSE i + 1]
           op == [i \in a..b |-> [v \in Nat |-> IF here(i) THEN 1 + v ELSE v]]
<1>1. a \in Int /\ b \in Int
  OBVIOUS
<1>2. \A i \in a..b : base[i] \in Nat
  OBVIOUS
<1>3. ASSUME NEW i \in a..b, i \notin stop
      PROVE  to[i] \in a..b /\ to[i] > i /\ op[i] \in [Nat -> Nat]
  <2>1. to[i] = (IF here(i) THEN i + step ELSE i + 1) /\ (here(i) \/ ~ends(i))
    BY <1>3
  <2>2. i + step - 1 <= part.last
    BY <1>3, <2>1
  <2> HIDE DEF here, ends, to
  <2>3. to[i] \in a..b /\ to[i] > i
    BY <2>1, <2>2
  <2>4. op[i] \in [Nat -> Nat]
    OBVIOUS
  <2>5. QED
    BY <2>3, <2>4
<1>4. PICK f \in [a..b -> Nat] : LooksAhead(f, a, b, stop, base, to, op)
  <2> DEFINE Z == Nat
  <2>1. (\A i \in a..b : base[i] \in Z) /\ \A i \in a..b : i \notin stop => to[i] \in a..b /\ to[i] > i /\ op[i] \in [Z -> Z]
    BY <1>2, <1>3
  <2> HIDE DEF a, b, stop, base, to, op, Z
  <2>2. \E f \in [a..b -> Z] : LooksAhead(f, a, b, stop, base, to, op)
    BY <1>1, <2>1, LookAheadExists
  <2>3. QED
    BY <2>2 DEF Z
<1>5. ASSUME NEW i \in a..b
      PROVE  f[i] = IF here(i) THEN 1 + f[i + step] ELSE IF ends(i) THEN 0 ELSE f[i + 1]
  <2>1. f[i] = IF i \in stop THEN base[i] ELSE op[i][f[to[i]]]
    BY <1>4 DEF LooksAhead
  <2>2. CASE i \in stop
    BY <2>1, <2>2
  <2>3. CASE i \notin stop
    <3>1. f[i] = op[i][f[to[i]]] /\ f[to[i]] \in Nat
      BY <1>3, <1>4, <2>1, <2>3
    <3> DEFINE v == f[to[i]]
    <3>2. op[i][v] = IF here(i) THEN 1 + v ELSE v
      BY <3>1
    <3>3. to[i] = (IF here(i) THEN i + step ELSE i + 1) /\ (here(i) \/ ~ends(i))
      BY <2>3
    <3> HIDE DEF here, ends, op, to, stop
    <3>4. QED
      BY <3>1, <3>2, <3>3
  <2>4. QED
    BY <2>2, <2>3
<1>6. f = [i \in a..b |-> IF here(i) THEN 1 + f[i + step] ELSE IF ends(i) THEN 0 ELSE f[i + 1]]
  <2> HIDE DEF here, ends, a, b
  <2>1. QED
    BY <1>4, <1>5
<1>7. QED
  BY <1>6 DEF IsCount

\* The matches from a place on.
Later(M, a) == {t \in M : ~(t[1] < a)}

LEMMA SpotsFinite ==
  ASSUME NEW S, NEW text \in Seq(S), NEW items, Inspectable(items), NEW M, M \subseteq Spots(text, items)
  PROVE  IsFiniteSet(M)
<1>1. Len(text) \in Nat /\ Len(items) \in Nat
  BY DEF Inspectable, AreItems, IsText
<1>2. IsFiniteSet(1..Len(text)) /\ IsFiniteSet(1..Len(items))
  BY <1>1, FS_Interval
<1>3. IsFiniteSet((1..Len(text)) \X (1..Len(items)))
  BY <1>2, FS_Product
<1>4. M \subseteq (1..Len(text)) \X (1..Len(items))
  BY DEF Spots
<1>5. QED
  BY <1>3, <1>4, FS_Subset

(* From a place that the scan comes to, it counts the matches that are     *)
(* left.                                                                   *)
LEMMA CountsLater ==
  ASSUME NEW S, NEW text \in Seq(S), NEW items, NEW part, NEW M, Ones(text, items, part, M), items[1].phrase # "first",
         NEW step, step = Len(items[1].word), step # 0, NEW f, IsCount(f, text, items[1], part, step)
  PROVE  \A a \in part.first..(part.last + 1) : Comes(text, items, part, M, a) => f[a] = Cardinality(Later(M, a))
<1> DEFINE l == part.last
           first == part.first
           Good == {a \in Int : Comes(text, items, part, M, a) => f[a] = Cardinality(Later(M, a))}
<1>1. /\ first \in Nat \ {0} /\ l \in Nat /\ step \in Nat /\ IsFiniteSet(M)
      /\ \A t \in M : t[1] \in Nat
  <2>1. /\ first \in Nat \ {0} /\ l \in Nat /\ step \in Nat
        /\ \A t \in M : t[1] \in first..l
    <3>1. IsOne(text, items, part) /\ M \subseteq Spots(text, items)
      BY DEF Ones, AreMatches
    <3>2. QED
      BY <3>1, OneSpotIs
  <2>2. IsFiniteSet(M)
    BY SpotsFinite DEF Ones, AreMatches, IsOne
  <2>3. \A x \in first..l : x \in Nat
    BY <2>1
  <2>4. QED
    BY <2>1, <2>2, <2>3
<1>2. \A a \in first..(l + 1) :
        f[a] = IF IsHere(text, items, part, a) THEN 1 + f[a + step]
               ELSE IF items[1].phrase = "leading" \/ a + step - 1 > l THEN 0 ELSE f[a + 1]
  BY DEF IsCount, IsHere
<1> HIDE DEF l, first
<1>3. ASSUME NEW a \in first..(l + 1), \A b \in first..(l + 1) : b > a => b \in Good, Comes(text, items, part, M, a)
      PROVE  f[a] = Cardinality(Later(M, a))
  <2>1. a \in Nat
    BY <1>1
  <2>2. CASE IsHere(text, items, part, a)
    <3>1. /\ <<a, 1>> \in M
          /\ \A t \in M : t[1] < a \/ t = <<a, 1>> \/ ~(t[1] < a + step)
          /\ Comes(text, items, part, M, a + step)
      <4>1. <<a, 1>> \in M
        BY <1>3, <2>2, MatchesHere
      <4>2. \A t \in M : t[1] < a \/ t = <<a, 1>> \/ ~(t[1] < a + step)
        BY <1>3, <2>2, MatchesHere
      <4>3. Comes(text, items, part, M, a + step)
        BY <1>3, <2>2, MatchesHere
      <4>4. QED
        BY <4>1, <4>2, <4>3
    <3>2. a + step \in first..(l + 1) /\ a + step > a
      BY <1>1, <2>1, <3>1 DEF Comes, first, l
    <3>3. f[a + step] = Cardinality(Later(M, a + step))
      BY <1>3, <3>1, <3>2
    <3>4. Later(M, a) = Later(M, a + step) \cup {<<a, 1>>} /\ <<a, 1>> \notin Later(M, a + step)
      <4>1. ~(a < a) /\ a < a + step /\ <<a, 1>>[1] = a
        BY <1>1, <2>1
      <4>2. \A t \in M : ~(t[1] < a + step) => ~(t[1] < a)
        BY <1>1, <2>1
      <4>3. QED
        BY <3>1, <4>1, <4>2 DEF Later
    <3>5. IsFiniteSet(Later(M, a + step))
      BY <1>1, FS_Subset DEF Later
    <3>6. Cardinality(Later(M, a)) = Cardinality(Later(M, a + step)) + 1 /\ Cardinality(Later(M, a + step)) \in Nat
      BY <3>4, <3>5, FS_AddElement, FS_CardinalityType
    <3>7. f[a] = 1 + f[a + step]
      BY <1>2, <2>2
    <3>8. QED
      BY <3>3, <3>6, <3>7
  <2>3. CASE ~IsHere(text, items, part, a)
    <3>1. /\ \A t \in M : t[1] # a
          /\ a + step - 1 > l => \A t \in M : t[1] < a
          /\ ~(a + step - 1 > l) /\ items[1].phrase = "leading" => \A t \in M : t[1] < a
          /\ ~(a + step - 1 > l) /\ items[1].phrase # "leading" => Comes(text, items, part, M, a + 1)
      <4>1. \A t \in M : t[1] # a
        BY <1>3, <2>3, NoMatchHere
      <4>2. a + step - 1 > part.last => \A t \in M : t[1] < a
        BY <1>3, <2>3, NoMatchHere
      <4>3. ~(a + step - 1 > part.last) /\ items[1].phrase = "leading" => \A t \in M : t[1] < a
        BY <1>3, <2>3, NoMatchHere
      <4>4. ~(a + step - 1 > part.last) /\ items[1].phrase # "leading" => Comes(text, items, part, M, a + 1)
        BY <1>3, <2>3, NoMatchHere
      <4>5. QED
        BY <4>1, <4>2, <4>3, <4>4 DEF l
    <3>2. CASE items[1].phrase = "leading" \/ a + step - 1 > l
      <4>1. Later(M, a) = {}
        BY <3>1, <3>2 DEF Later
      <4>2. f[a] = 0
        BY <1>2, <2>3, <3>2
      <4>3. QED
        BY <4>1, <4>2, FS_EmptySet
    <3>3. CASE ~(items[1].phrase = "leading" \/ a + step - 1 > l)
      <4>1. f[a] = f[a + 1] /\ Comes(text, items, part, M, a + 1)
        BY <1>2, <2>3, <3>1, <3>3
      <4>2. a + 1 \in first..(l + 1) /\ a + 1 > a
        BY <2>1, <4>1 DEF Comes, first, l
      <4>3. Later(M, a) = Later(M, a + 1)
        <5>1. \A x \in Nat : x # a => (~(x < a) <=> ~(x < a + 1))
          BY <2>1
        <5>2. \A t \in M : ~(t[1] < a) <=> ~(t[1] < a + 1)
          BY <1>1, <3>1, <5>1
        <5>3. QED
          BY <5>2 DEF Later
      <4>4. QED
        BY <1>3, <4>1, <4>2, <4>3
    <3>4. QED
      BY <3>2, <3>3
  <2>4. QED
    BY <2>2, <2>3
<1>4. first..(l + 1) \subseteq Good
  <2>1. first \in Int /\ l + 1 \in Int
    BY <1>1
  <2>2. \A a \in first..(l + 1) : (\A b \in first..(l + 1) : b > a => b \in Good) => a \in Good
    BY <1>1, <1>3
  <2> HIDE DEF Good
  <2>3. QED
    BY <2>1, <2>2, DownwardInduction
<1>5. QED
  BY <1>4 DEF first, l

\* What TALLYING counts: all of them.
LEMMA CharactersMatch ==
  ASSUME NEW S, NEW text \in Seq(S), NEW items, NEW part, IsOne(text, items, part),
         items[1].phrase = "characters", NEW M, AreMatches(text, items, M)
  PROVE  /\ M = {<<p, 1>> : p \in part.first..part.last}
         /\ \A p \in part.first..part.last : Reach(items, <<p, 1>>) = {p}
<1> DEFINE f == part.first
           l == part.last
<1>1. f \in Nat \ {0} /\ l \in Nat /\ f <= l + 1
  BY OneSpotIs
<1>2. \A t \in Spots(text, items) : t = <<t[1], 1>> /\ t[1] \in f..l
  BY OneSpotIs
<1> HIDE DEF f, l
<1>3. \A p \in f..l : p \in Nat /\ p..(p + 1 - 1) = {p}
  BY <1>1
<1>4. \A p \in f..l : <<p, 1>> \in Spots(text, items)
  BY HereIsSpot DEF f, l
<1>5. \A p \in f..l : Reach(items, <<p, 1>>) = {p}
  BY <1>3 DEF Reach, Size
<1>6. M \subseteq Spots(text, items)
  BY DEF AreMatches
<1>7. ASSUME NEW p \in f..l PROVE <<p, 1>> \in M
  <2> DEFINE s == <<p, 1>>
  <2>1. s[1] = p /\ s[2] = 1 /\ s \in Spots(text, items)
    BY <1>4
  <2> HIDE DEF s
  <2>2. MayMatch(text, items, M, s)
    BY <2>1 DEF MayMatch
  <2>3. ~IsTaken(items, M, s)
    <3>1. ASSUME NEW t \in M, p \in Reach(items, t), t[1] = p => t[2] < 1 PROVE FALSE
      <4>1. t = <<t[1], 1>> /\ t[1] \in f..l
        BY <1>2, <1>6
      <4>2. Reach(items, t) = {t[1]} /\ t[2] = 1
        BY <1>5, <4>1
      <4>3. QED
        BY <3>1, <4>2
    <3>2. QED
      BY <2>1, <3>1 DEF IsTaken
  <2>4. s \in M
    BY <2>1, <2>2, <2>3 DEF AreMatches
  <2>5. QED
    BY <2>4 DEF s
<1>8. M = {<<p, 1>> : p \in f..l}
  BY <1>2, <1>6, <1>7
<1>9. QED
  BY <1>5, <1>8 DEF f, l

(* The runtime counts the matches of the item.                             *)
LEMMA TallyingCounts ==
  ASSUME NEW S, NEW text \in Seq(S), NEW items, Inspectable(items), Len(items) = 1, items[1].phrase # "first",
         NEW M, AreMatches(text, items, M)
  PROVE  InspectTallying(text, items[1]) = Cardinality(M)
<1> DEFINE part == Part(text, items[1].marks)
           step == Len(items[1].word)
<1>1. IsOne(text, items, part)
  BY DEF IsOne
<1> HIDE DEF part
<1>2. /\ part.first \in Nat \ {0} /\ part.last \in Nat /\ part.first <= part.last + 1 /\ step \in Nat
      /\ \A t \in Spots(text, items) : t[1] \in part.first..part.last
      /\ \A t \in Spots(text, items) : items[1].phrase # "characters" => step # 0
  <2>1. /\ part.first \in Nat \ {0} /\ part.last \in Nat /\ part.first <= part.last + 1 /\ step \in Nat
        /\ \A t \in Spots(text, items) :
              /\ t[1] \in part.first..part.last
              /\ Size(items[1]) \in Nat \ {0}
              /\ items[1].phrase # "characters" => Size(items[1]) = step
    BY <1>1, OneSpotIs
  <2>2. QED
    BY <2>1
<1>3. M \subseteq Spots(text, items)
  BY DEF AreMatches
<1> DEFINE count == CHOOSE f : IsCount(f, text, items[1], part, step)
<1>4. InspectTallying(text, items[1]) =
        IF items[1].phrase = "characters" THEN part.last - part.first + 1
        ELSE IF step = 0 \/ part.first > part.last THEN 0 ELSE count[part.first]
  BY DEF InspectTallying, IsCount, part
<1>5. CASE items[1].phrase = "characters"
  <2> DEFINE D == part.first..part.last
             h == [p \in D |-> <<p, 1>>]
  <2>1. M = {<<p, 1>> : p \in D}
    BY <1>1, <1>5, CharactersMatch
  <2>2. h \in Bijection(D, M)
    <3>1. h \in [D -> M]
      BY <2>1
    <3>2. \A x, y \in D : h[x] = h[y] => x = y
      OBVIOUS
    <3>3. \A t \in M : \E x \in D : h[x] = t
      BY <2>1
    <3> HIDE DEF h, D
    <3>4. QED
      BY <3>1, <3>2, <3>3 DEF Bijection, Injection, Surjection, IsInjective
  <2>3. IsFiniteSet(D) /\ Cardinality(D) = IF part.first > part.last THEN 0 ELSE part.last - part.first + 1
    <3>1. part.first \in Int /\ part.last \in Int
      BY <1>2
    <3>2. QED
      BY <3>1, FS_Interval
  <2> HIDE DEF D, h
  <2>4. ExistsBijection(D, M)
    BY <2>2 DEF ExistsBijection
  <2>5. Cardinality(M) = Cardinality(D)
    BY <2>3, <2>4, FS_Bijection
  <2>6. part.first > part.last => part.last - part.first + 1 = 0
    BY <1>2
  <2>7. QED
    BY <1>4, <1>5, <2>3, <2>5, <2>6
<1>6. CASE items[1].phrase # "characters"
  <2>1. CASE step = 0 \/ part.first > part.last
    <3>1. M = {}
      <4>1. part.first > part.last => part.first..part.last = {}
        BY <1>2
      <4>2. QED
        BY <1>2, <1>3, <1>6, <2>1, <4>1
    <3>2. QED
      BY <1>4, <1>6, <2>1, <3>1, FS_EmptySet
  <2>2. CASE ~(step = 0 \/ part.first > part.last)
    <3>1. Ones(text, items, part, M)
      BY <1>1, <1>6 DEF Ones
    <3>2. IsCount(count, text, items[1], part, step)
      <4>1. step \in Nat \ {0}
        BY <1>2, <2>2
      <4> HIDE DEF step
      <4>2. \E f : IsCount(f, text, items[1], part, step)
        BY <1>2, <4>1, CountExists
      <4>3. QED
        BY <4>2
    <3>3. Comes(text, items, part, M, part.first) /\ Later(M, part.first) = M
      BY <3>1, ComesFirst DEF Later
    <3> HIDE DEF count
    <3>4. \A a \in part.first..(part.last + 1) : Comes(text, items, part, M, a) => count[a] = Cardinality(Later(M, a))
      BY <2>2, <3>1, <3>2, CountsLater
    <3>5. count[part.first] = Cardinality(M)
      BY <1>2, <3>3, <3>4
    <3>6. QED
      BY <1>4, <1>6, <2>2, <3>5
  <2>3. QED
    BY <2>1, <2>2
<1>7. QED
  BY <1>5, <1>6

\* What REPLACING leaves, place by place.
IsReplaced(text, items, M, new) ==
  /\ Len(new) = Len(text)
  /\ \A j \in 1..Len(text) : (\A t \in M : j \notin Reach(items, t)) => new[j] = text[j]
  /\ \A t \in M : \A j \in Reach(items, t) :
       new[j] = IF j - t[1] < Len(items[t[2]].by) THEN items[t[2]].by[j - t[1] + 1] ELSE text[j]

LEMMA MatchesApart ==
  ASSUME NEW S, NEW text \in Seq(S), NEW items, Inspectable(items), NEW M, AreMatches(text, items, M),
         NEW t \in M, NEW u \in M, NEW j, j \in Reach(items, t), j \in Reach(items, u)
  PROVE  t = u
<1>1. \A x \in M : /\ x \in Spots(text, items) /\ x[1] \in Nat /\ x[2] \in Nat /\ x = <<x[1], x[2]>>
                   /\ Size(items[x[2]]) \in Nat /\ Reach(items, x) = x[1]..(x[1] + Size(items[x[2]]) - 1)
                   /\ ~IsTaken(items, M, x)
  <2>1. ASSUME NEW x \in M
        PROVE  /\ x \in Spots(text, items) /\ x[1] \in Nat /\ x[2] \in Nat /\ x = <<x[1], x[2]>>
               /\ Size(items[x[2]]) \in Nat /\ Reach(items, x) = x[1]..(x[1] + Size(items[x[2]]) - 1)
               /\ ~IsTaken(items, M, x)
    <3>1. x \in Spots(text, items) /\ ~IsTaken(items, M, x)
      BY DEF AreMatches
    <3>2. /\ x[1] \in 1..Len(text) /\ x[2] \in 1..Len(items) /\ x = <<x[1], x[2]>>
          /\ Size(items[x[2]]) \in Nat \ {0}
      BY <3>1, SpotIs
    <3>3. QED
      BY <3>1, <3>2 DEF Reach
  <2>2. QED
    BY <2>1
<1>2. ASSUME NEW x \in M, NEW y \in M, j \in Reach(items, x), j \in Reach(items, y), x[1] < y[1] PROVE FALSE
  <2>1. \A a, b, c, d \in Nat : j \in a..(a + c - 1) /\ j \in b..(b + d - 1) /\ a < b => b \in a..(a + c - 1) /\ a # b
    OBVIOUS
  <2>2. y[1] \in Reach(items, x) /\ x[1] # y[1]
    <3> DEFINE a == x[1]
               b == y[1]
               c == Size(items[x[2]])
               d == Size(items[y[2]])
    <3>1. /\ a \in Nat /\ b \in Nat /\ c \in Nat /\ d \in Nat /\ a < b
          /\ Reach(items, x) = a..(a + c - 1) /\ Reach(items, y) = b..(b + d - 1)
      BY <1>1, <1>2
    <3> HIDE DEF a, b, c, d
    <3>2. b \in Reach(items, x) /\ a # b
      BY <1>2, <2>1, <3>1
    <3>3. QED
      BY <3>2 DEF a, b
  <2>3. QED
    BY <1>1, <2>2 DEF IsTaken
<1>3. t[1] = u[1]
  <2>1. t[1] \in Nat /\ u[1] \in Nat /\ ~(t[1] < u[1]) /\ ~(u[1] < t[1])
    BY <1>1, <1>2
  <2>2. QED
    BY <2>1
<1>4. t[2] = u[2]
  <2>1. t[1] \in Reach(items, u) /\ u[1] \in Reach(items, t)
    <3>1. \A a, c \in Nat : j \in a..(a + c - 1) => a \in a..(a + c - 1)
      OBVIOUS
    <3>2. QED
      BY <1>1, <1>3, <3>1
  <2>2. ~(t[2] < u[2]) /\ ~(u[2] < t[2])
    BY <1>1, <1>3, <2>1 DEF IsTaken
  <2>3. QED
    BY <1>1, <2>2
<1>5. QED
  BY <1>1, <1>3, <1>4

LEMMA ReplacedIs ==
  ASSUME NEW S, NEW text \in Seq(S), NEW items, Inspectable(items), NEW M, AreMatches(text, items, M),
         \A k \in 1..Len(items) : items[k].by \in Seq(S)
  PROVE  Replaced(text, items, M) \in Seq(S) /\ IsReplaced(text, items, M, Replaced(text, items, M))
<1> DEFINE n == Len(text)
           at(j) == {t \in M : j \in Reach(items, t)}
           put(j, t) == IF j - t[1] < Len(items[t[2]].by) THEN items[t[2]].by[j - t[1] + 1] ELSE text[j]
           new == Replaced(text, items, M)
<1>1. \A t \in M : /\ t[1] \in Nat /\ t[2] \in 1..Len(items) /\ Size(items[t[2]]) \in Nat
  <2>1. ASSUME NEW t \in M PROVE t[1] \in Nat /\ t[2] \in 1..Len(items) /\ Size(items[t[2]]) \in Nat
    <3>1. t \in Spots(text, items)
      BY DEF AreMatches
    <3>2. t[1] \in 1..n /\ t[2] \in 1..Len(items) /\ Size(items[t[2]]) \in Nat \ {0}
      BY <3>1, SpotIs
    <3>3. QED
      BY <3>2
  <2>2. QED
    BY <2>1
<1>2. new = [j \in 1..n |-> IF at(j) = {} THEN text[j] ELSE put(j, CHOOSE t \in at(j) : TRUE)]
  <2> DEFINE there(j) == {t \in M : t[1] <= j /\ j < t[1] + Size(items[t[2]])}
  <2>1. new = [j \in 1..n |-> IF there(j) = {} THEN text[j] ELSE put(j, CHOOSE t \in there(j) : TRUE)]
    BY DEF Replaced, Size
  <2>2. ASSUME NEW j \in 1..n PROVE there(j) = at(j)
    <3>1. \A a, c \in Nat : a <= j /\ j < a + c <=> j \in a..(a + c - 1)
      OBVIOUS
    <3>2. \A t \in M : t[1] <= j /\ j < t[1] + Size(items[t[2]]) <=> j \in Reach(items, t)
      BY <1>1, <3>1 DEF Reach
    <3>3. QED
      BY <3>2
  <2> HIDE DEF there, at, put, new
  <2>3. QED
    BY <2>1, <2>2
<1>3. ASSUME NEW j \in 1..n, NEW t \in M, j \in Reach(items, t) PROVE put(j, t) \in S
  <2>1. items[t[2]].by \in Seq(S) /\ text[j] \in S
    BY <1>1
  <2>2. \A a, c \in Nat : j \in a..(a + c - 1) => j - a + 1 \in Nat \ {0} /\ j - a \in Nat
    OBVIOUS
  <2>3. j - t[1] + 1 \in Nat \ {0} /\ j - t[1] \in Nat
    BY <1>1, <1>3, <2>2 DEF Reach
  <2>4. j - t[1] < Len(items[t[2]].by) => j - t[1] + 1 \in 1..Len(items[t[2]].by)
    BY <2>1, <2>3
  <2>5. QED
    BY <2>1, <2>4
<1> HIDE DEF new, put, n
<1>4. ASSUME NEW j \in 1..n, at(j) = {} PROVE new[j] = text[j]
  <2> HIDE DEF at
  <2>1. QED
    BY <1>2, <1>4
<1>5. ASSUME NEW j \in 1..n, NEW t \in M, j \in Reach(items, t) PROVE new[j] = put(j, t)
  <2>1. t \in at(j) /\ \A u \in at(j) : u = t
    BY <1>5, MatchesApart
  <2>2. (CHOOSE u \in at(j) : TRUE) = t
    BY <2>1
  <2> HIDE DEF at
  <2>3. new[j] = IF at(j) = {} THEN text[j] ELSE put(j, CHOOSE u \in at(j) : TRUE)
    BY <1>2
  <2>4. QED
    BY <2>1, <2>2, <2>3
<1>6. \A j \in 1..n : new[j] \in S
  <2>1. TAKE j \in 1..n
  <2>2. CASE at(j) = {}
    BY <1>4, <2>2 DEF n
  <2>3. CASE at(j) # {}
    <3>1. PICK t \in M : j \in Reach(items, t)
      BY <2>3
    <3>2. QED
      BY <1>3, <1>5, <3>1
  <2>4. QED
    BY <2>2, <2>3
<1>7. new \in Seq(S) /\ Len(new) = n
  <2>1. n \in Nat
    BY DEF n
  <2>2. new \in [1..n -> S]
    <3> HIDE DEF at
    <3>1. QED
      BY <1>2, <1>6
  <2>3. QED
    BY <2>1, <2>2, FunctionIsSequence
<1>8. \A t \in M : Reach(items, t) \subseteq 1..n
  <2>1. ASSUME NEW t \in M PROVE Reach(items, t) \subseteq 1..n
    <3>1. t \in Spots(text, items)
      BY DEF AreMatches
    <3>2. Reach(items, t) \subseteq About(text, items, t[2]) /\ About(text, items, t[2]) \subseteq 1..Len(text)
      BY <3>1, SpotIs
    <3>3. QED
      BY <3>2 DEF n
  <2>2. QED
    BY <2>1
<1>9. IsReplaced(text, items, M, new)
  <2>1. \A j \in 1..n : (\A t \in M : j \notin Reach(items, t)) => new[j] = text[j]
    <3>1. \A j : (\A t \in M : j \notin Reach(items, t)) => at(j) = {}
      OBVIOUS
    <3>2. QED
      BY <1>4, <3>1
  <2>2. \A t \in M : \A j \in Reach(items, t) : new[j] = put(j, t)
    BY <1>5, <1>8
  <2>3. QED
    BY <1>7, <2>1, <2>2 DEF IsReplaced, n, put
<1>10. QED
  BY <1>7, <1>9 DEF new

(* A part of a text where two texts are the same.                          *)
LEMMA SameSlice ==
  ASSUME NEW S, NEW x \in Seq(S), NEW y \in Seq(S), Len(x) = Len(y), NEW a \in Nat \ {0}, NEW b \in Nat,
         a <= b + 1, b <= Len(x), \A j \in a..b : x[j] = y[j]
  PROVE  SubSeq(x, a, b) = SubSeq(y, a, b)
<1> DEFINE u == SubSeq(x, a, b)
           v == SubSeq(y, a, b)
<1>1. u \in Seq(S) /\ Len(u) = b + 1 - a /\ \A k \in 1..(b + 1 - a) : u[k] = x[a + k - 1]
  BY SliceIs
<1>2. v \in Seq(S) /\ Len(v) = b + 1 - a /\ \A k \in 1..(b + 1 - a) : v[k] = y[a + k - 1]
  BY SliceIs
<1> HIDE DEF u, v
<1>3. \A k \in 1..(b + 1 - a) : a + k - 1 \in a..b
  OBVIOUS
<1>4. \A k \in 1..Len(u) : u[k] = v[k]
  BY <1>1, <1>2, <1>3
<1>5. u = v
  BY <1>1, <1>2, <1>4, SeqEqual
<1>6. QED
  BY <1>5 DEF u, v

\* The function that InspectReplacing takes its value from.
IsNew(f, field, item, step) ==
  f = [i \in 1..(Len(field) + 1) |->
         IF i + step - 1 <= Len(field) /\ SubSeq(field, i, i + step - 1) = item.word
         THEN Over(item.word, item.by) \o (IF item.phrase = "first" THEN Rest(field, i + step) ELSE f[i + step])
         ELSE IF item.phrase = "leading" \/ i + step - 1 > Len(field) THEN Rest(field, i)
         ELSE <<field[i]>> \o f[i + 1]]

LEMMA OverIs ==
  ASSUME NEW S, NEW word \in Seq(S), NEW by \in Seq(S)
  PROVE  Over(word, by) \in Seq(S) /\ Len(Over(word, by)) = Len(word)
         /\ \A k \in 1..Len(word) : Over(word, by)[k] = IF k <= Len(by) THEN by[k] ELSE word[k]
<1>1. \A k \in 1..Len(word) : (IF k <= Len(by) THEN by[k] ELSE word[k]) \in S
  OBVIOUS
<1>2. Over(word, by) = [k \in 1..Len(word) |-> IF k <= Len(by) THEN by[k] ELSE word[k]]
  BY DEF Over
<1>3. Over(word, by) \in [1..Len(word) -> S] /\ Len(word) \in Nat
  BY <1>1, <1>2
<1>4. QED
  BY <1>2, <1>3, FunctionIsSequence

LEMMA RestIs ==
  ASSUME NEW S, NEW field \in Seq(S), NEW i \in 1..(Len(field) + 1)
  PROVE  Rest(field, i) \in Seq(S)
<1>1. i \in Nat \ {0} /\ Len(field) \in Nat /\ i <= Len(field) + 1
  OBVIOUS
<1>2. QED
  BY <1>1, SliceIs DEF Rest

LEMMA NewExists ==
  ASSUME NEW S, NEW field \in Seq(S), NEW item, item.word \in Seq(S), item.by \in Seq(S), NEW step \in Nat \ {0}
  PROVE  \E f : IsNew(f, field, item, step)
<1> DEFINE n == Len(field)
           b == n + 1
           X == Seq(S)
           put == Over(item.word, item.by)
           here(i) == i + step - 1 <= n /\ SubSeq(field, i, i + step - 1) = item.word
           ends(i) == item.phrase = "leading" \/ i + step - 1 > n
           once == item.phrase = "first"
           stop == {i \in 1..b : IF here(i) THEN once ELSE ends(i)}
           base == [i \in 1..b |-> IF here(i) THEN put \o Rest(field, i + step) ELSE Rest(field, i)]
           to == [i \in 1..b |-> IF here(i) THEN i + step ELSE i + 1]
           op == [i \in 1..b |-> [v \in X |-> IF here(i) THEN put \o v ELSE <<field[i]>> \o v]]
<1>1. n \in Nat /\ b \in Int /\ put \in X
  BY OverIs
<1> HIDE DEF put, n
<1>2. ASSUME NEW i \in 1..b PROVE base[i] \in X
  <2>1. here(i) => i + step \in 1..b
    BY <1>1
  <2> HIDE DEF here
  <2>2. Rest(field, i) \in X /\ (here(i) => Rest(field, i + step) \in X)
    BY <2>1, RestIs DEF n
  <2>3. here(i) => put \o Rest(field, i + step) \in X
    BY <1>1, <2>2, ConcatProperties
  <2>4. base[i] = IF here(i) THEN put \o Rest(field, i + step) ELSE Rest(field, i)
    OBVIOUS
  <2> HIDE DEF base, X
  <2>5. QED
    BY <2>2, <2>3, <2>4
<1>3. ASSUME NEW i \in 1..b, i \notin stop
      PROVE  to[i] \in 1..b /\ to[i] > i /\ op[i] \in [X -> X]
  <2>1. to[i] = (IF here(i) THEN i + step ELSE i + 1) /\ (here(i) \/ ~ends(i))
    BY <1>3
  <2>2. i + step - 1 <= n
    BY <1>1, <1>3, <2>1
  <2> HIDE DEF here, ends, to
  <2>3. to[i] \in 1..b /\ to[i] > i
    <3>1. i + step \in 1..b /\ i + step > i /\ i + 1 \in 1..b /\ i + 1 > i
      BY <1>1, <2>2
    <3> HIDE DEF b
    <3>2. QED
      BY <2>1, <3>1
  <2>4. op[i] = [v \in X |-> IF here(i) THEN put \o v ELSE <<field[i]>> \o v]
    OBVIOUS
  <2>5. ASSUME NEW v \in X PROVE (IF here(i) THEN put \o v ELSE <<field[i]>> \o v) \in X
    <3>1. i \in 1..n
      BY <1>1, <2>2
    <3>2. <<field[i]>> \in X
      BY <3>1 DEF n
    <3>3. QED
      BY <1>1, <3>2, ConcatProperties
  <2> HIDE DEF op, X
  <2>6. QED
    BY <2>3, <2>4, <2>5
<1>4. PICK f \in [1..b -> X] : LooksAhead(f, 1, b, stop, base, to, op)
  <2> HIDE DEF b, stop, base, to, op, X
  <2>1. PICK a \in Int : a = 1
    OBVIOUS
  <2>2. (\A i \in a..b : base[i] \in X)
        /\ \A i \in a..b : i \notin stop => to[i] \in a..b /\ to[i] > i /\ op[i] \in [X -> X]
    BY <1>2, <1>3, <2>1
  <2>3. \E f \in [a..b -> X] : LooksAhead(f, a, b, stop, base, to, op)
    BY <1>1, <2>2, LookAheadExists
  <2>4. QED
    BY <2>1, <2>3
<1>5. ASSUME NEW i \in 1..b
      PROVE  f[i] = IF here(i) THEN put \o (IF once THEN Rest(field, i + step) ELSE f[i + step])
                    ELSE IF ends(i) THEN Rest(field, i) ELSE <<field[i]>> \o f[i + 1]
  <2>1. f[i] = IF i \in stop THEN base[i] ELSE op[i][f[to[i]]]
    BY <1>4 DEF LooksAhead
  <2>2. CASE i \in stop
    <3>1. base[i] = IF here(i) THEN put \o Rest(field, i + step) ELSE Rest(field, i)
      OBVIOUS
    <3>2. IF here(i) THEN once ELSE ends(i)
      BY <2>2
    <3> HIDE DEF here, ends, once, base, stop
    <3>3. QED
      BY <2>1, <2>2, <3>1, <3>2
  <2>3. CASE i \notin stop
    <3>1. f[i] = op[i][f[to[i]]] /\ f[to[i]] \in X
      BY <1>3, <1>4, <2>1, <2>3
    <3> DEFINE v == f[to[i]]
    <3>2. op[i][v] = IF here(i) THEN put \o v ELSE <<field[i]>> \o v
      BY <3>1
    <3>3. to[i] = (IF here(i) THEN i + step ELSE i + 1) /\ ~(IF here(i) THEN once ELSE ends(i))
      BY <2>3
    <3> HIDE DEF here, ends, once, op, to, stop
    <3>4. QED
      BY <3>1, <3>2, <3>3
  <2>4. QED
    BY <2>2, <2>3
<1>6. f = [i \in 1..b |-> IF here(i) THEN put \o (IF once THEN Rest(field, i + step) ELSE f[i + step])
                          ELSE IF ends(i) THEN Rest(field, i) ELSE <<field[i]>> \o f[i + 1]]
  <2> HIDE DEF here, ends, once, b, X
  <2>1. QED
    BY <1>4, <1>5
<1>7. QED
  BY <1>6 DEF IsNew, put, n

(* What is left of the part is as it was when no match follows.            *)
OneReplaced(S, text, items, part, M, R) ==
  /\ text \in Seq(S) /\ Ones(text, items, part, M) /\ R \in Seq(S) /\ IsReplaced(text, items, M, R)
  /\ items[1].word \in Seq(S) /\ items[1].by \in Seq(S)

NoneFrom(items, part, M, a) ==
  /\ a \in Nat \ {0} /\ part.first <= a /\ a <= part.last + 1
  /\ \A t \in M : t[1] < a /\ a \notin Reach(items, t)

SameFrom(R, text, part, a) == SubSeq(R, a, part.last) = SubSeq(text, a, part.last)

LEMMA NothingFollows ==
  ASSUME NEW S, NEW text, NEW items, NEW part, NEW M, NEW R, OneReplaced(S, text, items, part, M, R),
         NEW a, NoneFrom(items, part, M, a)
  PROVE  SameFrom(R, text, part, a)
<1>0. /\ text \in Seq(S) /\ Ones(text, items, part, M) /\ R \in Seq(S) /\ IsReplaced(text, items, M, R)
      /\ a \in Nat \ {0} /\ part.first <= a /\ a <= part.last + 1
      /\ \A t \in M : t[1] < a /\ a \notin Reach(items, t)
  BY DEF OneReplaced, NoneFrom
<1>1. /\ part.last \in Nat /\ part.last <= Len(text) /\ part.first \in Nat \ {0}
      /\ \A t \in M : t[1] \in Nat /\ Size(items[1]) \in Nat /\ Reach(items, t) = t[1]..(t[1] + Size(items[1]) - 1)
  <2>1. IsOne(text, items, part) /\ M \subseteq Spots(text, items)
    BY <1>0 DEF Ones, AreMatches
  <2>2. /\ part.last \in Nat /\ part.last <= Len(text) /\ part.first \in Nat \ {0}
        /\ \A t \in M : /\ t[1] \in part.first..part.last /\ Size(items[1]) \in Nat \ {0}
                        /\ Reach(items, t) = t[1]..(t[1] + Size(items[1]) - 1)
    BY <1>0, <2>1, OneSpotIs
  <2>3. \A x \in part.first..part.last : x \in Nat
    BY <2>2
  <2>4. QED
    BY <2>2, <2>3
<1>2. Len(R) = Len(text) /\ \A j \in 1..Len(text) : (\A t \in M : j \notin Reach(items, t)) => R[j] = text[j]
  BY <1>0 DEF IsReplaced
<1>3. ASSUME NEW j \in a..part.last, NEW t \in M, j \in Reach(items, t) PROVE FALSE
  <2>1. \A x, c \in Nat : x < a /\ a <= j /\ j \in x..(x + c - 1) => a \in x..(x + c - 1)
    <3>1. a \in Nat /\ j \in Int
      BY <1>0, <1>1
    <3>2. QED
      BY ONLY <3>1
  <2> DEFINE x == t[1]
             c == Size(items[1])
  <2>2. x \in Nat /\ c \in Nat /\ Reach(items, t) = x..(x + c - 1) /\ x < a
    BY <1>0, <1>1
  <2>3. a <= j
    BY <1>0, <1>1
  <2> HIDE DEF x, c
  <2>4. a \in Reach(items, t)
    BY <1>3, <2>1, <2>2, <2>3
  <2>5. QED
    BY <1>0, <2>2, <2>4 DEF x
<1>4. \A j \in a..part.last : j \in 1..Len(text) /\ R[j] = text[j]
  <2>1. \A j \in a..part.last : j \in 1..Len(text)
    BY <1>0, <1>1
  <2>2. QED
    BY <1>2, <1>3, <2>1
<1>5. SubSeq(R, a, part.last) = SubSeq(text, a, part.last)
  <2> DEFINE l == part.last
  <2>1. a \in Nat \ {0} /\ l \in Nat /\ a <= l + 1 /\ l <= Len(R) /\ Len(R) = Len(text)
        /\ \A j \in a..l : R[j] = text[j]
    BY <1>0, <1>1, <1>2, <1>4
  <2> HIDE DEF l
  <2>2. QED
    BY <1>0, <2>1, SameSlice DEF l
<1>6. QED
  BY <1>5 DEF SameFrom

(* The word at a place gives way to what replaces it.                      *)
WordAt(text, items, M, a, step) ==
  /\ a \in Nat \ {0} /\ step \in Nat \ {0} /\ step = Len(items[1].word) /\ a + step - 1 <= Len(text)
  /\ SubSeq(text, a, a + step - 1) = items[1].word
  /\ <<a, 1>> \in M /\ Reach(items, <<a, 1>>) = a..(a + step - 1)

PutOver(R, items, a, step) == SubSeq(R, a, a + step - 1) = Over(items[1].word, items[1].by)

LEMMA WordReplaced ==
  ASSUME NEW S, NEW text, NEW items, NEW part, NEW M, NEW R, OneReplaced(S, text, items, part, M, R),
         NEW a, NEW step, WordAt(text, items, M, a, step)
  PROVE  PutOver(R, items, a, step)
<1> DEFINE x == SubSeq(R, a, a + step - 1)
           word == items[1].word
           by == items[1].by
           y == Over(word, by)
           b == a + step - 1
<1>0. /\ text \in Seq(S) /\ Ones(text, items, part, M) /\ R \in Seq(S) /\ IsReplaced(text, items, M, R)
      /\ word \in Seq(S) /\ by \in Seq(S)
  BY DEF OneReplaced
<1>00. /\ a \in Nat \ {0} /\ step \in Nat \ {0} /\ step = Len(word) /\ b <= Len(text)
       /\ SubSeq(text, a, b) = word
       /\ <<a, 1>> \in M /\ Reach(items, <<a, 1>>) = a..b
  BY DEF WordAt
<1>1. Len(R) = Len(text) /\ Len(text) \in Nat
  BY <1>0 DEF IsReplaced
<1>2. b \in Nat /\ a <= b + 1 /\ b <= Len(text) /\ b + 1 - a = step
  BY <1>00
<1>3. x \in Seq(S) /\ Len(x) = step /\ \A k \in 1..step : x[k] = R[a + k - 1]
  <2> HIDE DEF b
  <2>1. SubSeq(R, a, b) \in Seq(S) /\ Len(SubSeq(R, a, b)) = b + 1 - a
        /\ \A k \in 1..(b + 1 - a) : SubSeq(R, a, b)[k] = R[a + k - 1]
    BY <1>0, <1>00, <1>1, <1>2, SliceIs
  <2>2. QED
    BY <1>2, <2>1 DEF b
<1>4. \A k \in 1..step : word[k] = text[a + k - 1]
  <2> HIDE DEF b
  <2>1. \A k \in 1..(b + 1 - a) : SubSeq(text, a, b)[k] = text[a + k - 1]
    BY <1>0, <1>00, <1>1, <1>2, SliceIs
  <2>2. QED
    BY <1>00, <1>2, <2>1 DEF b
<1>5. y \in Seq(S) /\ Len(y) = step /\ \A k \in 1..step : y[k] = IF k <= Len(by) THEN by[k] ELSE word[k]
  <2>1. word \in Seq(S) /\ by \in Seq(S) /\ step = Len(word)
    BY <1>0, <1>00
  <2> HIDE DEF word, by
  <2>2. y \in Seq(S) /\ Len(y) = Len(word)
    BY <2>1, OverIs
  <2>3. \A k \in 1..Len(word) : y[k] = IF k <= Len(by) THEN by[k] ELSE word[k]
    BY <2>1, OverIs
  <2>4. QED
    BY <2>1, <2>2, <2>3
<1>6. \A j \in a..b : R[j] = IF j - a < Len(by) THEN by[j - a + 1] ELSE text[j]
  <2>1. \A t \in M : \A j \in Reach(items, t) :
          R[j] = IF j - t[1] < Len(items[t[2]].by) THEN items[t[2]].by[j - t[1] + 1] ELSE text[j]
    BY <1>0 DEF IsReplaced
  <2>2. \A t \in M : t = <<a, 1>> => t[1] = a /\ t[2] = 1
    OBVIOUS
  <2>3. QED
    BY <1>00, <2>1, <2>2
<1> HIDE DEF x, y, b, word, by
<1>7. ASSUME NEW k \in 1..step PROVE x[k] = y[k]
  <2>1. a + k - 1 \in a..b /\ (a + k - 1) - a = k - 1 /\ k - 1 + 1 = k /\ k \in Nat
    BY <1>00 DEF b
  <2>2. R[a + k - 1] = IF k - 1 < Len(by) THEN by[k] ELSE text[a + k - 1]
    BY <1>6, <2>1
  <2>3. Len(by) \in Nat
    BY <1>0
  <2>4. k - 1 < Len(by) <=> k <= Len(by)
    BY <2>1, <2>3
  <2>5. QED
    BY <1>3, <1>4, <1>5, <2>2, <2>4
<1>8. x = y
  <2>1. Len(x) = Len(y) /\ \A k \in 1..Len(x) : x[k] = y[k]
    BY <1>3, <1>5, <1>7
  <2>2. QED
    BY <1>3, <1>5, <2>1, SeqEqual
<1>9. QED
  BY <1>8 DEF PutOver, x, y, b, word, by

LEMMA FieldIs ==
  ASSUME NEW S, NEW text \in Seq(S), NEW a \in Nat \ {0}, NEW b \in Nat, a <= b + 1, b <= Len(text),
         NEW field, field = SubSeq(text, a, b)
  PROVE  /\ field \in Seq(S) /\ Len(field) = b + 1 - a
         /\ \A i \in 1..Len(field) : field[i] = text[a + i - 1]
         /\ \A i \in 1..(Len(field) + 1) : Rest(field, i) = SubSeq(text, a + i - 1, b)
         /\ \A i \in Nat \ {0}, d \in Nat : i <= d + 1 /\ d <= Len(field) =>
              SubSeq(field, i, d) = SubSeq(text, a + i - 1, a + d - 1)
<1>1. /\ field \in Seq(S) /\ Len(field) = b + 1 - a
      /\ \A i \in 1..(b + 1 - a) : field[i] = text[a + i - 1]
  BY SliceIs
<1>2. ASSUME NEW i \in Nat \ {0}, NEW d \in Nat, i <= d + 1, d <= b + 1 - a
      PROVE  SubSeq(field, i, d) = SubSeq(text, a + i - 1, a + d - 1)
  BY <1>2, SliceOfSlice
<1>3. ASSUME NEW i \in 1..(b + 1 - a + 1) PROVE Rest(field, i) = SubSeq(text, a + i - 1, b)
  <2> DEFINE d == b + 1 - a
  <2>1. d \in Nat /\ i \in Nat \ {0} /\ i <= d + 1 /\ d <= b + 1 - a /\ a + d - 1 = b
    OBVIOUS
  <2>2. Rest(field, i) = SubSeq(field, i, d)
    BY <1>1 DEF Rest
  <2> HIDE DEF d
  <2>3. SubSeq(field, i, d) = SubSeq(text, a + i - 1, a + d - 1)
    BY <1>2, <2>1
  <2>4. QED
    BY <2>1, <2>2, <2>3
<1>4. QED
  BY <1>1, <1>2, <1>3

(* The scan is at a place of the part that it comes to.                    *)
ScanAt(text, items, part, M, step, a) ==
  step = Len(items[1].word) /\ step # 0 /\ Comes(text, items, part, M, a)

LEMMA ScanIs ==
  ASSUME NEW S, NEW text, NEW items, NEW part, NEW M, NEW R, OneReplaced(S, text, items, part, M, R),
         NEW step, NEW a, ScanAt(text, items, part, M, step, a)
  PROVE  /\ part.first \in Nat \ {0} /\ part.last \in Nat /\ part.first <= part.last + 1
         /\ part.last <= Len(text) /\ Len(text) \in Nat /\ Len(R) = Len(text)
         /\ step \in Nat \ {0} /\ a \in Nat \ {0} /\ part.first <= a /\ a <= part.last + 1
         /\ \A t \in M : t[1] \in Nat /\ Reach(items, t) = t[1]..(t[1] + step - 1)
<1>1. text \in Seq(S) /\ Ones(text, items, part, M) /\ R \in Seq(S) /\ IsReplaced(text, items, M, R)
  BY DEF OneReplaced
<1>2. step = Len(items[1].word) /\ step # 0 /\ a \in part.first..(part.last + 1)
  BY DEF ScanAt, Comes
<1>3. /\ part.first \in Nat \ {0} /\ part.last \in Nat /\ part.first <= part.last + 1
      /\ part.last <= Len(text) /\ step \in Nat
      /\ \A t \in M : t[1] \in Nat /\ Reach(items, t) = t[1]..(t[1] + step - 1)
  BY <1>1, <1>2, OneMatchIs
<1>4. Len(R) = Len(text) /\ Len(text) \in Nat
  BY <1>1 DEF IsReplaced
<1>5. a \in Nat \ {0} /\ part.first <= a /\ a <= part.last + 1
  BY <1>2, <1>3
<1>6. QED
  BY <1>2, <1>3, <1>4, <1>5

LEMMA ScanMatches ==
  ASSUME NEW S, NEW text, NEW items, NEW part, NEW M, NEW R, OneReplaced(S, text, items, part, M, R),
         NEW step, NEW a, ScanAt(text, items, part, M, step, a), IsHere(text, items, part, a)
  PROVE  /\ WordAt(text, items, M, a, step)
         /\ items[1].phrase = "first" => NoneFrom(items, part, M, a + step)
         /\ items[1].phrase # "first" => ScanAt(text, items, part, M, step, a + step)
<1>1. text \in Seq(S) /\ Ones(text, items, part, M)
  BY DEF OneReplaced
<1>2. step = Len(items[1].word) /\ step # 0 /\ Comes(text, items, part, M, a)
  BY DEF ScanAt
<1>3. <<a, 1>> \in M /\ Reach(items, <<a, 1>>) = a..(a + step - 1)
  BY <1>1, <1>2, MatchesHere
<1>4. ASSUME items[1].phrase # "first" PROVE Comes(text, items, part, M, a + step)
  BY <1>1, <1>2, <1>4, MatchesHere
<1>5. ASSUME items[1].phrase = "first", NEW t \in M PROVE t = <<a, 1>>
  <2>1. t = <<t[1], 1>> /\ t[1] \in Nat /\ t[2] = 1
    BY <1>1, <1>2, OneMatchIs
  <2>2. MayMatch(text, items, M, t) /\ ~(t[1] < a)
    <3>1. t \in Spots(text, items)
      BY <1>1, <1>2, OneMatchIs
    <3>2. QED
      BY <1>1, <1>2, <1>5, <3>1 DEF Ones, AreMatches, Comes
  <2>3. ~(a < t[1])
    <3>1. <<a, 1>>[1] = a /\ <<a, 1>>[2] = 1
      OBVIOUS
    <3>2. QED
      BY <1>3, <1>5, <2>1, <2>2, <3>1 DEF MayMatch
  <2>4. a \in Nat
    BY ScanIs
  <2>5. t[1] = a
    BY <2>1, <2>2, <2>3, <2>4
  <2>6. QED
    BY <2>1, <2>5
<1>6. /\ part.first \in Nat \ {0} /\ part.last \in Nat /\ part.last <= Len(text) /\ Len(text) \in Nat
      /\ step \in Nat \ {0} /\ a \in Nat \ {0} /\ part.first <= a
  BY ScanIs
<1>7. a + step - 1 <= part.last /\ SubSeq(text, a, a + step - 1) = items[1].word
  BY <1>2 DEF IsHere
<1>8. \A f, x, s \in Nat \ {0}, l, n \in Nat : f <= x /\ x + s - 1 <= l /\ l <= n =>
        /\ x + s - 1 <= n /\ x + s \in Nat \ {0} /\ f <= x + s /\ x + s <= l + 1
        /\ x < x + s /\ x + s \notin x..(x + s - 1)
  OBVIOUS
<1>9. /\ a + step - 1 <= Len(text) /\ a + step \in Nat \ {0} /\ part.first <= a + step /\ a + step <= part.last + 1
      /\ a < a + step /\ a + step \notin a..(a + step - 1)
  <2> DEFINE f == part.first
             l == part.last
             n == Len(text)
  <2>1. f \in Nat \ {0} /\ a \in Nat \ {0} /\ step \in Nat \ {0} /\ l \in Nat /\ n \in Nat
        /\ f <= a /\ a + step - 1 <= l /\ l <= n
    BY <1>6, <1>7
  <2> HIDE DEF f, l, n
  <2>2. /\ a + step - 1 <= n /\ a + step \in Nat \ {0} /\ f <= a + step /\ a + step <= l + 1
        /\ a < a + step /\ a + step \notin a..(a + step - 1)
    BY <1>8, <2>1
  <2>3. QED
    BY <2>2 DEF f, l, n
<1>10. WordAt(text, items, M, a, step)
  BY <1>2, <1>3, <1>6, <1>7, <1>9 DEF WordAt
<1>11. ASSUME items[1].phrase = "first" PROVE NoneFrom(items, part, M, a + step)
  <2>1. ASSUME NEW t \in M PROVE t[1] < a + step /\ a + step \notin Reach(items, t)
    <3>1. t = <<a, 1>> /\ <<a, 1>>[1] = a
      BY <1>5, <1>11
    <3>2. t[1] = a /\ Reach(items, t) = a..(a + step - 1)
      BY <1>3, <3>1
    <3>3. QED
      BY <1>9, <3>2
  <2>2. QED
    BY <1>9, <2>1 DEF NoneFrom
<1>12. QED
  BY <1>2, <1>4, <1>10, <1>11 DEF ScanAt

LEMMA ScanGoesOn ==
  ASSUME NEW S, NEW text, NEW items, NEW part, NEW M, NEW R, OneReplaced(S, text, items, part, M, R),
         NEW step, NEW a, ScanAt(text, items, part, M, step, a), ~IsHere(text, items, part, a)
  PROVE  /\ \A t \in M : t[1] # a
         /\ items[1].phrase = "leading" \/ a + step - 1 > part.last => NoneFrom(items, part, M, a)
         /\ ~(items[1].phrase = "leading" \/ a + step - 1 > part.last) => ScanAt(text, items, part, M, step, a + 1)
<1>1. text \in Seq(S) /\ Ones(text, items, part, M)
  BY DEF OneReplaced
<1>2. step = Len(items[1].word) /\ step # 0 /\ Comes(text, items, part, M, a)
  BY DEF ScanAt
<1>3. \A t \in M : t[1] # a
  BY <1>1, <1>2, NoMatchHere
<1>4. a + step - 1 > part.last => \A t \in M : t[1] < a
  BY <1>1, <1>2, NoMatchHere
<1>5. ~(a + step - 1 > part.last) /\ items[1].phrase = "leading" => \A t \in M : t[1] < a
  BY <1>1, <1>2, NoMatchHere
<1>6. ~(a + step - 1 > part.last) /\ items[1].phrase # "leading" => Comes(text, items, part, M, a + 1)
  BY <1>1, <1>2, NoMatchHere
<1>7. a \in Nat \ {0} /\ part.first <= a /\ a <= part.last + 1
  BY ScanIs
<1>8. ASSUME items[1].phrase = "leading" \/ a + step - 1 > part.last PROVE NoneFrom(items, part, M, a)
  <2>1. \A t \in M : t[1] < a
    BY <1>4, <1>5, <1>8
  <2>2. \A t \in M : t[1] < a /\ a \notin Reach(items, t)
    BY <1>2, <2>1 DEF Comes
  <2>3. QED
    BY <1>7, <2>2 DEF NoneFrom
<1>9. ASSUME ~(items[1].phrase = "leading" \/ a + step - 1 > part.last) PROVE ScanAt(text, items, part, M, step, a + 1)
  BY <1>2, <1>6, <1>9 DEF ScanAt
<1>10. QED
  BY <1>3, <1>8, <1>9

(* What REPLACING leaves of the part from a place on that its scan comes to. *)
Leaves(R, part, a, rest) == rest = SubSeq(R, a, part.last)

LEMMA ReplacedHere ==
  ASSUME NEW S, NEW text, NEW items, NEW part, NEW M, NEW R, OneReplaced(S, text, items, part, M, R),
         NEW step, NEW a, ScanAt(text, items, part, M, step, a), IsHere(text, items, part, a),
         NEW rest, items[1].phrase = "first" => Leaves(text, part, a + step, rest),
         items[1].phrase # "first" => Leaves(R, part, a + step, rest)
  PROVE  Leaves(R, part, a, Over(items[1].word, items[1].by) \o rest)
<1>1. WordAt(text, items, M, a, step)
  BY ScanMatches
<1>2. SubSeq(R, a, a + step - 1) = Over(items[1].word, items[1].by)
  <2>1. PutOver(R, items, a, step)
    BY <1>1, WordReplaced
  <2>2. QED
    BY <2>1 DEF PutOver
<1>3. rest = SubSeq(R, a + step, part.last)
  <2>1. ASSUME items[1].phrase = "first" PROVE SubSeq(R, a + step, part.last) = SubSeq(text, a + step, part.last)
    <3>1. NoneFrom(items, part, M, a + step)
      BY <2>1, ScanMatches
    <3>2. SameFrom(R, text, part, a + step)
      BY <3>1, NothingFollows
    <3>3. QED
      BY <3>2 DEF SameFrom
  <2>2. QED
    BY <2>1 DEF Leaves
<1>4. SubSeq(R, a, a + step - 1) \o SubSeq(R, a + step, part.last) = SubSeq(R, a, part.last)
  <2> DEFINE b == a + step - 1
             l == part.last
  <2>1. a + step - 1 <= part.last
    BY DEF IsHere, ScanAt
  <2>2. a \in Nat \ {0} /\ step \in Nat \ {0} /\ l \in Nat /\ l <= Len(R)
    BY ScanIs
  <2>3. R \in Seq(S)
    BY DEF OneReplaced
  <2>4. b \in Nat /\ a <= b + 1 /\ b <= l /\ b + 1 = a + step
    BY <2>1, <2>2
  <2> HIDE DEF b, l
  <2>5. SubSeq(R, a, b) \o SubSeq(R, b + 1, l) = SubSeq(R, a, l)
    BY <2>2, <2>3, <2>4, SlicesJoin
  <2>6. QED
    BY <2>4, <2>5 DEF b, l
<1>5. QED
  BY <1>2, <1>3, <1>4 DEF Leaves

LEMMA ReplacedNoMore ==
  ASSUME NEW S, NEW text, NEW items, NEW part, NEW M, NEW R, OneReplaced(S, text, items, part, M, R),
         NEW step, NEW a, ScanAt(text, items, part, M, step, a), ~IsHere(text, items, part, a),
         items[1].phrase = "leading" \/ a + step - 1 > part.last,
         NEW rest, Leaves(text, part, a, rest)
  PROVE  Leaves(R, part, a, rest)
<1>1. NoneFrom(items, part, M, a)
  BY ScanGoesOn
<1>2. SameFrom(R, text, part, a)
  BY <1>1, NothingFollows
<1>3. QED
  BY <1>2 DEF SameFrom, Leaves

LEMMA KeptHere ==
  ASSUME NEW S, NEW text, NEW items, NEW part, NEW M, NEW R, OneReplaced(S, text, items, part, M, R),
         NEW step, NEW a, ScanAt(text, items, part, M, step, a), ~IsHere(text, items, part, a),
         ~(items[1].phrase = "leading" \/ a + step - 1 > part.last),
         NEW rest, Leaves(R, part, a + 1, rest)
  PROVE  Leaves(R, part, a, <<text[a]>> \o rest)
<1>1. /\ R \in Seq(S) /\ \A j \in 1..Len(text) : (\A t \in M : j \notin Reach(items, t)) => R[j] = text[j]
  BY DEF OneReplaced, IsReplaced
<1>2. /\ part.last \in Nat /\ part.last <= Len(text) /\ Len(text) \in Nat /\ Len(R) = Len(text)
      /\ step \in Nat \ {0} /\ a \in Nat \ {0}
      /\ \A t \in M : t[1] \in Nat /\ Reach(items, t) = t[1]..(t[1] + step - 1)
  BY ScanIs
<1>3. a <= part.last
  <2> DEFINE l == part.last
  <2>1. ~(a + step - 1 > l) /\ a \in Nat \ {0} /\ step \in Nat \ {0} /\ l \in Nat
    BY <1>2
  <2> HIDE DEF l
  <2>2. a <= l
    BY <2>1
  <2>3. QED
    BY <2>2 DEF l
<1>4. ASSUME NEW t \in M, a \in Reach(items, t) PROVE FALSE
  <2>1. t[1] # a
    BY ScanGoesOn
  <2>2. \A x \in Nat : x # a /\ a \in x..(x + step - 1) => x < a
    <3>1. a \in Nat /\ step \in Nat
      BY <1>2
    <3>2. QED
      BY ONLY <3>1
  <2>3. t[1] < a
    BY <1>2, <1>4, <2>1, <2>2
  <2>4. QED
    BY <1>4, <2>3 DEF ScanAt, Comes
<1>5. a \in 1..Len(text)
  <2> DEFINE l == part.last
  <2>1. a <= l /\ a \in Nat \ {0} /\ l \in Nat /\ l <= Len(text) /\ Len(text) \in Nat
    BY <1>2, <1>3
  <2> HIDE DEF l
  <2>2. QED
    BY <2>1
<1>6. R[a] = text[a]
  BY <1>1, <1>4, <1>5
<1>7. SubSeq(R, a, a) \o SubSeq(R, a + 1, part.last) = SubSeq(R, a, part.last)
  <2> DEFINE l == part.last
  <2>1. a <= l /\ a \in Nat \ {0} /\ l \in Nat /\ l <= Len(R) /\ R \in Seq(S) /\ a <= a + 1
    BY <1>1, <1>2, <1>3
  <2> HIDE DEF l
  <2>2. SubSeq(R, a, a) \o SubSeq(R, a + 1, l) = SubSeq(R, a, l)
    BY <2>1, SlicesJoin
  <2>3. QED
    BY <2>2 DEF l
<1>8. SubSeq(R, a, a) = <<R[a]>>
  <2>1. a \in Nat \ {0} /\ a <= a + 1 /\ a <= Len(R) /\ R \in Seq(S) /\ a + 1 - a = 1 /\ a + 1 - 1 = a
    BY <1>1, <1>2, <1>5
  <2>2. SubSeq(R, a, a) \in Seq(S) /\ Len(SubSeq(R, a, a)) = 1
    BY <2>1, SliceIs
  <2>3. PICK b \in Nat : b = a
    BY <2>1
  <2>4. SubSeq(R, a, a)[1] = R[a]
    <3>1. \A k \in 1..(b + 1 - a) : SubSeq(R, a, b)[k] = R[a + k - 1]
      BY <2>1, <2>3, SliceIs
    <3>2. 1 \in 1..(b + 1 - a) /\ a + 1 - 1 = a
      BY <2>1, <2>3
    <3>3. SubSeq(R, a, b)[1] = R[a]
      BY <3>1, <3>2
    <3>4. QED
      BY <2>3, <3>3
  <2> DEFINE x == SubSeq(R, a, a)
  <2> HIDE DEF x
  <2>5. x \in Seq(S) /\ Len(x) = 1 /\ x[1] = R[a]
    BY <2>2, <2>4 DEF x
  <2>6. x = <<x[1]>>
    BY <2>5
  <2>7. QED
    BY <2>5, <2>6 DEF x
<1>9. QED
  BY <1>6, <1>7, <1>8 DEF Leaves

LEMMA NewIsReplaced ==
  ASSUME NEW S, NEW text, NEW items, NEW part, NEW M, NEW R, OneReplaced(S, text, items, part, M, R),
         NEW step, step = Len(items[1].word), step # 0,
         NEW field, field = SubSeq(text, part.first, part.last), NEW f, IsNew(f, field, items[1], step)
  PROVE  Leaves(R, part, part.first, f[1])
<1> DEFINE first == part.first
           l == part.last
           item == items[1]
           n == Len(field)
           here(i) == i + step - 1 <= n /\ SubSeq(field, i, i + step - 1) = item.word
           ends(i) == item.phrase = "leading" \/ i + step - 1 > n
           Good == {i \in Int : ScanAt(text, items, part, M, step, first + i - 1) => Leaves(R, part, first + i - 1, f[i])}
<1>0. text \in Seq(S) /\ Ones(text, items, part, M)
  BY DEF OneReplaced
<1>1. ScanAt(text, items, part, M, step, part.first)
  BY <1>0, ComesFirst DEF ScanAt
<1>2. first \in Nat \ {0} /\ l \in Nat /\ first <= l + 1 /\ l <= Len(text) /\ step \in Nat \ {0}
  BY <1>1, ScanIs
<1>3. /\ n = l + 1 - first
      /\ \A i \in 1..n : field[i] = text[first + i - 1]
      /\ \A i \in 1..(n + 1) : Rest(field, i) = SubSeq(text, first + i - 1, l)
      /\ \A i \in Nat \ {0}, d \in Nat : i <= d + 1 /\ d <= n => SubSeq(field, i, d) = SubSeq(text, first + i - 1, first + d - 1)
  <2> HIDE DEF first, l
  <2>1. field = SubSeq(text, first, l)
    BY DEF first, l
  <2>2. /\ Len(field) = l + 1 - first
        /\ \A i \in 1..Len(field) : field[i] = text[first + i - 1]
    BY <1>0, <1>2, <2>1, FieldIs
  <2>3. \A i \in 1..(Len(field) + 1) : Rest(field, i) = SubSeq(text, first + i - 1, l)
    <3>1. \A i \in Nat \ {0}, d \in Nat : i <= d + 1 /\ d <= Len(field) =>
             SubSeq(field, i, d) = SubSeq(text, first + i - 1, first + d - 1)
      BY <1>0, <1>2, <2>1, FieldIs
    <3>2. Len(field) \in Nat /\ first + Len(field) - 1 = l
      BY <1>2, <2>2
    <3>3. \A i \in 1..(Len(field) + 1) : i \in Nat \ {0} /\ i <= Len(field) + 1 /\ Len(field) <= Len(field)
      <4> DEFINE m == Len(field)
      <4>1. m \in Nat
        BY <3>2
      <4> HIDE DEF m
      <4>2. \A i \in 1..(m + 1) : i \in Nat \ {0} /\ i <= m + 1 /\ m <= m
        BY <4>1
      <4>3. QED
        BY <4>2 DEF m
    <3>4. QED
      BY <3>1, <3>2, <3>3 DEF Rest
  <2>4. \A i \in Nat \ {0}, d \in Nat : i <= d + 1 /\ d <= Len(field) =>
          SubSeq(field, i, d) = SubSeq(text, first + i - 1, first + d - 1)
    BY <1>0, <1>2, <2>1, FieldIs
  <2>5. QED
    BY <2>2, <2>3, <2>4
<1>4. ASSUME NEW i \in 1..(n + 1)
      PROVE  f[i] = IF here(i) THEN Over(item.word, item.by)
                                      \o (IF item.phrase = "first" THEN Rest(field, i + step) ELSE f[i + step])
                    ELSE IF ends(i) THEN Rest(field, i) ELSE <<field[i]>> \o f[i + 1]
  <2> DEFINE put(j) == IF here(j) THEN Over(item.word, item.by)
                                      \o (IF item.phrase = "first" THEN Rest(field, j + step) ELSE f[j + step])
                       ELSE IF ends(j) THEN Rest(field, j) ELSE <<field[j]>> \o f[j + 1]
             g == [j \in 1..(n + 1) |-> put(j)]
  <2>1. f = g
    BY DEF IsNew
  <2>2. g[i] = put(i)
    <3> HIDE DEF put, n
    <3>1. QED
      BY DEF g
  <2> HIDE DEF g
  <2>3. QED
    BY <2>1, <2>2
<1> DEFINE once == item.phrase = "first"
           leads == item.phrase = "leading"
<1>5. ASSUME NEW i \in 1..(n + 1), \A j \in 1..(n + 1) : j > i => j \in Good PROVE i \in Good
  <2> DEFINE a == first + i - 1
  <2>1. SUFFICES ASSUME ScanAt(text, items, part, M, step, a) PROVE Leaves(R, part, a, f[i])
    OBVIOUS
  <2> HIDE DEF n, first, l
  <2>2. n \in Nat /\ i \in Nat \ {0} /\ a \in Nat \ {0}
    BY <1>2, <1>3
  <2>a. first \in Nat \ {0} /\ l \in Nat /\ step \in Nat \ {0} /\ n = l + 1 - first /\ n \in Nat
        /\ i \in Nat \ {0} /\ a = first + i - 1
    BY <1>2, <1>3, <2>2
  <2> HIDE DEF a
  <2>b. i + step - 1 <= n <=> a + step - 1 <= l
    BY ONLY <2>a
  <2>c. i + step - 1 > n <=> a + step - 1 > l
    BY ONLY <2>a
  <2>3. /\ i + step - 1 <= n <=> a + step - 1 <= l
        /\ i + step - 1 > n <=> a + step - 1 > l
    BY <2>b, <2>c
  <2>4. here(i) <=> IsHere(text, items, part, a)
    <3>1. ASSUME i + step - 1 <= n PROVE SubSeq(field, i, i + step - 1) = SubSeq(text, a, a + step - 1)
      <4> DEFINE d == i + step - 1
      <4>1. d \in Nat /\ i <= d + 1 /\ d <= n /\ first + d - 1 = a + step - 1
        BY ONLY <2>a, <3>1
      <4> HIDE DEF d
      <4>2. SubSeq(field, i, d) = SubSeq(text, first + i - 1, first + d - 1)
        BY <1>3, <2>2, <4>1
      <4>3. QED
        BY <2>a, <4>1, <4>2 DEF d
    <3>2. IsHere(text, items, part, a) <=> a + step - 1 <= l /\ SubSeq(text, a, a + step - 1) = item.word
      BY DEF IsHere, l
    <3> HIDE DEF a, item
    <3>3. QED
      BY <2>3, <3>1, <3>2
  <2>5. ends(i) <=> items[1].phrase = "leading" \/ a + step - 1 > part.last
    BY <2>3 DEF l
  <2>6. CASE here(i)
    <3>1. i + step \in 1..(n + 1) /\ i + step > i /\ first + (i + step) - 1 = a + step
      <4>1. i + step - 1 <= n
        BY <2>6
      <4>2. QED
        BY ONLY <2>a, <4>1
    <3> DEFINE rest == IF item.phrase = "first" THEN Rest(field, i + step) ELSE f[i + step]
    <3>2. f[i] = Over(item.word, item.by) \o rest
      <4> HIDE DEF here, ends, item
      <4>1. QED
        BY <1>4, <2>6
    <3> HIDE DEF a, here
    <3>3. IsHere(text, items, part, a)
      BY <2>4, <2>6
    <3>4. ASSUME item.phrase = "first" PROVE Leaves(text, part, a + step, rest)
      <4>1. Rest(field, i + step) = SubSeq(text, a + step, l)
        BY <1>3, <3>1
      <4>2. QED
        BY <3>4, <4>1 DEF Leaves, l
    <3>5. ASSUME item.phrase # "first" PROVE Leaves(R, part, a + step, rest)
      <4>1. ScanAt(text, items, part, M, step, a + step)
        BY <2>1, <3>3, <3>5, ScanMatches
      <4>2. i + step \in Good
        BY <1>5, <3>1
      <4>3. Leaves(R, part, a + step, f[i + step])
        BY <3>1, <4>1, <4>2
      <4>4. QED
        BY <3>5, <4>3
    <3> HIDE DEF rest
    <3>6. Leaves(R, part, a, Over(items[1].word, items[1].by) \o rest)
      BY <2>1, <3>3, <3>4, <3>5, ReplacedHere
    <3>7. QED
      BY <3>2, <3>6
  <2>7. CASE ~here(i) /\ ends(i)
    <3> HIDE DEF a, here, ends
    <3>1. ~IsHere(text, items, part, a) /\ (items[1].phrase = "leading" \/ a + step - 1 > part.last)
      BY <2>4, <2>5, <2>7
    <3>2. f[i] = Rest(field, i)
      BY <1>4, <2>7
    <3>3. Rest(field, i) = SubSeq(text, a, l)
      BY <1>3 DEF a
    <3>4. Leaves(text, part, a, f[i])
      BY <3>2, <3>3 DEF Leaves, l
    <3>5. QED
      BY <2>1, <3>1, <3>4, ReplacedNoMore
  <2>8. CASE ~here(i) /\ ~ends(i)
    <3>1. i \in 1..n /\ i + 1 \in 1..(n + 1) /\ i + 1 > i /\ first + (i + 1) - 1 = a + 1
      <4>1. i + step - 1 <= n
        <5>1. ~(i + step - 1 > n)
          BY <2>8
        <5>2. QED
          BY ONLY <2>a, <5>1
      <4>2. QED
        BY ONLY <2>a, <4>1
    <3>2. f[i] = <<field[i]>> \o f[i + 1]
      <4> HIDE DEF here, ends
      <4>1. QED
        BY <1>4, <2>8
    <3>3. field[i] = text[a]
      BY <1>3, <3>1 DEF a
    <3>4. i + 1 \in Good
      BY <1>5, <3>1
    <3> HIDE DEF a, here, ends
    <3>5. ~IsHere(text, items, part, a) /\ ~(items[1].phrase = "leading" \/ a + step - 1 > part.last)
      BY <2>4, <2>5, <2>8
    <3>6. ScanAt(text, items, part, M, step, a + 1)
      BY <2>1, <3>5, ScanGoesOn
    <3>7. Leaves(R, part, a + 1, f[i + 1])
      BY <3>1, <3>4, <3>6
    <3>8. Leaves(R, part, a, <<text[a]>> \o f[i + 1])
      BY <2>1, <3>5, <3>7, KeptHere
    <3>9. QED
      BY <3>2, <3>3, <3>8
  <2>9. QED
    <3> HIDE DEF here, ends
    <3>1. QED
      BY <2>6, <2>7, <2>8
<1>6. 1 \in Good
  <2> HIDE DEF Good, n
  <2>1. PICK one \in Int : one = 1
    OBVIOUS
  <2>2. n + 1 \in Int /\ n + 1 >= 1
    BY <1>2, <1>3
  <2>3. \A i \in one..(n + 1) : (\A j \in one..(n + 1) : j > i => j \in Good) => i \in Good
    BY <1>5, <2>1
  <2>4. one..(n + 1) \subseteq Good
    BY <2>2, <2>3, DownwardInduction
  <2>5. 1 \in one..(n + 1)
    BY <2>1, <2>2
  <2>6. QED
    BY <2>4, <2>5
<1>7. QED
  <2>1. first + 1 - 1 = first
    BY <1>2
  <2>2. QED
    BY <1>1, <1>6, <2>1

(* Nothing outside the part of a single item is replaced.                  *)
OneLeaves(S, text, items, part, M, R) ==
  /\ text \in Seq(S) /\ IsOne(text, items, part) /\ AreMatches(text, items, M)
  /\ R \in Seq(S) /\ IsReplaced(text, items, M, R)

LEMMA InPartIs ==
  ASSUME NEW S, NEW text, NEW items, NEW part, NEW M, NEW R, OneLeaves(S, text, items, part, M, R)
  PROVE  InPart(text, part, SubSeq(R, part.first, part.last)) = R
<1> DEFINE f == part.first
           l == part.last
           n == Len(text)
<1>1. text \in Seq(S) /\ R \in Seq(S) /\ Len(R) = n /\ n \in Nat
  BY DEF OneLeaves, IsReplaced
<1>2. /\ f \in Nat \ {0} /\ l \in Nat /\ f <= l + 1 /\ l <= n
      /\ \A t \in Spots(text, items) : Reach(items, t) \subseteq f..l
  <2>1. IsOne(text, items, part)
    BY DEF OneLeaves
  <2>2. QED
    BY <1>1, <2>1, OneSpotIs
<1>3. M \subseteq Spots(text, items)
  BY DEF OneLeaves, AreMatches
<1>4. \A j \in 1..n : j \notin f..l => R[j] = text[j]
  <2>1. \A j \in 1..n : (\A t \in M : j \notin Reach(items, t)) => R[j] = text[j]
    BY DEF OneLeaves, IsReplaced
  <2> HIDE DEF f, l, n
  <2>2. QED
    BY <1>2, <1>3, <2>1
<1> HIDE DEF f, l, n
<1>5. SubSeq(text, 1, f - 1) = SubSeq(R, 1, f - 1)
  <2> DEFINE b == f - 1
  <2>1. b \in Nat /\ b <= n
    BY <1>2, <1>1
  <2>2. \A j \in 1..b : j \in 1..n /\ j \notin f..l
    BY <1>1, <1>2
  <2> HIDE DEF b
  <2>3. PICK a \in Nat \ {0} : a = 1
    OBVIOUS
  <2>4. a <= b + 1 /\ b <= Len(text) /\ Len(text) = Len(R) /\ \A j \in a..b : text[j] = R[j]
    BY <1>1, <1>4, <2>1, <2>2, <2>3 DEF n
  <2>5. SubSeq(text, a, b) = SubSeq(R, a, b)
    BY <1>1, <2>1, <2>4, SameSlice
  <2>6. QED
    BY <2>3, <2>5 DEF b
<1>6. SubSeq(text, l + 1, n) = SubSeq(R, l + 1, n)
  <2> DEFINE a == l + 1
  <2>1. a \in Nat \ {0} /\ a <= n + 1 /\ n <= n
    BY <1>1, <1>2
  <2>2. \A j \in a..n : j \in 1..n /\ j \notin f..l
    BY <1>1, <1>2
  <2> HIDE DEF a
  <2>3. n <= Len(text) /\ Len(text) = Len(R) /\ \A j \in a..n : text[j] = R[j]
    BY <1>1, <1>4, <2>1, <2>2 DEF n
  <2>4. SubSeq(text, a, n) = SubSeq(R, a, n)
    BY <1>1, <2>1, <2>3, SameSlice
  <2>5. QED
    BY <2>4 DEF a
<1>7. SubSeq(R, 1, f - 1) \o SubSeq(R, f, l) = SubSeq(R, 1, l)
  <2> DEFINE b == f - 1
  <2>1. PICK a \in Nat \ {0} : a = 1
    OBVIOUS
  <2>2. b \in Nat /\ a <= b + 1 /\ b <= l /\ l <= Len(R) /\ b + 1 = f
    BY <1>1, <1>2, <2>1
  <2> HIDE DEF b
  <2>3. SubSeq(R, a, b) \o SubSeq(R, b + 1, l) = SubSeq(R, a, l)
    BY <1>1, <1>2, <2>2, SlicesJoin
  <2>4. QED
    BY <2>1, <2>2, <2>3 DEF b
<1>8. SubSeq(R, 1, l) \o SubSeq(R, l + 1, n) = SubSeq(R, 1, n)
  <2>1. PICK a \in Nat \ {0} : a = 1
    OBVIOUS
  <2>2. a <= l + 1 /\ l <= n /\ n <= Len(R)
    BY <1>1, <1>2, <2>1
  <2>3. SubSeq(R, a, l) \o SubSeq(R, l + 1, n) = SubSeq(R, a, n)
    BY <1>1, <1>2, <2>2, SlicesJoin
  <2>4. QED
    BY <2>1, <2>3
<1>9. SubSeq(R, 1, n) = R
  BY <1>1
<1>10. InPart(text, part, SubSeq(R, part.first, part.last))
         = SubSeq(text, 1, f - 1) \o SubSeq(R, f, l) \o SubSeq(text, l + 1, n)
  BY DEF InPart, Rest, f, l, n
<1>11. QED
  BY <1>5, <1>6, <1>7, <1>8, <1>9, <1>10

LEMMA NothingReplaced ==
  ASSUME NEW S, NEW text, NEW items, NEW part, NEW M, NEW R, OneLeaves(S, text, items, part, M, R),
         M = {} \/ Len(items[1].by) = 0
  PROVE  R = text
<1>1. text \in Seq(S) /\ R \in Seq(S) /\ Len(R) = Len(text) /\ IsReplaced(text, items, M, R)
      /\ IsOne(text, items, part) /\ AreMatches(text, items, M)
  BY DEF OneLeaves, IsReplaced
<1>2. \A t \in M : t[2] = 1 /\ t[1] \in Nat /\ \A j \in Reach(items, t) : j \in Nat /\ j - t[1] \in Nat
  <2>1. ASSUME NEW t \in M
        PROVE  t[2] = 1 /\ t[1] \in Nat /\ \A j \in Reach(items, t) : j \in Nat /\ j - t[1] \in Nat
    <3>1. t \in Spots(text, items)
      BY <1>1 DEF AreMatches
    <3>2. /\ t[2] = 1 /\ t[1] \in part.first..part.last /\ part.first \in Nat \ {0} /\ part.last \in Nat
          /\ Reach(items, t) = t[1]..(t[1] + Size(items[1]) - 1) /\ Size(items[1]) \in Nat
      BY <1>1, <3>1, OneSpotIs
    <3>3. \A x, s \in Nat : \A j \in x..(x + s - 1) : j \in Nat /\ j - x \in Nat
      OBVIOUS
    <3>4. t[1] \in Nat
      BY <3>2
    <3>5. QED
      BY <3>2, <3>3, <3>4
  <2>2. QED
    BY <2>1
<1>3. ASSUME NEW j \in 1..Len(text) PROVE R[j] = text[j]
  <2>1. CASE \A t \in M : j \notin Reach(items, t)
    BY <1>1, <2>1 DEF IsReplaced
  <2>2. ASSUME NEW t \in M, j \in Reach(items, t) PROVE R[j] = text[j]
    <3>1. R[j] = IF j - t[1] < Len(items[t[2]].by) THEN items[t[2]].by[j - t[1] + 1] ELSE text[j]
      BY <1>1, <2>2 DEF IsReplaced
    <3>2. t[2] = 1 /\ j - t[1] \in Nat
      BY <1>2, <2>2
    <3>3. ~(j - t[1] < Len(items[t[2]].by))
      BY <2>2, <3>2
    <3>4. QED
      BY <3>1, <3>3
  <2>3. QED
    BY <2>1, <2>2
<1>4. QED
  BY <1>1, <1>3, SeqEqual

BySingle(S, items) == items[1].phrase = "characters" /\ Len(items[1].by) # 0 /\ items[1].by \in Seq(S)

LEMMA CharactersReplaced ==
  ASSUME NEW S, NEW text, NEW items, NEW part, NEW M, NEW R, OneLeaves(S, text, items, part, M, R),
         BySingle(S, items), NEW field, Leaves(text, part, part.first, field)
  PROVE  Leaves(R, part, part.first, [i \in 1..Len(field) |-> items[1].by[1]])
<1> DEFINE f == part.first
           l == part.last
           n == Len(text)
           by == items[1].by
<1>1. text \in Seq(S) /\ R \in Seq(S) /\ Len(R) = n /\ n \in Nat /\ IsReplaced(text, items, M, R)
      /\ IsOne(text, items, part) /\ AreMatches(text, items, M) /\ Len(by) \in Nat \ {0} /\ by[1] \in S /\ items[1].phrase = "characters"
  BY DEF OneLeaves, IsReplaced, BySingle
<1>2. /\ f \in Nat \ {0} /\ l \in Nat /\ f <= l + 1 /\ l <= n
  BY <1>1, OneSpotIs
<1>3. /\ M = {<<p, 1>> : p \in part.first..part.last}
      /\ \A p \in part.first..part.last : Reach(items, <<p, 1>>) = {p}
  BY <1>1, CharactersMatch
<1>4. ASSUME NEW p \in part.first..part.last PROVE R[p] = by[1]
  <2>1. <<p, 1>> \in M /\ p \in Reach(items, <<p, 1>>) /\ <<p, 1>>[1] = p /\ <<p, 1>>[2] = 1
    BY <1>3
  <2>2. R[p] = IF p - p < Len(items[1].by) THEN items[1].by[p - p + 1] ELSE text[p]
    BY <1>1, <2>1 DEF IsReplaced
  <2>3. p - p = 0 /\ 0 + 1 = 1
    BY <1>2
  <2>4. QED
    BY <1>1, <2>2, <2>3
<1> HIDE DEF f, l, n, by
<1>5. SubSeq(R, f, l) \in Seq(S) /\ Len(SubSeq(R, f, l)) = l + 1 - f
      /\ \A k \in 1..(l + 1 - f) : SubSeq(R, f, l)[k] = R[f + k - 1]
  <2>1. l <= Len(R)
    BY <1>1, <1>2
  <2>2. SubSeq(R, f, l) \in Seq(S) /\ Len(SubSeq(R, f, l)) = l + 1 - f
    BY <1>1, <1>2, <2>1, SliceIs
  <2>3. \A k \in 1..(l + 1 - f) : SubSeq(R, f, l)[k] = R[f + k - 1]
    BY SMTT(30), <1>1, <1>2, <2>1, SliceIs
  <2>4. QED
    BY <2>2, <2>3
<1>6. Len(field) = l + 1 - f
  BY <1>1, <1>2, SliceIs DEF f, l, n, Leaves
<1> DEFINE m == l + 1 - f
           x == SubSeq(R, f, l)
           y == [i \in 1..m |-> by[1]]
<1>7. m \in Nat /\ \A k \in 1..m : f + k - 1 \in f..l
  BY <1>2
<1> HIDE DEF m
<1>8. y \in Seq(S) /\ Len(y) = m
  <2>1. y \in [1..m -> S]
    BY <1>1
  <2> HIDE DEF y
  <2>2. QED
    BY <1>7, <2>1, FunctionIsSequence
<1>9. x \in Seq(S) /\ Len(x) = m /\ \A k \in 1..m : x[k] = by[1]
  BY <1>4, <1>5, <1>7 DEF f, l, m
<1>10. \A k \in 1..m : y[k] = by[1]
  OBVIOUS
<1> HIDE DEF x, y
<1>11. x = y
  BY <1>8, <1>9, <1>10, SeqEqual
<1>12. QED
  BY <1>6, <1>11 DEF x, y, m, f, l, by, Leaves

(* REPLACING with one item replaces the matches of that item.              *)
LEMMA ReplacingReplaces ==
  ASSUME NEW S, NEW text \in Seq(S), NEW items, Inspectable(items), Len(items) = 1,
         items[1].word \in Seq(S), items[1].by \in Seq(S), NEW M, AreMatches(text, items, M)
  PROVE  InspectReplacing(text, items[1]) = Replaced(text, items, M)
<1> DEFINE part == Part(text, items[1].marks)
           step == Len(items[1].word)
           field == SubSeq(text, part.first, part.last)
           R == Replaced(text, items, M)
           new == CHOOSE f : IsNew(f, field, items[1], step)
           by == items[1].by
<1>1. IsOne(text, items, part)
  BY DEF IsOne
<1>2. R \in Seq(S) /\ IsReplaced(text, items, M, R)
  <2>1. \A k \in 1..Len(items) : items[k].by \in Seq(S)
    <3>1. \A k \in 1..Len(items) : k = 1
      OBVIOUS
    <3>2. QED
      BY <3>1
  <2>2. QED
    BY <2>1, ReplacedIs
<1>3. InspectReplacing(text, items[1]) =
        IF items[1].phrase = "characters"
        THEN IF by = <<>> THEN text ELSE InPart(text, part, [i \in 1..Len(field) |-> by[1]])
        ELSE IF step = 0 THEN text ELSE InPart(text, part, new[1])
  BY DEF InspectReplacing, IsNew, part
<1> HIDE DEF part, R
<1>4. OneLeaves(S, text, items, part, M, R)
  BY <1>1, <1>2 DEF OneLeaves
<1>5. InPart(text, part, SubSeq(R, part.first, part.last)) = R
  BY <1>4, InPartIs
<1>6. Len(by) \in Nat /\ (by = <<>> <=> Len(by) = 0)
  OBVIOUS
<1>7. CASE items[1].phrase = "characters" /\ by = <<>>
  <2>1. R = text
    BY <1>4, <1>6, <1>7, NothingReplaced
  <2>2. QED
    BY <1>3, <1>7, <2>1 DEF R
<1>8. CASE items[1].phrase = "characters" /\ by # <<>>
  <2>1. PICK g : g = field
    OBVIOUS
  <2>2. Leaves(R, part, part.first, [i \in 1..Len(g) |-> items[1].by[1]])
    <3>1. BySingle(S, items) /\ Leaves(text, part, part.first, g)
      BY <1>6, <1>8, <2>1 DEF BySingle, Leaves
    <3>2. QED
      BY <1>4, <3>1, CharactersReplaced
  <2>3. QED
    BY <1>3, <1>5, <1>8, <2>1, <2>2 DEF R, Leaves
<1>9. CASE items[1].phrase # "characters" /\ step = 0
  <2>1. M = {}
    <3>1. \A t \in Spots(text, items) : Size(items[1]) \in Nat \ {0} /\ Size(items[1]) = Len(items[1].word)
      BY <1>1, <1>9, OneSpotIs
    <3>2. \A t \in Spots(text, items) : FALSE
      BY <1>9, <3>1
    <3>3. QED
      BY <3>2 DEF AreMatches
  <2>2. R = text
    BY <1>4, <2>1, NothingReplaced
  <2>3. QED
    BY <1>3, <1>9, <2>2 DEF R
<1>10. CASE items[1].phrase # "characters" /\ step # 0
  <2>1. Ones(text, items, part, M)
    BY <1>1, <1>10 DEF Ones
  <2>2. OneReplaced(S, text, items, part, M, R)
    BY <1>2, <2>1 DEF OneReplaced
  <2>3. part.first \in Nat \ {0} /\ part.last \in Nat /\ part.first <= part.last + 1 /\ part.last <= Len(text)
        /\ step \in Nat \ {0}
    <3>1. part.first \in Nat \ {0} /\ part.last \in Nat /\ part.first <= part.last + 1 /\ part.last <= Len(text)
          /\ step \in Nat
      BY <2>1, OneMatchIs
    <3>2. QED
      BY <1>10, <3>1
  <2>4. IsNew(new, field, items[1], step)
    <3>1. field \in Seq(S)
      BY <2>3, SliceIs
    <3> HIDE DEF step, field
    <3>2. \E f : IsNew(f, field, items[1], step)
      BY <2>3, <3>1, NewExists
    <3>3. QED
      BY <3>2
  <2>5. Leaves(R, part, part.first, new[1])
    <3> HIDE DEF new
    <3>1. QED
      BY <1>10, <2>2, <2>4, NewIsReplaced
  <2> HIDE DEF new
  <2>6. new[1] = SubSeq(R, part.first, part.last)
    BY <2>5 DEF Leaves
  <2>7. QED
    BY <1>3, <1>5, <1>10, <2>6 DEF R
<1>11. QED
  BY <1>7, <1>8, <1>9, <1>10

\* OneAfterTheOther, as a fold over the places of the items.
IsReplacing(f, text, items) ==
  f = [s \in SUBSET DOMAIN items |->
         IF s = {} THEN text ELSE InspectReplacing(f[s \ {Max(s)}], items[Max(s)])]

LEMMA OneIsAlone ==
  ASSUME NEW item
  PROVE  OneAfterTheOther(<<item>>) = InspectReplacing(source, item)
<1> DEFINE items == <<item>>
           g == CHOOSE f : IsReplacing(f, source, items)
           D == {1}
           f0 == [s \in SUBSET D |-> IF s = {} THEN source ELSE InspectReplacing(source, item)]
<1>1. DOMAIN items = D /\ items[1] = item /\ Max(D) = 1 /\ D \ {1} = {}
  BY DEF Max
<1>2. \A s \in SUBSET D : s = {} \/ s = D
  OBVIOUS
<1>3. f0[{}] = source /\ f0[D] = InspectReplacing(source, item)
  OBVIOUS
<1> HIDE DEF items, D
<1>4. IsReplacing(f0, source, items)
  <2>1. \A s \in SUBSET D :
          (IF s = {} THEN source ELSE InspectReplacing(source, item))
            = IF s = {} THEN source ELSE InspectReplacing(f0[s \ {Max(s)}], items[Max(s)])
    <3> HIDE DEF f0
    <3>1. f0[D \ {Max(D)}] = source /\ items[Max(D)] = item
      BY <1>1, <1>3
    <3>2. TAKE s \in SUBSET D
    <3>3. CASE s = {}
      BY <3>3
    <3>4. CASE s = D
      BY <3>1, <3>4
    <3>5. QED
      BY <1>2, <3>3, <3>4
  <2> DEFINE h == [s \in SUBSET D |-> IF s = {} THEN source ELSE InspectReplacing(f0[s \ {Max(s)}], items[Max(s)])]
  <2>2. f0 = h
    <3> DEFINE x(s) == IF s = {} THEN source ELSE InspectReplacing(source, item)
               y(s) == IF s = {} THEN source ELSE InspectReplacing(f0[s \ {Max(s)}], items[Max(s)])
    <3>1. \A s \in SUBSET D : x(s) = y(s)
      BY <2>1
    <3>2. f0 = [s \in SUBSET D |-> x(s)] /\ h = [s \in SUBSET D |-> y(s)]
      OBVIOUS
    <3> HIDE DEF x, y, f0, h
    <3>3. QED
      BY <3>1, <3>2
  <2> HIDE DEF f0
  <2>3. QED
    BY <1>1, <2>2 DEF IsReplacing
<1>5. IsReplacing(g, source, items)
  BY <1>4
<1>6. OneAfterTheOther(items) = g[DOMAIN items]
  BY DEF OneAfterTheOther, FoldLeft, MapThenFoldSet, IsReplacing
<1> HIDE DEF g
<1>7. g[{}] = source /\ g[D] = InspectReplacing(g[D \ {Max(D)}], items[Max(D)])
  <2>1. {} \in SUBSET D /\ D \in SUBSET D /\ D # {}
    BY DEF D
  <2>2. \A s \in SUBSET D : g[s] = IF s = {} THEN source ELSE InspectReplacing(g[s \ {Max(s)}], items[Max(s)])
    <3> DEFINE y(s) == IF s = {} THEN source ELSE InspectReplacing(g[s \ {Max(s)}], items[Max(s)])
               h == g
    <3>1. h = [s \in SUBSET D |-> y(s)]
      BY <1>1, <1>5 DEF IsReplacing
    <3> HIDE DEF y, h
    <3>2. \A s \in SUBSET D : h[s] = y(s)
      BY <3>1
    <3>3. QED
      BY <3>2 DEF y, h
  <2>3. QED
    BY <2>1, <2>2
<1>8. QED
  BY <1>1, <1>6, <1>7 DEF items

-----------------------------------------------------------------------------
(* INSPECT CONVERTING *)

LEMMA SliceOfOne ==
  ASSUME NEW S, NEW text \in Seq(S), NEW a \in 1..Len(text)
  PROVE  SubSeq(text, a, a) = <<text[a]>>
<1>1. a \in Nat \ {0} /\ a <= a + 1 /\ a <= Len(text) /\ a + 1 - a = 1
  OBVIOUS
<1>2. PICK b \in Nat : b = a
  BY <1>1
<1>3. SubSeq(text, a, b) \in Seq(S) /\ Len(SubSeq(text, a, b)) = b + 1 - a
  BY <1>1, <1>2, SliceIs
<1>4. \A k \in 1..(b + 1 - a) : SubSeq(text, a, b)[k] = text[a + k - 1]
  BY <1>1, <1>2, SliceIs
<1>5. 1 \in 1..(b + 1 - a) /\ a + 1 - 1 = a /\ b + 1 - a = 1
  BY <1>1, <1>2
<1> DEFINE x == SubSeq(text, a, b)
<1> HIDE DEF x
<1>6. x \in Seq(S) /\ Len(x) = 1 /\ x[1] = text[a]
  BY <1>3, <1>4, <1>5 DEF x
<1>7. x = <<x[1]>>
  BY <1>6
<1>8. QED
  BY <1>2, <1>6, <1>7 DEF x

Plain(c) ==
  /\ IsText(c.from) /\ IsText(c.to) /\ AreMarks(c.marks) /\ OneOfEach(c.marks)
  /\ \A j, k \in 1..Len(c.from) : c.from[j] = c.from[k] => j = k

\* The items of a conversion, n of them: each replaces one character by one.
AreSingle(c, n, items) ==
  \A k \in 1..n : /\ items[k].phrase = "all" /\ items[k].word = <<c.from[k]>> /\ items[k].by = <<c.to[k]>>
                  /\ items[k].marks = c.marks /\ items[k].by \in Seq(ToSet(c.to))

LEMMA ConversionIs ==
  ASSUME NEW c, Plain(c)
  PROVE  LET n == Min({Len(c.from), Len(c.to)})
         IN /\ n \in Nat /\ n <= Len(c.from) /\ n <= Len(c.to)
            /\ Len(Conversion(c)) = n /\ Inspectable(Conversion(c))
            /\ AreSingle(c, n, Conversion(c))
            /\ \A text : Undisturbed(text, Conversion(c))
<1> DEFINE n == Min({Len(c.from), Len(c.to)})
           items == Conversion(c)
           item(k) == [phrase |-> "all", word |-> <<c.from[k]>>, by |-> <<c.to[k]>>, marks |-> c.marks]
<1>1. c.from \in Seq(ToSet(c.from)) /\ c.to \in Seq(ToSet(c.to)) /\ Len(c.from) \in Nat /\ Len(c.to) \in Nat
      /\ AreMarks(c.marks) /\ OneOfEach(c.marks)
  BY DEF Plain, IsText
<1>2. n \in Nat /\ n <= Len(c.from) /\ n <= Len(c.to)
  BY <1>1, MinOfTwo
<1>3. items = [k \in 1..n |-> item(k)]
  BY DEF Conversion
<1> HIDE DEF n, items
<1>4. ASSUME NEW k \in 1..n
      PROVE  /\ items[k] = item(k) /\ items[k].phrase = "all" /\ items[k].marks = c.marks
             /\ items[k].word = <<c.from[k]>> /\ items[k].by = <<c.to[k]>>
             /\ IsText(items[k].word) /\ IsText(items[k].by) /\ items[k].by \in Seq(ToSet(c.to))
  <2>1. items[k] = item(k)
    <3> HIDE DEF item
    <3>1. QED
      BY <1>3
  <2>2. items[k].phrase = "all" /\ items[k].marks = c.marks /\ items[k].word = <<c.from[k]>> /\ items[k].by = <<c.to[k]>>
    BY <2>1
  <2>3. \A x : <<x>> \in Seq(ToSet(<<x>>))
    BY DEF ToSet
  <2>4. k \in 1..Len(c.to)
    BY <1>1, <1>2
  <2>5. c.to[k] \in ToSet(c.to)
    BY <1>1, <2>4
  <2>6. <<c.to[k]>> \in Seq(ToSet(c.to))
    BY <2>5
  <2> HIDE DEF item
  <2>7. QED
    BY <2>1, <2>2, <2>3, <2>6 DEF IsText
<1>5. Len(items) = n /\ IsText(items)
  <2> DEFINE s == [k \in 1..n |-> item(k)]
  <2>1. s \in [1..n -> {item(k) : k \in 1..n}]
    <3> HIDE DEF item
    <3>1. QED
      OBVIOUS
  <2>2. s \in Seq({item(k) : k \in 1..n}) /\ Len(s) = n
    <3> HIDE DEF s, item
    <3>1. QED
      BY <1>2, <2>1, FunctionIsSequence
  <2> HIDE DEF item
  <2>3. ToSet(s) = {item(k) : k \in 1..n}
    <3>1. DOMAIN s = 1..n /\ \A k \in 1..n : s[k] = item(k)
      OBVIOUS
    <3> HIDE DEF s
    <3>2. QED
      BY <3>1 DEF ToSet
  <2>4. QED
    BY <1>3, <2>2, <2>3 DEF IsText
<1>6. Inspectable(items)
  BY <1>1, <1>4, <1>5 DEF Inspectable, AreItems, Phrases
<1>7. ASSUME NEW text PROVE Undisturbed(text, items)
  <2>1. \A k \in 1..Len(items) : items[k].phrase # "leading"
    BY <1>4, <1>5
  <2>2. QED
    BY <2>1 DEF Undisturbed
<1>8. QED
  <2>1. /\ Len(items) = n /\ Inspectable(items)
        /\ AreSingle(c, n, items)
        /\ \A text : Undisturbed(text, items)
    BY <1>4, <1>5, <1>6, <1>7 DEF AreSingle
  <2>2. QED
    BY <1>2, <2>1 DEF n, items

Converted(text, c, n, part, items, M) ==
  /\ \A p \in 1..Len(text), k \in 1..n :
       <<p, k>> \in M <=> part.first <= p /\ p <= part.last /\ text[p] = c.from[k]
  /\ \A t \in M : t[1] \in 1..Len(text) /\ t[2] \in 1..n /\ t = <<t[1], t[2]>> /\ Reach(items, t) = {t[1]}

LEMMA ConversionMatches ==
  ASSUME NEW S, NEW text \in Seq(S), NEW c, Plain(c), NEW n, n = Min({Len(c.from), Len(c.to)}),
         NEW part, part = Part(text, c.marks), NEW M, AreMatches(text, Conversion(c), M)
  PROVE  Converted(text, c, n, part, Conversion(c), M)
<1> DEFINE items == Conversion(c)
<1>1. n \in Nat /\ n <= Len(c.from) /\ n <= Len(c.to) /\ Len(items) = n /\ Inspectable(items)
  BY ConversionIs
<1>2. AreSingle(c, n, items)
  BY ConversionIs
<1> HIDE DEF items
<1>3. \A k \in 1..n : /\ items[k].phrase = "all" /\ items[k].word = <<c.from[k]>> /\ items[k].marks = c.marks
                      /\ Len(items[k].word) = 1 /\ items[k].word # <<>>
  <2>1. ASSUME NEW k \in 1..n
        PROVE  items[k].phrase = "all" /\ items[k].word = <<c.from[k]>> /\ items[k].marks = c.marks
    BY <1>2 DEF AreSingle
  <2>2. \A x : Len(<<x>>) = 1 /\ <<x>> # <<>>
    OBVIOUS
  <2>3. QED
    BY <2>1, <2>2
<1>4. \A j, k \in 1..n : c.from[j] = c.from[k] => j = k
  <2>1. Len(c.from) \in Nat
    BY DEF Plain, IsText
  <2>2. \A k \in 1..n : k \in 1..Len(c.from)
    BY <1>1, <2>1
  <2>3. QED
    BY <2>2 DEF Plain
<1>5. ASSUME NEW p \in 1..Len(text), NEW k \in 1..n
      PROVE  <<p, k>> \in Spots(text, items) <=> part.first <= p /\ p <= part.last /\ text[p] = c.from[k]
  <2>1. k \in 1..Len(items) /\ part = Part(text, items[k].marks)
    BY <1>1, <1>3
  <2>2. <<p, k>> \in Spots(text, items) <=>
          /\ part.first <= p /\ p <= part.last
          /\ items[k].phrase = "characters" \/ p \in Places(text, items[k].word, p, part.last)
    BY <1>1, <2>1, SpotIff
  <2>3. part \in Parts(Len(text))
    BY <1>1, <2>1, SpotIff
  <2>4. part.last \in Nat
    BY <2>3 DEF Parts
  <2>5. ASSUME p <= part.last PROVE p \in Places(text, items[k].word, p, part.last) <=> text[p] = c.from[k]
    <3>1. p \in p..(part.last - 1 + 1) /\ p + 1 - 1 = p
      BY <2>4, <2>5
    <3>2. p \in Places(text, items[k].word, p, part.last) <=> SubSeq(text, p, p) = <<c.from[k]>>
      BY <1>3, <3>1 DEF Places
    <3>3. SubSeq(text, p, p) = <<text[p]>>
      BY SliceOfOne
    <3>4. QED
      BY <3>2, <3>3
  <2>6. items[k].phrase # "characters"
    BY <1>3
  <2>7. QED
    BY <2>2, <2>5, <2>6
<1>6. ASSUME NEW s \in Spots(text, items)
      PROVE  s[1] \in 1..Len(text) /\ s[2] \in 1..n /\ s = <<s[1], s[2]>> /\ Reach(items, s) = {s[1]}
             /\ text[s[1]] = c.from[s[2]] /\ MayMatch(text, items, M, s)
  <2>1. s[1] \in 1..Len(text) /\ s[2] \in 1..n /\ s = <<s[1], s[2]>>
    BY <1>1, SpotIs
  <2>2. Size(items[s[2]]) = 1
    BY <1>3, <2>1 DEF Size
  <2>3. \A x \in Nat : x..(x + 1 - 1) = {x}
    OBVIOUS
  <2>4. Reach(items, s) = {s[1]}
    BY <2>1, <2>2, <2>3 DEF Reach
  <2>5. text[s[1]] = c.from[s[2]]
    <3> DEFINE p == s[1]
               k == s[2]
    <3>1. p \in 1..Len(text) /\ k \in 1..n /\ <<p, k>> \in Spots(text, items)
      BY <2>1
    <3> HIDE DEF p, k
    <3>2. text[p] = c.from[k]
      BY <1>5, <3>1
    <3>3. QED
      BY <3>2 DEF p, k
  <2>6. MayMatch(text, items, M, s)
    BY <1>3, <2>1 DEF MayMatch
  <2>7. QED
    BY <2>1, <2>4, <2>5, <2>6
<1>7. M \subseteq Spots(text, items)
  BY DEF AreMatches, items
<1>8. ASSUME NEW s \in Spots(text, items) PROVE ~IsTaken(items, M, s)
  <2>1. ASSUME NEW t \in M, s[1] \in Reach(items, t), t[1] = s[1] => t[2] < s[2] PROVE FALSE
    <3>1. t[1] = s[1] /\ t[2] \in 1..n /\ s[2] \in 1..n /\ c.from[t[2]] = c.from[s[2]]
      <4>1. t \in Spots(text, items)
        BY <1>7
      <4>2. t[2] \in 1..n /\ Reach(items, t) = {t[1]} /\ text[t[1]] = c.from[t[2]]
        BY <1>6, <4>1
      <4>3. s[2] \in 1..n /\ text[s[1]] = c.from[s[2]]
        BY <1>6
      <4>4. t[1] = s[1]
        BY <2>1, <4>2
      <4>5. QED
        BY <4>2, <4>3, <4>4
    <3>2. t[2] = s[2]
      BY <1>4, <3>1
    <3>3. \A x \in 1..n : ~(x < x)
      OBVIOUS
    <3>4. QED
      BY <2>1, <3>1, <3>2, <3>3
  <2>2. QED
    BY <2>1 DEF IsTaken
<1>9. M = Spots(text, items)
  <2>1. \A s \in Spots(text, items) : s \in M <=> MayMatch(text, items, M, s) /\ ~IsTaken(items, M, s)
    BY DEF AreMatches, items
  <2>2. QED
    BY <1>6, <1>7, <1>8, <2>1
<1>10. QED
  BY <1>5, <1>6, <1>9 DEF items, Converted

(* CONVERTING is REPLACING ALL of every character.                         *)
LEMMA ConvertingReplaces ==
  ASSUME NEW S, NEW text \in Seq(S), NEW c, Plain(c), ToSet(c.to) \subseteq S,
         NEW M, AreMatches(text, Conversion(c), M)
  PROVE  InspectConverting(text, c.from, c.to, c.marks) = Replaced(text, Conversion(c), M)
<1> DEFINE n == Min({Len(c.from), Len(c.to)})
           part == Part(text, c.marks)
           items == Conversion(c)
           R == Replaced(text, items, M)
           conv(x) == IF {k \in 1..n : c.from[k] = x} = {} THEN x ELSE c.to[Max({k \in 1..n : c.from[k] = x})]
           at(p) == IF part.first <= p /\ p <= part.last THEN conv(text[p]) ELSE text[p]
<1>1. n \in Nat /\ n <= Len(c.from) /\ n <= Len(c.to) /\ Len(items) = n /\ Inspectable(items)
      /\ \A k \in 1..n : /\ items[k].by \in Seq(ToSet(c.to)) /\ items[k].by = <<c.to[k]>>
  <2>1. n \in Nat /\ n <= Len(c.from) /\ n <= Len(c.to) /\ Len(items) = n /\ Inspectable(items)
    BY ConversionIs
  <2>2. AreSingle(c, n, items)
    BY ConversionIs
  <2> HIDE DEF items, n
  <2>3. ASSUME NEW k \in 1..n PROVE items[k].by \in Seq(ToSet(c.to)) /\ items[k].by = <<c.to[k]>>
    BY <2>2 DEF AreSingle
  <2>4. QED
    BY <2>1, <2>3
<1> HIDE DEF n, part, R
<1>0. n = Min({Len(c.from), Len(c.to)}) /\ part = Part(text, c.marks)
  BY DEF n, part
<1>10. Converted(text, c, n, part, items, M)
  BY <1>0, ConversionMatches
<1>2. \A p \in 1..Len(text), k \in 1..n :
        <<p, k>> \in M <=> part.first <= p /\ p <= part.last /\ text[p] = c.from[k]
  BY <1>10 DEF Converted
<1>3. \A t \in M : t[1] \in 1..Len(text) /\ t[2] \in 1..n /\ t = <<t[1], t[2]>> /\ Reach(items, t) = {t[1]}
  BY <1>10 DEF Converted
<1>4. IsReplaced(text, items, M, R)
  <2>1. \A k \in 1..Len(items) : items[k].by \in Seq(S)
    <3>1. \A x \in Seq(ToSet(c.to)) : x \in Seq(S)
      OBVIOUS
    <3>2. QED
      BY <1>1, <3>1
  <2> HIDE DEF items
  <2>2. QED
    BY <1>1, <2>1, ReplacedIs DEF items, R
<1>5. R = [p \in 1..Len(text) |-> R[p]]
  <2>1. \A k \in 1..Len(items) : items[k].by \in Seq(S)
    <3>1. \A x \in Seq(ToSet(c.to)) : x \in Seq(S)
      OBVIOUS
    <3> HIDE DEF items
    <3>2. QED
      BY <1>1, <3>1
  <2> HIDE DEF items
  <2>2. R \in Seq(S)
    BY <1>1, <2>1, ReplacedIs DEF items, R
  <2>3. Len(R) = Len(text)
    BY <1>4 DEF IsReplaced
  <2>4. QED
    BY <2>2, <2>3
<1>6. InspectConverting(text, c.from, c.to, c.marks) = [p \in 1..Len(text) |-> at(p)]
  BY DEF InspectConverting, n, part
<1>7. \A j, k \in 1..n : c.from[j] = c.from[k] => j = k
  <2>1. Len(c.from) \in Nat
    BY DEF Plain, IsText
  <2>2. \A k \in 1..n : k \in 1..Len(c.from)
    BY <1>1, <2>1
  <2>3. QED
    BY <2>2 DEF Plain
<1> HIDE DEF n, part, items, R
<1>8. ASSUME NEW p \in 1..Len(text) PROVE R[p] = at(p)
  <2>1. CASE part.first <= p /\ p <= part.last /\ \E k \in 1..n : text[p] = c.from[k]
    <3>1. PICK k \in 1..n : text[p] = c.from[k]
      BY <2>1
    <3>2. <<p, k>> \in M
      BY <1>2, <2>1, <3>1
    <3>3. p \in Reach(items, <<p, k>>) /\ <<p, k>>[1] = p /\ <<p, k>>[2] = k
      BY <1>3, <3>2
    <3>4. R[p] = IF p - p < Len(items[k].by) THEN items[k].by[p - p + 1] ELSE text[p]
      BY <1>4, <3>2, <3>3 DEF IsReplaced
    <3>5. p - p = 0 /\ 0 + 1 = 1
      OBVIOUS
    <3>6. Len(items[k].by) = 1 /\ items[k].by[1] = c.to[k]
      <4>1. items[k].by = <<c.to[k]>>
        BY <1>1
      <4>2. \A x : Len(<<x>>) = 1 /\ <<x>>[1] = x
        OBVIOUS
      <4>3. QED
        BY <4>1, <4>2
    <3>7. R[p] = c.to[k]
      BY <3>4, <3>5, <3>6
    <3>8. {j \in 1..n : c.from[j] = text[p]} = {k}
      BY <1>7, <3>1
    <3>9. Max({k}) = k
      BY <1>1 DEF Max
    <3>10. at(p) = c.to[k]
      BY <2>1, <3>8, <3>9
    <3>11. QED
      BY <3>7, <3>10
  <2>2. CASE ~(part.first <= p /\ p <= part.last /\ \E k \in 1..n : text[p] = c.from[k])
    <3>1. ASSUME NEW t \in M, p \in Reach(items, t) PROVE FALSE
      <4> DEFINE k == t[2]
      <4>1. t = <<p, k>> /\ k \in 1..n
        BY <1>3, <3>1
      <4> HIDE DEF k
      <4>2. QED
        BY <1>2, <2>2, <3>1, <4>1
    <3>2. R[p] = text[p]
      BY <1>4, <3>1 DEF IsReplaced
    <3>3. at(p) = text[p]
      <4>1. CASE ~(part.first <= p /\ p <= part.last)
        BY <4>1
      <4>2. CASE part.first <= p /\ p <= part.last
        <5>1. {k \in 1..n : c.from[k] = text[p]} = {}
          BY <2>2, <4>2
        <5>2. QED
          BY <5>1
      <4>3. QED
        BY <4>1, <4>2
    <3>4. QED
      BY <3>2, <3>3
  <2>3. QED
    BY <2>1, <2>2
<1> HIDE DEF at
<1>9. QED
  BY <1>5, <1>6, <1>8 DEF R, items

-----------------------------------------------------------------------------
(* The INSPECT statements of a program *)

\* What InspectedAsDefined says of a statement, in an operator of its own.
AsCounted(text, items, counts) ==
  \A c \in Counters : counts[c] = Cardinality({m \in Series(text, items) : items[m[2]].counter = c})

WellDone(text, items, replacing, counts, new) ==
  /\ AsDefined(text, items, Series(text, items)) /\ AsDefined(text, replacing, Series(text, replacing))
  /\ AsCounted(text, items, counts) /\ new = Replaced(text, replacing, Series(text, replacing))

IsLine(text) == text \in Seq(Char) /\ Len(text) = LineWidth

Fine(items) == Inspectable(items) /\ \A text : IsLine(text) => Undisturbed(text, items)

LEMMA LineIs ==
  ASSUME NEW text, IsLine(text)
  PROVE  text \in Seq(Char) /\ text \in [1..LineWidth -> Char]
BY DEF IsLine

LEMMA FineMatches ==
  ASSUME NEW text, IsLine(text), NEW items, Fine(items)
  PROVE  AreMatches(text, items, Series(text, items)) /\ AsDefined(text, items, Series(text, items))
<1>1. text \in Seq(Char) /\ Inspectable(items) /\ Undisturbed(text, items)
  BY LineIs DEF Fine
<1>2. AreMatches(text, items, Series(text, items))
  BY <1>1, SeriesMatches
<1>3. QED
  BY <1>2, DefinedMatches

LEMMA FineLists ==
  ASSUME InspectsPlain
  PROVE  /\ \A items \in TallyingLists : Fine(items) /\ AreItems(items, {"characters", "all", "leading"})
         /\ \A item \in ReplacingItems : Fine(<<item>>)
         /\ \A both \in SeriesLists : Fine(both[1]) /\ Fine(both[2])
<1> DEFINE lists == TallyingLists \cup {<<i>> : i \in ReplacingItems} \cup UNION {{b[1], b[2]} : b \in SeriesLists}
<1>1. ASSUME NEW items \in lists, AreItems(items, Phrases) PROVE Fine(items)
  <2>1. \A k \in 1..Len(items) : OneOfEach(items[k].marks)
    BY <1>1 DEF InspectsPlain
  <2>2. \A text \in [1..LineWidth -> Char] : Undisturbed(text, items)
    BY <1>1 DEF InspectsPlain
  <2>3. Inspectable(items)
    BY <1>1, <2>1 DEF Inspectable
  <2>4. QED
    BY <2>2, <2>3, LineIs DEF Fine
<1>2. \A items : AreItems(items, {"characters", "all", "leading"}) => AreItems(items, Phrases)
  BY DEF AreItems, Phrases
<1>3. ASSUME NEW items \in TallyingLists PROVE Fine(items) /\ AreItems(items, {"characters", "all", "leading"})
  <2>1. items \in lists /\ AreItems(items, {"characters", "all", "leading"})
    BY TextAssumption
  <2>2. QED
    BY <1>1, <1>2, <2>1
<1>4. ASSUME NEW item \in ReplacingItems PROVE Fine(<<item>>)
  <2>1. <<item>> \in lists /\ AreItems(<<item>>, Phrases)
    BY TextAssumption DEF Phrases
  <2> HIDE DEF lists
  <2>2. QED
    BY <1>1, <2>1
<1>5. ASSUME NEW both \in SeriesLists PROVE Fine(both[1]) /\ Fine(both[2])
  <2>1. both[1] \in lists /\ both[2] \in lists
    OBVIOUS
  <2>2. AreItems(both[1], Phrases) /\ AreItems(both[2], Phrases)
    BY <1>2, TextAssumption DEF Phrases
  <2> HIDE DEF lists
  <2>3. QED
    BY <1>1, <2>1, <2>2
<1>6. QED
  BY <1>3, <1>4, <1>5

\* A statement without TALLYING, or without REPLACING.
LEMMA NothingInspected ==
  ASSUME NEW text, IsLine(text)
  PROVE  /\ Fine(<<>>) /\ Series(text, <<>>) = {} /\ Replaced(text, <<>>, Series(text, <<>>)) = text
         /\ AsCounted(text, <<>>, NotInspected.counts)
<1>1. Inspectable(<<>>)
  <2>1. IsText(<<>>) /\ 1..Len(<<>>) = {}
    BY DEF IsText
  <2>2. QED
    BY <2>1 DEF Inspectable, AreItems
<1>2. \A x : Undisturbed(x, <<>>)
  <2>1. 1..Len(<<>>) = {}
    OBVIOUS
  <2>2. QED
    BY <2>1 DEF Undisturbed
<1>3. Fine(<<>>)
  BY <1>1, <1>2 DEF Fine
<1>4. Series(text, <<>>) = {}
  <2>1. Series(text, <<>>) \subseteq Spots(text, <<>>)
    BY <1>3, FineMatches DEF AreMatches
  <2>2. 1..Len(<<>>) = {}
    OBVIOUS
  <2>3. Spots(text, <<>>) = {}
    BY <2>2 DEF Spots
  <2>4. QED
    BY <2>1, <2>3
<1>5. Replaced(text, <<>>, {}) = text
  <2> DEFINE new(i) == text[i]
  <2>1. Replaced(text, <<>>, {}) = [i \in 1..Len(text) |-> text[i]]
    BY DEF Replaced
  <2>2. text = [i \in 1..Len(text) |-> text[i]]
    BY LineIs
  <2>3. QED
    BY <2>1, <2>2
<1>6. AsCounted(text, <<>>, NotInspected.counts)
  <2>1. \A c \in Counters : NotInspected.counts[c] = 0
    BY DEF NotInspected
  <2>2. \A c : {m \in {} : <<>>[m[2]].counter = c} = {}
    OBVIOUS
  <2>3. QED
    BY <1>4, <2>1, <2>2, FS_EmptySet DEF AsCounted
<1>7. QED
  BY <1>3, <1>4, <1>5, <1>6

LEMMA TalliedIs ==
  ASSUME IsLine(source), NEW items, Fine(items), AreItems(items, {"characters", "all", "leading"})
  PROVE  AsCounted(source, items, Tallied(items))
<1> DEFINE M == Series(source, items)
           counted(c) == {m \in M : items[m[2]].counter = c}
<1>1. AreMatches(source, items, M) /\ source \in Seq(Char) /\ Inspectable(items)
  BY FineMatches, LineIs DEF Fine
<1> HIDE DEF M
<1>2. ASSUME NEW c \in Counters PROVE Tallied(items)[c] = Cardinality(counted(c))
  <2>1. CASE Len(items) # 1
    <3>1. Tallied(items)[c] = TallyingSeries(source, items, c)
      BY <2>1 DEF Tallied
    <3>2. QED
      BY <3>1 DEF TallyingSeries, M
  <2>2. CASE Len(items) = 1
    <3>1. items[1].phrase # "first"
      BY <2>2 DEF AreItems
    <3>2. InspectTallying(source, items[1]) = Cardinality(M)
      BY <1>1, <2>2, <3>1, TallyingCounts
    <3>3. \A m \in M : m[2] = 1
      <4>1. ASSUME NEW m \in M PROVE m[2] = 1
        <5>1. m \in Spots(source, items)
          BY <1>1 DEF AreMatches
        <5>2. m[2] \in 1..Len(items)
          BY <1>1, <5>1, SpotIs
        <5>3. QED
          BY <2>2, <5>2
      <4>2. QED
        BY <4>1
    <3>4. Tallied(items)[c] = IF items[1].counter = c THEN InspectTallying(source, items[1]) ELSE 0
      BY <2>2 DEF Tallied
    <3>5. CASE items[1].counter = c
      <4>1. counted(c) = M
        BY <3>3, <3>5
      <4>2. QED
        BY <3>2, <3>4, <3>5, <4>1
    <3>6. CASE items[1].counter # c
      <4>1. counted(c) = {}
        BY <3>3, <3>6
      <4>2. QED
        BY <3>4, <3>6, <4>1, FS_EmptySet
    <3>7. QED
      BY <3>5, <3>6
  <2>3. QED
    BY <2>1, <2>2
<1>3. QED
  BY <1>2 DEF AsCounted, M

LEMMA TallyingDone ==
  ASSUME IsLine(source), NEW items, Fine(items), AreItems(items, {"characters", "all", "leading"})
  PROVE  WellDone(source, items, <<>>, Tallied(items), source)
<1>1. AsDefined(source, items, Series(source, items)) /\ AsCounted(source, items, Tallied(items))
  BY FineMatches, TalliedIs
<1>2. Fine(<<>>) /\ Replaced(source, <<>>, Series(source, <<>>)) = source
  BY NothingInspected
<1>3. AsDefined(source, <<>>, Series(source, <<>>))
  BY <1>2, FineMatches
<1>4. QED
  BY <1>1, <1>2, <1>3 DEF WellDone

LEMMA ReplacingDone ==
  ASSUME IsLine(source), NEW item, Fine(<<item>>)
  PROVE  WellDone(source, <<>>, <<item>>, NotInspected.counts, OneAfterTheOther(<<item>>))
<1> DEFINE items == <<item>>
           M == Series(source, items)
           S == Char \cup ToSet(item.word) \cup ToSet(item.by)
<1>1. Len(items) = 1 /\ items[1] = item
  OBVIOUS
<1> HIDE DEF items
<1>2. AreMatches(source, items, M) /\ AsDefined(source, items, M) /\ Inspectable(items)
  BY FineMatches DEF Fine, items
<1>3. Fine(<<>>) /\ AsCounted(source, <<>>, NotInspected.counts)
  BY NothingInspected
<1>4. AsDefined(source, <<>>, Series(source, <<>>))
  BY <1>3, FineMatches
<1>5. source \in Seq(S) /\ item.word \in Seq(S) /\ item.by \in Seq(S)
  <2>1. item.word \in Seq(ToSet(item.word)) /\ item.by \in Seq(ToSet(item.by)) /\ source \in Seq(Char)
    <3>1. 1 \in 1..Len(items)
      BY <1>1
    <3>2. IsText(items[1].word) /\ IsText(items[1].by)
      BY <1>2, <3>1, ItemIs
    <3>3. QED
      BY <1>1, <3>2, LineIs DEF IsText
  <2>2. \A A, B : A \subseteq B => \A x \in Seq(A) : x \in Seq(B)
    OBVIOUS
  <2>3. Char \subseteq S /\ ToSet(item.word) \subseteq S /\ ToSet(item.by) \subseteq S
    OBVIOUS
  <2> HIDE DEF S
  <2>4. QED
    BY <2>1, <2>2, <2>3
<1> HIDE DEF M, S
<1>6. InspectReplacing(source, items[1]) = Replaced(source, items, M)
  BY <1>1, <1>2, <1>5, ReplacingReplaces
<1>7. OneAfterTheOther(<<item>>) = InspectReplacing(source, item)
  BY OneIsAlone
<1>8. QED
  BY <1>1, <1>2, <1>3, <1>4, <1>6, <1>7 DEF WellDone, M, items

LEMMA TallyingReplacingDone ==
  ASSUME IsLine(source), NEW items, NEW replacing, Fine(items), Fine(replacing)
  PROVE  WellDone(source, items, replacing, [c \in Counters |-> TallyingSeries(source, items, c)],
                  ReplacingSeries(source, replacing))
<1>1. AsDefined(source, items, Series(source, items)) /\ AsDefined(source, replacing, Series(source, replacing))
  BY FineMatches
<1>2. AsCounted(source, items, [c \in Counters |-> TallyingSeries(source, items, c)])
  BY DEF AsCounted, TallyingSeries
<1>3. QED
  BY <1>1, <1>2 DEF WellDone, ReplacingSeries

LEMMA ConvertingDone ==
  ASSUME IsLine(source), NEW c, Plain(c)
  PROVE  WellDone(source, <<>>, Conversion(c), NotInspected.counts,
                  InspectConverting(source, c.from, c.to, c.marks))
<1> DEFINE items == Conversion(c)
           M == Series(source, items)
           S == Char \cup ToSet(c.to)
<1>1. Fine(items)
  BY ConversionIs DEF Fine
<1> HIDE DEF items
<1>2. AreMatches(source, items, M) /\ AsDefined(source, items, M)
  BY <1>1, FineMatches
<1>3. Fine(<<>>) /\ AsCounted(source, <<>>, NotInspected.counts)
  BY NothingInspected
<1>4. AsDefined(source, <<>>, Series(source, <<>>))
  BY <1>3, FineMatches
<1>5. source \in Seq(S) /\ ToSet(c.to) \subseteq S
  <2>1. source \in Seq(Char) /\ Char \subseteq S
    BY LineIs
  <2>2. \A A, B : A \subseteq B => \A x \in Seq(A) : x \in Seq(B)
    OBVIOUS
  <2>3. QED
    BY <2>1, <2>2
<1> HIDE DEF M, S
<1>6. InspectConverting(source, c.from, c.to, c.marks) = Replaced(source, items, M)
  BY <1>2, <1>5, ConvertingReplaces DEF items
<1>7. QED
  BY <1>2, <1>3, <1>4, <1>6 DEF WellDone, M, items

LEMMA DoneAsDefined ==
  ASSUME NEW items, NEW replacing, NEW conversion, NEW counts, NEW text,
         Inspect(items, replacing, conversion, counts, text),
         WellDone(source, items, IF conversion = <<>> THEN replacing ELSE Conversion(conversion[1]), counts, text)
  PROVE  InspectedAsDefined'
<1>1. /\ inspected'.items = items /\ inspected'.replacing = replacing /\ inspected'.conversion = conversion
      /\ inspected'.counts = counts /\ inspected'.text = text /\ source' = source
  BY DEF Inspect
<1>2. QED
  BY <1>1 DEF InspectedAsDefined, WellDone, AsCounted

LEMMA NotThere ==
  ASSUME NEW p, p # "inspected", phase' = p
  PROVE  InspectedAsDefined'
BY DEF InspectedAsDefined

InspectInv == TextInv /\ InspectedAsDefined

LEMMA InspectStep ==
  ASSUME InspectsPlain, InspectInv, [Next]_vars
  PROVE  InspectedAsDefined'
<1>1. CASE UNCHANGED vars
  <2>1. phase' = phase /\ source' = source /\ inspected' = inspected
    BY <1>1 DEF vars
  <2>2. QED
    BY <2>1 DEF InspectInv, InspectedAsDefined
<1>2. ASSUME NEW operands \in Operands, StringStmt(operands) PROVE InspectedAsDefined'
  <2>1. phase' = "build"
    BY <1>2 DEF StringStmt
  <2>2. QED
    BY <2>1, NotThere
<1>3. ASSUME NEW chosen \in DelimiterLists, TakeLine(chosen) PROVE InspectedAsDefined'
  <2>1. phase' = "apart"
    BY <1>3 DEF TakeLine
  <2>2. QED
    BY <2>1, NotThere
<1>4. ASSUME NEW targets \in TargetLists, UnstringStmt(targets) PROVE InspectedAsDefined'
  <2>1. phase' = "apart"
    BY <1>4 DEF UnstringStmt
  <2>2. QED
    BY <2>1, NotThere
<1>5. ASSUME phase = "apart" PROVE IsLine(source)
  BY <1>5 DEF InspectInv, TextInv, TakingApart, IsLine
<1>6. ASSUME NEW items \in TallyingLists, Tallying(items) PROVE InspectedAsDefined'
  <2>1. Inspect(items, <<>>, <<>>, Tallied(items), source)
    BY <1>6 DEF Tallying
  <2>2. IsLine(source)
    BY <1>5, <2>1 DEF Inspect
  <2>3. WellDone(source, items, <<>>, Tallied(items), source)
    BY <2>2, FineLists, TallyingDone
  <2>4. QED
    BY <2>1, <2>3, DoneAsDefined
<1>7. ASSUME NEW item \in ReplacingItems, Replacing(<<item>>) PROVE InspectedAsDefined'
  <2>1. Inspect(<<>>, <<item>>, <<>>, NotInspected.counts, OneAfterTheOther(<<item>>))
    BY <1>7 DEF Replacing
  <2>2. IsLine(source)
    BY <1>5, <2>1 DEF Inspect
  <2>3. WellDone(source, <<>>, <<item>>, NotInspected.counts, OneAfterTheOther(<<item>>))
    BY <2>2, FineLists, ReplacingDone
  <2>4. QED
    BY <2>1, <2>3, DoneAsDefined
<1>8. ASSUME NEW both \in SeriesLists, TallyingReplacing(both[1], both[2]) PROVE InspectedAsDefined'
  <2> DEFINE items == both[1]
             replacing == both[2]
             counts == [c \in Counters |-> TallyingSeries(source, items, c)]
             text == ReplacingSeries(source, replacing)
  <2>1. Inspect(items, replacing, <<>>, counts, text)
    BY <1>8 DEF TallyingReplacing
  <2>2. IsLine(source)
    BY <1>5, <2>1 DEF Inspect
  <2>3. WellDone(source, items, replacing, counts, text)
    <3>1. Fine(items) /\ Fine(replacing)
      BY FineLists
    <3> HIDE DEF items, replacing
    <3>2. QED
      BY <2>2, <3>1, TallyingReplacingDone
  <2> HIDE DEF items, replacing, counts, text
  <2>4. QED
    BY <2>1, <2>3, DoneAsDefined
<1>9. ASSUME NEW c \in Conversions, Converting(c) PROVE InspectedAsDefined'
  <2> DEFINE conversion == <<c>>
             text == InspectConverting(source, c.from, c.to, c.marks)
  <2>1. Inspect(<<>>, <<>>, conversion, NotInspected.counts, text)
    BY <1>9 DEF Converting
  <2>2. IsLine(source)
    BY <1>5, <2>1 DEF Inspect
  <2>3. Plain(c)
    BY TextAssumption DEF InspectsPlain, Plain
  <2>4. WellDone(source, <<>>, Conversion(c), NotInspected.counts, text)
    BY <2>2, <2>3, ConvertingDone
  <2>5. conversion # <<>> /\ conversion[1] = c
    OBVIOUS
  <2> HIDE DEF conversion, text
  <2>6. QED
    BY <2>1, <2>4, <2>5, DoneAsDefined
<1>10. ASSUME NEW s, NEW x, Move(s, x) PROVE InspectedAsDefined'
  <2>1. phase' = "moved"
    BY <1>10 DEF Move
  <2>2. QED
    BY <2>1, NotThere
<1>11. ASSUME NEW x, MoveLine(x) \/ MoveOn(x) PROVE InspectedAsDefined'
  BY <1>10, <1>11 DEF MoveLine, MoveOn
<1>12. ASSUME NEW literal, NEW x, MoveLiteral(literal, x) PROVE InspectedAsDefined'
  BY <1>10, <1>12 DEF MoveLiteral
<1>13. CASE NextLine
  <2>1. phase' = "build"
    BY <1>13 DEF NextLine
  <2>2. QED
    BY <2>1, NotThere
<1>14. QED
  BY <1>1, <1>2, <1>3, <1>4, <1>6, <1>7, <1>8, <1>9, <1>11, <1>12, <1>13 DEF Next

(* The scan that the runtime does for one item of INSPECT and the scan     *)
(* that the generator writes out for several count and replace the matches *)
(* that INSPECT defines (emit_statement, cobol_inspect_tallying,           *)
(* cobol_inspect_replacing and cobol_inspect_converting), for any line and *)
(* any items, words and markers, if InspectsPlain.                         *)
THEOREM InspectsAsDefined ==
  ASSUME InspectsPlain
  PROVE  Spec => []InspectedAsDefined
<1>1. Init => InspectInv
  BY InitText DEF InspectInv, Init, InspectedAsDefined
<1>2. InspectInv /\ [Next]_vars => InspectInv'
  BY InspectStep, TextInvKept DEF InspectInv
<1>3. InspectInv => InspectedAsDefined
  BY DEF InspectInv
<1>4. QED
  BY <1>1, <1>2, <1>3, PTL DEF Spec
=============================================================================
