--------------------------- MODULE SequenceLemmas ---------------------------
(***************************************************************************)
(* Facts about the operators on sequences and on sets of numbers that the  *)
(* models of the runtime and of the generated code are built from.         *)
(***************************************************************************)
EXTENDS Integers, SequencesExt, SequenceTheorems, FiniteSetTheorems, WellFoundedInduction, TLAPS

(* Min of a nonempty set of naturals is its least element. *)
LEMMA MinIsLeast ==
  ASSUME NEW S \in SUBSET Nat, S # {}
  PROVE  Min(S) \in S /\ \A n \in S : Min(S) <= n
<1>1. \E m \in S : \A n \in S : ~ (<<n, m>> \in OpToRel(<, Nat))
  BY NatLessThanWellFounded, WFMin
<1>2. \A m, n \in Nat : <<n, m>> \in OpToRel(<, Nat) <=> n < m
  BY DEF OpToRel
<1>3. PICK m \in S : \A n \in S : ~ (<<n, m>> \in OpToRel(<, Nat))
  BY <1>1
<1>4. \A n \in S : ~(n < m)
  BY <1>2, <1>3
<1>5. \A n \in S : n \in Nat /\ m \in Nat
  OBVIOUS
<1>6. \A n \in S : m <= n
  BY <1>4, <1>5
<1>7. QED
  BY <1>6 DEF Min

(* Max of a nonempty bounded set of naturals is its greatest element. *)
LEMMA MaxIsGreatest ==
  ASSUME NEW S \in SUBSET Nat, S # {}, NEW b \in Nat, \A n \in S : n <= b
  PROVE  Max(S) \in S /\ \A n \in S : n <= Max(S)
<1> DEFINE T == {b - n : n \in S}
<1>1. T \in SUBSET Nat /\ T # {}
  <2>1. \A n \in S : b - n \in Nat
    OBVIOUS
  <2>2. QED
    BY <2>1
<1>2. PICK t \in T : \A u \in T : t <= u
  BY <1>1, MinIsLeast
<1>3. PICK m \in S : t = b - m
  OBVIOUS
<1>4. \A n \in S : m >= n
  <2>1. TAKE n \in S
  <2>2. t <= b - n
    BY <1>2
  <2>3. QED
    BY <2>2, <1>3
<1>5. QED
  BY <1>4 DEF Max

(* The smaller and the larger of two numbers. *)
LEMMA MinOfTwo ==
  ASSUME NEW a \in Nat, NEW b \in Nat
  PROVE  Min({a, b}) = IF a <= b THEN a ELSE b
<1>1. Min({a, b}) \in {a, b} /\ Min({a, b}) <= a /\ Min({a, b}) <= b
  BY MinIsLeast
<1>2. QED
  BY <1>1

LEMMA MaxOfTwo ==
  ASSUME NEW a \in Nat, NEW b \in Nat
  PROVE  Max({a, b}) = IF a <= b THEN b ELSE a
<1>1. Max({a, b}) \in {a, b} /\ a <= Max({a, b}) /\ b <= Max({a, b})
  <2>1. \A n \in {a, b} : n <= a + b
    OBVIOUS
  <2>2. QED
    BY <2>1, MaxIsGreatest
<1>2. QED
  BY <1>1

(* A sequence of two elements. *)
LEMMA TwoElements ==
  ASSUME NEW a, NEW b
  PROVE  <<a>> \o <<b>> = <<a, b>>
<1> DEFINE S == {a, b}
<1>1. /\ <<a>> \in Seq(S) /\ <<b>> \in Seq(S) /\ Len(<<a>>) = 1 /\ Len(<<b>>) = 1
      /\ <<a>>[1] = a /\ <<b>>[1] = b
  OBVIOUS
<1>2. /\ <<a>> \o <<b>> \in Seq(S) /\ Len(<<a>> \o <<b>>) = 2
      /\ (<<a>> \o <<b>>)[1] = a /\ (<<a>> \o <<b>>)[2] = b
  BY <1>1, ConcatProperties
<1>3. /\ <<a, b>> \in Seq(S) /\ Len(<<a, b>>) = 2
      /\ <<a, b>>[1] = a /\ <<a, b>>[2] = b
  OBVIOUS
<1>4. \A i \in 1..2 : i = 1 \/ i = 2
  OBVIOUS
<1>5. QED
  BY <1>2, <1>3, <1>4, SeqEqual

(* A function on 1..n is a sequence of length n. *)
LEMMA FunctionIsSequence ==
  ASSUME NEW S, NEW n \in Nat, NEW f \in [1..n -> S]
  PROVE  f \in Seq(S) /\ Len(f) = n
OBVIOUS

(* A prefix of a sequence. *)
LEMMA PrefixProperties ==
  ASSUME NEW S, NEW s \in Seq(S), NEW n \in 0..Len(s)
  PROVE  /\ SubSeq(s, 1, n) \in Seq(S) /\ Len(SubSeq(s, 1, n)) = n
         /\ \A i \in 1..n : SubSeq(s, 1, n)[i] = s[i]
OBVIOUS

(* The sequence without its last element. *)
LEMMA FrontProperties ==
  ASSUME NEW S, NEW s \in Seq(S), s # <<>>
  PROVE  /\ Front(s) \in Seq(S) /\ Len(Front(s)) = Len(s) - 1
         /\ \A i \in 1..(Len(s) - 1) : Front(s)[i] = s[i]
<1>1. Len(s) - 1 \in 0..Len(s)
  OBVIOUS
<1>2. QED
  BY <1>1, PrefixProperties DEF Front

(* The sequence with another last element. *)
LEMMA ReplaceLast ==
  ASSUME NEW S, NEW s \in Seq(S), s # <<>>, NEW x \in S
  PROVE  /\ Append(Front(s), x) \in Seq(S)
         /\ Len(Append(Front(s), x)) = Len(s)
         /\ \A i \in 1..Len(s) : Append(Front(s), x)[i] = IF i = Len(s) THEN x ELSE s[i]
BY FrontProperties

(* The elements of a sequence are its head and those of its tail. *)
LEMMA RangeOfTail ==
  ASSUME NEW S, NEW s \in Seq(S), s # <<>>
  PROVE  /\ Head(s) \in Range(s) /\ Head(s) = s[1]
         /\ Range(s) = {Head(s)} \cup Range(Tail(s))
<1>1. /\ Len(s) \in Nat \ {0} /\ DOMAIN s = 1..Len(s) /\ Head(s) = s[1]
      /\ Tail(s) \in Seq(S) /\ Len(Tail(s)) = Len(s) - 1
      /\ \A i \in 1..(Len(s) - 1) : Tail(s)[i] = s[i + 1]
  OBVIOUS
<1>2. DOMAIN Tail(s) = 1..(Len(s) - 1)
  BY <1>1
<1>3. ASSUME NEW x \in Range(s), x # Head(s)  PROVE x \in Range(Tail(s))
  <2>1. PICK i \in 1..Len(s) : x = s[i]
    BY <1>1 DEF Range
  <2>2. i # 1 /\ i - 1 \in 1..(Len(s) - 1)
    BY <2>1, <1>1, <1>3
  <2>3. x = Tail(s)[i - 1]
    BY <2>1, <2>2, <1>1
  <2>4. QED
    BY <2>2, <2>3, <1>2 DEF Range
<1>4. ASSUME NEW x \in Range(Tail(s))  PROVE x \in Range(s)
  <2>1. PICK i \in 1..(Len(s) - 1) : x = Tail(s)[i]
    BY <1>2 DEF Range
  <2>2. x = s[i + 1] /\ i + 1 \in 1..Len(s)
    BY <2>1, <1>1
  <2>3. QED
    BY <2>2, <1>1 DEF Range
<1>5. Head(s) \in Range(s)
  BY <1>1 DEF Range
<1>6. QED
  BY <1>1, <1>3, <1>4, <1>5

-----------------------------------------------------------------------------
(* Induction over the naturals, on the set of those that satisfy a         *)
(* property.                                                               *)
LEMMA SetInduction ==
  ASSUME NEW S \in SUBSET Nat, 0 \in S, \A n \in S : n + 1 \in S
  PROVE  S = Nat
<1> DEFINE T == Nat \ S
<1>1. SUFFICES ASSUME T # {} PROVE FALSE
  OBVIOUS
<1>2. T \in SUBSET Nat
  OBVIOUS
<1> HIDE DEF T
<1>3. PICK m \in T : \A n \in T : m <= n
  BY <1>1, <1>2, MinIsLeast
<1>4. m \in Nat /\ m \notin S /\ m # 0
  BY <1>3 DEF T
<1>5. m - 1 \in S
  <2>1. m - 1 \in Nat /\ ~(m <= m - 1)
    BY <1>4
  <2>2. m - 1 \notin T
    BY <1>3, <2>1
  <2>3. QED
    BY <2>1, <2>2 DEF T
<1>6. (m - 1) + 1 = m
  BY <1>4
<1>7. QED
  BY <1>4, <1>5, <1>6

-----------------------------------------------------------------------------
(* FlattenSeq *)

(* f[i] is the concatenation of the first i sequences of s.                *)
IsFlatten(f, s) ==
  f = [i \in 1..Len(s) |-> IF i = 1 THEN s[i] ELSE f[i - 1] \o s[i]]

FlattenUpto(f, s, n) ==
  \A i \in 1..n : f[i] = IF i = 1 THEN s[i] ELSE f[i - 1] \o s[i]

LEMMA FlattenValues ==
  ASSUME NEW f, NEW s, IsFlatten(f, s)
  PROVE  \A i \in 1..Len(s) : f[i] = IF i = 1 THEN s[i] ELSE f[i - 1] \o s[i]
<1> DEFINE e == [i \in 1..Len(s) |-> IF i = 1 THEN s[i] ELSE f[i - 1] \o s[i]]
<1>1. f = e
  BY DEF IsFlatten
<1>2. \A i \in 1..Len(s) : e[i] = IF i = 1 THEN s[i] ELSE f[i - 1] \o s[i]
  OBVIOUS
<1> HIDE DEF e
<1>3. QED
  BY <1>1, <1>2

LEMMA FlattenSteps ==
  ASSUME NEW f, NEW s, IsFlatten(f, s), Len(s) \in Nat
  PROVE  /\ 1 \in 1..Len(s) => f[1] = s[1]
         /\ \A n \in Nat : n \in 1..Len(s) /\ n + 1 \in 1..Len(s) => f[n + 1] = f[n] \o s[n + 1]
<1>1. \A i \in 1..Len(s) : f[i] = IF i = 1 THEN s[i] ELSE f[i - 1] \o s[i]
  BY FlattenValues
<1>2. ASSUME NEW n \in Nat, n \in 1..Len(s), n + 1 \in 1..Len(s) PROVE f[n + 1] = f[n] \o s[n + 1]
  <2>1. n + 1 # 1 /\ (n + 1) - 1 = n
    BY <1>2
  <2>2. QED
    BY <1>1, <1>2, <2>1
<1>3. QED
  BY <1>1, <1>2

LEMMA FlattenExists ==
  ASSUME NEW S, NEW s \in Seq(Seq(S))
  PROVE  \E f : IsFlatten(f, s)
<1> DEFINE Has(n) == \E f \in [1..n -> Seq(S)] : FlattenUpto(f, s, n)
           T == {n \in Nat : n <= Len(s) => Has(n)}
<1>1. Len(s) \in Nat /\ \A i \in 1..Len(s) : s[i] \in Seq(S)
  OBVIOUS
<1>2. Has(0)
  <2>1. [i \in 1..0 |-> <<>>] \in [1..0 -> Seq(S)]
    OBVIOUS
  <2>2. \A f : FlattenUpto(f, s, 0)
    BY DEF FlattenUpto
  <2>3. QED
    BY <2>1, <2>2
<1>3. ASSUME NEW n \in Nat, Has(n), n + 1 <= Len(s) PROVE Has(n + 1)
  <2>1. PICK f \in [1..n -> Seq(S)] : FlattenUpto(f, s, n)
    BY <1>3
  <2> DEFINE x == IF n = 0 THEN s[n + 1] ELSE f[n] \o s[n + 1]
             g == [i \in 1..(n + 1) |-> IF i <= n THEN f[i] ELSE x]
  <2>2. x \in Seq(S)
    <3>1. s[n + 1] \in Seq(S)
      BY <1>1, <1>3
    <3>2. n # 0 => f[n] \in Seq(S)
      BY <2>1
    <3>3. QED
      BY <3>1, <3>2, ConcatProperties
  <2> HIDE DEF x
  <2>3. g \in [1..(n + 1) -> Seq(S)]
    BY <2>1, <2>2
  <2>4. \A i \in 1..n : g[i] = f[i]
    OBVIOUS
  <2>5. g[n + 1] = x
    OBVIOUS
  <2> HIDE DEF g
  <2>6. ASSUME NEW i \in 1..(n + 1) PROVE g[i] = IF i = 1 THEN s[i] ELSE g[i - 1] \o s[i]
    <3>1. CASE i \in 1..n
      <4>1. f[i] = IF i = 1 THEN s[i] ELSE f[i - 1] \o s[i]
        BY <2>1, <3>1 DEF FlattenUpto
      <4>2. i # 1 => i - 1 \in 1..n
        BY <3>1
      <4>3. QED
        BY <2>4, <3>1, <4>1, <4>2
    <3>2. CASE i = n + 1
      <4>1. (i # 1 => i - 1 = n /\ n \in 1..n) /\ (i = 1 <=> n = 0)
        BY <3>2
      <4>2. QED
        BY <2>4, <2>5, <3>2, <4>1 DEF x
    <3>3. QED
      BY <3>1, <3>2
  <2>7. QED
    BY <2>3, <2>6 DEF FlattenUpto
<1> HIDE DEF Has
<1>4. 0 \in T /\ \A n \in T : n + 1 \in T
  BY <1>1, <1>2, <1>3
<1>5. T = Nat
  <2>1. T \in SUBSET Nat
    OBVIOUS
  <2> HIDE DEF T
  <2>2. QED
    BY <1>4, <2>1, SetInduction
<1>6. Has(Len(s))
  BY <1>1, <1>5
<1>7. PICK f \in [1..Len(s) -> Seq(S)] : FlattenUpto(f, s, Len(s))
  BY <1>6 DEF Has
<1>8. f = [i \in 1..Len(s) |-> IF i = 1 THEN s[i] ELSE f[i - 1] \o s[i]]
  BY <1>7 DEF FlattenUpto
<1>9. QED
  BY <1>8 DEF IsFlatten

LEMMA FlattenIs ==
  ASSUME NEW S, NEW s \in Seq(Seq(S)), s # <<>>
  PROVE  \E f : IsFlatten(f, s) /\ FlattenSeq(s) = f[Len(s)]
<1>1. FlattenSeq(s) = (CHOOSE f : IsFlatten(f, s))[Len(s)]
  BY DEF FlattenSeq, IsFlatten
<1>2. QED
  BY <1>1, FlattenExists

LEMMA FlattenTyped ==
  ASSUME NEW S, NEW s \in Seq(Seq(S)), NEW f, IsFlatten(f, s)
  PROVE  \A i \in 1..Len(s) : f[i] \in Seq(S)
<1> DEFINE T == {n \in Nat : n + 1 <= Len(s) => f[n + 1] \in Seq(S)}
<1>1. Len(s) \in Nat /\ \A i \in 1..Len(s) : s[i] \in Seq(S)
  OBVIOUS
<1>2. \A i \in 1..Len(s) : f[i] = IF i = 1 THEN s[i] ELSE f[i - 1] \o s[i]
  BY FlattenValues
<1>3. 0 \in T
  BY <1>1, <1>2
<1>4. ASSUME NEW n \in T PROVE n + 1 \in T
  <2>1. SUFFICES ASSUME n + 2 <= Len(s) PROVE f[n + 2] \in Seq(S)
    OBVIOUS
  <2>2. n + 2 \in 1..Len(s) /\ n + 2 # 1 /\ (n + 2) - 1 = n + 1 /\ n + 1 <= Len(s)
    BY <1>1, <2>1
  <2>3. f[n + 2] = f[n + 1] \o s[n + 2]
    BY <1>2, <2>2
  <2>4. f[n + 1] \in Seq(S) /\ s[n + 2] \in Seq(S)
    BY <1>1, <2>2
  <2>5. QED
    BY <2>3, <2>4, ConcatProperties
<1> HIDE DEF T
<1>5. T = Nat
  <2>1. T \in SUBSET Nat
    BY DEF T
  <2>2. QED
    BY <1>3, <1>4, <2>1, SetInduction
<1>6. TAKE i \in 1..Len(s)
<1>7. i - 1 \in T /\ (i - 1) + 1 = i /\ i <= Len(s)
  BY <1>5
<1>8. QED
  BY <1>7 DEF T

(* The concatenation of the first sequences depends on these only. *)
LEMMA FlattenAgrees ==
  ASSUME NEW s, NEW t, NEW f, NEW g, IsFlatten(f, s), IsFlatten(g, t),
         Len(s) \in Nat, Len(t) \in Nat, Len(s) <= Len(t), \A i \in 1..Len(s) : t[i] = s[i]
  PROVE  \A i \in 1..Len(s) : g[i] = f[i]
<1> DEFINE T == {n \in Nat : n + 1 <= Len(s) => g[n + 1] = f[n + 1]}
<1>1. /\ \A i \in 1..Len(s) : f[i] = IF i = 1 THEN s[i] ELSE f[i - 1] \o s[i]
      /\ \A i \in 1..Len(s) : g[i] = IF i = 1 THEN s[i] ELSE g[i - 1] \o s[i]
  <2>1. /\ \A i \in 1..Len(s) : f[i] = IF i = 1 THEN s[i] ELSE f[i - 1] \o s[i]
        /\ \A i \in 1..Len(t) : g[i] = IF i = 1 THEN t[i] ELSE g[i - 1] \o t[i]
    BY FlattenValues
  <2>2. QED
    BY <2>1
<1>2. 0 \in T
  BY <1>1
<1>3. ASSUME NEW n \in T PROVE n + 1 \in T
  <2>1. SUFFICES ASSUME n + 2 <= Len(s) PROVE g[n + 2] = f[n + 2]
    OBVIOUS
  <2>2. n + 2 \in 1..Len(s) /\ n + 2 # 1 /\ (n + 2) - 1 = n + 1 /\ n + 1 <= Len(s)
    BY <2>1
  <2>3. f[n + 2] = f[n + 1] \o s[n + 2] /\ g[n + 2] = g[n + 1] \o s[n + 2]
    BY <1>1, <2>2
  <2>4. g[n + 1] = f[n + 1]
    BY <2>2
  <2>5. QED
    BY <2>3, <2>4
<1> HIDE DEF T
<1>4. T = Nat
  <2>1. T \in SUBSET Nat
    BY DEF T
  <2>2. QED
    BY <1>2, <1>3, <2>1, SetInduction
<1>5. TAKE i \in 1..Len(s)
<1>6. i - 1 \in T /\ (i - 1) + 1 = i /\ i <= Len(s)
  BY <1>4
<1>7. QED
  BY <1>6 DEF T

AreSequences(s, S) == s \in Seq(Seq(S))

(* t is s without its first sequence. *)
IsTail(t, s) == Len(s) = Len(t) + 1 /\ \A i \in 1..Len(t) : t[i] = s[i + 1]

Moved(f, g, s, n) == f[n + 1] = s[1] \o g[n]

Joined(x, a, b) == x = a \o b

IsSequence(a, S) == a \in Seq(S)

(* Two ways to put three sequences together. *)
LEMMA JoinThree ==
  ASSUME NEW S, NEW a, NEW b, NEW c, IsSequence(a, S), IsSequence(b, S), IsSequence(c, S),
         NEW x, NEW y, NEW z, Joined(x, a, b), Joined(y, x, c), Joined(z, b, c)
  PROVE  Joined(y, a, z)
<1>1. (a \o b) \o c = a \o (b \o c)
  BY DEF IsSequence
<1>2. QED
  BY <1>1 DEF Joined

(* The first sequence can be taken out of what each concatenation holds. *)
LEMMA FlattenTailStep ==
  ASSUME NEW S, NEW s, NEW t, AreSequences(s, S), AreSequences(t, S), NEW f, NEW g,
         IsFlatten(f, s), IsFlatten(g, t), IsTail(t, s), NEW n \in Nat, n \in 1..Len(t)
  PROVE  /\ n = 1 => Moved(f, g, s, n)
         /\ n + 1 \in 1..Len(t) /\ Moved(f, g, s, n) => Moved(f, g, s, n + 1)
<1>1. /\ Len(t) \in Nat /\ Len(s) \in Nat /\ \A i \in 1..Len(s) : s[i] \in Seq(S)
      /\ \A i \in 1..Len(t) : t[i] \in Seq(S) /\ g[i] \in Seq(S)
  BY FlattenTyped DEF AreSequences
<1>2. /\ 1 \in 1..Len(s) /\ n + 1 \in 1..Len(s) /\ n \in 1..Len(s)
      /\ n + 1 \in 1..Len(t) => n + 2 \in 1..Len(s)
      /\ n + 1 \in Nat /\ (n + 1) + 1 = n + 2
  BY <1>1 DEF IsTail
<1>3. /\ f[1] = s[1] /\ f[n + 1] = f[n] \o s[n + 1]
      /\ n + 1 \in 1..Len(t) => f[n + 2] = f[n + 1] \o s[n + 2]
  <2>1. /\ f[1] = s[1] /\ f[n + 1] = f[n] \o s[n + 1]
    BY <1>1, <1>2, FlattenSteps
  <2>2. ASSUME n + 1 \in 1..Len(t) PROVE f[n + 2] = f[n + 1] \o s[n + 2]
    <3>1. n + 1 \in Nat /\ n + 1 \in 1..Len(s) /\ (n + 1) + 1 \in 1..Len(s)
      BY <1>2, <2>2
    <3>2. f[(n + 1) + 1] = f[n + 1] \o s[(n + 1) + 1]
      BY <1>1, <3>1, FlattenSteps
    <3>3. QED
      BY ONLY <1>2, <3>2
  <2>3. QED
    BY ONLY <2>1, <2>2, Zenon
<1>4. /\ n = 1 => g[n] = t[n]
      /\ n + 1 \in 1..Len(t) => g[n + 1] = g[n] \o t[n + 1]
  <2>1. /\ 1 \in 1..Len(t) => g[1] = t[1]
        /\ \A i \in Nat : i \in 1..Len(t) /\ i + 1 \in 1..Len(t) => g[i + 1] = g[i] \o t[i + 1]
    BY <1>1, FlattenSteps
  <2>2. QED
    BY ONLY <2>1, n \in Nat, n \in 1..Len(t)
<1>5. /\ t[n] = s[n + 1]
      /\ n + 1 \in 1..Len(t) => t[n + 1] = s[n + 2]
  BY <1>1, <1>2 DEF IsTail
<1>6. n = 1 => Moved(f, g, s, n)
  BY <1>3, <1>4, <1>5 DEF Moved
<1>7. ASSUME n + 1 \in 1..Len(t), f[n + 1] = s[1] \o g[n] PROVE f[n + 2] = s[1] \o g[n + 1]
  <2>1. s[1] \in Seq(S) /\ g[n] \in Seq(S) /\ t[n + 1] \in Seq(S)
    BY <1>1, <1>2, <1>7
  <2>2. f[n + 2] = f[n + 1] \o t[n + 1] /\ g[n + 1] = g[n] \o t[n + 1]
    BY <1>3, <1>4, <1>5, <1>7
  <2>3. IsSequence(s[1], S) /\ IsSequence(g[n], S) /\ IsSequence(t[n + 1], S)
    BY <2>1 DEF IsSequence
  <2>4. /\ Joined(f[n + 1], s[1], g[n]) /\ Joined(f[n + 2], f[n + 1], t[n + 1])
        /\ Joined(g[n + 1], g[n], t[n + 1])
    BY <1>7, <2>2 DEF Joined
  <2>5. Joined(f[n + 2], s[1], g[n + 1])
    BY <2>3, <2>4, JoinThree
  <2>6. QED
    BY <2>5 DEF Joined
<1>8. QED
  BY <1>2, <1>6, <1>7 DEF Moved

LEMMA FlattenTail ==
  ASSUME NEW S, NEW s, NEW t, AreSequences(s, S), AreSequences(t, S), NEW f, NEW g,
         IsFlatten(f, s), IsFlatten(g, t), IsTail(t, s)
  PROVE  \A i \in 1..Len(t) : Moved(f, g, s, i)
<1> DEFINE T == {n \in Nat : n \in 1..Len(t) => Moved(f, g, s, n)}
<1>1. Len(t) \in Nat
  BY DEF AreSequences
<1>2. ASSUME NEW n \in Nat, n \in 1..Len(t)
      PROVE  (n = 1 => Moved(f, g, s, n)) /\ (n + 1 \in 1..Len(t) /\ Moved(f, g, s, n) => Moved(f, g, s, n + 1))
  BY <1>2, FlattenTailStep
<1>3. 0 \in T
  OBVIOUS
<1>4. ASSUME NEW n \in Nat, n \in T PROVE n + 1 \in T
  <2>1. SUFFICES ASSUME n + 1 \in 1..Len(t) PROVE Moved(f, g, s, n + 1)
    OBVIOUS
  <2>2. CASE n = 0
    BY <1>2, <2>1, <2>2
  <2>3. CASE n # 0
    <3>1. n \in 1..Len(t)
      BY <1>1, <2>1, <2>3
    <3>2. Moved(f, g, s, n)
      BY <1>4, <3>1
    <3>3. QED
      BY <1>2, <2>1, <3>1, <3>2
  <2>4. QED
    BY <2>2, <2>3
<1>5. T = Nat
  <2>1. T \in SUBSET Nat
    OBVIOUS
  <2> HIDE DEF T
  <2>2. QED
    BY <1>3, <1>4, <2>1, SetInduction
<1>6. ASSUME NEW i \in 1..Len(t) PROVE Moved(f, g, s, i)
  <2>1. i \in Nat
    BY <1>1
  <2>2. i \in T
    BY <1>5, <2>1
  <2>3. QED
    BY <2>2
<1>7. QED
  BY <1>6

LEMMA FlattenEmpty ==
  FlattenSeq(<<>>) = <<>>
BY DEF FlattenSeq

(* FlattenSeq of sequences over S is a sequence over S. *)
LEMMA FlattenType ==
  ASSUME NEW S, NEW s \in Seq(Seq(S))
  PROVE  FlattenSeq(s) \in Seq(S)
<1>1. CASE s = <<>>
  <2>1. FlattenSeq(s) = <<>>
    BY <1>1, FlattenEmpty
  <2>2. <<>> \in Seq(S)
    OBVIOUS
  <2>3. QED
    BY <2>1, <2>2
<1>2. CASE s # <<>>
  <2>1. PICK f : IsFlatten(f, s) /\ FlattenSeq(s) = f[Len(s)]
    BY <1>2, FlattenIs
  <2>2. Len(s) \in 1..Len(s)
    BY <1>2
  <2>3. QED
    BY <2>1, <2>2, FlattenTyped
<1>3. QED
  BY <1>1, <1>2

(* The elements of the first n sequences of s in their concatenation: o[i] *)
(* elements come before those of s[i].                                     *)
PlacedIn(o, s, n, all) ==
  /\ \A i \in 1..n : o[i] \in Nat /\ o[i] + Len(s[i]) <= Len(all)
  /\ \A i \in 1..n : \A k \in 1..Len(s[i]) : all[o[i] + k] = s[i][k]
  /\ \A q \in 1..Len(all) : \E i \in 1..n : \E k \in 1..Len(s[i]) : q = o[i] + k
  /\ \A i, j \in 1..n : i < j => o[i] + Len(s[i]) <= o[j]

LEMMA PlacedOneMore ==
  ASSUME NEW S, NEW s \in Seq(Seq(S)), NEW n \in Nat, n + 1 <= Len(s), NEW o,
         NEW a \in Seq(S), PlacedIn(o, s, n, a), o[n + 1] = Len(a)
  PROVE  PlacedIn(o, s, n + 1, a \o s[n + 1])
<1> DEFINE b == s[n + 1]
           c == a \o b
<1>1. n + 1 \in 1..Len(s) /\ \A i \in 1..(n + 1) : s[i] \in Seq(S) /\ Len(s[i]) \in Nat
  OBVIOUS
<1>2. /\ b \in Seq(S) /\ Len(a) \in Nat /\ Len(b) \in Nat /\ Len(c) = Len(a) + Len(b)
      /\ \A i \in 1..Len(a) : c[i] = a[i]
      /\ \A i \in 1..Len(b) : c[Len(a) + i] = b[i]
  <2>1. b \in Seq(S)
    BY <1>1
  <2> HIDE DEF b
  <2>2. QED
    BY <2>1
<1>3. \A i \in 1..(n + 1) : i \in 1..n \/ i = n + 1
  OBVIOUS
<1> HIDE DEF c
<1>4. /\ \A i \in 1..n : o[i] \in Nat /\ o[i] + Len(s[i]) <= Len(a)
      /\ \A i \in 1..n : \A k \in 1..Len(s[i]) : a[o[i] + k] = s[i][k]
      /\ \A q \in 1..Len(a) : \E i \in 1..n : \E k \in 1..Len(s[i]) : q = o[i] + k
      /\ \A i, j \in 1..n : i < j => o[i] + Len(s[i]) <= o[j]
  BY DEF PlacedIn
<1>5. \A i \in 1..(n + 1) : o[i] \in Nat /\ o[i] + Len(s[i]) <= Len(c)
  <2>1. ASSUME NEW i \in 1..n PROVE o[i] \in Nat /\ o[i] + Len(s[i]) <= Len(c)
    <3>1. Len(s[i]) \in Nat
      BY <1>1
    <3>2. /\ Len(a) \in Nat /\ Len(c) \in Nat /\ Len(a) <= Len(c)
          /\ o[i] \in Nat /\ o[i] + Len(s[i]) <= Len(a)
      BY <1>2, <1>4
    <3>3. \A x, y, z \in Nat : x <= y /\ y <= z => x <= z
      OBVIOUS
    <3>4. o[i] + Len(s[i]) \in Nat
      BY ONLY <3>1, <3>2
    <3>5. QED
      BY ONLY <3>2, <3>3, <3>4
  <2>2. o[n + 1] \in Nat /\ o[n + 1] + Len(s[n + 1]) <= Len(c)
    BY <1>2
  <2>3. QED
    BY <1>3, <2>1, <2>2
<1>6. ASSUME NEW i \in 1..(n + 1), NEW k \in 1..Len(s[i]) PROVE c[o[i] + k] = s[i][k]
  <2>1. CASE i \in 1..n
    <3>1. o[i] + k \in 1..Len(a) /\ a[o[i] + k] = s[i][k]
      <4>1. o[i] \in Nat /\ Len(s[i]) \in Nat /\ o[i] + Len(s[i]) <= Len(a)
        BY <1>1, <1>4, <2>1
      <4>2. o[i] + k \in 1..Len(a)
        <5>1. \A x, y, z \in Nat : x + y <= z => \A l \in 1..y : x + l \in 1..z
          OBVIOUS
        <5>2. Len(a) \in Nat
          BY <1>2
        <5>3. QED
          BY ONLY <4>1, <5>1, <5>2, k \in 1..Len(s[i])
      <4>3. QED
        BY <1>4, <2>1, <4>2
    <3>2. QED
      BY <1>2, <3>1
  <2>2. CASE i = n + 1
    BY <1>2, <2>2
  <2>3. QED
    BY <1>3, <2>1, <2>2
<1>7. ASSUME NEW q \in 1..Len(c)
      PROVE  \E i \in 1..(n + 1) : \E k \in 1..Len(s[i]) : q = o[i] + k
  <2>1. CASE q <= Len(a)
    <3>1. q \in 1..Len(a)
      BY <1>2, <2>1
    <3>2. PICK i \in 1..n : \E k \in 1..Len(s[i]) : q = o[i] + k
      BY <1>4, <3>1
    <3>3. QED
      BY <3>2
  <2>2. CASE ~(q <= Len(a))
    <3>1. q - Len(a) \in 1..Len(b) /\ q = o[n + 1] + (q - Len(a))
      BY <1>2, <2>2
    <3>2. n + 1 \in 1..(n + 1)
      OBVIOUS
    <3>3. QED
      BY <3>1, <3>2
  <2>3. QED
    BY <2>1, <2>2
<1>8. ASSUME NEW i \in 1..(n + 1), NEW j \in 1..(n + 1), i < j PROVE o[i] + Len(s[i]) <= o[j]
  <2>1. i \in 1..n
    BY <1>8
  <2>2. CASE j \in 1..n
    BY <1>4, <1>8, <2>1, <2>2
  <2>3. CASE j = n + 1
    BY <1>4, <2>1, <2>3
  <2>4. QED
    BY <1>3, <2>2, <2>3
<1>9. QED
  BY <1>5, <1>6, <1>7, <1>8 DEF PlacedIn, c

(* FlattenSeq lists every element of every sequence, those of the first    *)
(* sequence first.                                                         *)
LEMMA FlattenPlaces ==
  ASSUME NEW S, NEW s \in Seq(Seq(S))
  PROVE  \E o : PlacedIn(o, s, Len(s), FlattenSeq(s))
<1>1. CASE s = <<>>
  <2>1. FlattenSeq(s) = <<>> /\ Len(<<>>) = 0
    BY <1>1, FlattenEmpty
  <2>2. PlacedIn(<<>>, s, Len(s), FlattenSeq(s))
    BY <1>1, <2>1 DEF PlacedIn
  <2>3. QED
    BY <2>2
<1>2. CASE s # <<>>
  <2>1. PICK f : IsFlatten(f, s) /\ FlattenSeq(s) = f[Len(s)]
    BY <1>2, FlattenIs
  <2> DEFINE o == [i \in 1..Len(s) |-> Len(f[i]) - Len(s[i])]
             Good(n) == PlacedIn(o, s, n, f[n])
             T == {n \in Nat : n + 1 <= Len(s) => Good(n + 1)}
  <2>2. Len(s) \in Nat /\ Len(s) # 0 /\ \A i \in 1..Len(s) : s[i] \in Seq(S) /\ f[i] \in Seq(S)
    <3>1. \A i \in 1..Len(s) : f[i] \in Seq(S)
      BY <2>1, FlattenTyped
    <3>2. QED
      BY <1>2, <3>1
  <2>3. Good(1)
    <3>1. f[1] = s[1] /\ 1 \in 1..Len(s) /\ Len(s[1]) \in Nat
      <4>1. 1 \in 1..Len(s)
        BY <2>2
      <4>2. f[1] = s[1]
        BY <2>1, <2>2, <4>1, FlattenSteps
      <4>3. s[1] \in Seq(S)
        BY <2>2, <4>1
      <4>4. QED
        BY <4>1, <4>2, <4>3
    <3>2. o[1] = 0
      BY <3>1
    <3> HIDE DEF o
    <3>3. \A i \in 1..1 : i = 1
      OBVIOUS
    <3>4. \A q \in 1..Len(s[1]) : q = 0 + q
      OBVIOUS
    <3>5. QED
      BY <3>1, <3>2, <3>3, <3>4 DEF PlacedIn
  <2>4. ASSUME NEW n \in Nat, n + 1 <= Len(s), n # 0, Good(n) PROVE Good(n + 1)
    <3>1. n \in 1..Len(s) /\ n + 1 \in 1..Len(s)
      BY <2>2, <2>4
    <3>2. f[n + 1] = f[n] \o s[n + 1]
      BY <2>1, <2>2, <3>1, FlattenSteps
    <3>3. /\ f[n] \in Seq(S) /\ s[n + 1] \in Seq(S)
          /\ Len(f[n]) \in Nat /\ Len(s[n + 1]) \in Nat
      BY <2>2, <3>1
    <3>4. Len(f[n + 1]) = Len(f[n]) + Len(s[n + 1])
      BY <3>2, <3>3
    <3>5. o[n + 1] = Len(f[n])
      <4>1. o[n + 1] = Len(f[n + 1]) - Len(s[n + 1])
        BY <3>1
      <4> HIDE DEF o
      <4>2. QED
        BY <3>3, <3>4, <4>1
    <3> HIDE DEF o
    <3>6. PlacedIn(o, s, n, f[n])
      BY <2>4
    <3>7. PlacedIn(o, s, n + 1, f[n] \o s[n + 1])
      BY <2>4, <3>3, <3>5, <3>6, PlacedOneMore
    <3>8. QED
      BY <3>2, <3>7
  <2> HIDE DEF Good
  <2>5. 0 \in T
    BY <2>3
  <2>6. ASSUME NEW n \in T PROVE n + 1 \in T
    <3>1. SUFFICES ASSUME (n + 1) + 1 <= Len(s) PROVE Good((n + 1) + 1)
      OBVIOUS
    <3>2. n + 1 \in Nat /\ n + 1 # 0 /\ n + 1 <= Len(s)
      BY <2>2, <3>1
    <3>3. Good(n + 1)
      BY <3>2
    <3>4. QED
      BY <2>4, <3>1, <3>2, <3>3
  <2>7. T = Nat
    <3>1. T \in SUBSET Nat
      OBVIOUS
    <3> HIDE DEF T
    <3>2. QED
      BY <2>5, <2>6, <3>1, SetInduction
  <2>8. Good(Len(s))
    <3>1. Len(s) - 1 \in Nat /\ (Len(s) - 1) + 1 = Len(s)
      BY <2>2
    <3>2. Len(s) - 1 \in T
      BY <2>7, <3>1
    <3>3. QED
      BY <3>1, <3>2
  <2>9. QED
    BY <2>1, <2>8 DEF Good
<1>3. QED
  BY <1>1, <1>2

(* FlattenSeq of sequences t that continue s by one. *)
LEMMA FlattenLonger ==
  ASSUME NEW S, NEW s, NEW t, AreSequences(s, S), AreSequences(t, S),
         Len(t) = Len(s) + 1, \A i \in 1..Len(s) : t[i] = s[i]
  PROVE  FlattenSeq(t) = FlattenSeq(s) \o t[Len(t)]
<1>1. Len(s) \in Nat /\ Len(t) \in Nat /\ t # <<>> /\ Len(t) \in 1..Len(t) /\ t[Len(t)] \in Seq(S)
  BY DEF AreSequences
<1>2. PICK g : IsFlatten(g, t) /\ FlattenSeq(t) = g[Len(t)]
  BY <1>1, FlattenIs DEF AreSequences
<1>3. CASE s = <<>>
  <2>1. Len(t) = 1
    BY <1>3
  <2>2. g[1] = t[1]
    BY <1>1, <1>2, <2>1, FlattenSteps
  <2>3. <<>> \o t[Len(t)] = t[Len(t)]
    BY <1>1, ConcatEmptySeq
  <2>4. QED
    BY <1>2, <1>3, <2>1, <2>2, <2>3, FlattenEmpty
<1>4. CASE s # <<>>
  <2>1. PICK f : IsFlatten(f, s) /\ FlattenSeq(s) = f[Len(s)]
    BY <1>4, FlattenIs DEF AreSequences
  <2>2. Len(s) \in 1..Len(s) /\ Len(s) \in 1..Len(t)
    BY <1>1, <1>4 DEF AreSequences
  <2>3. g[Len(s)] = f[Len(s)]
    BY <1>1, <1>2, <2>1, <2>2, FlattenAgrees
  <2>4. g[Len(s) + 1] = g[Len(s)] \o t[Len(s) + 1]
    <3>1. Len(s) + 1 \in 1..Len(t)
      BY <1>1
    <3>2. QED
      BY ONLY <1>1, <1>2, <2>2, <3>1, FlattenSteps
  <2>5. QED
    BY <1>2, <2>1, <2>3, <2>4
<1>5. QED
  BY <1>3, <1>4

(* FlattenSeq takes the first sequence and then the others. *)
LEMMA FlattenFirst ==
  ASSUME NEW S, NEW s, NEW t, AreSequences(s, S), AreSequences(t, S), IsTail(t, s)
  PROVE  FlattenSeq(s) = s[1] \o FlattenSeq(t)
<1>1. Len(s) \in Nat /\ Len(t) \in Nat /\ s # <<>> /\ 1 \in 1..Len(s) /\ s[1] \in Seq(S)
  BY DEF AreSequences, IsTail
<1>2. PICK f : IsFlatten(f, s) /\ FlattenSeq(s) = f[Len(s)]
  BY <1>1, FlattenIs DEF AreSequences
<1>3. CASE t = <<>>
  <2>1. Len(s) = 1
    BY <1>3 DEF IsTail
  <2>2. f[1] = s[1]
    BY <1>1, <1>2, <2>1, FlattenSteps
  <2>3. s[1] \o <<>> = s[1]
    BY <1>1, ConcatEmptySeq
  <2>4. QED
    BY <1>2, <1>3, <2>1, <2>2, <2>3, FlattenEmpty
<1>4. CASE t # <<>>
  <2>1. PICK g : IsFlatten(g, t) /\ FlattenSeq(t) = g[Len(t)]
    BY <1>4, FlattenIs DEF AreSequences
  <2>2. Len(t) \in 1..Len(t) /\ Len(s) = Len(t) + 1
    BY <1>1, <1>4 DEF AreSequences, IsTail
  <2>3. Moved(f, g, s, Len(t))
    BY <1>2, <2>1, <2>2, FlattenTail
  <2>4. QED
    BY <1>2, <2>1, <2>2, <2>3 DEF Moved
<1>5. QED
  BY <1>3, <1>4

-----------------------------------------------------------------------------
(* Concatenation *)

(* The elements of a concatenation are those of its two parts. *)
LEMMA RangeOfConcat ==
  ASSUME NEW S, NEW a \in Seq(S), NEW b \in Seq(S)
  PROVE  Range(a \o b) = Range(a) \cup Range(b)
<1> DEFINE c == a \o b
<1>1. /\ c \in Seq(S) /\ Len(c) = Len(a) + Len(b) /\ Len(a) \in Nat /\ Len(b) \in Nat
      /\ \A i \in 1..Len(c) : c[i] = IF i <= Len(a) THEN a[i] ELSE b[i - Len(a)]
  BY ConcatProperties
<1>2. DOMAIN a = 1..Len(a) /\ DOMAIN b = 1..Len(b) /\ DOMAIN c = 1..Len(c)
  BY <1>1
<1> HIDE DEF c
<1>3. ASSUME NEW x \in Range(c) PROVE x \in Range(a) \cup Range(b)
  <2>1. PICK i \in 1..Len(c) : x = c[i]
    BY <1>2 DEF Range
  <2>2. CASE i <= Len(a)
    <3>1. i \in 1..Len(a) /\ x = a[i]
      BY <1>1, <2>1, <2>2
    <3>2. QED
      BY <1>2, <3>1 DEF Range
  <2>3. CASE ~(i <= Len(a))
    <3>1. i - Len(a) \in 1..Len(b) /\ x = b[i - Len(a)]
      BY <1>1, <2>1, <2>3
    <3>2. QED
      BY <1>2, <3>1 DEF Range
  <2>4. QED
    BY <2>2, <2>3
<1>4. ASSUME NEW x \in Range(a) PROVE x \in Range(c)
  <2>1. PICK i \in 1..Len(a) : x = a[i]
    BY <1>2 DEF Range
  <2>2. i \in 1..Len(c) /\ x = c[i]
    BY <1>1, <2>1
  <2>3. QED
    BY <1>2, <2>2 DEF Range
<1>5. ASSUME NEW x \in Range(b) PROVE x \in Range(c)
  <2>1. PICK i \in 1..Len(b) : x = b[i]
    BY <1>2 DEF Range
  <2>2. /\ i + Len(a) \in 1..Len(c) /\ ~(i + Len(a) <= Len(a)) /\ (i + Len(a)) - Len(a) = i
    BY <1>1, <2>1
  <2>3. x = c[i + Len(a)]
    BY <1>1, <2>1, <2>2
  <2>4. QED
    BY <1>2, <2>2, <2>3 DEF Range
<1>6. QED
  BY <1>3, <1>4, <1>5 DEF c

(* A concatenation repeats nothing if neither part does and they share     *)
(* nothing, and only then.                                                 *)
LEMMA InjectiveConcat ==
  ASSUME NEW S, NEW a \in Seq(S), NEW b \in Seq(S)
  PROVE  IsInjective(a \o b)
           <=> IsInjective(a) /\ IsInjective(b) /\ Range(a) \cap Range(b) = {}
<1> DEFINE c == a \o b
<1>1. /\ c \in Seq(S) /\ Len(c) = Len(a) + Len(b) /\ Len(a) \in Nat /\ Len(b) \in Nat
      /\ \A i \in 1..Len(c) : c[i] = IF i <= Len(a) THEN a[i] ELSE b[i - Len(a)]
  BY ConcatProperties
<1>2. DOMAIN a = 1..Len(a) /\ DOMAIN b = 1..Len(b) /\ DOMAIN c = 1..Len(c)
  BY <1>1
<1> HIDE DEF c
<1>3. \A i \in 1..Len(a) : i \in 1..Len(c) /\ c[i] = a[i]
  BY <1>1
<1>4. \A i \in 1..Len(b) : i + Len(a) \in 1..Len(c) /\ c[i + Len(a)] = b[i]
  <2>1. TAKE i \in 1..Len(b)
  <2>2. /\ i + Len(a) \in 1..Len(c) /\ ~(i + Len(a) <= Len(a)) /\ (i + Len(a)) - Len(a) = i
    BY <1>1
  <2>3. QED
    BY <1>1, <2>2
<1>5. ASSUME IsInjective(c) PROVE IsInjective(a) /\ IsInjective(b) /\ Range(a) \cap Range(b) = {}
  <2>1. \A i, j \in 1..Len(c) : c[i] = c[j] => i = j
    BY <1>2, <1>5 DEF IsInjective
  <2>2. ASSUME NEW i \in 1..Len(a), NEW j \in 1..Len(a), a[i] = a[j] PROVE i = j
    <3>1. i \in 1..Len(c) /\ j \in 1..Len(c) /\ c[i] = c[j]
      BY <1>3, <2>2
    <3>2. QED
      BY <2>1, <3>1
  <2>3. ASSUME NEW i \in 1..Len(b), NEW j \in 1..Len(b), b[i] = b[j] PROVE i = j
    <3>1. i + Len(a) \in 1..Len(c) /\ j + Len(a) \in 1..Len(c) /\ c[i + Len(a)] = c[j + Len(a)]
      BY <1>4, <2>3
    <3>2. i + Len(a) = j + Len(a)
      BY <2>1, <3>1
    <3>3. QED
      BY <1>1, <3>2
  <2>4. ASSUME NEW x \in Range(a), x \in Range(b) PROVE FALSE
    <3>1. PICK i \in 1..Len(a) : x = a[i]
      BY <1>2 DEF Range
    <3>2. PICK j \in 1..Len(b) : x = b[j]
      BY <1>2, <2>4 DEF Range
    <3>3. i \in 1..Len(c) /\ j + Len(a) \in 1..Len(c) /\ c[i] = c[j + Len(a)]
      BY <1>3, <1>4, <3>1, <3>2
    <3>4. i = j + Len(a)
      BY <2>1, <3>3
    <3>5. QED
      BY <1>1, <3>1, <3>2, <3>4
  <2>5. IsInjective(a) /\ IsInjective(b)
    BY <1>2, <2>2, <2>3 DEF IsInjective
  <2>6. QED
    BY <2>4, <2>5
<1>6. ASSUME IsInjective(a), IsInjective(b), Range(a) \cap Range(b) = {},
             NEW i \in 1..Len(c), NEW j \in 1..Len(c), c[i] = c[j]
      PROVE  i = j
  <2>1. /\ \A m, n \in 1..Len(a) : a[m] = a[n] => m = n
        /\ \A m, n \in 1..Len(b) : b[m] = b[n] => m = n
    BY <1>2, <1>6 DEF IsInjective
  <2>2. \A m \in 1..Len(a), n \in 1..Len(b) : a[m] # b[n]
    <3>1. \A m \in 1..Len(a) : a[m] \in Range(a)
      BY <1>2 DEF Range
    <3>2. \A n \in 1..Len(b) : b[n] \in Range(b)
      BY <1>2 DEF Range
    <3>3. QED
      BY <1>6, <3>1, <3>2
  <2>3. \A k \in 1..Len(c) :
          \/ k \in 1..Len(a) /\ c[k] = a[k]
          \/ k - Len(a) \in 1..Len(b) /\ c[k] = b[k - Len(a)]
    BY <1>1
  <2>4. CASE i \in 1..Len(a) /\ c[i] = a[i]
    BY <1>6, <2>1, <2>2, <2>3, <2>4
  <2>5. CASE i - Len(a) \in 1..Len(b) /\ c[i] = b[i - Len(a)]
    <3>1. j - Len(a) \in 1..Len(b) /\ c[j] = b[j - Len(a)]
      BY <1>6, <2>2, <2>3, <2>5
    <3>2. i - Len(a) = j - Len(a)
      BY <1>6, <2>1, <2>5, <3>1
    <3>3. QED
      BY <1>1, <3>2
  <2>6. QED
    BY <2>3, <2>4, <2>5
<1>7. QED
  BY <1>2, <1>5, <1>6 DEF IsInjective, c
-----------------------------------------------------------------------------
(* Folds: one element of a finite set after the other, e[s] from the set s *)

IsFold(f, D, base, e, step) ==
  \A s \in SUBSET D : f[s] = IF s = {} THEN base ELSE step[e[s]][f[s \ {e[s]}]]

(* The function that a fold is defined by exists, and has its values where *)
(* the steps have theirs.                                                  *)
LEMMA FoldExists ==
  ASSUME NEW X, NEW D, IsFiniteSet(D), NEW base \in X, NEW e,
         \A s \in SUBSET D : s # {} => e[s] \in s,
         NEW step \in [D -> [X -> X]]
  PROVE  \E f \in [SUBSET D -> X] : IsFold(f, D, base, e, step)
<1> DEFINE Value(f, s) == IF s = {} THEN base ELSE step[e[s]][f[s \ {e[s]}]]
           Upto(f, n) == \A s \in SUBSET D : Cardinality(s) <= n => f[s] = Value(f, s)
           Has(n) == \E f \in [SUBSET D -> X] : Upto(f, n)
           T == {n \in Nat : Has(n)}
<1>1. /\ \A s \in SUBSET D : IsFiniteSet(s) /\ Cardinality(s) \in Nat
                             /\ (Cardinality(s) = 0 <=> s = {}) /\ Cardinality(s) <= Cardinality(D)
      /\ \A s \in SUBSET D : s # {} =>
           /\ s \ {e[s]} \in SUBSET D /\ Cardinality(s \ {e[s]}) = Cardinality(s) - 1
           /\ e[s] \in D
  <2>1. \A s \in SUBSET D : IsFiniteSet(s) /\ Cardinality(s) <= Cardinality(D)
    BY FS_Subset
  <2>2. \A s \in SUBSET D : Cardinality(s) \in Nat /\ (Cardinality(s) = 0 <=> s = {})
    BY <2>1, FS_CardinalityType, FS_EmptySet
  <2>3. ASSUME NEW s \in SUBSET D, s # {} PROVE Cardinality(s \ {e[s]}) = Cardinality(s) - 1
    BY <2>1, <2>3, FS_RemoveElement
  <2>4. QED
    BY <2>1, <2>2, <2>3
<1>2. ASSUME NEW f \in [SUBSET D -> X], NEW s \in SUBSET D PROVE Value(f, s) \in X
  <2>1. CASE s = {}
    BY <2>1
  <2>2. CASE s # {}
    <3>1. e[s] \in D /\ f[s \ {e[s]}] \in X
      BY <1>1, <2>2
    <3>2. step[e[s]] \in [X -> X]
      BY <3>1
    <3>3. QED
      BY <2>2, <3>1, <3>2
  <2>3. QED
    BY <2>1, <2>2
<1>3. Has(0)
  <2> DEFINE f == [s \in SUBSET D |-> base]
  <2>1. f \in [SUBSET D -> X]
    OBVIOUS
  <2>2. ASSUME NEW s \in SUBSET D, Cardinality(s) <= 0 PROVE f[s] = Value(f, s)
    BY <1>1, <2>2
  <2>3. Upto(f, 0)
    BY <2>2
  <2>4. QED
    BY <2>1, <2>3
<1>4. ASSUME NEW n \in Nat, Has(n) PROVE Has(n + 1)
  <2>1. PICK f \in [SUBSET D -> X] : Upto(f, n)
    BY <1>4
  <2> DEFINE g == [s \in SUBSET D |-> IF Cardinality(s) <= n THEN f[s] ELSE Value(f, s)]
  <2>2. g \in [SUBSET D -> X]
    BY <1>2
  <2>3. ASSUME NEW s \in SUBSET D, Cardinality(s) <= n + 1 PROVE g[s] = Value(g, s)
    <3>1. g[s] = Value(f, s)
      BY <2>1
    <3>2. s # {} => g[s \ {e[s]}] = f[s \ {e[s]}]
      <4>1. s # {} => s \ {e[s]} \in SUBSET D /\ Cardinality(s \ {e[s]}) <= n
        BY <1>1, <2>3
      <4>2. QED
        BY <4>1
    <3>3. QED
      BY <3>1, <3>2
  <2> HIDE DEF g, Value
  <2>4. Upto(g, n + 1)
    BY <2>3
  <2>5. QED
    BY <2>2, <2>4
<1> HIDE DEF Has
<1>5. T = Nat
  <2>1. T \in SUBSET Nat /\ 0 \in T /\ \A n \in T : n + 1 \in T
    BY <1>3, <1>4
  <2> HIDE DEF T
  <2>2. QED
    BY <2>1, SetInduction
<1>6. Has(Cardinality(D))
  BY <1>1, <1>5
<1>7. PICK f \in [SUBSET D -> X] : Upto(f, Cardinality(D))
  BY <1>6 DEF Has
<1>8. \A s \in SUBSET D : f[s] = Value(f, s)
  BY <1>1, <1>7
<1>9. QED
  BY <1>8 DEF IsFold

(* What holds of the base and is kept by each step holds of the fold.      *)
LEMMA FoldKeeps ==
  ASSUME NEW X, NEW D, IsFiniteSet(D), NEW e, NEW f,
         \A s \in SUBSET D : s # {} => e[s] \in s,
         f[{}] \in X,
         \A s \in SUBSET D : s # {} /\ f[s \ {e[s]}] \in X => f[s] \in X
  PROVE  f[D] \in X
<1> DEFINE T == {n \in Nat : \A s \in SUBSET D : Cardinality(s) = n => f[s] \in X}
<1>1. \A s \in SUBSET D : IsFiniteSet(s) /\ Cardinality(s) \in Nat /\ (Cardinality(s) = 0 <=> s = {})
  BY FS_Subset, FS_CardinalityType, FS_EmptySet
<1>2. \A s \in SUBSET D : s # {} => Cardinality(s \ {e[s]}) = Cardinality(s) - 1
  BY <1>1, FS_RemoveElement
<1>3. 0 \in T
  BY <1>1
<1>4. ASSUME NEW n \in T PROVE n + 1 \in T
  <2>1. SUFFICES ASSUME NEW s \in SUBSET D, Cardinality(s) = n + 1 PROVE f[s] \in X
    OBVIOUS
  <2>2. s # {} /\ s \ {e[s]} \in SUBSET D /\ Cardinality(s \ {e[s]}) = n
    BY <1>1, <1>2, <2>1
  <2>3. QED
    BY <1>4, <2>2
<1>5. T \in SUBSET Nat
  OBVIOUS
<1> HIDE DEF T
<1>6. T = Nat
  BY <1>3, <1>4, <1>5, SetInduction
<1>7. QED
  BY <1>1, <1>6 DEF T

(* The last and the first index of a part of a sequence.                   *)
LEMMA Indexes ==
  ASSUME NEW X, NEW q \in Seq(X)
  PROVE  /\ IsFiniteSet(DOMAIN q) /\ Len(q) \in Nat /\ DOMAIN q = 1..Len(q)
         /\ \A s \in SUBSET DOMAIN q : s # {} => Max(s) \in s /\ Min(s) \in s
<1>1. Len(q) \in Nat /\ DOMAIN q = 1..Len(q)
  OBVIOUS
<1>2. IsFiniteSet(DOMAIN q)
  BY <1>1, FS_Interval
<1>3. ASSUME NEW s \in SUBSET DOMAIN q, s # {} PROVE Max(s) \in s /\ Min(s) \in s
  <2>1. s \in SUBSET Nat /\ \A n \in s : n <= Len(q)
    BY <1>1
  <2>2. QED
    BY <1>1, <1>3, <2>1, MaxIsGreatest, MinIsLeast
<1>4. QED
  BY <1>1, <1>2, <1>3

-----------------------------------------------------------------------------
(* A function of the places from a to b whose value at a place rests on    *)
(* the value at a later one, or on none.                                   *)

LooksAhead(f, a, b, stop, base, to, op) ==
  \A i \in a..b : f[i] = IF i \in stop THEN base[i] ELSE op[i][f[to[i]]]

LEMMA LookAheadExists ==
  ASSUME NEW X, NEW a \in Int, NEW b \in Int, NEW stop, NEW base, NEW to, NEW op,
         \A i \in a..b : base[i] \in X,
         \A i \in a..b : i \notin stop => to[i] \in a..b /\ to[i] > i /\ op[i] \in [X -> X]
  PROVE  \E f \in [a..b -> X] : LooksAhead(f, a, b, stop, base, to, op)
<1> DEFINE Value(f, i) == IF i \in stop THEN base[i] ELSE op[i][f[to[i]]]
           From(f, n) == \A i \in a..b : b - i < n => f[i] = Value(f, i)
           Has(n) == \E f \in [a..b -> X] : From(f, n)
           T == {n \in Nat : Has(n)}
<1>1. ASSUME NEW f \in [a..b -> X], NEW i \in a..b PROVE Value(f, i) \in X
  <2>1. CASE i \in stop
    BY <2>1
  <2>2. CASE i \notin stop
    <3>1. f[to[i]] \in X /\ op[i] \in [X -> X]
      BY <2>2
    <3>2. QED
      BY <2>2, <3>1
  <2>3. QED
    BY <2>1, <2>2
<1>2. Has(0)
  <2> DEFINE f == [i \in a..b |-> base[i]]
  <2>1. f \in [a..b -> X]
    OBVIOUS
  <2>2. \A i \in a..b : ~(b - i < 0)
    OBVIOUS
  <2> HIDE DEF f, Value
  <2>3. From(f, 0)
    BY <2>2
  <2>4. QED
    BY <2>1, <2>3
<1>3. ASSUME NEW n \in Nat, Has(n) PROVE Has(n + 1)
  <2>1. PICK f \in [a..b -> X] : From(f, n)
    BY <1>3
  <2> DEFINE g == [i \in a..b |-> IF b - i < n THEN f[i] ELSE Value(f, i)]
  <2>2. g \in [a..b -> X]
    BY <1>1
  <2>3. ASSUME NEW i \in a..b, b - i < n + 1 PROVE g[i] = Value(g, i)
    <3>1. g[i] = Value(f, i)
      BY <2>1
    <3>2. i \notin stop => g[to[i]] = f[to[i]]
      <4>1. i \notin stop => to[i] \in a..b /\ b - to[i] < n
        BY <2>3
      <4>2. QED
        BY <4>1
    <3>3. QED
      BY <3>1, <3>2
  <2> HIDE DEF g, Value
  <2>4. From(g, n + 1)
    BY <2>3
  <2>5. QED
    BY <2>2, <2>4
<1> HIDE DEF Has
<1>4. T = Nat
  <2>1. T \in SUBSET Nat /\ 0 \in T /\ \A n \in T : n + 1 \in T
    BY <1>2, <1>3
  <2> HIDE DEF T
  <2>2. QED
    BY <2>1, SetInduction
<1>5. PICK n \in Nat : \A i \in a..b : b - i < n
  <2>1. CASE b - a >= 0
    <3>1. b - a + 1 \in Nat /\ \A i \in a..b : b - i < b - a + 1
      BY <2>1
    <3>2. QED
      BY <3>1
  <2>2. CASE ~(b - a >= 0)
    <3>1. \A i \in a..b : b - i < 0
      BY <2>2
    <3>2. QED
      BY <3>1
  <2>3. QED
    BY <2>1, <2>2
<1>6. PICK f \in [a..b -> X] : From(f, n)
  BY <1>4 DEF Has
<1>7. \A i \in a..b : f[i] = Value(f, i)
  BY <1>5, <1>6
<1>8. QED
  BY <1>7 DEF LooksAhead

(* Whatever holds at a place when it holds at every later one holds        *)
(* everywhere.                                                             *)
LEMMA DownwardInduction ==
  ASSUME NEW a \in Int, NEW b \in Int, NEW S,
         \A i \in a..b : (\A j \in a..b : j > i => j \in S) => i \in S
  PROVE  a..b \subseteq S
<1> DEFINE T == {n \in Nat : \A i \in a..b : b - i < n => i \in S}
<1>1. 0 \in T
  OBVIOUS
<1>2. ASSUME NEW n \in T PROVE n + 1 \in T
  <2>1. SUFFICES ASSUME NEW i \in a..b, b - i < n + 1 PROVE i \in S
    OBVIOUS
  <2>2. \A j \in a..b : j > i => b - j < n
    BY <2>1
  <2>3. \A j \in a..b : j > i => j \in S
    BY <2>2
  <2>4. QED
    BY <2>3
<1>3. T \in SUBSET Nat
  OBVIOUS
<1> HIDE DEF T
<1>4. T = Nat
  BY <1>1, <1>2, <1>3, SetInduction
<1>5. SUFFICES ASSUME NEW i \in a..b PROVE i \in S
  OBVIOUS
<1>6. b - i + 1 \in Nat /\ b - i < b - i + 1
  OBVIOUS
<1>7. QED
  BY <1>4, <1>6 DEF T
=============================================================================
