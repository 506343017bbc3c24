------------------------ MODULE Communication_proof ------------------------
(***************************************************************************)
(* Proofs about the queues of the COMMUNICATION SECTION, for any CDs,      *)
(* links, modes and sizes of texts and areas.                              *)
(*                                                                         *)
(* The bytes of a CD are in five places: taken by a RECEIVE, in the        *)
(* message or the segments a RECEIVE left over, in the queue, or pending   *)
(* in the CD that sends.  Got(q) is the first four of a target, Waiting(q) *)
(* the last.  A RECEIVE moves bytes from one place of Got to another, and  *)
(* in one RECEIVE mode it leaves Got as it is; a SEND makes Waiting longer *)
(* or moves it behind the Got of each target; the other calls touch        *)
(* neither, and a PURGE leaves what was taken.  Each part of a text keeps  *)
(* the end that was sent with its last byte.                               *)
(***************************************************************************)
EXTENDS Communication, SequenceLemmas

-----------------------------------------------------------------------------
(* The bytes of segments and of messages *)

(* Segments with units in X. *)
Parts(X) == [units : Seq(X), endKey : 1..3]

UnitsOf(segments) == [n \in DOMAIN segments |-> segments[n].units]

LEMMA UnitsOfSegments ==
  ASSUME NEW X, NEW g \in Seq(Parts(X))
  PROVE  /\ UnitsOf(g) \in Seq(Seq(X)) /\ Len(UnitsOf(g)) = Len(g) /\ Len(g) \in Nat
         /\ \A i \in 1..Len(g) : g[i] \in Parts(X) /\ UnitsOf(g)[i] = g[i].units
         /\ AreSequences(UnitsOf(g), X) /\ Bytes(g) = FlattenSeq(UnitsOf(g))
<1>1. Len(g) \in Nat /\ DOMAIN g = 1..Len(g) /\ \A i \in 1..Len(g) : g[i] \in Parts(X)
  OBVIOUS
<1>2. \A i \in 1..Len(g) : g[i].units \in Seq(X)
  BY <1>1 DEF Parts
<1>3. UnitsOf(g) \in [1..Len(g) -> Seq(X)] /\ \A i \in 1..Len(g) : UnitsOf(g)[i] = g[i].units
  BY <1>1, <1>2 DEF UnitsOf
<1>4. UnitsOf(g) \in Seq(Seq(X)) /\ Len(UnitsOf(g)) = Len(g)
  BY <1>1, <1>3, FunctionIsSequence
<1>5. QED
  BY <1>1, <1>3, <1>4 DEF AreSequences, Bytes, UnitsOf

LEMMA BytesType ==
  ASSUME NEW X, NEW g \in Seq(Parts(X))
  PROVE  Bytes(g) \in Seq(X)
BY UnitsOfSegments, FlattenType

LEMMA BytesEmpty ==
  Bytes(<<>>) = <<>>
<1>1. [n \in DOMAIN <<>> |-> <<>>[n].units] = <<>>
  OBVIOUS
<1>2. QED
  BY <1>1, FlattenEmpty DEF Bytes

LEMMA BytesAppend ==
  ASSUME NEW X, NEW g \in Seq(Parts(X)), NEW x \in Parts(X)
  PROVE  Bytes(Append(g, x)) = Bytes(g) \o x.units
<1> DEFINE h == Append(g, x)
<1>1. /\ h \in Seq(Parts(X)) /\ Len(h) = Len(g) + 1 /\ Len(g) \in Nat
      /\ h[Len(h)] = x /\ \A i \in 1..Len(g) : h[i] = g[i]
  OBVIOUS
<1> HIDE DEF h
<1>2. Len(h) \in 1..Len(h) /\ \A i \in 1..Len(g) : i \in 1..Len(h)
  BY <1>1
<1>3. /\ AreSequences(UnitsOf(g), X) /\ AreSequences(UnitsOf(h), X)
      /\ Bytes(g) = FlattenSeq(UnitsOf(g)) /\ Bytes(h) = FlattenSeq(UnitsOf(h))
      /\ Len(UnitsOf(h)) = Len(UnitsOf(g)) + 1 /\ Len(UnitsOf(g)) = Len(g) /\ Len(UnitsOf(h)) = Len(h)
      /\ UnitsOf(h)[Len(h)] = x.units
      /\ \A i \in 1..Len(g) : UnitsOf(h)[i] = UnitsOf(g)[i]
  BY <1>1, <1>2, UnitsOfSegments
<1>4. FlattenSeq(UnitsOf(h)) = FlattenSeq(UnitsOf(g)) \o UnitsOf(h)[Len(UnitsOf(h))]
  <2>1. \A i \in 1..Len(UnitsOf(g)) : UnitsOf(h)[i] = UnitsOf(g)[i]
    BY <1>3
  <2>2. AreSequences(UnitsOf(g), X) /\ AreSequences(UnitsOf(h), X) /\ Len(UnitsOf(h)) = Len(UnitsOf(g)) + 1
    BY <1>3
  <2>3. QED
    BY <2>1, <2>2, FlattenLonger
<1>5. QED
  BY <1>3, <1>4 DEF h

LEMMA BytesFirst ==
  ASSUME NEW X, NEW g \in Seq(Parts(X)), NEW h \in Seq(Parts(X)), Len(g) = Len(h) + 1,
         \A i \in 1..Len(h) : h[i] = g[i + 1]
  PROVE  Bytes(g) = g[1].units \o Bytes(h)
<1>1. Len(g) \in Nat /\ Len(h) \in Nat /\ 1 \in 1..Len(g) /\ \A i \in 1..Len(h) : i + 1 \in 1..Len(g)
  OBVIOUS
<1>2. /\ AreSequences(UnitsOf(g), X) /\ AreSequences(UnitsOf(h), X)
      /\ Bytes(g) = FlattenSeq(UnitsOf(g)) /\ Bytes(h) = FlattenSeq(UnitsOf(h))
      /\ Len(UnitsOf(g)) = Len(g) /\ Len(UnitsOf(h)) = Len(h)
      /\ UnitsOf(g)[1] = g[1].units
      /\ \A i \in 1..Len(h) : UnitsOf(h)[i] = UnitsOf(g)[i + 1]
  <2>1. /\ AreSequences(UnitsOf(g), X) /\ Bytes(g) = FlattenSeq(UnitsOf(g))
        /\ Len(UnitsOf(g)) = Len(g) /\ \A i \in 1..Len(g) : UnitsOf(g)[i] = g[i].units
    BY UnitsOfSegments
  <2>2. /\ AreSequences(UnitsOf(h), X) /\ Bytes(h) = FlattenSeq(UnitsOf(h))
        /\ Len(UnitsOf(h)) = Len(h) /\ \A i \in 1..Len(h) : UnitsOf(h)[i] = h[i].units
    BY UnitsOfSegments
  <2>3. \A i \in 1..Len(h) : UnitsOf(h)[i] = UnitsOf(g)[i + 1]
    BY <1>1, <2>1, <2>2
  <2>4. QED
    BY <1>1, <2>1, <2>2, <2>3
<1>3. IsTail(UnitsOf(h), UnitsOf(g))
  BY <1>2 DEF IsTail
<1>4. FlattenSeq(UnitsOf(g)) = UnitsOf(g)[1] \o FlattenSeq(UnitsOf(h))
  BY <1>2, <1>3, FlattenFirst
<1>5. QED
  BY <1>2, <1>4

LEMMA BytesTail ==
  ASSUME NEW X, NEW g \in Seq(Parts(X)), g # <<>>
  PROVE  Bytes(g) = g[1].units \o Bytes(Tail(g))
<1>1. /\ Tail(g) \in Seq(Parts(X)) /\ Len(g) = Len(Tail(g)) + 1
      /\ \A i \in 1..Len(Tail(g)) : Tail(g)[i] = g[i + 1]
  OBVIOUS
<1>2. QED
  BY <1>1, BytesFirst

LEMMA BytesCons ==
  ASSUME NEW X, NEW g \in Seq(Parts(X)), NEW x \in Parts(X)
  PROVE  Bytes(<<x>> \o g) = x.units \o Bytes(g)
<1> DEFINE h == <<x>> \o g
<1>1. /\ h \in Seq(Parts(X)) /\ Len(h) = Len(g) + 1 /\ h[1] = x
      /\ \A i \in 1..Len(g) : g[i] = h[i + 1]
  OBVIOUS
<1> HIDE DEF h
<1>2. QED
  BY <1>1, BytesFirst DEF h

LEMMA BytesOne ==
  ASSUME NEW X, NEW x \in Parts(X)
  PROVE  Bytes(<<x>>) = x.units
<1>1. <<>> \in Seq(Parts(X)) /\ Append(<<>>, x) = <<x>>
  OBVIOUS
<1>2. Bytes(<<x>>) = Bytes(<<>>) \o x.units
  BY <1>1, BytesAppend
<1>3. x.units \in Seq(X)
  BY DEF Parts
<1>4. QED
  BY <1>2, <1>3, BytesEmpty, ConcatEmptySeq

-----------------------------------------------------------------------------
AllBytes(sequences) == [n \in DOMAIN sequences |-> Bytes(sequences[n])]

Texts(m, X) == m \in Seq(Seq(Parts(X)))

LEMMA AllBytesOf ==
  ASSUME NEW X, NEW m, Texts(m, X)
  PROVE  /\ AllBytes(m) \in Seq(Seq(X)) /\ Len(AllBytes(m)) = Len(m) /\ Len(m) \in Nat
         /\ \A i \in 1..Len(m) : AllBytes(m)[i] = Bytes(m[i])
         /\ AreSequences(AllBytes(m), X) /\ BytesIn(m) = FlattenSeq(AllBytes(m))
<1>1. Len(m) \in Nat /\ DOMAIN m = 1..Len(m) /\ \A i \in 1..Len(m) : m[i] \in Seq(Parts(X))
  BY DEF Texts
<1>2. \A i \in 1..Len(m) : Bytes(m[i]) \in Seq(X)
  BY <1>1, BytesType
<1>3. AllBytes(m) \in [1..Len(m) -> Seq(X)] /\ \A i \in 1..Len(m) : AllBytes(m)[i] = Bytes(m[i])
  BY <1>1, <1>2 DEF AllBytes
<1>4. AllBytes(m) \in Seq(Seq(X)) /\ Len(AllBytes(m)) = Len(m)
  BY <1>1, <1>3, FunctionIsSequence
<1>5. QED
  BY <1>1, <1>3, <1>4 DEF AreSequences, BytesIn, AllBytes

LEMMA BytesInType ==
  ASSUME NEW X, NEW m, Texts(m, X)
  PROVE  BytesIn(m) \in Seq(X)
BY AllBytesOf, FlattenType

LEMMA BytesInEmpty ==
  BytesIn(<<>>) = <<>>
<1>1. [n \in DOMAIN <<>> |-> Bytes(<<>>[n])] = <<>>
  OBVIOUS
<1>2. QED
  BY <1>1, FlattenEmpty DEF BytesIn

LEMMA BytesInAppend ==
  ASSUME NEW X, NEW m, Texts(m, X), NEW x \in Seq(Parts(X))
  PROVE  BytesIn(Append(m, x)) = BytesIn(m) \o Bytes(x)
<1> DEFINE h == Append(m, x)
<1>1. /\ Texts(h, X) /\ Len(h) = Len(m) + 1 /\ Len(m) \in Nat
      /\ h[Len(h)] = x /\ \A i \in 1..Len(m) : h[i] = m[i]
  BY DEF Texts
<1> HIDE DEF h
<1>2. Len(h) \in 1..Len(h) /\ \A i \in 1..Len(m) : i \in 1..Len(h)
  BY <1>1
<1>3. /\ AreSequences(AllBytes(m), X) /\ AreSequences(AllBytes(h), X)
      /\ BytesIn(m) = FlattenSeq(AllBytes(m)) /\ BytesIn(h) = FlattenSeq(AllBytes(h))
      /\ Len(AllBytes(h)) = Len(AllBytes(m)) + 1 /\ Len(AllBytes(m)) = Len(m)
      /\ Len(AllBytes(h)) = Len(h) /\ AllBytes(h)[Len(h)] = Bytes(x)
      /\ \A i \in 1..Len(m) : AllBytes(h)[i] = AllBytes(m)[i]
  BY <1>1, <1>2, AllBytesOf
<1> DEFINE s == AllBytes(m)
           t == AllBytes(h)
<1>4. /\ AreSequences(s, X) /\ AreSequences(t, X) /\ Len(t) = Len(s) + 1
      /\ \A i \in 1..Len(s) : t[i] = s[i]
  BY <1>3
<1> HIDE DEF s, t
<1>5. FlattenSeq(t) = FlattenSeq(s) \o t[Len(t)]
  BY <1>4, FlattenLonger
<1>6. QED
  BY <1>3, <1>5 DEF h, s, t

LEMMA BytesInTail ==
  ASSUME NEW X, NEW m, Texts(m, X), m # <<>>
  PROVE  BytesIn(m) = Bytes(Head(m)) \o BytesIn(Tail(m))
<1> DEFINE h == Tail(m)
<1>1. /\ Texts(h, X) /\ Len(m) = Len(h) + 1 /\ Head(m) = m[1]
      /\ \A i \in 1..Len(h) : h[i] = m[i + 1]
  BY DEF Texts
<1> HIDE DEF h
<1>2. Len(h) \in Nat /\ 1 \in 1..Len(m) /\ \A i \in 1..Len(h) : i + 1 \in 1..Len(m)
  BY <1>1 DEF Texts
<1>3. /\ AreSequences(AllBytes(m), X) /\ AreSequences(AllBytes(h), X)
      /\ BytesIn(m) = FlattenSeq(AllBytes(m)) /\ BytesIn(h) = FlattenSeq(AllBytes(h))
      /\ Len(AllBytes(m)) = Len(m) /\ Len(AllBytes(h)) = Len(h)
      /\ AllBytes(m)[1] = Bytes(m[1])
      /\ \A i \in 1..Len(h) : AllBytes(h)[i] = AllBytes(m)[i + 1]
  <2>1. /\ AreSequences(AllBytes(m), X) /\ BytesIn(m) = FlattenSeq(AllBytes(m))
        /\ Len(AllBytes(m)) = Len(m) /\ \A i \in 1..Len(m) : AllBytes(m)[i] = Bytes(m[i])
    BY AllBytesOf
  <2>2. /\ AreSequences(AllBytes(h), X) /\ BytesIn(h) = FlattenSeq(AllBytes(h))
        /\ Len(AllBytes(h)) = Len(h) /\ \A i \in 1..Len(h) : AllBytes(h)[i] = Bytes(h[i])
    BY <1>1, AllBytesOf
  <2>3. \A i \in 1..Len(h) : AllBytes(h)[i] = AllBytes(m)[i + 1]
    BY <1>1, <1>2, <2>1, <2>2
  <2>4. QED
    BY <1>2, <2>1, <2>2, <2>3
<1>4. IsTail(AllBytes(h), AllBytes(m))
  BY <1>1, <1>3 DEF IsTail
<1>5. FlattenSeq(AllBytes(m)) = AllBytes(m)[1] \o FlattenSeq(AllBytes(h))
  BY <1>3, <1>4, FlattenFirst
<1>6. QED
  BY <1>1, <1>3, <1>5 DEF h


-----------------------------------------------------------------------------
(* The states of the queues *)

LEMMA WithState ==
  ASSUME NEW q, NEW state, queues' = With(queues, q, state)
  PROVE  /\ DOMAIN queues' = DOMAIN queues \cup {q}
         /\ \A p : StateOf(p)' = IF p = q THEN state ELSE StateOf(p)
<1> DEFINE D == DOMAIN queues \cup {q}
<1>1. queues' = [p \in D |-> IF p = q THEN state ELSE queues[p]]
  BY DEF With
<1>2. DOMAIN queues' = D /\ \A p \in D : queues'[p] = IF p = q THEN state ELSE queues[p]
  BY <1>1
<1> HIDE DEF D
<1>3. ASSUME NEW p PROVE StateOf(p)' = IF p = q THEN state ELSE StateOf(p)
  <2>1. p \in D <=> p = q \/ p \in DOMAIN queues
    BY DEF D
  <2>2. CASE p = q
    BY <1>2, <2>1, <2>2 DEF StateOf
  <2>3. CASE p # q /\ p \in DOMAIN queues
    BY <1>2, <2>1, <2>3 DEF StateOf
  <2>4. CASE p # q /\ p \notin DOMAIN queues
    BY <1>2, <2>1, <2>4 DEF StateOf
  <2>5. QED
    BY <2>2, <2>3, <2>4
<1>4. QED
  BY <1>2, <1>3 DEF D

LEMMA DeliverState ==
  ASSUME NEW q, NEW state, NEW m, queues' = Deliver(With(queues, q, state), q, m)
  PROVE  /\ DOMAIN queues' = DOMAIN queues \cup {q} \cup Targets(q)
         /\ \A p : LET before == IF p = q THEN state ELSE StateOf(p)
                   IN  StateOf(p)' = IF p \in Targets(q)
                                       THEN [before EXCEPT !.messages = Append(@, m)] ELSE before
<1> DEFINE Q == With(queues, q, state)
           before(p) == IF p = q THEN state ELSE StateOf(p)
           at(p) == IF p \in DOMAIN Q THEN Q[p] ELSE Fresh
           E == DOMAIN Q \cup Targets(q)
           after(p) == IF p \in Targets(q) THEN [at(p) EXCEPT !.messages = Append(@, m)] ELSE at(p)
<1>1. queues' = [p \in E |-> after(p)]
  BY DEF Deliver
<1>2. DOMAIN queues' = E /\ \A p \in E : queues'[p] = after(p)
  BY <1>1
<1>3. DOMAIN Q = DOMAIN queues \cup {q}
  BY DEF With
<1>4. ASSUME NEW p PROVE at(p) = before(p)
  <2>1. p \in DOMAIN Q => Q[p] = IF p = q THEN state ELSE queues[p]
    BY <1>3 DEF With
  <2> HIDE DEF Q
  <2>2. CASE p = q
    BY <1>3, <2>1, <2>2
  <2>3. CASE p # q /\ p \in DOMAIN queues
    BY <1>3, <2>1, <2>3 DEF StateOf
  <2>4. CASE p # q /\ p \notin DOMAIN queues
    BY <1>3, <2>1, <2>4 DEF StateOf
  <2>5. QED
    BY <2>2, <2>3, <2>4
<1>5. ASSUME NEW p PROVE StateOf(p)' = IF p \in Targets(q) THEN [before(p) EXCEPT !.messages = Append(@, m)] ELSE before(p)
  <2>1. p \in E <=> p \in DOMAIN Q \/ p \in Targets(q)
    OBVIOUS
  <2> HIDE DEF Q, before, E
  <2>2. at(p) = before(p)
    BY <1>4
  <2>3. CASE p \in E
    BY <1>2, <2>2, <2>3 DEF StateOf
  <2>4. CASE p \notin E
    BY <1>2, <2>1, <2>2, <2>4 DEF StateOf
  <2>5. QED
    BY <2>3, <2>4
<1>6. QED
  BY <1>2, <1>3, <1>5

(* A RECEIVE takes a nonempty first part of nonempty units and leaves the rest. *)
LEMMA CutUnits ==
  ASSUME NEW X, NEW u \in Seq(X), u # <<>>, NEW size \in Nat \ {0}
  PROVE  LET f == Fitting(u, size)
             r == Left(u, size)
         IN  /\ f \in Seq(X) /\ r \in Seq(X) /\ f \o r = u
             /\ Len(f) \in 1..Len(u) /\ f[Len(f)] = u[Len(f)]
             /\ r = <<>> <=> Len(f) = Len(u)
             /\ Len(r) = Len(u) - Len(f)
             /\ \A i \in 1..Len(r) : r[i] = u[i + Len(f)]
<1> DEFINE k == IF size < Len(u) THEN size ELSE Len(u)
           f == SubSeq(u, 1, k)
           r == SubSeq(u, size + 1, Len(u))
<1>1. k \in 1..Len(u) /\ Len(u) \in Nat
  OBVIOUS
<1>2. f \in Seq(X) /\ Len(f) = k /\ \A i \in 1..k : f[i] = u[i]
  BY <1>1, PrefixProperties
<1>3. r \in Seq(X) /\ Len(r) = Len(u) - k /\ \A i \in 1..Len(r) : r[i] = u[i + k]
  <2>1. CASE size < Len(u)
    BY <2>1
  <2>2. CASE ~(size < Len(u))
    <3>1. r = <<>> /\ k = Len(u) /\ Len(u) \in Nat
      BY <2>2
    <3>2. <<>> \in Seq(X) /\ Len(<<>>) = 0
      OBVIOUS
    <3> HIDE DEF r, k
    <3>3. Len(r) = 0 /\ Len(u) - k = 0 /\ r \in Seq(X)
      BY <3>1, <3>2
    <3>4. QED
      BY <3>3
  <2>3. QED
    BY <2>1, <2>2
<1> HIDE DEF k, f, r
<1>4. f \o r = u
  <2>1. f \o r \in Seq(X) /\ Len(f \o r) = Len(u)
    <3>1. f \o r \in Seq(X) /\ Len(f \o r) = Len(f) + Len(r)
      BY <1>2, <1>3, ConcatProperties
    <3>2. QED
      BY <1>1, <1>2, <1>3, <3>1
  <2>2. ASSUME NEW i \in 1..Len(u) PROVE (f \o r)[i] = u[i]
    <3>1. (f \o r)[i] = IF i <= Len(f) THEN f[i] ELSE r[i - Len(f)]
      <4>1. f \in Seq(X) /\ r \in Seq(X) /\ i \in 1..Len(f) + Len(r)
        BY <1>1, <1>2, <1>3
      <4>2. \A j \in 1..Len(f) + Len(r) : (f \o r)[j] = IF j <= Len(f) THEN f[j] ELSE r[j - Len(f)]
        BY ONLY <4>1, ConcatProperties
      <4>3. QED
        BY ONLY <4>1, <4>2
    <3>2. CASE i <= k
      BY <1>1, <1>2, <3>1, <3>2
    <3>3. CASE ~(i <= k)
      <4>1. i - k \in 1..Len(r) /\ (i - k) + k = i
        BY <1>1, <1>3, <3>3
      <4>2. QED
        BY <1>2, <1>3, <3>1, <3>3, <4>1
    <3>4. QED
      BY <3>2, <3>3
  <2>3. QED
    BY <2>1, <2>2, SeqEqual
<1>5. r = <<>> <=> Len(f) = Len(u)
  BY <1>1, <1>2, <1>3
<1>6. /\ f \in Seq(X) /\ r \in Seq(X) /\ f \o r = u
      /\ Len(f) \in 1..Len(u) /\ f[Len(f)] = u[Len(f)]
      /\ r = <<>> <=> Len(f) = Len(u)
      /\ Len(r) = Len(u) - Len(f)
      /\ \A i \in 1..Len(r) : r[i] = u[i + Len(f)]
  BY <1>1, <1>2, <1>3, <1>4, <1>5
<1>7. Fitting(u, size) = f /\ Left(u, size) = r
  BY DEF Fitting, Left, k, f, r
<1>8. QED
  BY <1>6, <1>7

-----------------------------------------------------------------------------
(* Sequences put together in different ways *)

(* y holds what x holds, perhaps in another order. *)
Rearranged(x, y) == Range(y) = Range(x) /\ (IsInjective(x) => IsInjective(y))

Same(x, y) == x = y

(* What was taken and the three places where the rest may be. *)
InPlaces(t, a, b, c) == t \o ((a \o b) \o c)

AllApart(t, a, b, c) ==
  /\ IsInjective(t) /\ IsInjective(a) /\ IsInjective(b) /\ IsInjective(c)
  /\ Range(t) \cap Range(a) = {} /\ Range(t) \cap Range(b) = {}
  /\ Range(t) \cap Range(c) = {} /\ Range(a) \cap Range(b) = {}
  /\ Range(a) \cap Range(c) = {} /\ Range(b) \cap Range(c) = {}

LEMMA PlacesInjective ==
  ASSUME NEW X, NEW t \in Seq(X), NEW a \in Seq(X), NEW b \in Seq(X), NEW c \in Seq(X)
  PROVE  /\ InPlaces(t, a, b, c) \in Seq(X)
         /\ Range(InPlaces(t, a, b, c)) = Range(t) \cup Range(a) \cup Range(b) \cup Range(c)
         /\ IsInjective(InPlaces(t, a, b, c)) <=> AllApart(t, a, b, c)
<1>1. a \o b \in Seq(X) /\ (a \o b) \o c \in Seq(X) /\ t \o ((a \o b) \o c) \in Seq(X)
  BY ConcatProperties
<1>2. /\ Range(a \o b) = Range(a) \cup Range(b)
      /\ Range((a \o b) \o c) = Range(a \o b) \cup Range(c)
      /\ Range(t \o ((a \o b) \o c)) = Range(t) \cup Range((a \o b) \o c)
  <2>1. Range(a \o b) = Range(a) \cup Range(b)
    BY RangeOfConcat
  <2>2. \A x, y \in Seq(X) : Range(x \o y) = Range(x) \cup Range(y)
    BY RangeOfConcat
  <2> DEFINE ab == a \o b
             abc == ab \o c
  <2>3. ab \in Seq(X) /\ abc \in Seq(X)
    BY <1>1
  <2> HIDE DEF ab, abc
  <2>4. Range(t \o abc) = Range(t) \cup Range(abc)
    BY <2>2, <2>3
  <2> USE DEF abc
  <2>5. Range(abc) = Range(ab) \cup Range(c)
    BY <2>2, <2>3
  <2>6. QED
    BY <2>1, <2>4, <2>5 DEF ab
<1>3. /\ IsInjective(a \o b) <=> IsInjective(a) /\ IsInjective(b) /\ Range(a) \cap Range(b) = {}
      /\ IsInjective((a \o b) \o c)
           <=> IsInjective(a \o b) /\ IsInjective(c) /\ Range(a \o b) \cap Range(c) = {}
      /\ IsInjective(t \o ((a \o b) \o c))
           <=> IsInjective(t) /\ IsInjective((a \o b) \o c) /\ Range(t) \cap Range((a \o b) \o c) = {}
  BY <1>1, InjectiveConcat
<1>4. Range(InPlaces(t, a, b, c)) = Range(t) \cup Range(a) \cup Range(b) \cup Range(c)
  BY <1>2 DEF InPlaces
<1>5. IsInjective(InPlaces(t, a, b, c)) <=> AllApart(t, a, b, c)
  BY <1>2, <1>3, Zenon DEF InPlaces, AllApart
<1>6. QED
  BY <1>1, <1>4, <1>5 DEF InPlaces

Cat(a, b) == a \o b

LEMMA CatLaws ==
  ASSUME NEW X
  PROVE  /\ \A x, y \in Seq(X) : Cat(x, y) \in Seq(X)
         /\ \A x, y, z \in Seq(X) : Cat(Cat(x, y), z) = Cat(x, Cat(y, z))
         /\ \A x \in Seq(X) : Cat(x, <<>>) = x /\ Cat(<<>>, x) = x
<1>1. ASSUME NEW x \in Seq(X), NEW y \in Seq(X) PROVE Cat(x, y) \in Seq(X)
  BY DEF Cat
<1>2. ASSUME NEW x \in Seq(X), NEW y \in Seq(X), NEW z \in Seq(X)
      PROVE  Cat(Cat(x, y), z) = Cat(x, Cat(y, z))
  BY DEF Cat
<1>3. ASSUME NEW x \in Seq(X) PROVE Cat(x, <<>>) = x /\ Cat(<<>>, x) = x
  BY DEF Cat
<1>4. QED
  BY <1>1, <1>2, <1>3

(* A RECEIVE takes f from what was under way, and l is left. *)
LEMMA TakeBegun ==
  ASSUME NEW X, NEW t \in Seq(X), NEW f \in Seq(X), NEW l \in Seq(X), NEW b \in Seq(X), NEW c \in Seq(X)
  PROVE  Same(InPlaces(t \o f, l, b, c), InPlaces(t, f \o l, b, c))
<1>1. /\ \A x, y \in Seq(X) : Cat(x, y) \in Seq(X)
      /\ \A x, y, z \in Seq(X) : Cat(Cat(x, y), z) = Cat(x, Cat(y, z))
  BY CatLaws
<1>2. Cat(l, b) \in Seq(X) /\ Cat(Cat(l, b), c) \in Seq(X)
  BY <1>1
<1>3. Cat(Cat(t, f), Cat(Cat(l, b), c)) = Cat(t, Cat(f, Cat(Cat(l, b), c)))
  BY <1>1, <1>2
<1>4. Cat(f, Cat(Cat(l, b), c)) = Cat(Cat(f, Cat(l, b)), c)
  BY <1>1, <1>2
<1>5. Cat(f, Cat(l, b)) = Cat(Cat(f, l), b)
  BY <1>1
<1>6. /\ InPlaces(t \o f, l, b, c) = Cat(Cat(t, f), Cat(Cat(l, b), c))
      /\ InPlaces(t, f \o l, b, c) = Cat(t, Cat(Cat(Cat(f, l), b), c))
  BY DEF InPlaces, Cat
<1>7. QED
  BY <1>3, <1>4, <1>5, <1>6 DEF Same

LEMMA TakeOrder ==
  ASSUME NEW X, NEW t \in Seq(X), NEW f \in Seq(X), NEW l \in Seq(X), NEW c \in Seq(X)
  PROVE  /\ Same(InPlaces(t \o f, l, <<>>, c), InPlaces(t, <<>>, <<>>, (f \o l) \o c))
         /\ Same(InPlaces(t \o f, <<>>, l, c), InPlaces(t, <<>>, <<>>, (f \o l) \o c))
         /\ Same(InPlaces(t \o f, <<>>, l, c), InPlaces(t, <<>>, f \o l, c))
<1> DEFINE e == <<>>
<1>1. /\ \A x, y \in Seq(X) : Cat(x, y) \in Seq(X)
      /\ \A x, y, z \in Seq(X) : Cat(Cat(x, y), z) = Cat(x, Cat(y, z))
      /\ \A x \in Seq(X) : Cat(x, e) = x /\ Cat(e, x) = x
      /\ e \in Seq(X)
  <2>1. e \in Seq(X)
    OBVIOUS
  <2>2. QED
    BY <2>1, CatLaws, Zenon DEF e
<1>2. /\ InPlaces(t \o f, l, e, c) = Cat(Cat(t, f), Cat(Cat(l, e), c))
      /\ InPlaces(t \o f, e, l, c) = Cat(Cat(t, f), Cat(Cat(e, l), c))
      /\ InPlaces(t, e, e, (f \o l) \o c) = Cat(t, Cat(Cat(e, e), Cat(Cat(f, l), c)))
      /\ InPlaces(t, e, f \o l, c) = Cat(t, Cat(Cat(e, Cat(f, l)), c))
  BY DEF InPlaces, Cat
<1> HIDE DEF e
<1>3. Cat(f, l) \in Seq(X) /\ Cat(l, c) \in Seq(X) /\ Cat(Cat(f, l), c) \in Seq(X)
  BY <1>1
<1>4. /\ Cat(Cat(t, f), Cat(l, c)) = Cat(t, Cat(f, Cat(l, c)))
      /\ Cat(f, Cat(l, c)) = Cat(Cat(f, l), c)
  BY <1>1, <1>3
<1>5. /\ Cat(l, e) = l /\ Cat(e, l) = l /\ Cat(e, e) = e /\ Cat(e, Cat(f, l)) = Cat(f, l)
      /\ Cat(e, Cat(Cat(f, l), c)) = Cat(Cat(f, l), c)
  BY <1>1, <1>3
<1>6. /\ InPlaces(t \o f, l, e, c) = InPlaces(t, e, e, (f \o l) \o c)
      /\ InPlaces(t \o f, e, l, c) = InPlaces(t, e, e, (f \o l) \o c)
      /\ InPlaces(t \o f, e, l, c) = InPlaces(t, e, f \o l, c)
  BY <1>2, <1>4, <1>5
<1>7. QED
  BY <1>6 DEF e, Same

(* What is taken may also come from a place behind what stays in another. *)
LEMMA TakeRearranged ==
  ASSUME NEW X, NEW t \in Seq(X), NEW f \in Seq(X), NEW l \in Seq(X), NEW o \in Seq(X), NEW c \in Seq(X)
  PROVE  /\ Rearranged(InPlaces(t, <<>>, o, (f \o l) \o c), InPlaces(t \o f, l, o, c))
         /\ Rearranged(InPlaces(t, o, <<>>, (f \o l) \o c), InPlaces(t \o f, o, l, c))
         /\ Rearranged(InPlaces(t, o, f \o l, c), InPlaces(t \o f, o, l, c))
<1> DEFINE e == <<>>
           fl == f \o l
           flc == fl \o c
           tf == t \o f
<1>1. fl \in Seq(X) /\ flc \in Seq(X) /\ tf \in Seq(X)
  BY ConcatProperties
<1>2. /\ Range(fl) = Range(f) \cup Range(l) /\ Range(tf) = Range(t) \cup Range(f)
      /\ IsInjective(fl) <=> IsInjective(f) /\ IsInjective(l) /\ Range(f) \cap Range(l) = {}
      /\ IsInjective(tf) <=> IsInjective(t) /\ IsInjective(f) /\ Range(t) \cap Range(f) = {}
  BY RangeOfConcat, InjectiveConcat
<1> HIDE DEF fl, tf
<1>3. /\ Range(flc) = Range(fl) \cup Range(c)
      /\ IsInjective(flc) <=> IsInjective(fl) /\ IsInjective(c) /\ Range(fl) \cap Range(c) = {}
  BY <1>1, RangeOfConcat, InjectiveConcat
<1>4. e \in Seq(X) /\ Range(e) = {} /\ IsInjective(e)
  BY DEF Range, IsInjective
<1> HIDE DEF flc, e
<1>5. Rearranged(InPlaces(t, e, o, flc), InPlaces(tf, l, o, c))
  <2>1. /\ Range(InPlaces(t, e, o, flc)) = Range(t) \cup Range(e) \cup Range(o) \cup Range(flc)
        /\ IsInjective(InPlaces(t, e, o, flc)) <=> AllApart(t, e, o, flc)
    BY <1>1, <1>4, PlacesInjective
  <2>2. /\ Range(InPlaces(tf, l, o, c)) = Range(tf) \cup Range(l) \cup Range(o) \cup Range(c)
        /\ IsInjective(InPlaces(tf, l, o, c)) <=> AllApart(tf, l, o, c)
    BY <1>1, <1>4, PlacesInjective
  <2>3. Range(InPlaces(tf, l, o, c)) = Range(InPlaces(t, e, o, flc))
    BY <1>2, <1>3, <1>4, <2>1, <2>2
  <2>4. AllApart(t, e, o, flc) => AllApart(tf, l, o, c)
    BY <1>2, <1>3, <1>4, Zenon DEF AllApart
  <2>5. QED
    BY <2>1, <2>2, <2>3, <2>4, Zenon DEF Rearranged
<1>6. Rearranged(InPlaces(t, o, e, flc), InPlaces(tf, o, l, c))
  <2>1. /\ Range(InPlaces(t, o, e, flc)) = Range(t) \cup Range(o) \cup Range(e) \cup Range(flc)
        /\ IsInjective(InPlaces(t, o, e, flc)) <=> AllApart(t, o, e, flc)
    BY <1>1, <1>4, PlacesInjective
  <2>2. /\ Range(InPlaces(tf, o, l, c)) = Range(tf) \cup Range(o) \cup Range(l) \cup Range(c)
        /\ IsInjective(InPlaces(tf, o, l, c)) <=> AllApart(tf, o, l, c)
    BY <1>1, <1>4, PlacesInjective
  <2>3. Range(InPlaces(tf, o, l, c)) = Range(InPlaces(t, o, e, flc))
    BY <1>2, <1>3, <1>4, <2>1, <2>2
  <2>4. AllApart(t, o, e, flc) => AllApart(tf, o, l, c)
    BY <1>2, <1>3, <1>4, Zenon DEF AllApart
  <2>5. QED
    BY <2>1, <2>2, <2>3, <2>4, Zenon DEF Rearranged
<1>7. Rearranged(InPlaces(t, o, fl, c), InPlaces(tf, o, l, c))
  <2>1. /\ Range(InPlaces(t, o, fl, c)) = Range(t) \cup Range(o) \cup Range(fl) \cup Range(c)
        /\ IsInjective(InPlaces(t, o, fl, c)) <=> AllApart(t, o, fl, c)
    BY <1>1, <1>4, PlacesInjective
  <2>2. /\ Range(InPlaces(tf, o, l, c)) = Range(tf) \cup Range(o) \cup Range(l) \cup Range(c)
        /\ IsInjective(InPlaces(tf, o, l, c)) <=> AllApart(tf, o, l, c)
    BY <1>1, <1>4, PlacesInjective
  <2>3. Range(InPlaces(tf, o, l, c)) = Range(InPlaces(t, o, fl, c))
    BY <1>2, <1>3, <1>4, <2>1, <2>2
  <2>4. AllApart(t, o, fl, c) => AllApart(tf, o, l, c)
    BY <1>2, <1>3, <1>4, Zenon DEF AllApart
  <2>5. QED
    BY <2>1, <2>2, <2>3, <2>4, Zenon DEF Rearranged
<1>8. QED
  BY <1>5, <1>6, <1>7 DEF e, fl, flc, tf

(* The bytes of s in a come before those in b. *)
Before(s, a, b) ==
  \A u \in Range(a), v \in Range(b) : u.from = s /\ v.from = s => u.n < v.n

LEMMA InOrderConcat ==
  ASSUME NEW X, NEW s, NEW a \in Seq(X), NEW b \in Seq(X)
  PROVE  InOrder(s, a \o b) <=> InOrder(s, a) /\ InOrder(s, b) /\ Before(s, a, b)
<1> DEFINE c == a \o b
<1>1. /\ c \in Seq(X) /\ Len(c) = Len(a) + Len(b) /\ Len(a) \in Nat /\ Len(b) \in Nat
      /\ \A i \in 1..Len(c) : c[i] = IF i <= Len(a) THEN a[i] ELSE b[i - Len(a)]
  BY ConcatProperties
<1>2. DOMAIN a = 1..Len(a) /\ DOMAIN b = 1..Len(b) /\ DOMAIN c = 1..Len(c)
  BY <1>1
<1> HIDE DEF c
<1>3. \A i \in 1..Len(a) : i \in 1..Len(c) /\ c[i] = a[i] /\ i \in Int
  BY <1>1
<1>4. \A i \in 1..Len(b) : i + Len(a) \in 1..Len(c) /\ c[i + Len(a)] = b[i] /\ i \in Int
  <2>1. TAKE i \in 1..Len(b)
  <2>2. /\ i + Len(a) \in 1..Len(c) /\ ~(i + Len(a) <= Len(a)) /\ (i + Len(a)) - Len(a) = i
    BY <1>1
  <2>3. QED
    BY <1>1, <2>2
<1>5. ASSUME InOrder(s, c) PROVE InOrder(s, a) /\ InOrder(s, b) /\ Before(s, a, b)
  <2>1. \A i, j \in 1..Len(c) : i < j /\ c[i].from = s /\ c[j].from = s => c[i].n < c[j].n
    BY <1>2, <1>5 DEF InOrder
  <2>2. ASSUME NEW i \in 1..Len(a), NEW j \in 1..Len(a), i < j, a[i].from = s, a[j].from = s
        PROVE  a[i].n < a[j].n
    BY <1>3, <2>1, <2>2
  <2>3. ASSUME NEW i \in 1..Len(b), NEW j \in 1..Len(b), i < j, b[i].from = s, b[j].from = s
        PROVE  b[i].n < b[j].n
    <3>1. i + Len(a) < j + Len(a) /\ i + Len(a) \in 1..Len(c) /\ j + Len(a) \in 1..Len(c)
      BY <1>1, <1>4, <2>3
    <3>2. c[i + Len(a)] = b[i] /\ c[j + Len(a)] = b[j]
      BY <1>4
    <3>3. c[i + Len(a)].n < c[j + Len(a)].n
      BY <2>1, <2>3, <3>1, <3>2
    <3>4. QED
      BY <3>2, <3>3
  <2>4. ASSUME NEW u \in Range(a), NEW v \in Range(b), u.from = s, v.from = s PROVE u.n < v.n
    <3>1. PICK i \in 1..Len(a) : u = a[i]
      BY <1>2 DEF Range
    <3>2. PICK j \in 1..Len(b) : v = b[j]
      BY <1>2 DEF Range
    <3>3. /\ i \in 1..Len(c) /\ j + Len(a) \in 1..Len(c) /\ i < j + Len(a)
          /\ c[i] = u /\ c[j + Len(a)] = v
      BY <1>1, <1>3, <1>4, <3>1, <3>2
    <3>4. QED
      BY <2>1, <2>4, <3>3
  <2>5. InOrder(s, a) /\ InOrder(s, b)
    BY <1>2, <2>2, <2>3 DEF InOrder
  <2>6. QED
    BY <2>4, <2>5 DEF Before
<1>6. ASSUME InOrder(s, a), InOrder(s, b), Before(s, a, b),
             NEW i \in 1..Len(c), NEW j \in 1..Len(c), i < j, c[i].from = s, c[j].from = s
      PROVE  c[i].n < c[j].n
  <2>1. /\ \A m, n \in 1..Len(a) : m < n /\ a[m].from = s /\ a[n].from = s => a[m].n < a[n].n
        /\ \A m, n \in 1..Len(b) : m < n /\ b[m].from = s /\ b[n].from = s => b[m].n < b[n].n
    BY <1>2, <1>6 DEF InOrder
  <2>2. \A m \in 1..Len(a), n \in 1..Len(b) : a[m].from = s /\ b[n].from = s => a[m].n < b[n].n
    <3>1. \A m \in 1..Len(a) : a[m] \in Range(a)
      BY <1>2 DEF Range
    <3>2. \A n \in 1..Len(b) : b[n] \in Range(b)
      BY <1>2 DEF Range
    <3>3. QED
      BY <1>6, <3>1, <3>2 DEF Before
  <2>3. \A k \in 1..Len(c) :
          \/ k \in 1..Len(a) /\ c[k] = a[k]
          \/ k - Len(a) \in 1..Len(b) /\ c[k] = b[k - Len(a)] /\ ~(k <= Len(a))
    BY <1>1
  <2>4. CASE i \in 1..Len(a) /\ c[i] = a[i]
    <3>1. CASE j \in 1..Len(a) /\ c[j] = a[j]
      BY <1>6, <2>1, <2>4, <3>1
    <3>2. CASE j - Len(a) \in 1..Len(b) /\ c[j] = b[j - Len(a)]
      BY <1>6, <2>2, <2>4, <3>2
    <3>3. QED
      BY <2>3, <3>1, <3>2
  <2>5. CASE i - Len(a) \in 1..Len(b) /\ c[i] = b[i - Len(a)] /\ ~(i <= Len(a))
    <3>1. ~(j <= Len(a))
      BY <1>1, <1>6, <2>5
    <3>2. j - Len(a) \in 1..Len(b) /\ c[j] = b[j - Len(a)]
      BY <1>1, <2>3, <3>1
    <3>3. i - Len(a) < j - Len(a)
      BY <1>1, <1>6
    <3>4. QED
      BY <1>6, <2>1, <2>5, <3>2, <3>3
  <2>6. QED
    BY <2>3, <2>4, <2>5
<1>7. QED
  BY <1>2, <1>5, <1>6 DEF InOrder, c

-----------------------------------------------------------------------------
(* The inductive invariant *)

Begun(q) == Bytes(StateOf(q).messageReceive)
InParts(q) == Bytes(StateOf(q).segmentReceive)
Queued(q) == BytesIn(StateOf(q).messages)
Waiting(q) == Bytes(StateOf(q).pending)
Got(q) == InPlaces(taken[q], Begun(q), InParts(q), Queued(q))

(* The bytes sent so far, and those sent through q. *)
Known == {u \in Units : u.n <= sent[u.from]}
Own(q) == {u \in Known : u.from = q}

(* The last of the units is the last byte of a text sent with this key. *)
Ended(part) ==
  [unit |-> part.units[Len(part.units)], key |-> part.endKey] \in ends

(* The others ended no text whose key is in K. *)
EndedInside(part, K) ==
  \A i \in 1..Len(part.units) : \A e \in ends :
    i < Len(part.units) /\ e.unit = part.units[i] => e.key \in K

(* What may be left of a text; of a text with ESI that waits for the rest; *)
(* of a complete message; of a message that RECEIVE MESSAGE flattened.     *)
Pieces == {g \in Parts(Known) : g.units # <<>> /\ Ended(g) /\ EndedInside(g, {})}
WaitingPieces(q) == {g \in Pieces : g.endKey = 1 /\ g.units \in Seq(Own(q))}
Complete(m) == m # <<>> /\ \A n \in 1..Len(m) : m[n].endKey = 1 <=> n < Len(m)
Messages == {m \in Seq(Pieces) : Complete(m)}
Flat == {a \in Parts(Known) : a.units # <<>> /\ a.endKey # 1 /\ Ended(a) /\ EndedInside(a, {1})}

Contents(q) == [enabled : BOOLEAN, messages : Seq(Messages), pending : Seq(WaitingPieces(q)),
                messageReceive : Seq(Flat), segmentReceive : Seq(Pieces), lastEndKey : 0..3]

QueueOK(q) ==
  /\ StateOf(q) \in Contents(q)
  /\ Len(StateOf(q).messageReceive) <= 1
  /\ "Message" \in Modes[q] \/ StateOf(q).messageReceive = <<>>
  /\ "Segment" \in Modes[q] \/ StateOf(q).segmentReceive = <<>>

QueuesOK == DOMAIN queues \subseteq Queues /\ \A q \in Queues : QueueOK(q)

ReplyOK == reply \in [op : Calls, queue : Queues, status : {0, 10, 20, 21, 30, 40, 50, 60}]

HistoryOK ==
  /\ sent \in [Queues -> 0..MaxSent]
  /\ taken \in [Queues -> Seq(Known)]
  /\ lost \in [Queues -> SUBSET Known]
  /\ ends \in SUBSET [unit : Known, key : 1..3]
  /\ \A e, f \in ends : e.unit = f.unit => e = f

(* What s sent is pending, on the way to the target t, or purged. *)
Accounted ==
  \A s \in Queues : \A t \in Targets(s) :
    Surviving(s, t) \subseteq Range(Got(t)) \cup Range(Waiting(s))

NotTwice ==
  /\ \A t \in Queues : IsInjective(Got(t)) /\ IsInjective(Waiting(t))
  /\ \A s, t \in Queues : Range(Got(t)) \cap Range(Waiting(s)) = {}

OneMode(t) == "Message" \notin Modes[t] \/ "Segment" \notin Modes[t]

Ordered ==
  \A s \in Queues : \A t \in Targets(s) : OneMode(t) => InOrder(s, Got(t) \o Waiting(s))

WayOK == Accounted /\ NotTwice /\ Ordered

IInv == ReplyOK /\ QueuesOK /\ HistoryOK /\ WayOK

-----------------------------------------------------------------------------
(* What the invariant says of the bytes *)

LEMMA Widen ==
  ASSUME NEW S, NEW T, S \subseteq T, NEW s \in Seq(S)
  PROVE  s \in Seq(T)
OBVIOUS

LEMMA PieceTypes ==
  ASSUME NEW q \in Queues
  PROVE  /\ Flat \subseteq Parts(Known) /\ Pieces \subseteq Parts(Known)
         /\ Messages \subseteq Seq(Parts(Known)) /\ WaitingPieces(q) \subseteq Parts(Own(q))
         /\ WaitingPieces(q) \subseteq Pieces
<1>1. Flat \subseteq Parts(Known) /\ Pieces \subseteq Parts(Known) /\ WaitingPieces(q) \subseteq Pieces
  BY DEF Flat, Pieces, WaitingPieces
<1>2. ASSUME NEW m \in Messages PROVE m \in Seq(Parts(Known))
  <2>1. m \in Seq(Pieces)
    BY DEF Messages
  <2>2. QED
    BY <1>1, <2>1, Widen
<1>3. ASSUME NEW g \in WaitingPieces(q) PROVE g \in Parts(Own(q))
  <2>1. g \in Parts(Known) /\ g.units \in Seq(Own(q))
    BY <1>1 DEF WaitingPieces
  <2>2. QED
    BY <2>1 DEF Parts
<1>4. QED
  BY <1>1, <1>2, <1>3

LEMMA StateTypes ==
  ASSUME NEW q \in Queues, QueueOK(q)
  PROVE  /\ StateOf(q).messageReceive \in Seq(Parts(Known))
         /\ StateOf(q).segmentReceive \in Seq(Parts(Known))
         /\ Texts(StateOf(q).messages, Known)
         /\ StateOf(q).pending \in Seq(Parts(Own(q)))
         /\ StateOf(q).pending \in Seq(Parts(Known))
<1>1. /\ StateOf(q).messageReceive \in Seq(Flat) /\ StateOf(q).segmentReceive \in Seq(Pieces)
      /\ StateOf(q).messages \in Seq(Messages) /\ StateOf(q).pending \in Seq(WaitingPieces(q))
  BY DEF QueueOK, Contents
<1>2. /\ Flat \subseteq Parts(Known) /\ Pieces \subseteq Parts(Known)
      /\ Messages \subseteq Seq(Parts(Known)) /\ WaitingPieces(q) \subseteq Parts(Own(q))
      /\ WaitingPieces(q) \subseteq Parts(Known)
  BY PieceTypes
<1>3. QED
  BY <1>1, <1>2, Widen DEF Texts

LEMMA PlaceTypes ==
  ASSUME NEW q \in Queues, QueueOK(q), HistoryOK
  PROVE  /\ taken[q] \in Seq(Known) /\ Begun(q) \in Seq(Known) /\ InParts(q) \in Seq(Known)
         /\ Queued(q) \in Seq(Known) /\ Waiting(q) \in Seq(Own(q)) /\ Waiting(q) \in Seq(Known)
         /\ Got(q) \in Seq(Known)
<1>1. taken[q] \in Seq(Known)
  BY DEF HistoryOK
<1>2. /\ Begun(q) \in Seq(Known) /\ InParts(q) \in Seq(Known)
      /\ Queued(q) \in Seq(Known) /\ Waiting(q) \in Seq(Own(q)) /\ Waiting(q) \in Seq(Known)
  BY StateTypes, BytesType, BytesInType DEF Begun, InParts, Queued, Waiting
<1>3. Got(q) \in Seq(Known)
  BY <1>1, <1>2, PlacesInjective DEF Got
<1>4. QED
  BY <1>1, <1>2, <1>3

LEMMA ElementsOf ==
  ASSUME NEW S, NEW s \in Seq(S)
  PROVE  Range(s) \subseteq S
BY DEF Range

LEMMA TargetsAreQueues ==
  ASSUME NEW q \in Queues
  PROVE  Targets(q) \subseteq Queues
<1>1. CASE q \in DOMAIN Routes
  <2>1. Routes[q] \in Seq(Queues)
    BY <1>1, RoutesAssumption
  <2>2. Range(Routes[q]) \subseteq Queues
    BY <2>1, ElementsOf
  <2>3. QED
    BY <1>1, <2>2 DEF Targets
<1>2. CASE q \notin DOMAIN Routes
  BY <1>2 DEF Targets
<1>3. QED
  BY <1>1, <1>2

LEMMA GotIs ==
  ASSUME NEW q
  PROVE  Got(q) = taken[q] \o InFlight(q)
BY DEF Got, InPlaces, Begun, InParts, Queued, InFlight

LEMMA OneModeIs ==
  ASSUME NEW q \in Queues, Cardinality(Modes[q]) <= 1
  PROVE  OneMode(q)
<1>1. SUFFICES ASSUME "Message" \in Modes[q], "Segment" \in Modes[q] PROVE FALSE
  BY DEF OneMode
<1>2. Modes[q] = {"Message", "Segment"}
  BY <1>1, SizesAssumption
<1>3. IsFiniteSet({"Message"}) /\ Cardinality({"Message"}) = 1
  BY FS_Singleton
<1>4. Cardinality({"Message"} \cup {"Segment"}) = Cardinality({"Message"}) + 1
  BY <1>3, FS_AddElement
<1>5. {"Message"} \cup {"Segment"} = {"Message", "Segment"}
  OBVIOUS
<1>6. QED
  BY <1>2, <1>3, <1>4, <1>5

-----------------------------------------------------------------------------
(* The properties follow *)

LEMMA InvariantQueuesCorrect ==
  ASSUME IInv
  PROVE  QueuesCorrect
<1>1. Known \subseteq Units
  BY DEF Known
<1>2. Parts(Known) \subseteq Segments
  <2>1. ASSUME NEW g \in Parts(Known) PROVE g \in Segments
    <3>1. g \in [units : Seq(Known), endKey : 1..3] /\ g.units \in Seq(Known)
      BY DEF Parts
    <3>2. g.units \in Seq(Units)
      BY <1>1, <3>1, Widen
    <3>3. QED
      BY <3>1, <3>2 DEF Segments
  <2>2. QED
    BY <2>1
<1>3. Seq(Parts(Known)) \subseteq Seq(Segments)
  BY <1>2, Widen
<1>4. ASSUME NEW q \in DOMAIN queues
      PROVE  /\ q \in Queues /\ queues[q] = StateOf(q) /\ QueueOK(q)
             /\ queues[q] \in [enabled : BOOLEAN, messages : Seq(Seq(Segments)), pending : Seq(Segments),
                               messageReceive : Seq(Segments), segmentReceive : Seq(Segments),
                               lastEndKey : 0..3]
  <2>1. q \in Queues /\ queues[q] = StateOf(q) /\ QueueOK(q)
    BY DEF IInv, QueuesOK, StateOf
  <2>2. /\ StateOf(q).messageReceive \in Seq(Segments) /\ StateOf(q).segmentReceive \in Seq(Segments)
        /\ StateOf(q).pending \in Seq(Segments)
    BY <1>3, <2>1, StateTypes
  <2>3. StateOf(q).messages \in Seq(Seq(Segments))
    <3>1. StateOf(q).messages \in Seq(Seq(Parts(Known)))
      BY <2>1, StateTypes DEF Texts
    <3>2. QED
      BY <1>3, <3>1, Widen
  <2>4. StateOf(q) \in Contents(q)
    BY <2>1 DEF QueueOK
  <2>5. QED
    BY <2>1, <2>2, <2>3, <2>4 DEF Contents
<1>5. TypeOK
  <2>1. taken \in [Queues -> Seq(Units)]
    BY <1>1, Widen DEF IInv, HistoryOK
  <2>2. lost \in [Queues -> SUBSET Units]
    BY <1>1 DEF IInv, HistoryOK
  <2>3. ends \in SUBSET [unit : Units, key : 1..3]
    BY <1>1 DEF IInv, HistoryOK
  <2>4. sent \in [Queues -> 0..MaxSent] /\ DOMAIN queues \subseteq Queues
    BY DEF IInv, HistoryOK, QueuesOK
  <2>5. QED
    BY <1>4, <2>1, <2>2, <2>3, <2>4 DEF IInv, ReplyOK, TypeOK
<1>6. MessagesComplete
  <2>1. SUFFICES ASSUME NEW q \in DOMAIN queues
                 PROVE  /\ \A m \in Range(queues[q].messages) :
                             m # << >> /\ \A n \in DOMAIN m : m[n].endKey = 1 <=> n < Len(m)
                        /\ \A n \in DOMAIN queues[q].pending : queues[q].pending[n].endKey = 1
    BY DEF MessagesComplete
  <2>2. queues[q].messages \in Seq(Messages) /\ queues[q].pending \in Seq(WaitingPieces(q))
    BY <1>4 DEF QueueOK, Contents
  <2>3. ASSUME NEW m \in Range(queues[q].messages)
        PROVE  m # << >> /\ \A n \in DOMAIN m : m[n].endKey = 1 <=> n < Len(m)
    <3>1. m \in Messages
      BY <2>2, ElementsOf
    <3>2. m \in Seq(Pieces) /\ Complete(m)
      BY <3>1 DEF Messages
    <3>3. DOMAIN m = 1..Len(m)
      BY <3>2
    <3>4. QED
      BY <3>2, <3>3 DEF Complete
  <2>4. ASSUME NEW n \in DOMAIN queues[q].pending PROVE queues[q].pending[n].endKey = 1
    <3>1. queues[q].pending[n] \in WaitingPieces(q)
      BY <2>2
    <3>2. QED
      BY <3>1 DEF WaitingPieces
  <2>5. QED
    BY <2>3, <2>4
<1>7. QED
  BY <1>5, <1>6 DEF QueuesCorrect

LEMMA InvariantDeliveredOnce ==
  ASSUME IInv
  PROVE  DeliveredOnce
<1>1. SUFFICES ASSUME NEW s \in Queues, NEW t \in Targets(s)
               PROVE  /\ Surviving(s, t) \ Range(Bytes(StateOf(s).pending)) \subseteq Range(taken[t] \o InFlight(t))
                      /\ IsInjective(taken[t] \o InFlight(t))
  BY DEF DeliveredOnce
<1>2. t \in Queues
  BY TargetsAreQueues
<1>3. Surviving(s, t) \subseteq Range(Got(t)) \cup Range(Waiting(s)) /\ IsInjective(Got(t))
  BY <1>1, <1>2 DEF IInv, WayOK, Accounted, NotTwice
<1>4. QED
  BY <1>3, GotIs DEF Waiting

LEMMA InvariantDeliveredInOrder ==
  ASSUME IInv
  PROVE  DeliveredInOrder
<1>1. SUFFICES ASSUME NEW s \in Queues, NEW t \in Targets(s), Cardinality(Modes[t]) <= 1
               PROVE  LET way == taken[t] \o InFlight(t) \o Bytes(StateOf(s).pending)
                      IN  /\ {u \in Range(way) : u.from = s} \ (lost[s] \cup lost[t]) = Surviving(s, t)
                          /\ InOrder(s, way)
  BY DEF DeliveredInOrder
<1> DEFINE way == Got(t) \o Waiting(s)
<1>2. t \in Queues /\ OneMode(t)
  BY <1>1, TargetsAreQueues, OneModeIs
<1>3. Got(t) \in Seq(Known) /\ Waiting(s) \in Seq(Known) /\ way \in Seq(Known)
  BY <1>2, PlaceTypes, ConcatProperties DEF IInv, QueuesOK
<1>4. way = taken[t] \o InFlight(t) \o Bytes(StateOf(s).pending)
  BY GotIs DEF Waiting
<1>5. Range(way) = Range(Got(t)) \cup Range(Waiting(s)) /\ Range(way) \subseteq Known
  BY <1>3, RangeOfConcat, ElementsOf
<1> HIDE DEF way
<1>6. InOrder(s, way)
  BY <1>1, <1>2 DEF IInv, WayOK, Ordered, way
<1>7. Surviving(s, t) \subseteq Range(way)
  BY <1>1, <1>5 DEF IInv, WayOK, Accounted
<1>8. \A u \in Surviving(s, t) : u.from = s /\ u \notin lost[s] \cup lost[t]
  BY DEF Surviving
<1>9. ASSUME NEW u \in Range(way), u.from = s, u \notin lost[s] \cup lost[t] PROVE u \in Surviving(s, t)
  <2>1. u \in Units /\ u.n <= sent[s]
    BY <1>5, <1>9 DEF Known
  <2>2. u = [from |-> s, n |-> u.n] /\ u.n \in 1..MaxSent /\ sent[s] \in 0..MaxSent
    BY <1>9, <2>1 DEF Units, IInv, HistoryOK
  <2>3. u.n \in 1..sent[s]
    BY <2>1, <2>2, SizesAssumption
  <2>4. QED
    BY <1>9, <2>2, <2>3 DEF Surviving
<1>10. {u \in Range(way) : u.from = s} \ (lost[s] \cup lost[t]) = Surviving(s, t)
  BY <1>7, <1>8, <1>9
<1>11. QED
  BY <1>4, <1>6, <1>10

-----------------------------------------------------------------------------
(* The invariant holds at first *)

LEMMA NothingThere ==
  ASSUME NEW q, StateOf(q).messageReceive = <<>>, StateOf(q).segmentReceive = <<>>,
         StateOf(q).messages = <<>>, StateOf(q).pending = <<>>
  PROVE  Begun(q) = <<>> /\ InParts(q) = <<>> /\ Queued(q) = <<>> /\ Waiting(q) = <<>>
BY BytesEmpty, BytesInEmpty DEF Begun, InParts, Queued, Waiting

LEMMA InitInvariant ==
  ASSUME Init
  PROVE  IInv
<1>1. PICK S \in SUBSET Queues : queues = [q \in S |-> [Fresh EXCEPT !.enabled = TRUE]]
  BY DEF Init
<1>2. ASSUME NEW q \in Queues
      PROVE  /\ StateOf(q) \in Contents(q) /\ StateOf(q).messageReceive = <<>>
             /\ StateOf(q).segmentReceive = <<>> /\ StateOf(q).messages = <<>>
             /\ StateOf(q).pending = <<>>
  <2> DEFINE empty(e) == [enabled |-> e, messages |-> <<>>, pending |-> <<>>,
                          messageReceive |-> <<>>, segmentReceive |-> <<>>, lastEndKey |-> 0]
  <2>1. StateOf(q) = empty(FALSE) \/ StateOf(q) = empty(TRUE)
    BY <1>1 DEF StateOf, Fresh
  <2>2. PICK e \in BOOLEAN : StateOf(q) = empty(e)
    BY <2>1
  <2>3. \A X : <<>> \in Seq(X)
    OBVIOUS
  <2>4. StateOf(q) \in Contents(q)
    BY <2>2, <2>3 DEF Contents
  <2>5. QED
    BY <2>2, <2>4
<1>3. QueuesOK
  <2>1. DOMAIN queues \subseteq Queues
    BY <1>1
  <2>2. QED
    BY <1>2, <2>1 DEF QueuesOK, QueueOK
<1>4. ReplyOK
  <2>1. (CHOOSE q \in Queues : TRUE) \in Queues
    BY SizesAssumption
  <2>2. QED
    BY <2>1 DEF Init, ReplyOK, Calls
<1>5. HistoryOK
  BY SizesAssumption DEF Init, HistoryOK
<1>6. ASSUME NEW q \in Queues PROVE Got(q) = <<>> /\ Waiting(q) = <<>>
  <2>1. taken[q] = <<>> /\ Begun(q) = <<>> /\ InParts(q) = <<>> /\ Queued(q) = <<>> /\ Waiting(q) = <<>>
    BY <1>2, NothingThere DEF Init
  <2>2. <<>> \o ((<<>> \o <<>>) \o <<>>) = <<>>
    OBVIOUS
  <2>3. QED
    BY <2>1, <2>2 DEF Got, InPlaces
<1>7. Range(<<>>) = {} /\ IsInjective(<<>>) /\ <<>> \o <<>> = <<>> /\ \A s : InOrder(s, <<>>)
  BY DEF Range, IsInjective, InOrder
<1>8. Accounted
  <2>1. \A s, t \in Queues : Surviving(s, t) = {}
    BY DEF Surviving, Init
  <2>2. QED
    BY <2>1, TargetsAreQueues DEF Accounted
<1>9. NotTwice
  BY <1>6, <1>7 DEF NotTwice
<1>10. Ordered
  <2>1. SUFFICES ASSUME NEW s \in Queues, NEW t \in Targets(s) PROVE InOrder(s, Got(t) \o Waiting(s))
    BY DEF Ordered
  <2>2. t \in Queues
    BY TargetsAreQueues
  <2>3. Got(t) \o Waiting(s) = <<>>
    BY <1>6, <1>7, <2>2
  <2>4. QED
    BY <1>7, <2>3
<1>11. QED
  BY <1>3, <1>4, <1>5, <1>8, <1>9, <1>10 DEF IInv, WayOK

-----------------------------------------------------------------------------
(* Steps that lose and add nothing *)

LEMMA WayKept ==
  ASSUME IInv, sent' = sent, lost' = lost,
         \A q \in Queues : /\ Waiting(q)' = Waiting(q) /\ Rearranged(Got(q), Got(q)')
                           /\ OneMode(q) => Got(q)' = Got(q)
  PROVE  WayOK'
<1>1. \A s, t \in Queues : Surviving(s, t)' = Surviving(s, t)
  BY DEF Surviving
<1>2. /\ \A q \in Queues : Range(Got(q)') = Range(Got(q)) /\ (IsInjective(Got(q)) => IsInjective(Got(q)'))
      /\ \A q \in Queues : Waiting(q)' = Waiting(q)
  BY DEF Rearranged
<1>3. Accounted'
  <2>1. SUFFICES ASSUME NEW s \in Queues, NEW t \in Targets(s)
                 PROVE  Surviving(s, t)' \subseteq Range(Got(t)') \cup Range(Waiting(s)')
    BY DEF Accounted
  <2>2. t \in Queues
    BY TargetsAreQueues
  <2>3. Surviving(s, t) \subseteq Range(Got(t)) \cup Range(Waiting(s))
    BY DEF IInv, WayOK, Accounted
  <2>4. QED
    BY <1>1, <1>2, <2>2, <2>3
<1>4. NotTwice'
  <2>1. /\ \A t \in Queues : IsInjective(Got(t)) /\ IsInjective(Waiting(t))
        /\ \A s, t \in Queues : Range(Got(t)) \cap Range(Waiting(s)) = {}
    BY DEF IInv, WayOK, NotTwice
  <2>2. \A t \in Queues : IsInjective(Got(t)') /\ IsInjective(Waiting(t)')
    BY <1>2, <2>1
  <2>3. \A s, t \in Queues : Range(Got(t)') \cap Range(Waiting(s)') = {}
    BY <1>2, <2>1
  <2>4. QED
    BY <2>2, <2>3 DEF NotTwice
<1>5. Ordered'
  <2>1. SUFFICES ASSUME NEW s \in Queues, NEW t \in Targets(s), OneMode(t)
                 PROVE  InOrder(s, Got(t)' \o Waiting(s)')
    BY DEF Ordered, InOrder, OneMode
  <2>2. Got(t)' = Got(t) /\ Waiting(s)' = Waiting(s)
    BY <2>1, TargetsAreQueues
  <2>3. InOrder(s, Got(t) \o Waiting(s))
    BY <2>1 DEF IInv, WayOK, Ordered
  <2>4. QED
    BY <2>2, <2>3
<1>6. QED
  BY <1>3, <1>4, <1>5 DEF WayOK

LEMMA SameSets ==
  ASSUME sent' = sent, ends' = ends
  PROVE  /\ Known' = Known /\ Pieces' = Pieces /\ Messages' = Messages /\ Flat' = Flat
         /\ \A q : Own(q)' = Own(q) /\ WaitingPieces(q)' = WaitingPieces(q) /\ Contents(q)' = Contents(q)
<1>1. Known' = Known
  BY DEF Known
<1>2. Pieces' = Pieces /\ Flat' = Flat
  BY <1>1 DEF Pieces, Flat, Ended, EndedInside
<1>3. Messages' = Messages
  BY <1>2 DEF Messages, Complete
<1>4. \A q : Own(q)' = Own(q)
  BY <1>1 DEF Own
<1>5. \A q : WaitingPieces(q)' = WaitingPieces(q)
  BY <1>2, <1>4 DEF WaitingPieces
<1>6. \A q : Contents(q)' = Contents(q)
  BY <1>2, <1>3, <1>5 DEF Contents
<1>7. QED
  BY <1>1, <1>2, <1>3, <1>4, <1>5, <1>6

(* A call that only switches a queue or sets its last end key. *)
Quiet ==
  /\ UNCHANGED history /\ ReplyOK' /\ DOMAIN queues' \subseteq Queues
  /\ \A q \in Queues : \E b \in BOOLEAN : \E k \in 0..3 :
       StateOf(q)' = [StateOf(q) EXCEPT !.enabled = b, !.lastEndKey = k]

LEMMA QuietKeeps ==
  ASSUME IInv, Quiet
  PROVE  IInv'
<1>1. sent' = sent /\ taken' = taken /\ lost' = lost /\ ends' = ends
  BY DEF Quiet, history
<1>2. \A q \in Queues : Contents(q)' = Contents(q) /\ Known' = Known
  BY <1>1, SameSets
<1>3. ASSUME NEW q \in Queues
      PROVE  /\ QueueOK(q)' /\ Begun(q)' = Begun(q) /\ InParts(q)' = InParts(q)
             /\ Queued(q)' = Queued(q) /\ Waiting(q)' = Waiting(q)
  <2>1. PICK b \in BOOLEAN : \E k \in 0..3 : StateOf(q)' = [StateOf(q) EXCEPT !.enabled = b, !.lastEndKey = k]
    BY DEF Quiet
  <2>2. PICK k \in 0..3 : StateOf(q)' = [StateOf(q) EXCEPT !.enabled = b, !.lastEndKey = k]
    BY <2>1
  <2>3. QueueOK(q)
    BY DEF IInv, QueuesOK
  <2>4. StateOf(q) \in Contents(q)
    BY <2>3 DEF QueueOK
  <2>5. /\ StateOf(q)' \in Contents(q)
        /\ StateOf(q)'.messages = StateOf(q).messages /\ StateOf(q)'.pending = StateOf(q).pending
        /\ StateOf(q)'.messageReceive = StateOf(q).messageReceive
        /\ StateOf(q)'.segmentReceive = StateOf(q).segmentReceive
    BY <2>2, <2>4 DEF Contents
  <2>6. QueueOK(q)'
    BY <1>2, <2>3, <2>5 DEF QueueOK
  <2>7. QED
    BY <2>5, <2>6 DEF Begun, InParts, Queued, Waiting
<1>4. QueuesOK' /\ ReplyOK' /\ HistoryOK'
  <2>1. QueuesOK' /\ ReplyOK'
    BY <1>3 DEF Quiet, QueuesOK
  <2>2. HistoryOK'
    BY <1>1, SameSets DEF IInv, HistoryOK
  <2>3. QED
    BY <2>1, <2>2
<1>5. ASSUME NEW q \in Queues PROVE Got(q)' = Got(q) /\ Rearranged(Got(q), Got(q)')
  BY <1>1, <1>3 DEF Got, Rearranged
<1>6. WayOK'
  BY <1>1, <1>3, <1>5, WayKept
<1>7. QED
  BY <1>4, <1>6 DEF IInv

LEMMA OneQueueQuiet ==
  ASSUME IInv, UNCHANGED history, ReplyOK', NEW q \in Queues,
         \/ queues' = queues
         \/ \E b \in BOOLEAN : \E k \in 0..3 :
              queues' = With(queues, q, [StateOf(q) EXCEPT !.enabled = b, !.lastEndKey = k])
  PROVE  Quiet
<1>1. DOMAIN queues \subseteq Queues /\ \A p \in Queues : QueueOK(p)
  BY DEF IInv, QueuesOK
<1>2. ASSUME NEW p \in Queues
      PROVE  \E b \in BOOLEAN : \E k \in 0..3 :
               StateOf(p) = [StateOf(p) EXCEPT !.enabled = b, !.lastEndKey = k]
  <2>1. StateOf(p) \in Contents(p)
    BY <1>1 DEF QueueOK
  <2>2. /\ StateOf(p).enabled \in BOOLEAN /\ StateOf(p).lastEndKey \in 0..3
        /\ StateOf(p) = [StateOf(p) EXCEPT !.enabled = StateOf(p).enabled, !.lastEndKey = StateOf(p).lastEndKey]
    BY <2>1 DEF Contents
  <2>3. QED
    BY <2>2
<1>3. CASE queues' = queues
  <2>1. \A p \in Queues : StateOf(p)' = StateOf(p)
    BY <1>3 DEF StateOf
  <2>2. QED
    BY <1>1, <1>2, <1>3, <2>1 DEF Quiet
<1>4. ASSUME NEW b \in BOOLEAN, NEW k \in 0..3,
             queues' = With(queues, q, [StateOf(q) EXCEPT !.enabled = b, !.lastEndKey = k])
      PROVE  Quiet
  <2>1. /\ DOMAIN queues' = DOMAIN queues \cup {q}
        /\ \A p : StateOf(p)' = IF p = q THEN [StateOf(q) EXCEPT !.enabled = b, !.lastEndKey = k] ELSE StateOf(p)
    BY <1>4, WithState
  <2>2. ASSUME NEW p \in Queues
        PROVE  \E c \in BOOLEAN : \E n \in 0..3 :
                 StateOf(p)' = [StateOf(p) EXCEPT !.enabled = c, !.lastEndKey = n]
    <3>1. CASE p = q
      BY <2>1, <3>1
    <3>2. CASE p # q
      BY <1>2, <2>1, <3>2
    <3>3. QED
      BY <3>1, <3>2
  <2>3. QED
    BY <1>1, <2>1, <2>2 DEF Quiet
<1>5. QED
  BY <1>3, <1>4

LEMMA ReplyIs ==
  ASSUME NEW q \in Queues, NEW op \in Calls, NEW status \in {0, 10, 20, 21, 30, 40, 50, 60},
         Says(op, q, status)
  PROVE  ReplyOK' /\ reply' = [op |-> op, queue |-> q, status |-> status]
BY DEF Says, ReplyOK

LEMMA SwitchIsQuiet ==
  ASSUME IInv, NEW q \in Queues, Enable(q) \/ Disable(q)
  PROVE  Quiet
<1>1. PICK on \in BOOLEAN : \E op \in {"enable", "disable"} : Switch(op, q, on)
  BY DEF Enable, Disable
<1>2. PICK op \in {"enable", "disable"} : Switch(op, q, on)
  BY <1>1
<1>3. PICK status \in SwitchStatus(q) :
        /\ queues' = IF status = 0 THEN With(queues, q, [StateOf(q) EXCEPT !.enabled = on]) ELSE queues
        /\ Says(op, q, status)
        /\ UNCHANGED history
  BY <1>2 DEF Switch
<1>4. status \in {0, 10, 20, 21, 30, 40, 50, 60} /\ op \in Calls
  BY DEF SwitchStatus, SelectorStatus, KeyStatus, SourceStatus, DestinationStatus, Calls
<1>5. StateOf(q) \in Contents(q)
  BY DEF IInv, QueuesOK, QueueOK
<1>6. /\ StateOf(q).lastEndKey \in 0..3
      /\ [StateOf(q) EXCEPT !.enabled = on]
           = [StateOf(q) EXCEPT !.enabled = on, !.lastEndKey = StateOf(q).lastEndKey]
  BY <1>5 DEF Contents
<1>7. \/ queues' = queues
      \/ queues' = With(queues, q, [StateOf(q) EXCEPT !.enabled = on, !.lastEndKey = StateOf(q).lastEndKey])
  BY <1>3, <1>6
<1>8. ReplyOK'
  BY <1>3, <1>4, ReplyIs
<1>9. QED
  BY <1>3, <1>6, <1>7, <1>8, OneQueueQuiet

LEMMA RefusedSendIsQuiet ==
  ASSUME IInv, NEW q \in Queues, SendInvalid(q) \/ SendDisabled(q)
  PROVE  Quiet
<1>1. CASE SendInvalid(q)
  <2>1. PICK status \in DestinationStatus(q) \cup {50, 60} : Says("send", q, status)
    BY <1>1 DEF SendInvalid
  <2>2. status \in {0, 10, 20, 21, 30, 40, 50, 60} /\ "send" \in Calls
    BY DEF DestinationStatus, Calls
  <2>3. ReplyOK'
    BY <2>1, <2>2, ReplyIs
  <2>4. QED
    BY <1>1, <2>3, OneQueueQuiet DEF SendInvalid
<1>2. CASE SendDisabled(q)
  <2>1. ReplyOK'
    BY <1>2, ReplyIs DEF SendDisabled, Calls
  <2>2. /\ StateOf(q).enabled \in BOOLEAN /\ StateOf(q).lastEndKey \in 0..3
        /\ StateOf(q) = [StateOf(q) EXCEPT !.enabled = StateOf(q).enabled, !.lastEndKey = StateOf(q).lastEndKey]
    <3>1. StateOf(q) \in Contents(q)
      BY DEF IInv, QueuesOK, QueueOK
    <3>2. QED
      BY <3>1 DEF Contents
  <2>3. queues' = With(queues, q, [StateOf(q) EXCEPT !.enabled = StateOf(q).enabled, !.lastEndKey = StateOf(q).lastEndKey])
    BY <1>2, <2>2 DEF SendDisabled
  <2>4. UNCHANGED history
    BY <1>2 DEF SendDisabled
  <2>5. QED
    BY <2>1, <2>2, <2>3, <2>4, OneQueueQuiet
<1>3. QED
  BY <1>1, <1>2

LEMMA EmptyReceiveIsQuiet ==
  ASSUME IInv, NEW q \in Queues, ReceiveRefused(q) \/ ReceiveNothing(q) \/ AcceptCount(q)
  PROVE  Quiet
<1>1. ReplyOK' /\ UNCHANGED history
  <2>1. CASE ReceiveRefused(q)
    BY <2>1, ReplyIs DEF ReceiveRefused, Calls
  <2>2. CASE ReceiveNothing(q)
    BY <2>2, ReplyIs DEF ReceiveNothing, Calls
  <2>3. CASE AcceptCount(q)
    <3>1. PICK status \in SelectorStatus(q) : Says("acceptCount", q, status)
      BY <2>3 DEF AcceptCount
    <3>2. status \in {0, 10, 20, 21, 30, 40, 50, 60} /\ "acceptCount" \in Calls
      BY DEF SelectorStatus, Calls
    <3>3. QED
      BY <2>3, <3>1, <3>2, ReplyIs DEF AcceptCount
  <2>4. QED
    BY <2>1, <2>2, <2>3
<1>2. /\ StateOf(q).enabled \in BOOLEAN
      /\ [StateOf(q) EXCEPT !.lastEndKey = 1]
           = [StateOf(q) EXCEPT !.enabled = StateOf(q).enabled, !.lastEndKey = 1]
  <2>1. StateOf(q) \in Contents(q)
    BY DEF IInv, QueuesOK, QueueOK
  <2>2. QED
    BY <2>1 DEF Contents
<1>3. \/ queues' = queues
      \/ queues' = With(queues, q, [StateOf(q) EXCEPT !.enabled = StateOf(q).enabled, !.lastEndKey = 1])
  BY <1>2 DEF ReceiveRefused, ReceiveNothing, AcceptCount
<1>4. 1 \in 0..3
  OBVIOUS
<1>5. QED
  BY <1>1, <1>2, <1>3, <1>4, OneQueueQuiet

-----------------------------------------------------------------------------
(* PURGE *)

LEMMA InOrderParts ==
  ASSUME NEW X, NEW s, NEW a \in Seq(X), NEW b \in Seq(X), NEW c \in Seq(X), NEW d \in Seq(X),
         InOrder(s, a \o b), InOrder(s, c), InOrder(s, d),
         Range(c) \subseteq Range(a), Range(d) \subseteq Range(b)
  PROVE  InOrder(s, c \o d)
<1>1. Before(s, a, b)
  BY InOrderConcat
<1>2. Before(s, c, d)
  BY <1>1 DEF Before
<1>3. QED
  BY <1>2, InOrderConcat

LEMMA PurgeKeeps ==
  ASSUME IInv, NEW q \in Queues, Purge(q)
  PROVE  IInv'
<1>1. sent' = sent /\ taken' = taken /\ ends' = ends /\ queues' = With(queues, q, Purged(q))
  BY DEF Purge
<1>2. lost' = [lost EXCEPT ![q] = lost[q] \cup Range(InFlight(q)) \cup Range(Waiting(q))]
  BY DEF Purge, Waiting
<1>3. \A p \in Queues : QueueOK(p)
  BY DEF IInv, QueuesOK
<1>4. /\ DOMAIN queues' = DOMAIN queues \cup {q}
      /\ \A p : StateOf(p)' = IF p = q THEN Purged(q) ELSE StateOf(p)
  BY <1>1, WithState
<1>5. /\ Known' = Known
      /\ \A p : Contents(p)' = Contents(p)
  BY <1>1, SameSets
<1>6. /\ Purged(q) \in Contents(q) /\ Purged(q).messageReceive = <<>> /\ Purged(q).segmentReceive = <<>>
      /\ Purged(q).messages = <<>> /\ Purged(q).pending = <<>>
  <2> DEFINE e == StateOf(q).enabled
  <2>1. e \in BOOLEAN
    BY <1>3 DEF QueueOK, Contents
  <2> HIDE DEF e
  <2>2. Purged(q) = [enabled |-> e, messages |-> <<>>, pending |-> <<>>, messageReceive |-> <<>>,
                     segmentReceive |-> <<>>, lastEndKey |-> 1]
    <3> DEFINE n == <<>>
    <3>1. Fresh = [enabled |-> FALSE, messages |-> n, pending |-> n, messageReceive |-> n,
                   segmentReceive |-> n, lastEndKey |-> 0]
      BY DEF Fresh
    <3>2. Purged(q) = [Fresh EXCEPT !.enabled = e, !.lastEndKey = 1]
      BY DEF Purged, e
    <3> HIDE DEF n
    <3>3. Purged(q) = [enabled |-> e, messages |-> n, pending |-> n, messageReceive |-> n,
                       segmentReceive |-> n, lastEndKey |-> 1]
      BY <3>1, <3>2
    <3>4. QED
      BY <3>3 DEF n
  <2>3. \A X : <<>> \in Seq(X)
    OBVIOUS
  <2>4. Purged(q) \in Contents(q)
    BY <2>1, <2>2, <2>3 DEF Contents
  <2>5. QED
    BY <2>2, <2>4
<1>7. Begun(q)' = <<>> /\ InParts(q)' = <<>> /\ Queued(q)' = <<>> /\ Waiting(q)' = <<>>
  <2>1. StateOf(q)' = Purged(q)
    BY <1>4
  <2>2. QED
    BY <1>6, <2>1, BytesEmpty, BytesInEmpty DEF Begun, InParts, Queued, Waiting
<1>8. ASSUME NEW p \in Queues, p # q
      PROVE  QueueOK(p)' /\ Got(p)' = Got(p) /\ Waiting(p)' = Waiting(p)
  <2>1. StateOf(p)' = StateOf(p)
    BY <1>4, <1>8
  <2>2. QED
    BY <1>1, <1>3, <1>5, <2>1 DEF QueueOK, Got, Begun, InParts, Queued, Waiting
<1>9. QueueOK(q)'
  <2>1. StateOf(q)' = Purged(q)
    BY <1>4
  <2>2. Len(<<>>) <= 1
    OBVIOUS
  <2>3. QED
    BY <1>5, <1>6, <2>1, <2>2 DEF QueueOK
<1>10. /\ taken[q] \in Seq(Known) /\ InFlight(q) \in Seq(Known) /\ Waiting(q) \in Seq(Known)
       /\ Got(q) = taken[q] \o InFlight(q)
       /\ Range(Got(q)) = Range(taken[q]) \cup Range(InFlight(q))
       /\ IsInjective(Got(q)) => IsInjective(taken[q])
  <2>1. /\ taken[q] \in Seq(Known) /\ Begun(q) \in Seq(Known) /\ InParts(q) \in Seq(Known)
        /\ Queued(q) \in Seq(Known) /\ Waiting(q) \in Seq(Known)
    BY <1>3, PlaceTypes DEF IInv
  <2>2. InFlight(q) = (Begun(q) \o InParts(q)) \o Queued(q)
    BY DEF InFlight, Begun, InParts, Queued
  <2>3. InFlight(q) \in Seq(Known)
    BY <2>1, <2>2, ConcatProperties
  <2>4. Got(q) = taken[q] \o InFlight(q)
    BY GotIs
  <2>5. Range(taken[q] \o InFlight(q)) = Range(taken[q]) \cup Range(InFlight(q))
    BY <2>1, <2>3, RangeOfConcat
  <2>6. IsInjective(taken[q] \o InFlight(q)) => IsInjective(taken[q])
    BY <2>1, <2>3, InjectiveConcat
  <2>7. QED
    BY <2>1, <2>3, <2>4, <2>5, <2>6
<1>11. Got(q)' = taken[q]
  <2>1. Got(q)' = taken[q] \o ((<<>> \o <<>>) \o <<>>)
    BY <1>1, <1>7 DEF Got, InPlaces
  <2>2. (<<>> \o <<>>) \o <<>> = <<>>
    OBVIOUS
  <2>3. QED
    BY <1>10, <2>1, <2>2, ConcatEmptySeq
<1>12. QueuesOK'
  BY <1>4, <1>8, <1>9 DEF IInv, QueuesOK
<1>13. ReplyOK'
  BY ReplyIs DEF Purge, Calls
<1>14. HistoryOK'
  <2>1. Range(InFlight(q)) \subseteq Known /\ Range(Waiting(q)) \subseteq Known
    BY <1>10, ElementsOf
  <2>2. lost' \in [Queues -> SUBSET Known]
    BY <1>2, <2>1 DEF IInv, HistoryOK
  <2>3. QED
    BY <1>1, <1>5, <2>2 DEF IInv, HistoryOK
<1>15. /\ \A p \in Queues : lost[p] \subseteq lost'[p]
       /\ Range(InFlight(q)) \cup Range(Waiting(q)) \subseteq lost'[q]
  BY <1>2 DEF IInv, HistoryOK
<1>16. Range(<<>>) = {} /\ IsInjective(<<>>) /\ (\A s : InOrder(s, <<>>)) /\ <<>> \in Seq(Known)
  BY DEF Range, IsInjective, InOrder
<1>17. Accounted'
  <2>1. SUFFICES ASSUME NEW s \in Queues, NEW t \in Targets(s), NEW u \in Surviving(s, t)'
                 PROVE  u \in Range(Got(t)') \cup Range(Waiting(s)')
    BY DEF Accounted
  <2>2. t \in Queues
    BY TargetsAreQueues
  <2>3. u \in Surviving(s, t) /\ u \notin lost'[s] /\ u \notin lost'[t]
    BY <1>1, <1>15, <2>1, <2>2 DEF Surviving
  <2>4. u \in Range(Got(t)) \/ u \in Range(Waiting(s))
    BY <2>3 DEF IInv, WayOK, Accounted
  <2>5. CASE u \in Range(Waiting(s))
    BY <1>8, <1>15, <2>3, <2>5
  <2>6. CASE u \in Range(Got(t))
    BY <1>8, <1>10, <1>11, <1>15, <2>2, <2>3, <2>6
  <2>7. QED
    BY <2>4, <2>5, <2>6
<1>18. \A p \in Queues : /\ Range(Got(p)') \subseteq Range(Got(p)) /\ Range(Waiting(p)') \subseteq Range(Waiting(p))
                         /\ IsInjective(Got(p)') /\ IsInjective(Waiting(p)')
  <2>1. TAKE p \in Queues
  <2>2. IsInjective(Got(p)) /\ IsInjective(Waiting(p))
    BY DEF IInv, WayOK, NotTwice
  <2>3. CASE p = q
    BY <1>7, <1>10, <1>11, <1>16, <2>2, <2>3
  <2>4. CASE p # q
    BY <1>8, <2>2, <2>4
  <2>5. QED
    BY <2>3, <2>4
<1>19. NotTwice'
  <2>1. \A s, t \in Queues : Range(Got(t)) \cap Range(Waiting(s)) = {}
    BY DEF IInv, WayOK, NotTwice
  <2>2. \A s, t \in Queues : Range(Got(t)') \cap Range(Waiting(s)') = {}
    BY <1>18, <2>1
  <2>3. QED
    BY <1>18, <2>2 DEF NotTwice
<1>20. Ordered'
  <2>1. SUFFICES ASSUME NEW s \in Queues, NEW t \in Targets(s), OneMode(t)
                 PROVE  InOrder(s, Got(t)' \o Waiting(s)')
    BY DEF Ordered, InOrder, OneMode
  <2>2. t \in Queues
    BY TargetsAreQueues
  <2>3. InOrder(s, Got(t) \o Waiting(s))
    BY <2>1 DEF IInv, WayOK, Ordered
  <2>4. Got(t) \in Seq(Known) /\ Waiting(s) \in Seq(Known)
    BY <1>3, <2>2, PlaceTypes DEF IInv
  <2>5. InOrder(s, Got(t)) /\ InOrder(s, Waiting(s))
    BY <2>3, <2>4, InOrderConcat
  <2>6. Got(t)' \in Seq(Known) /\ InOrder(s, Got(t)')
    <3>1. CASE t = q
      <4>1. Got(t) = taken[q] \o InFlight(q) /\ Got(t)' = taken[q]
        BY <1>10, <1>11, <3>1
      <4>2. QED
        BY <1>10, <2>5, <4>1, InOrderConcat
    <3>2. CASE t # q
      BY <1>8, <2>2, <2>4, <2>5, <3>2
    <3>3. QED
      BY <3>1, <3>2
  <2>7. Waiting(s)' \in Seq(Known) /\ InOrder(s, Waiting(s)')
    BY <1>7, <1>8, <1>16, <2>4, <2>5
  <2>8. Range(Got(t)') \subseteq Range(Got(t)) /\ Range(Waiting(s)') \subseteq Range(Waiting(s))
    BY <1>18, <2>2
  <2>9. QED
    BY <2>3, <2>4, <2>6, <2>7, <2>8, InOrderParts
<1>21. QED
  BY <1>12, <1>13, <1>14, <1>17, <1>19, <1>20 DEF IInv, WayOK

-----------------------------------------------------------------------------
(* RECEIVE *)

(* The last units of a text end as the text does, and no earlier. *)
LEMMA RestEnds ==
  ASSUME NEW a \in Parts(Known), a.units # <<>>, Ended(a), NEW K, EndedInside(a, K),
         NEW size \in Nat \ {0}, Left(a.units, size) # <<>>
  PROVE  LET b == [a EXCEPT !.units = Left(a.units, size)]
         IN  /\ b \in Parts(Known) /\ b.units = Left(a.units, size) /\ b.endKey = a.endKey
             /\ Ended(b) /\ EndedInside(b, K)
<1> DEFINE u == a.units
           r == Left(u, size)
           f == Fitting(u, size)
           b == [a EXCEPT !.units = r]
<1>1. u \in Seq(Known) /\ u # <<>> /\ Len(u) \in Nat
  BY DEF Parts
<1> HIDE DEF u
<1>2. /\ r \in Seq(Known) /\ Len(f) \in 1..Len(u) /\ Len(r) = Len(u) - Len(f)
      /\ \A i \in 1..Len(r) : r[i] = u[i + Len(f)]
  BY <1>1, CutUnits
<1> HIDE DEF r, f
<1>3. r # <<>>
  BY DEF r, u
<1>4. b \in Parts(Known) /\ b.units = r /\ b.endKey = a.endKey
  BY <1>2 DEF Parts
<1> HIDE DEF b
<1>5. Len(r) \in 1..Len(r) /\ Len(r) + Len(f) = Len(u) /\ Len(f) \in Nat /\ Len(r) \in Nat
  BY <1>1, <1>2, <1>3
<1>6. r[Len(r)] = u[Len(u)]
  BY <1>2, <1>5
<1>7. Ended(b)
  BY <1>4, <1>6 DEF Ended, u
<1>8. EndedInside(b, K)
  <2>1. SUFFICES ASSUME NEW i \in 1..Len(r), NEW e \in ends, i < Len(r), e.unit = r[i] PROVE e.key \in K
    BY <1>4 DEF EndedInside
  <2>2. i + Len(f) \in 1..Len(u) /\ i + Len(f) < Len(u) /\ e.unit = u[i + Len(f)]
    BY <1>1, <1>2, <1>5, <2>1
  <2>3. QED
    BY <2>2 DEF EndedInside, u
<1>9. QED
  BY <1>4, <1>7, <1>8 DEF b, r, u

LEMMA RestIsFlat ==
  ASSUME NEW a \in Flat, NEW size \in Nat \ {0}, Left(a.units, size) # <<>>
  PROVE  [a EXCEPT !.units = Left(a.units, size)] \in Flat
<1>1. a \in Parts(Known) /\ a.units # <<>> /\ a.endKey # 1 /\ Ended(a) /\ EndedInside(a, {1})
  BY DEF Flat
<1>2. QED
  BY <1>1, RestEnds DEF Flat

LEMMA RestIsPiece ==
  ASSUME NEW a \in Pieces, NEW size \in Nat \ {0}, Left(a.units, size) # <<>>
  PROVE  [a EXCEPT !.units = Left(a.units, size)] \in Pieces
<1>1. a \in Parts(Known) /\ a.units # <<>> /\ Ended(a) /\ EndedInside(a, {})
  BY DEF Pieces
<1>2. QED
  BY <1>1, RestEnds DEF Pieces

(* The bytes that end only texts with ESI. *)
Unfinished == {u \in Known : \A e \in ends : e.unit = u => e.key = 1}

LEMMA PieceUnfinished ==
  ASSUME HistoryOK, NEW g \in Pieces, g.endKey = 1
  PROVE  g \in Parts(Unfinished)
<1>1. g \in Parts(Known) /\ g.units # <<>> /\ Ended(g) /\ EndedInside(g, {})
  BY DEF Pieces
<1>2. g.units \in Seq(Known) /\ Len(g.units) \in Nat /\ g.endKey \in 1..3
      /\ g = [units |-> g.units, endKey |-> g.endKey]
  BY <1>1 DEF Parts
<1>3. ASSUME NEW i \in 1..Len(g.units) PROVE g.units[i] \in Unfinished
  <2>1. SUFFICES ASSUME NEW e \in ends, e.unit = g.units[i] PROVE e.key = 1
    BY <1>2 DEF Unfinished
  <2>2. CASE i < Len(g.units)
    BY <1>1, <2>1, <2>2 DEF EndedInside
  <2>3. CASE ~(i < Len(g.units))
    <3>1. i = Len(g.units)
      BY <1>2, <2>3
    <3>2. [unit |-> g.units[i], key |-> 1] \in ends
      BY <1>1, <3>1 DEF Ended
    <3>3. e = [unit |-> g.units[i], key |-> 1]
      BY <2>1, <3>2 DEF HistoryOK
    <3>4. QED
      BY <3>3
  <2>4. QED
    BY <2>2, <2>3
<1>4. g.units \in Seq(Unfinished)
  BY <1>2, <1>3
<1>5. QED
  BY <1>2, <1>4 DEF Parts

LEMMA FlattenedIsFlat ==
  ASSUME HistoryOK, NEW m \in Messages
  PROVE  Flattened(m) \in Flat
<1> DEFINE p == Front(m)
           g == m[Len(m)]
<1>1. m \in Seq(Pieces) /\ m # <<>> /\ \A n \in 1..Len(m) : m[n].endKey = 1 <=> n < Len(m)
  BY DEF Messages, Complete
<1>2. /\ p \in Seq(Pieces) /\ Len(p) = Len(m) - 1 /\ \A i \in 1..(Len(m) - 1) : p[i] = m[i]
  BY <1>1, FrontProperties
<1>3. g \in Pieces /\ Len(m) \in Nat \ {0} /\ g.endKey # 1
  BY <1>1
<1>4. \A i \in 1..Len(p) : p[i] \in Parts(Unfinished)
  <2>1. TAKE i \in 1..Len(p)
  <2>2. p[i] \in Pieces /\ p[i] = m[i] /\ i \in 1..Len(m) /\ i < Len(m)
    BY <1>2, <1>3
  <2>3. QED
    BY <1>1, <2>2, PieceUnfinished
<1>5. p \in Seq(Parts(Unfinished))
  BY <1>2, <1>4
<1>6. m = Append(p, g)
  BY <1>1, <1>2, <1>3
<1> HIDE DEF p, g
<1>7. g \in Parts(Known) /\ g.units # <<>> /\ Ended(g) /\ EndedInside(g, {}) /\ Pieces \subseteq Parts(Known)
  BY <1>3 DEF Pieces
<1> DEFINE a == Bytes(p)
           b == g.units
           c == Bytes(m)
<1>8. c = a \o b
  <2>1. p \in Seq(Parts(Known))
    BY <1>2, <1>7, Widen
  <2>2. QED
    BY <1>6, <1>7, <2>1, BytesAppend
<1>9. a \in Seq(Unfinished) /\ a \in Seq(Known) /\ b \in Seq(Known) /\ b # <<>> /\ g.endKey \in 1..3
  <2>1. a \in Seq(Unfinished)
    BY <1>5, BytesType
  <2>2. Unfinished \subseteq Known
    BY DEF Unfinished
  <2>3. QED
    BY <1>7, <2>1, <2>2, Widen DEF Parts
<1> HIDE DEF a, c
<1>10. /\ c \in Seq(Known) /\ Len(c) = Len(a) + Len(b) /\ Len(a) \in Nat /\ Len(b) \in Nat /\ Len(b) > 0
       /\ \A i \in 1..Len(c) : c[i] = IF i <= Len(a) THEN a[i] ELSE b[i - Len(a)]
  BY <1>8, <1>9, ConcatProperties
<1>11. c # <<>> /\ c[Len(c)] = b[Len(b)]
  <2>1. Len(c) \in 1..Len(c) /\ ~(Len(c) <= Len(a)) /\ Len(c) - Len(a) = Len(b)
    BY <1>10
  <2>2. QED
    BY <1>10, <2>1
<1>12. Flattened(m) = [units |-> c, endKey |-> g.endKey]
  BY DEF Flattened, c, g
<1> DEFINE h == [units |-> c, endKey |-> g.endKey]
<1>13. h \in Parts(Known) /\ h.units = c /\ h.endKey = g.endKey
  BY <1>9, <1>10 DEF Parts
<1> HIDE DEF h
<1>14. Ended(h)
  BY <1>7, <1>11, <1>13 DEF Ended
<1>15. EndedInside(h, {1})
  <2>1. SUFFICES ASSUME NEW i \in 1..Len(c), NEW e \in ends, i < Len(c), e.unit = c[i] PROVE e.key = 1
    BY <1>13 DEF EndedInside
  <2>2. CASE i <= Len(a)
    <3>1. i \in 1..Len(a) /\ c[i] = a[i]
      BY <1>10, <2>2
    <3>2. a[i] \in Unfinished
      BY <1>9, <3>1
    <3>3. QED
      BY <2>1, <3>1, <3>2 DEF Unfinished
  <2>3. CASE ~(i <= Len(a))
    <3>1. i - Len(a) \in 1..Len(b) /\ i - Len(a) < Len(b) /\ c[i] = b[i - Len(a)]
      BY <1>10, <2>1, <2>3
    <3>2. QED
      BY <1>7, <2>1, <3>1 DEF EndedInside
  <2>4. QED
    BY <2>2, <2>3
<1>16. QED
  BY <1>3, <1>11, <1>12, <1>13, <1>14, <1>15 DEF Flat, h

(* A RECEIVE of the first units of a part, which may be all of it. *)
PartTaken(q, part, size) ==
  /\ taken' = [taken EXCEPT ![q] = taken[q] \o Fitting(part.units, size)]
  /\ sent' = sent /\ lost' = lost /\ ends' = ends
  /\ StateOf(q)'.lastEndKey = IF Left(part.units, size) = <<>> THEN part.endKey ELSE 0

OnlyQueue(q) ==
  /\ DOMAIN queues' \subseteq Queues /\ QueueOK(q)'
  /\ \A p : p # q => StateOf(p)' = StateOf(p)

LEMMA ReceiveKeeps ==
  ASSUME IInv, NEW q \in Queues, NEW part, NEW size, Fitting(part.units, size) \in Seq(Known),
         PartTaken(q, part, size), OnlyQueue(q), ReplyOK',
         Waiting(q)' = Waiting(q), Rearranged(Got(q), Got(q)'), OneMode(q) => Got(q)' = Got(q)
  PROVE  IInv'
<1>1. sent' = sent /\ lost' = lost /\ ends' = ends
  BY DEF PartTaken
<1>2. Known' = Known /\ \A p : Contents(p)' = Contents(p)
  BY <1>1, SameSets
<1>3. taken' \in [Queues -> Seq(Known)] /\ \A p \in Queues : p # q => taken'[p] = taken[p]
  <2>1. taken[q] \o Fitting(part.units, size) \in Seq(Known)
    BY ConcatProperties DEF IInv, HistoryOK
  <2>2. QED
    BY <2>1 DEF PartTaken, IInv, HistoryOK
<1>4. ASSUME NEW p \in Queues, p # q
      PROVE  QueueOK(p)' /\ Got(p)' = Got(p) /\ Waiting(p)' = Waiting(p)
  <2>1. StateOf(p)' = StateOf(p) /\ taken'[p] = taken[p] /\ QueueOK(p)
    BY <1>3, <1>4 DEF OnlyQueue, IInv, QueuesOK
  <2>2. QED
    BY <1>2, <2>1 DEF QueueOK, Got, Begun, InParts, Queued, Waiting
<1>5. QueuesOK'
  BY <1>4 DEF OnlyQueue, QueuesOK
<1>6. HistoryOK'
  BY <1>1, <1>2, <1>3 DEF IInv, HistoryOK
<1>7. \A p \in Queues : /\ Waiting(p)' = Waiting(p) /\ Rearranged(Got(p), Got(p)')
                        /\ OneMode(p) => Got(p)' = Got(p)
  <2>1. TAKE p \in Queues
  <2>2. CASE p = q
    BY <2>2
  <2>3. CASE p # q
    BY <1>4, <2>3 DEF Rearranged
  <2>4. QED
    BY <2>2, <2>3
<1>8. WayOK'
  BY <1>1, <1>7, WayKept
<1>9. QED
  BY <1>5, <1>6, <1>8 DEF IInv

LEMMA OneElement ==
  ASSUME NEW S, NEW x \in Seq(S), x # <<>>, Len(x) <= 1
  PROVE  x = <<x[1]>>
<1>1. Len(x) = 1 /\ x[1] \in S
  OBVIOUS
<1> DEFINE y == <<x[1]>>
<1>2. y \in Seq(S) /\ Len(y) = 1 /\ y[1] = x[1]
  BY <1>1
<1> HIDE DEF y
<1>3. \A i \in 1..1 : i = 1
  OBVIOUS
<1>4. x = y
  BY <1>1, <1>2, <1>3, SeqEqual
<1>5. QED
  BY <1>4 DEF y

LEMMA MessageTaken ==
  ASSUME IInv, NEW q \in Queues, NEW size \in Nat \ {0}, ReceiveMessage(q, size)
  PROVE  \E a \in Flat :
           /\ PartTaken(q, a, size) /\ OnlyQueue(q) /\ ReplyOK'
           /\ reply' = [op |-> "receiveMessage", queue |-> q, status |-> 0]
           /\ Waiting(q)' = Waiting(q) /\ InParts(q)' = InParts(q)
           /\ Begun(q)' = Left(a.units, size) /\ Queued(q)' \in Seq(Known)
           /\ \/ Begun(q) = a.units /\ Queued(q)' = Queued(q)
              \/ Begun(q) = <<>> /\ Queued(q) = a.units \o Queued(q)'
<1> DEFINE s == StateOf(q)
           resumed == s.messageReceive # <<>>
           a == IF resumed THEN s.messageReceive[1] ELSE Flattened(Head(s.messages))
           popped == IF resumed THEN s ELSE [s EXCEPT !.messages = Tail(@)]
           r == Left(a.units, size)
           receive == IF r = <<>> THEN <<>> ELSE <<[a EXCEPT !.units = r]>>
           after == AfterMessage(popped, a, size)
<1>1. /\ "Message" \in Modes[q] /\ (resumed \/ s.messages # <<>>)
      /\ queues' = With(queues, q, after)
      /\ Took(q, Fitting(a.units, size)) /\ Says("receiveMessage", q, 0)
  BY DEF ReceiveMessage
<1>2. after = [popped EXCEPT !.messageReceive = receive, !.lastEndKey = IF r = <<>> THEN a.endKey ELSE 0]
  BY DEF AfterMessage
<1> HIDE DEF after
<1>3. QueueOK(q) /\ HistoryOK /\ s \in Contents(q) /\ Len(s.messageReceive) <= 1
  BY DEF IInv, QueuesOK, QueueOK
<1>4. s.messages \in Seq(Messages) /\ s.messageReceive \in Seq(Flat)
  BY <1>3 DEF Contents
<1>5. a \in Flat
  <2>1. CASE resumed
    BY <1>4, <2>1
  <2>2. CASE ~resumed
    <3>1. Head(s.messages) \in Messages
      BY <1>1, <1>4, <2>2
    <3>2. QED
      BY <1>3, <2>2, <3>1, FlattenedIsFlat
  <2>3. QED
    BY <2>1, <2>2
<1>6. popped \in Contents(q)
  <2>1. CASE resumed
    BY <1>3, <2>1
  <2>2. CASE ~resumed
    <3>1. Tail(s.messages) \in Seq(Messages)
      BY <1>1, <1>4, <2>2
    <3>2. QED
      BY <1>3, <2>2, <3>1 DEF Contents
  <2>3. QED
    BY <2>1, <2>2
<1>7. popped.pending = s.pending /\ popped.segmentReceive = s.segmentReceive
  BY <1>3 DEF Contents
<1> DEFINE b == [a EXCEPT !.units = r]
<1>8. /\ a \in Parts(Known) /\ a.endKey \in 1..3
      /\ r # <<>> => b \in Flat /\ b \in Parts(Known) /\ b.units = r
  <2>1. a \in Parts(Known)
    BY <1>5 DEF Flat
  <2>2. r # <<>> => b \in Flat
    BY <1>5, RestIsFlat
  <2>3. b.units = r
    BY <2>1 DEF Parts
  <2>4. QED
    BY <2>1, <2>2, <2>3 DEF Flat, Parts
<1> HIDE DEF b
<1>9. receive \in Seq(Flat) /\ Len(receive) <= 1 /\ Bytes(receive) = r
  <2>1. CASE r = <<>>
    BY <2>1, BytesEmpty
  <2>2. CASE r # <<>>
    <3>1. receive = <<b>>
      BY <2>2 DEF b
    <3>2. Bytes(<<b>>) = b.units
      BY <1>8, <2>2, BytesOne
    <3>3. <<b>> \in Seq(Flat) /\ Len(<<b>>) <= 1
      BY <1>8, <2>2
    <3>4. QED
      BY <1>8, <2>2, <3>1, <3>2, <3>3
  <2>3. QED
    BY <2>1, <2>2
<1> DEFINE k == IF r = <<>> THEN a.endKey ELSE 0
<1>10. k \in 0..3
  BY <1>8
<1> HIDE DEF receive, k, r
<1>11. /\ after \in Contents(q) /\ after.messageReceive = receive /\ after.lastEndKey = k
       /\ after.messages = popped.messages /\ after.pending = s.pending
       /\ after.segmentReceive = s.segmentReceive
  <2>1. after = [popped EXCEPT !.messageReceive = receive, !.lastEndKey = k]
    BY <1>2 DEF k
  <2> HIDE DEF popped
  <2>2. QED
    BY <1>6, <1>7, <1>9, <1>10, <2>1 DEF Contents
<1>12. /\ DOMAIN queues' = DOMAIN queues \cup {q}
       /\ \A p : StateOf(p)' = IF p = q THEN after ELSE StateOf(p)
  BY <1>1, WithState
<1>13. StateOf(q)' = after
  BY <1>12
<1>14. PartTaken(q, a, size)
  BY <1>1, <1>11, <1>13 DEF PartTaken, Took, k, r
<1>15. OnlyQueue(q)
  <2>1. Contents(q)' = Contents(q)
    BY <1>1, SameSets DEF Took
  <2>2. QueueOK(q)'
    BY <1>1, <1>3, <1>9, <1>11, <1>13, <2>1 DEF QueueOK
  <2>3. DOMAIN queues' \subseteq Queues
    BY <1>12 DEF IInv, QueuesOK
  <2>4. QED
    BY <1>12, <2>2, <2>3 DEF OnlyQueue
<1>16. ReplyOK' /\ reply' = [op |-> "receiveMessage", queue |-> q, status |-> 0]
  BY <1>1, ReplyIs DEF Calls
<1>17. /\ Waiting(q)' = Waiting(q) /\ InParts(q)' = InParts(q) /\ Begun(q)' = r
       /\ Queued(q)' \in Seq(Known)
  <2>1. Waiting(q)' = Waiting(q) /\ InParts(q)' = InParts(q) /\ Begun(q)' = r
    BY <1>9, <1>11, <1>13 DEF Waiting, InParts, Begun
  <2>2. popped.messages \in Seq(Messages) /\ Messages \subseteq Seq(Parts(Known))
    BY <1>6, PieceTypes DEF Contents
  <2> HIDE DEF popped
  <2>3. Texts(popped.messages, Known)
    BY <2>2, Widen DEF Texts
  <2>4. Queued(q)' = BytesIn(popped.messages)
    BY <1>11, <1>13 DEF Queued
  <2>5. QED
    BY <2>1, <2>3, <2>4, BytesInType
<1>18. \/ Begun(q) = a.units /\ Queued(q)' = Queued(q)
       \/ Begun(q) = <<>> /\ Queued(q) = a.units \o Queued(q)'
  <2>1. CASE resumed
    <3>1. s.messageReceive = <<s.messageReceive[1]>>
      BY <1>3, <1>4, <2>1, OneElement
    <3>2. s.messageReceive = <<a>>
      BY <2>1, <3>1
    <3>3. Begun(q) = a.units
      BY <1>8, <3>2, BytesOne DEF Begun
    <3>4. Queued(q)' = Queued(q)
      BY <1>11, <1>13, <2>1 DEF Queued
    <3>5. QED
      BY <3>3, <3>4
  <2>2. CASE ~resumed
    <3>1. Begun(q) = <<>>
      BY <2>2, BytesEmpty DEF Begun
    <3>2. Queued(q)' = BytesIn(Tail(s.messages))
      <4>1. popped.messages = Tail(s.messages)
        BY <1>3, <2>2 DEF Contents
      <4>2. QED
        BY <1>11, <1>13, <4>1 DEF Queued
    <3>3. Texts(s.messages, Known)
      BY <1>3, StateTypes
    <3>4. BytesIn(s.messages) = Bytes(Head(s.messages)) \o BytesIn(Tail(s.messages))
      BY <1>1, <2>2, <3>3, BytesInTail
    <3>5. a.units = Bytes(Head(s.messages))
      BY <2>2 DEF Flattened
    <3>6. QED
      BY <3>1, <3>2, <3>4, <3>5 DEF Queued
  <2>3. QED
    BY <2>1, <2>2
<1>19. QED
  BY <1>5, <1>14, <1>15, <1>16, <1>17, <1>18 DEF r

LEMMA MessageKeeps ==
  ASSUME IInv, NEW q \in Queues, NEW size \in Nat \ {0}, ReceiveMessage(q, size)
  PROVE  IInv'
<1>1. PICK a \in Flat :
        /\ PartTaken(q, a, size) /\ OnlyQueue(q) /\ ReplyOK'
        /\ Waiting(q)' = Waiting(q) /\ InParts(q)' = InParts(q)
        /\ Begun(q)' = Left(a.units, size) /\ Queued(q)' \in Seq(Known)
        /\ \/ Begun(q) = a.units /\ Queued(q)' = Queued(q)
           \/ Begun(q) = <<>> /\ Queued(q) = a.units \o Queued(q)'
  BY MessageTaken
<1> DEFINE f == Fitting(a.units, size)
           l == Left(a.units, size)
           t == taken[q]
           b == InParts(q)
           c == Queued(q)'
<1>2. a.units \in Seq(Known) /\ a.units # <<>>
  BY DEF Flat, Parts
<1>3. f \in Seq(Known) /\ l \in Seq(Known) /\ f \o l = a.units
  BY <1>2, CutUnits
<1> HIDE DEF f, l
<1>4. taken'[q] = t \o f /\ sent' = sent /\ ends' = ends
  BY <1>1 DEF PartTaken, IInv, HistoryOK, f
<1>5. QueueOK(q) /\ HistoryOK
  BY DEF IInv, QueuesOK
<1>6. t \in Seq(Known) /\ b \in Seq(Known) /\ Queued(q) \in Seq(Known)
  BY <1>5, PlaceTypes
<1>7. c \in Seq(Known)
  BY <1>1
<1>8. Got(q)' = InPlaces(t \o f, l, b, c)
  BY <1>1, <1>4 DEF Got, l
<1>9. "Message" \in Modes[q]
  BY DEF ReceiveMessage
<1>10. OneMode(q) => b = <<>>
  <2>1. OneMode(q) => "Segment" \notin Modes[q]
    BY <1>9 DEF OneMode
  <2>2. OneMode(q) => StateOf(q).segmentReceive = <<>>
    BY <1>5, <2>1 DEF QueueOK
  <2>3. QED
    BY <2>2, BytesEmpty DEF InParts
<1>11. CASE Begun(q) = a.units /\ Queued(q)' = Queued(q)
  <2>1. Got(q) = InPlaces(t, f \o l, b, c)
    BY <1>3, <1>11 DEF Got
  <2> HIDE DEF t, b, c
  <2>2. Same(InPlaces(t \o f, l, b, c), InPlaces(t, f \o l, b, c))
    BY <1>3, <1>6, <1>7, TakeBegun
  <2>3. Got(q)' = Got(q) /\ Rearranged(Got(q), Got(q)')
    BY <1>8, <2>1, <2>2 DEF Rearranged, Same
  <2>4. QED
    BY <1>1, <1>3, <2>3, ReceiveKeeps DEF f
<1>12. CASE Begun(q) = <<>> /\ Queued(q) = a.units \o Queued(q)'
  <2>1. Got(q) = InPlaces(t, <<>>, b, (f \o l) \o c)
    BY <1>3, <1>12 DEF Got
  <2> HIDE DEF t, b, c
  <2>2. Rearranged(InPlaces(t, <<>>, b, (f \o l) \o c), InPlaces(t \o f, l, b, c))
    BY <1>3, <1>6, <1>7, TakeRearranged
  <2>3. Same(InPlaces(t \o f, l, <<>>, c), InPlaces(t, <<>>, <<>>, (f \o l) \o c))
    BY <1>3, <1>6, <1>7, TakeOrder
  <2>4. Rearranged(Got(q), Got(q)') /\ (OneMode(q) => Got(q)' = Got(q))
    BY <1>8, <1>10, <2>1, <2>2, <2>3 DEF Same
  <2>5. QED
    BY <1>1, <1>3, <2>4, ReceiveKeeps DEF f
<1>13. QED
  BY <1>1, <1>11, <1>12

LEMMA SegmentTaken ==
  ASSUME IInv, NEW q \in Queues, NEW size \in Nat \ {0}, ReceiveSegment(q, size)
  PROVE  \E g \in Pieces : \E w \in Seq(Known) :
           /\ PartTaken(q, g, size) /\ OnlyQueue(q) /\ ReplyOK'
           /\ reply' = [op |-> "receiveSegment", queue |-> q, status |-> 0]
           /\ Waiting(q)' = Waiting(q) /\ Begun(q)' = Begun(q)
           /\ InParts(q)' = Left(g.units, size) \o w /\ Queued(q)' \in Seq(Known)
           /\ \/ InParts(q) = g.units \o w /\ Queued(q)' = Queued(q)
              \/ InParts(q) = <<>> /\ Queued(q) = (g.units \o w) \o Queued(q)'
<1> DEFINE s == StateOf(q)
           resumed == s.segmentReceive # <<>>
           segments == IF resumed THEN s.segmentReceive ELSE Head(s.messages)
           popped == IF resumed THEN s ELSE [s EXCEPT !.messages = Tail(@)]
           g == segments[1]
           r == Left(g.units, size)
           b == [g EXCEPT !.units = r]
           receive == IF r = <<>> THEN Tail(segments) ELSE <<b>> \o Tail(segments)
           k == IF r = <<>> THEN g.endKey ELSE 0
           w == Bytes(Tail(segments))
           after == AfterSegment(popped, segments, size)
<1>1. /\ "Segment" \in Modes[q] /\ (resumed \/ s.messages # <<>>)
      /\ queues' = With(queues, q, after)
      /\ Took(q, Fitting(g.units, size)) /\ Says("receiveSegment", q, 0)
  BY DEF ReceiveSegment
<1>2. after = [popped EXCEPT !.segmentReceive = receive, !.lastEndKey = k]
  BY DEF AfterSegment
<1> HIDE DEF after
<1>3. QueueOK(q) /\ HistoryOK /\ s \in Contents(q)
  BY DEF IInv, QueuesOK, QueueOK
<1>4. s.messages \in Seq(Messages) /\ s.segmentReceive \in Seq(Pieces)
  BY <1>3 DEF Contents
<1>5. segments \in Seq(Pieces) /\ segments # <<>>
  <2>1. CASE resumed
    BY <1>4, <2>1
  <2>2. CASE ~resumed
    <3>1. Head(s.messages) \in Messages
      BY <1>1, <1>4, <2>2
    <3>2. QED
      BY <2>2, <3>1 DEF Messages, Complete
  <2>3. QED
    BY <2>1, <2>2
<1>6. popped \in Contents(q) /\ popped.pending = s.pending /\ popped.messageReceive = s.messageReceive
  <2>1. CASE resumed
    BY <1>3, <2>1
  <2>2. CASE ~resumed
    <3>1. Tail(s.messages) \in Seq(Messages)
      BY <1>1, <1>4, <2>2
    <3>2. QED
      BY <1>3, <2>2, <3>1 DEF Contents
  <2>3. QED
    BY <2>1, <2>2
<1>7. IF resumed THEN popped.messages = s.messages ELSE popped.messages = Tail(s.messages)
  BY <1>3 DEF Contents
<1>8. IF resumed THEN segments = s.segmentReceive ELSE segments = Head(s.messages)
  OBVIOUS
<1> HIDE DEF segments, popped, resumed
<1>9. g \in Pieces /\ Tail(segments) \in Seq(Pieces)
  BY <1>5
<1>10. /\ g \in Parts(Known) /\ g.endKey \in 1..3 /\ g.units \in Seq(Known) /\ g.units # <<>>
       /\ segments \in Seq(Parts(Known)) /\ Tail(segments) \in Seq(Parts(Known))
  <2>1. Pieces \subseteq Parts(Known) /\ g.units # <<>>
    BY <1>9 DEF Pieces
  <2>2. segments \in Seq(Parts(Known)) /\ Tail(segments) \in Seq(Parts(Known))
    BY <1>5, <1>9, <2>1, Widen
  <2>3. QED
    BY <1>9, <2>1, <2>2 DEF Parts
<1>11. w \in Seq(Known) /\ Bytes(segments) = g.units \o w
  BY <1>5, <1>10, BytesType, BytesTail
<1>12. r \in Seq(Known) /\ (r # <<>> => b \in Pieces /\ b \in Parts(Known) /\ b.units = r)
  <2>1. r \in Seq(Known)
    BY <1>10, CutUnits
  <2>2. r # <<>> => b \in Pieces
    BY <1>9, RestIsPiece
  <2>3. b.units = r
    BY <1>10 DEF Parts
  <2>4. QED
    BY <2>1, <2>2, <2>3 DEF Pieces
<1> HIDE DEF b, w, g, r
<1>13. receive \in Seq(Pieces) /\ Bytes(receive) = r \o w
  <2>1. CASE r = <<>>
    <3>1. <<>> \o w = w
      BY <1>11, ConcatEmptySeq
    <3>2. QED
      BY <1>9, <2>1, <3>1 DEF w
  <2>2. CASE r # <<>>
    <3>1. receive = <<b>> \o Tail(segments)
      BY <2>2
    <3>2. Bytes(<<b>> \o Tail(segments)) = b.units \o Bytes(Tail(segments))
      BY <1>10, <1>12, <2>2, BytesCons
    <3>3. <<b>> \in Seq(Pieces)
      BY <1>12, <2>2
    <3>4. <<b>> \o Tail(segments) \in Seq(Pieces)
      BY <1>9, <3>3, ConcatProperties
    <3>5. QED
      BY <1>12, <2>2, <3>1, <3>2, <3>4 DEF w
  <2>3. QED
    BY <2>1, <2>2
<1>14. k \in 0..3
  BY <1>10
<1> HIDE DEF receive, k
<1>15. /\ after \in Contents(q) /\ after.segmentReceive = receive /\ after.lastEndKey = k
       /\ after.messages = popped.messages /\ after.pending = s.pending
       /\ after.messageReceive = s.messageReceive
  BY <1>2, <1>6, <1>13, <1>14 DEF Contents
<1>16. /\ DOMAIN queues' = DOMAIN queues \cup {q}
       /\ \A p : StateOf(p)' = IF p = q THEN after ELSE StateOf(p)
  BY <1>1, WithState
<1>17. StateOf(q)' = after
  BY <1>16
<1>18. PartTaken(q, g, size)
  BY <1>1, <1>15, <1>17 DEF PartTaken, Took, k, r
<1>19. OnlyQueue(q)
  <2>1. Contents(q)' = Contents(q)
    BY <1>1, SameSets DEF Took
  <2>2. QueueOK(q)'
    BY <1>1, <1>3, <1>15, <1>17, <2>1 DEF QueueOK
  <2>3. DOMAIN queues' \subseteq Queues
    BY <1>16 DEF IInv, QueuesOK
  <2>4. QED
    BY <1>16, <2>2, <2>3 DEF OnlyQueue
<1>20. ReplyOK' /\ reply' = [op |-> "receiveSegment", queue |-> q, status |-> 0]
  BY <1>1, ReplyIs DEF Calls
<1>21. /\ Waiting(q)' = Waiting(q) /\ Begun(q)' = Begun(q) /\ InParts(q)' = r \o w
       /\ Queued(q)' = BytesIn(popped.messages) /\ Queued(q)' \in Seq(Known)
  <2>1. /\ Waiting(q)' = Waiting(q) /\ Begun(q)' = Begun(q) /\ InParts(q)' = r \o w
        /\ Queued(q)' = BytesIn(popped.messages)
    BY <1>13, <1>15, <1>17 DEF Waiting, InParts, Begun, Queued
  <2>2. popped.messages \in Seq(Messages) /\ Messages \subseteq Seq(Parts(Known))
    BY <1>6, PieceTypes DEF Contents
  <2>3. Texts(popped.messages, Known)
    BY <2>2, Widen DEF Texts
  <2>4. QED
    BY <2>1, <2>3, BytesInType
<1>22. \/ InParts(q) = g.units \o w /\ Queued(q)' = Queued(q)
       \/ InParts(q) = <<>> /\ Queued(q) = (g.units \o w) \o Queued(q)'
  <2>1. CASE resumed
    <3>1. InParts(q) = g.units \o w
      BY <1>8, <1>11, <2>1 DEF InParts
    <3>2. Queued(q)' = Queued(q)
      BY <1>7, <1>21, <2>1 DEF Queued
    <3>3. QED
      BY <3>1, <3>2
  <2>2. CASE ~resumed
    <3>1. InParts(q) = <<>>
      BY <2>2, BytesEmpty DEF InParts, resumed
    <3>2. Texts(s.messages, Known)
      BY <1>3, StateTypes
    <3>3. BytesIn(s.messages) = Bytes(Head(s.messages)) \o BytesIn(Tail(s.messages))
      BY <1>1, <2>2, <3>2, BytesInTail
    <3>4. QED
      BY <1>7, <1>8, <1>11, <1>21, <2>2, <3>1, <3>3 DEF Queued
  <2>3. QED
    BY <2>1, <2>2
<1>23. QED
  BY <1>9, <1>11, <1>18, <1>19, <1>20, <1>21, <1>22 DEF r

LEMMA SegmentKeeps ==
  ASSUME IInv, NEW q \in Queues, NEW size \in Nat \ {0}, ReceiveSegment(q, size)
  PROVE  IInv'
<1>1. PICK g \in Pieces : \E w \in Seq(Known) :
        /\ PartTaken(q, g, size) /\ OnlyQueue(q) /\ ReplyOK'
        /\ Waiting(q)' = Waiting(q) /\ Begun(q)' = Begun(q)
        /\ InParts(q)' = Left(g.units, size) \o w /\ Queued(q)' \in Seq(Known)
        /\ \/ InParts(q) = g.units \o w /\ Queued(q)' = Queued(q)
           \/ InParts(q) = <<>> /\ Queued(q) = (g.units \o w) \o Queued(q)'
  BY SegmentTaken
<1>2. PICK w \in Seq(Known) :
        /\ PartTaken(q, g, size) /\ OnlyQueue(q) /\ ReplyOK'
        /\ Waiting(q)' = Waiting(q) /\ Begun(q)' = Begun(q)
        /\ InParts(q)' = Left(g.units, size) \o w /\ Queued(q)' \in Seq(Known)
        /\ \/ InParts(q) = g.units \o w /\ Queued(q)' = Queued(q)
           \/ InParts(q) = <<>> /\ Queued(q) = (g.units \o w) \o Queued(q)'
  BY <1>1
<1> DEFINE f == Fitting(g.units, size)
           r == Left(g.units, size)
           l == r \o w
           t == taken[q]
           o == Begun(q)
           c == Queued(q)'
<1>3. g.units \in Seq(Known) /\ g.units # <<>>
  BY DEF Pieces, Parts
<1>4. f \in Seq(Known) /\ r \in Seq(Known) /\ f \o r = g.units
  BY <1>3, CutUnits
<1> HIDE DEF f, r
<1>5. l \in Seq(Known) /\ f \o l = g.units \o w
  <2>1. Cat(Cat(f, r), w) = Cat(f, Cat(r, w)) /\ Cat(r, w) \in Seq(Known)
    BY <1>4, CatLaws
  <2>2. QED
    BY <1>4, <2>1 DEF Cat
<1>6. taken'[q] = t \o f
  BY <1>2 DEF PartTaken, IInv, HistoryOK, f
<1>7. QueueOK(q) /\ HistoryOK
  BY DEF IInv, QueuesOK
<1>8. t \in Seq(Known) /\ o \in Seq(Known) /\ c \in Seq(Known)
  BY <1>2, <1>7, PlaceTypes
<1>9. Got(q)' = InPlaces(t \o f, o, l, c)
  BY <1>2, <1>6 DEF Got, r
<1>10. OneMode(q) => o = <<>>
  <2>1. OneMode(q) => "Message" \notin Modes[q]
    BY DEF OneMode, ReceiveSegment
  <2>2. OneMode(q) => StateOf(q).messageReceive = <<>>
    BY <1>7, <2>1 DEF QueueOK
  <2>3. QED
    BY <2>2, BytesEmpty DEF Begun
<1> HIDE DEF l
<1>11. CASE InParts(q) = g.units \o w /\ Queued(q)' = Queued(q)
  <2>1. Got(q) = InPlaces(t, o, f \o l, c)
    BY <1>5, <1>11 DEF Got
  <2> HIDE DEF t, o, c
  <2>2. Rearranged(InPlaces(t, o, f \o l, c), InPlaces(t \o f, o, l, c))
    BY <1>4, <1>5, <1>8, TakeRearranged
  <2>3. Same(InPlaces(t \o f, <<>>, l, c), InPlaces(t, <<>>, f \o l, c))
    BY <1>4, <1>5, <1>8, TakeOrder
  <2>4. Rearranged(Got(q), Got(q)') /\ (OneMode(q) => Got(q)' = Got(q))
    BY <1>9, <1>10, <2>1, <2>2, <2>3 DEF Same
  <2>5. QED
    BY <1>2, <1>4, <2>4, ReceiveKeeps DEF f
<1>12. CASE InParts(q) = <<>> /\ Queued(q) = (g.units \o w) \o Queued(q)'
  <2>1. Got(q) = InPlaces(t, o, <<>>, (f \o l) \o c)
    BY <1>5, <1>12 DEF Got
  <2> HIDE DEF t, o, c
  <2>2. Rearranged(InPlaces(t, o, <<>>, (f \o l) \o c), InPlaces(t \o f, o, l, c))
    BY <1>4, <1>5, <1>8, TakeRearranged
  <2>3. Same(InPlaces(t \o f, <<>>, l, c), InPlaces(t, <<>>, <<>>, (f \o l) \o c))
    BY <1>4, <1>5, <1>8, TakeOrder
  <2>4. Rearranged(Got(q), Got(q)') /\ (OneMode(q) => Got(q)' = Got(q))
    BY <1>9, <1>10, <2>1, <2>2, <2>3 DEF Same
  <2>5. QED
    BY <1>2, <1>4, <2>4, ReceiveKeeps DEF f
<1>13. QED
  BY <1>2, <1>11, <1>12

-----------------------------------------------------------------------------
(* SEND *)

(* A SEND that the queue q accepts: its text and the end it marks. *)
Accepts(q, size, endKey) ==
  /\ size > 0 /\ sent[q] + size <= MaxSent
  /\ sent' = [sent EXCEPT ![q] = sent[q] + size]
  /\ ends' = ends \cup {[unit |-> [from |-> q, n |-> sent[q] + size], key |-> endKey]}
  /\ taken' = taken /\ lost' = lost

LEMMA SendText ==
  ASSUME HistoryOK, NEW q \in Queues, NEW size \in Nat, NEW endKey \in 1..3, Accepts(q, size, endKey)
  PROVE  /\ sent' \in [Queues -> 0..MaxSent] /\ Known \subseteq Known'
         /\ Text(q, size) \in Seq(Own(q)') /\ Len(Text(q, size)) = size
         /\ \A i \in 1..size : Text(q, size)[i] = [from |-> q, n |-> sent[q] + i]
         /\ Range(Text(q, size)) = {[from |-> q, n |-> n] : n \in (sent[q] + 1)..(sent[q] + size)}
         /\ \A u \in Range(Text(q, size)) : u \notin Known
         /\ IsInjective(Text(q, size)) /\ \A s : InOrder(s, Text(q, size))
<1> DEFINE N == Text(q, size)
<1>1. sent \in [Queues -> 0..MaxSent] /\ sent[q] \in Nat /\ MaxSent \in Nat
  BY SizesAssumption DEF HistoryOK
<1>2. sent' \in [Queues -> 0..MaxSent] /\ sent'[q] = sent[q] + size /\ \A p \in Queues : sent[p] <= sent'[p]
  <2>1. sent[q] + size \in 0..MaxSent
    BY <1>1 DEF Accepts
  <2>2. \A p \in Queues : sent[p] \in Int
    BY <1>1
  <2>3. QED
    BY <1>1, <2>1, <2>2 DEF Accepts
<1>3. Known \subseteq Known'
  <2>1. ASSUME NEW u \in Known PROVE u \in Known'
    <3>1. u \in Units /\ u.n <= sent[u.from] /\ u.from \in Queues /\ u.n \in Int
      BY DEF Known, Units
    <3>2. sent[u.from] \in Int /\ sent'[u.from] \in Int
      BY <1>1, <1>2, <3>1
    <3>3. u.n <= sent'[u.from]
      BY <1>2, <3>1, <3>2
    <3>4. QED
      BY <3>1, <3>3 DEF Known
  <2>2. QED
    BY <2>1
<1>4. DOMAIN N = 1..size /\ \A i \in 1..size : N[i] = [from |-> q, n |-> sent[q] + i]
  BY DEF Text
<1>5. ASSUME NEW i \in 1..size
      PROVE  [from |-> q, n |-> sent[q] + i] \in Own(q)'
  <2>1. sent[q] + i \in 1..MaxSent /\ sent[q] + i <= sent'[q]
    BY <1>1, <1>2 DEF Accepts
  <2>2. QED
    BY <2>1 DEF Own, Known, Units
<1>6. N \in Seq(Own(q)') /\ Len(N) = size
  <2>1. N \in [1..size -> Own(q)']
    BY <1>4, <1>5 DEF Text
  <2>2. QED
    BY <2>1, FunctionIsSequence
<1> HIDE DEF N
<1>7. Range(N) = {[from |-> q, n |-> n] : n \in (sent[q] + 1)..(sent[q] + size)}
  <2>1. \A i \in 1..size : sent[q] + i \in (sent[q] + 1)..(sent[q] + size)
    BY <1>1
  <2>2. ASSUME NEW n \in (sent[q] + 1)..(sent[q] + size) PROVE [from |-> q, n |-> n] \in Range(N)
    <3>1. n - sent[q] \in 1..size /\ sent[q] + (n - sent[q]) = n
      BY <1>1
    <3>2. N[n - sent[q]] = [from |-> q, n |-> n]
      BY <1>4, <3>1
    <3>3. QED
      BY <1>4, <3>1, <3>2 DEF Range
  <2>3. QED
    BY <1>4, <2>1, <2>2 DEF Range
<1>8. ASSUME NEW u \in Range(N) PROVE u \notin Known
  <2>1. PICK n \in (sent[q] + 1)..(sent[q] + size) : u = [from |-> q, n |-> n]
    BY <1>7
  <2>2. u.from = q /\ u.n = n /\ ~(n <= sent[q])
    BY <1>1, <2>1
  <2>3. QED
    BY <2>2 DEF Known
<1>9. IsInjective(N)
  <2>1. SUFFICES ASSUME NEW i \in 1..size, NEW j \in 1..size, N[i] = N[j] PROVE i = j
    BY <1>4 DEF IsInjective
  <2>2. [from |-> q, n |-> sent[q] + i] = [from |-> q, n |-> sent[q] + j]
    BY <1>4, <2>1
  <2>3. sent[q] + i = sent[q] + j
    BY <2>2
  <2>4. QED
    BY <1>1, <2>3
<1>10. ASSUME NEW s PROVE InOrder(s, N)
  <2>1. SUFFICES ASSUME NEW i \in 1..size, NEW j \in 1..size, i < j PROVE N[i].n < N[j].n
    BY <1>4 DEF InOrder
  <2>2. N[i].n = sent[q] + i /\ N[j].n = sent[q] + j
    BY <1>4
  <2>3. QED
    BY <1>1, <2>1, <2>2
<1>11. QED
  BY <1>2, <1>3, <1>4, <1>6, <1>7, <1>8, <1>9, <1>10 DEF N

LEMMA SendSets ==
  ASSUME HistoryOK, NEW q \in Queues, NEW size \in Nat, NEW endKey \in 1..3, Accepts(q, size, endKey)
  PROVE  /\ HistoryOK'
         /\ Pieces \subseteq Pieces' /\ Messages \subseteq Messages' /\ Flat \subseteq Flat'
         /\ \A p : WaitingPieces(p) \subseteq WaitingPieces(p)'
         /\ \A p : Contents(p) \subseteq Contents(p)'
         /\ [units |-> Text(q, size), endKey |-> endKey] \in Pieces'
         /\ endKey = 1 => [units |-> Text(q, size), endKey |-> endKey] \in WaitingPieces(q)'
<1> DEFINE last == [from |-> q, n |-> sent[q] + size]
           new == [unit |-> last, key |-> endKey]
           N == Text(q, size)
           g == [units |-> N, endKey |-> endKey]
<1>1. size \in Nat \ {0} /\ sent[q] \in Nat /\ ends' = ends \cup {new} /\ ends \subseteq ends'
  BY DEF Accepts, HistoryOK
<1>2. /\ sent' \in [Queues -> 0..MaxSent] /\ Known \subseteq Known'
      /\ N \in Seq(Own(q)') /\ Len(N) = size
      /\ \A i \in 1..size : N[i] = [from |-> q, n |-> sent[q] + i]
      /\ \A u \in Range(N) : u \notin Known
  BY SendText
<1>3. Own(q)' \subseteq Known'
  BY DEF Own
<1>4. \A i \in 1..size : N[i] \in Range(N) /\ N[i] \in Known' /\ N[i] \notin Known
  <2>1. DOMAIN N = 1..size
    BY <1>2
  <2>2. \A i \in 1..size : N[i] \in Range(N)
    BY <2>1 DEF Range
  <2>3. QED
    BY <1>2, <1>3, <2>2
<1>5. size \in 1..size /\ N[size] = last
  BY <1>1, <1>2
<1> HIDE DEF N
<1>6. last \in Known' /\ last \notin Known /\ \A i \in 1..size : i < size => N[i] # last
  <2>1. ASSUME NEW i \in 1..size, i < size PROVE N[i] # last
    <3>1. N[i].n = sent[q] + i /\ last.n = sent[q] + size
      BY <1>2
    <3>2. QED
      BY <1>1, <2>1, <3>1
  <2>2. QED
    BY <1>4, <1>5, <2>1
<1>7. new.unit = last /\ new.key = endKey /\ \A e \in ends : e.unit \in Known /\ e \in [unit : Known, key : 1..3]
  BY DEF HistoryOK
<1>8. HistoryOK'
  <2>1. taken' \in [Queues -> Seq(Known')]
    <3>1. taken \in [Queues -> Seq(Known)]
      BY DEF HistoryOK
    <3>2. \A p \in Queues : taken[p] \in Seq(Known')
      BY <1>2, <3>1, Widen
    <3>3. QED
      BY <3>1, <3>2 DEF Accepts
  <2>2. lost' \in [Queues -> SUBSET Known']
    BY <1>2 DEF HistoryOK, Accepts
  <2>3. ends' \in SUBSET [unit : Known', key : 1..3]
    <3>1. new \in [unit : Known', key : 1..3]
      BY <1>6
    <3>2. ends \subseteq [unit : Known', key : 1..3]
      BY <1>2, <1>7
    <3>3. QED
      BY <1>1, <3>1, <3>2
  <2> HIDE DEF new, last
  <2>4. \A e, f \in ends' : e.unit = f.unit => e = f
    BY <1>1, <1>6, <1>7 DEF HistoryOK
  <2>5. QED
    BY <1>2, <2>1, <2>2, <2>3, <2>4 DEF HistoryOK
<1>9. ASSUME NEW a \in Parts(Known), a.units # <<>>, Ended(a), NEW K, EndedInside(a, K)
      PROVE  a \in Parts(Known') /\ Ended(a)' /\ EndedInside(a, K)'
  <2>1. a.units \in Seq(Known) /\ a.endKey \in 1..3 /\ a = [units |-> a.units, endKey |-> a.endKey]
    BY DEF Parts
  <2>2. a.units \in Seq(Known')
    BY <1>2, <2>1, Widen
  <2>3. a \in Parts(Known')
    BY <2>1, <2>2 DEF Parts
  <2>4. Ended(a)'
    BY <1>1, <1>9 DEF Ended
  <2>5. ASSUME NEW i \in 1..Len(a.units), NEW e \in ends', i < Len(a.units), e.unit = a.units[i]
        PROVE  e.key \in K
    <3>1. a.units[i] \in Known
      BY <2>1
    <3>2. e \in ends
      BY <1>1, <1>6, <1>7, <2>5, <3>1
    <3>3. QED
      BY <1>9, <2>5, <3>2 DEF EndedInside
  <2>6. QED
    BY <2>3, <2>4, <2>5 DEF EndedInside
<1>10. Pieces \subseteq Pieces'
  <2>1. ASSUME NEW a \in Pieces PROVE a \in Pieces'
    <3>1. a \in Parts(Known) /\ a.units # <<>> /\ Ended(a) /\ EndedInside(a, {})
      BY DEF Pieces
    <3>2. QED
      BY <1>9, <3>1 DEF Pieces
  <2>2. QED
    BY <2>1
<1>11. Flat \subseteq Flat'
  <2>1. ASSUME NEW a \in Flat PROVE a \in Flat'
    <3>1. a \in Parts(Known) /\ a.units # <<>> /\ Ended(a) /\ EndedInside(a, {1}) /\ a.endKey # 1
      BY DEF Flat
    <3>2. QED
      BY <1>9, <3>1 DEF Flat
  <2>2. QED
    BY <2>1
<1>12. Messages \subseteq Messages'
  <2>1. ASSUME NEW m \in Messages PROVE m \in Messages'
    <3>1. m \in Seq(Pieces) /\ Complete(m)
      BY DEF Messages
    <3>2. m \in Seq(Pieces')
      BY <1>10, <3>1, Widen
    <3>3. QED
      BY <3>1, <3>2 DEF Messages, Complete
  <2>2. QED
    BY <2>1
<1>13. ASSUME NEW p PROVE WaitingPieces(p) \subseteq WaitingPieces(p)'
  <2>1. Own(p) \subseteq Own(p)'
    BY <1>2 DEF Own
  <2>2. ASSUME NEW a \in WaitingPieces(p) PROVE a \in WaitingPieces(p)'
    <3>1. a \in Pieces /\ a.endKey = 1 /\ a.units \in Seq(Own(p))
      BY DEF WaitingPieces
    <3>2. a.units \in Seq(Own(p)')
      BY <2>1, <3>1, Widen
    <3>3. QED
      BY <1>10, <3>1, <3>2 DEF WaitingPieces
  <2>3. QED
    BY <2>2
<1>14. ASSUME NEW p, NEW s \in Contents(p) PROVE s \in Contents(p)'
  <2>1. /\ s.messages \in Seq(Messages) /\ s.pending \in Seq(WaitingPieces(p))
        /\ s.messageReceive \in Seq(Flat) /\ s.segmentReceive \in Seq(Pieces)
        /\ s.enabled \in BOOLEAN /\ s.lastEndKey \in 0..3
        /\ s = [enabled |-> s.enabled, messages |-> s.messages, pending |-> s.pending,
                messageReceive |-> s.messageReceive, segmentReceive |-> s.segmentReceive,
                lastEndKey |-> s.lastEndKey]
    BY DEF Contents
  <2>2. /\ s.messages \in Seq(Messages') /\ s.pending \in Seq(WaitingPieces(p)')
        /\ s.messageReceive \in Seq(Flat') /\ s.segmentReceive \in Seq(Pieces')
    BY <1>10, <1>11, <1>12, <1>13, <2>1, Widen
  <2>3. QED
    BY <2>1, <2>2 DEF Contents
<1>15. g \in Pieces'
  <2>1. PICK h : h = g
    OBVIOUS
  <2>2. N \in Seq(Known') /\ N # <<>>
    BY <1>1, <1>2, <1>3, Widen
  <2>3. h \in Parts(Known') /\ h.units = N /\ h.endKey = endKey
    BY <2>1, <2>2 DEF Parts
  <2>4. Ended(h)'
    <3>1. [unit |-> h.units[Len(h.units)], key |-> h.endKey] \in ends'
      BY <1>1, <1>2, <1>5, <2>3
    <3>2. QED
      BY <3>1 DEF Ended
  <2>5. EndedInside(h, {})'
    <3>1. ASSUME NEW i \in 1..Len(h.units), NEW e \in ends', i < Len(h.units), e.unit = h.units[i] PROVE FALSE
      <4>1. i \in 1..size /\ i < size /\ e.unit = N[i]
        BY <1>2, <2>3, <3>1
      <4>2. CASE e = new
        BY <1>6, <1>7, <4>1, <4>2
      <4>3. CASE e # new
        BY <1>1, <1>4, <1>7, <3>1, <4>1, <4>3
      <4>4. QED
        BY <4>2, <4>3
    <3>2. QED
      BY <3>1 DEF EndedInside
  <2>6. h \in Pieces'
    BY <2>2, <2>3, <2>4, <2>5 DEF Pieces
  <2>7. QED
    BY <2>1, <2>6
<1>16. endKey = 1 => g \in WaitingPieces(q)'
  BY <1>2, <1>15 DEF WaitingPieces, N
<1>17. QED
  BY <1>8, <1>10, <1>11, <1>12, <1>13, <1>14, <1>15, <1>16 DEF N

(* A text joins what waits in its CD. *)
JoinedText(W, q, size) == W = Waiting(q) \o Text(q, size)

LEMMA TextJoins ==
  ASSUME IInv, NEW q \in Queues, NEW size \in Nat, NEW endKey \in 1..3, Accepts(q, size, endKey),
         NEW W, JoinedText(W, q, size)
  PROVE  /\ W \in Seq(Known') /\ Range(W) = Range(Waiting(q)) \cup Range(Text(q, size))
         /\ IsInjective(W) /\ \A u \in Range(W) : u.from = q
         /\ \A t \in Queues : Got(t) \in Seq(Known') /\ Waiting(t) \in Seq(Known')
                              /\ Range(Got(t)) \cap Range(W) = {}
         /\ \A s \in Queues : s # q => Range(Waiting(s)) \cap Range(W) = {}
         /\ \A s, t \in Queues : s # q => Surviving(s, t)' \subseteq Surviving(s, t)
         /\ \A t \in Queues : Surviving(q, t)' \subseteq Surviving(q, t) \cup Range(Text(q, size))
         /\ \A s : s # q => InOrder(s, W)
<1> DEFINE N == Text(q, size)
           V == Waiting(q)
<1>1. /\ sent' \in [Queues -> 0..MaxSent] /\ Known \subseteq Known'
      /\ N \in Seq(Own(q)') /\ Len(N) = size
      /\ Range(N) = {[from |-> q, n |-> n] : n \in (sent[q] + 1)..(sent[q] + size)}
      /\ \A u \in Range(N) : u \notin Known
      /\ IsInjective(N)
  BY SendText DEF IInv
<1>2. \A t \in Queues : QueueOK(t) /\ HistoryOK
  BY DEF IInv, QueuesOK
<1>3. \A t \in Queues : Got(t) \in Seq(Known) /\ Waiting(t) \in Seq(Known) /\ Waiting(t) \in Seq(Own(t))
  BY <1>2, PlaceTypes
<1> HIDE DEF N, V
<1>4. \A t \in Queues : Got(t) \in Seq(Known') /\ Waiting(t) \in Seq(Known')
  BY <1>1, <1>3, Widen
<1>5. N \in Seq(Known')
  <2>1. Own(q)' \subseteq Known'
    BY DEF Own
  <2>2. QED
    BY <1>1, <2>1, Widen
<1>6. V \in Seq(Known') /\ W = V \o N
  BY <1>4 DEF V, N, JoinedText
<1>7. W \in Seq(Known') /\ Range(W) = Range(V) \cup Range(N)
  BY <1>5, <1>6, RangeOfConcat, ConcatProperties
<1>8. /\ \A t \in Queues : Range(Got(t)) \subseteq Known /\ Range(Waiting(t)) \subseteq Known
                           /\ Range(Waiting(t)) \subseteq Own(t)
      /\ Range(V) \subseteq Known /\ Range(V) \subseteq Own(q)
  BY <1>3, ElementsOf DEF V
<1>9. IsInjective(W)
  <2>1. IsInjective(V)
    BY DEF IInv, WayOK, NotTwice, V
  <2>2. Range(V) \cap Range(N) = {}
    BY <1>1, <1>8
  <2>3. QED
    BY <1>1, <1>5, <1>6, <2>1, <2>2, InjectiveConcat
<1>10. \A u \in Range(W) : u.from = q
  <2>1. \A u \in Range(N) : u.from = q
    BY <1>1
  <2>2. \A u \in Range(V) : u.from = q
    BY <1>8 DEF Own
  <2>3. QED
    BY <1>7, <2>1, <2>2
<1>11. \A t \in Queues : Range(Got(t)) \cap Range(W) = {}
  <2>1. \A t \in Queues : Range(Got(t)) \cap Range(V) = {}
    BY DEF IInv, WayOK, NotTwice, V
  <2>2. QED
    BY <1>1, <1>7, <1>8, <2>1
<1>12. \A s \in Queues : s # q => Range(Waiting(s)) \cap Range(W) = {}
  BY <1>8, <1>10 DEF Own
<1>13. /\ sent[q] \in Nat /\ sent'[q] = sent[q] + size /\ lost' = lost
       /\ \A s \in Queues : s # q => sent'[s] = sent[s]
  BY DEF Accepts, IInv, HistoryOK
<1>14. \A s, t \in Queues : s # q => Surviving(s, t)' \subseteq Surviving(s, t)
  BY <1>13 DEF Surviving
<1>15. ASSUME NEW t \in Queues PROVE Surviving(q, t)' \subseteq Surviving(q, t) \cup Range(N)
  <2>1. SUFFICES ASSUME NEW n \in 1..(sent[q] + size), [from |-> q, n |-> n] \notin lost[q] \cup lost[t]
                 PROVE  [from |-> q, n |-> n] \in Surviving(q, t) \cup Range(N)
    <3>1. 1..sent'[q] = 1..(sent[q] + size) /\ lost'[q] \cup lost'[t] = lost[q] \cup lost[t]
      BY <1>13
    <3>2. QED
      BY <3>1, Zenon DEF Surviving
  <2>2. CASE n <= sent[q]
    <3>1. n \in 1..sent[q]
      BY <1>13, <2>2
    <3>2. QED
      BY <2>1, <3>1 DEF Surviving
  <2>3. CASE ~(n <= sent[q])
    <3>1. n \in (sent[q] + 1)..(sent[q] + size)
      BY <1>13, <2>3
    <3>2. QED
      BY <1>1, <3>1
  <2>4. QED
    BY <2>2, <2>3
<1>16. ASSUME NEW s, s # q PROVE InOrder(s, W)
  <2>1. SUFFICES ASSUME NEW i \in DOMAIN W, W[i].from = s PROVE FALSE
    BY DEF InOrder
  <2>2. W[i] \in Range(W)
    BY DEF Range
  <2>3. QED
    BY <1>10, <1>16, <2>1, <2>2
<1>17. QED
  BY <1>4, <1>7, <1>9, <1>10, <1>11, <1>12, <1>14, <1>15, <1>16 DEF N, V

(* The bytes of the CD itself stay in order when the text joins them. *)
LEMMA TextInOrder ==
  ASSUME IInv, NEW q \in Queues, NEW size \in Nat, NEW endKey \in 1..3, Accepts(q, size, endKey),
         NEW W, JoinedText(W, q, size), NEW t \in Targets(q), OneMode(t)
  PROVE  InOrder(q, Got(t) \o W)
<1> DEFINE N == Text(q, size)
           V == Waiting(q)
           G == Got(t)
<1>1. /\ Known \subseteq Known' /\ N \in Seq(Own(q)') /\ InOrder(q, N)
      /\ Range(N) = {[from |-> q, n |-> n] : n \in (sent[q] + 1)..(sent[q] + size)}
  BY SendText DEF IInv
<1>2. t \in Queues
  BY TargetsAreQueues
<1>3. G \in Seq(Known) /\ V \in Seq(Known)
  BY <1>2, PlaceTypes DEF IInv, QueuesOK
<1>4. InOrder(q, G \o V)
  BY DEF IInv, WayOK, Ordered
<1> HIDE DEF N, V, G
<1>5. N \in Seq(Known') /\ G \in Seq(Known') /\ V \in Seq(Known')
  <2>1. Own(q)' \subseteq Known'
    BY DEF Own
  <2>2. QED
    BY <1>1, <1>3, <2>1, Widen
<1>6. G \o V \in Seq(Known) /\ G \o V \in Seq(Known')
  BY <1>3, <1>5, ConcatProperties
<1> DEFINE H == G \o V
<1>7. Before(q, H, N)
  <2>1. SUFFICES ASSUME NEW u \in Range(H), NEW v \in Range(N), u.from = q PROVE u.n < v.n
    BY DEF Before
  <2>2. u \in Known
    BY <1>6, ElementsOf
  <2>3. u.n <= sent[q] /\ u.n \in Int /\ sent[q] \in Int
    BY <2>1, <2>2 DEF Known, Units, IInv, HistoryOK
  <2>4. PICK n \in (sent[q] + 1)..(sent[q] + size) : v = [from |-> q, n |-> n]
    BY <1>1
  <2>5. QED
    BY <2>3, <2>4
<1> HIDE DEF H
<1>8. InOrder(q, H \o N)
  BY <1>1, <1>4, <1>5, <1>6, <1>7, InOrderConcat DEF H
<1>9. H \o N = G \o (V \o N)
  <2>1. Cat(Cat(G, V), N) = Cat(G, Cat(V, N))
    BY <1>5, CatLaws
  <2>2. QED
    BY <2>1 DEF Cat, H
<1>10. QED
  BY <1>8, <1>9 DEF G, V, N, JoinedText, JoinedText

(* The text waits for the end of its message, or goes to the targets with  *)
(* what waited.                                                            *)
Joins(q, W) ==
  /\ Waiting(q)' = W
  /\ \A t \in Queues : Got(t)' = Got(t)

Leaves(q, W) ==
  /\ Waiting(q)' = <<>>
  /\ \A t \in Queues : Got(t)' = IF t \in Targets(q) THEN Got(t) \o W ELSE Got(t)

LEMMA SendWay ==
  ASSUME IInv, NEW q \in Queues, NEW size \in Nat, NEW endKey \in 1..3, Accepts(q, size, endKey),
         NEW W, JoinedText(W, q, size), \A p \in Queues : p # q => Waiting(p)' = Waiting(p),
         Joins(q, W) \/ Leaves(q, W)
  PROVE  WayOK'
<1>1. /\ W \in Seq(Known') /\ Range(W) = Range(Waiting(q)) \cup Range(Text(q, size))
      /\ IsInjective(W) /\ \A u \in Range(W) : u.from = q
      /\ \A t \in Queues : Got(t) \in Seq(Known') /\ Waiting(t) \in Seq(Known')
                           /\ Range(Got(t)) \cap Range(W) = {}
      /\ \A s \in Queues : s # q => Range(Waiting(s)) \cap Range(W) = {}
      /\ \A s, t \in Queues : s # q => Surviving(s, t)' \subseteq Surviving(s, t)
      /\ \A t \in Queues : Surviving(q, t)' \subseteq Surviving(q, t) \cup Range(Text(q, size))
      /\ \A s : s # q => InOrder(s, W)
  BY TextJoins
<1>2. \A t \in Targets(q) : OneMode(t) => InOrder(q, Got(t) \o W)
  BY TextInOrder
<1>3. /\ \A s \in Queues : \A t \in Targets(s) :
           t \in Queues /\ Surviving(s, t) \subseteq Range(Got(t)) \cup Range(Waiting(s))
      /\ \A t \in Queues : IsInjective(Got(t)) /\ IsInjective(Waiting(t))
      /\ \A s, t \in Queues : Range(Got(t)) \cap Range(Waiting(s)) = {}
      /\ \A s \in Queues : \A t \in Targets(s) : OneMode(t) => InOrder(s, Got(t) \o Waiting(s))
  BY TargetsAreQueues DEF IInv, WayOK, Accounted, NotTwice, Ordered
<1>4. ASSUME NEW t \in Queues
      PROVE  /\ Range(Got(t) \o W) = Range(Got(t)) \cup Range(W)
             /\ IsInjective(Got(t) \o W) /\ Got(t) \o W \in Seq(Known')
  <2>1. PICK g : g = Got(t)
    OBVIOUS
  <2>2. g \in Seq(Known') /\ IsInjective(g) /\ Range(g) \cap Range(W) = {} /\ W \in Seq(Known')
    BY <1>1, <1>3, <2>1
  <2>3. Range(g \o W) = Range(g) \cup Range(W)
    BY ONLY <2>2, RangeOfConcat
  <2>4. IsInjective(g \o W)
    BY <1>1, <2>2, InjectiveConcat
  <2>5. g \o W \in Seq(Known')
    BY <1>1, <2>2, ConcatProperties
  <2>6. QED
    BY <2>1, <2>3, <2>4, <2>5
<1>5. CASE Joins(q, W)
  <2>1. /\ Waiting(q)' = W /\ \A p \in Queues : p # q => Waiting(p)' = Waiting(p)
        /\ \A t \in Queues : Got(t)' = Got(t)
    BY <1>5 DEF Joins
  <2>2. ASSUME NEW s \in Queues, NEW t \in Targets(s)
        PROVE  Surviving(s, t)' \subseteq Range(Got(t)') \cup Range(Waiting(s)')
    <3>1. t \in Queues /\ Surviving(s, t) \subseteq Range(Got(t)) \cup Range(Waiting(s)) /\ Got(t)' = Got(t)
      BY <1>3, <2>1
    <3>2. CASE s = q
      BY <1>1, <2>1, <3>1, <3>2
    <3>3. CASE s # q
      BY <1>1, <2>1, <3>1, <3>3
    <3>4. QED
      BY <3>2, <3>3
  <2>3. \A t \in Queues : IsInjective(Got(t)') /\ IsInjective(Waiting(t)')
    <3>1. TAKE t \in Queues
    <3>2. CASE t = q
      <4>1. Waiting(t)' = W /\ Got(t)' = Got(t)
        BY <2>1, <3>2
      <4>2. QED
        BY <1>1, <1>3, <4>1
    <3>3. CASE t # q
      BY <1>3, <2>1, <3>3
    <3>4. QED
      BY <3>2, <3>3
  <2>4. \A s, t \in Queues : Range(Got(t)') \cap Range(Waiting(s)') = {}
    <3>1. TAKE s, t \in Queues
    <3>2. CASE s = q
      BY <1>1, <2>1, <3>2
    <3>3. CASE s # q
      BY <1>3, <2>1, <3>3
    <3>4. QED
      BY <3>2, <3>3
  <2>5. ASSUME NEW s \in Queues, NEW t \in Targets(s), OneMode(t) PROVE InOrder(s, Got(t)' \o Waiting(s)')
    <3>1. t \in Queues /\ Got(t)' = Got(t)
      BY <1>3, <2>1
    <3>2. CASE s = q
      BY <1>2, <2>1, <2>5, <3>1, <3>2
    <3>3. CASE s # q
      BY <1>3, <2>1, <2>5, <3>1, <3>3
    <3>4. QED
      BY <3>2, <3>3
  <2>6. Accounted'
    BY <2>2 DEF Accounted
  <2>7. Ordered'
    BY <2>5 DEF Ordered, InOrder, OneMode
  <2>8. QED
    BY <2>3, <2>4, <2>6, <2>7 DEF WayOK, NotTwice
<1>6. CASE Leaves(q, W)
  <2>1. /\ Waiting(q)' = <<>> /\ \A p \in Queues : p # q => Waiting(p)' = Waiting(p)
        /\ \A t \in Queues : t \in Targets(q) => Got(t)' = Got(t) \o W
        /\ \A t \in Queues : t \notin Targets(q) => Got(t)' = Got(t)
    BY <1>6 DEF Leaves
  <2>2. Range(Waiting(q)') = {} /\ IsInjective(Waiting(q)')
    BY <2>1 DEF Range, IsInjective
  <2>3. \A t \in Queues : /\ IsInjective(Got(t)')
                          /\ Range(Got(t)) \subseteq Range(Got(t)')
                          /\ Range(Got(t)') \subseteq Range(Got(t)) \cup Range(W)
                          /\ t \in Targets(q) => Range(Got(t)') = Range(Got(t)) \cup Range(W)
    <3>1. TAKE t \in Queues
    <3>2. CASE t \in Targets(q)
      BY <1>4, <2>1, <3>2
    <3>3. CASE t \notin Targets(q)
      BY <1>3, <2>1, <3>3
    <3>4. QED
      BY <3>2, <3>3
  <2>4. ASSUME NEW s \in Queues, NEW t \in Targets(s)
        PROVE  Surviving(s, t)' \subseteq Range(Got(t)') \cup Range(Waiting(s)')
    <3>1. t \in Queues /\ Surviving(s, t) \subseteq Range(Got(t)) \cup Range(Waiting(s))
      BY <1>3
    <3>2. CASE s = q
      BY <1>1, <2>3, <3>1, <3>2
    <3>3. CASE s # q
      BY <1>1, <2>1, <2>3, <3>1, <3>3
    <3>4. QED
      BY <3>2, <3>3
  <2>5. \A t \in Queues : IsInjective(Got(t)') /\ IsInjective(Waiting(t)')
    <3>1. TAKE t \in Queues
    <3>2. CASE t = q
      BY <2>2, <2>3, <3>2
    <3>3. CASE t # q
      BY <1>3, <2>1, <2>3, <3>3
    <3>4. QED
      BY <3>2, <3>3
  <2>6. \A s, t \in Queues : Range(Got(t)') \cap Range(Waiting(s)') = {}
    <3>1. TAKE s, t \in Queues
    <3>2. CASE s = q
      BY <2>2, <3>2
    <3>3. CASE s # q
      BY <1>1, <1>3, <2>1, <2>3, <3>3
    <3>4. QED
      BY <3>2, <3>3
  <2>7. ASSUME NEW s \in Queues, NEW t \in Targets(s), OneMode(t) PROVE InOrder(s, Got(t)' \o Waiting(s)')
    <3>1. t \in Queues /\ Got(t) \in Seq(Known') /\ Waiting(s) \in Seq(Known')
      BY <1>1, <1>3
    <3>2. CASE s = q
      <4>1. Got(t)' = Got(t) \o W /\ InOrder(q, Got(t) \o W) /\ Waiting(s)' = <<>>
        BY <1>2, <2>1, <2>7, <3>1, <3>2
      <4>2. PICK h : h = Got(t) \o W
        OBVIOUS
      <4>3. Cat(h, <<>>) = h
        BY <1>4, <3>1, <4>2, CatLaws
      <4>4. QED
        BY <3>2, <4>1, <4>2, <4>3 DEF Cat
    <3>3. CASE s # q /\ t \notin Targets(q)
      BY <1>3, <2>1, <2>7, <3>1, <3>3
    <3>4. CASE s # q /\ t \in Targets(q)
      <4>1. Got(t)' = Got(t) \o W /\ Waiting(s)' = Waiting(s) /\ InOrder(s, W) /\ InOrder(s, Got(t) \o Waiting(s))
        BY <1>1, <1>3, <2>1, <2>7, <3>1, <3>4
      <4>2. PICK g : g = Got(t)
        OBVIOUS
      <4>3. PICK v : v = Waiting(s)
        OBVIOUS
      <4>4. PICK h : h = g \o W
        OBVIOUS
      <4>5. g \in Seq(Known') /\ v \in Seq(Known') /\ h \in Seq(Known')
        BY <1>4, <3>1, <4>2, <4>3, <4>4
      <4>6. InOrder(s, g) /\ InOrder(s, v) /\ Before(s, g, v)
        BY <4>1, <4>2, <4>3, <4>5, InOrderConcat
      <4>7. \A u \in Range(W) : u.from # s
        BY <1>1, <3>4
      <4>8. Before(s, g, W)
        BY <4>7 DEF Before
      <4>9. InOrder(s, h)
        BY <1>1, <4>1, <4>4, <4>5, <4>6, <4>8, InOrderConcat
      <4>10. Range(h) = Range(g) \cup Range(W)
        BY <1>4, <3>1, <4>2, <4>4
      <4>11. Before(s, h, v)
        BY <4>6, <4>7, <4>10 DEF Before
      <4>12. InOrder(s, h \o v)
        BY <4>5, <4>6, <4>9, <4>11, InOrderConcat
      <4>13. QED
        BY <4>1, <4>2, <4>3, <4>4, <4>12
    <3>5. QED
      BY <3>2, <3>3, <3>4
  <2>8. Accounted'
    BY <2>4 DEF Accounted
  <2>9. Ordered'
    BY <2>7 DEF Ordered, InOrder, OneMode
  <2>10. QED
    BY <2>5, <2>6, <2>8, <2>9 DEF WayOK, NotTwice
<1>7. QED
  BY <1>5, <1>6

LEMMA PartsWiden ==
  ASSUME NEW X, NEW Y, X \subseteq Y
  PROVE  Parts(X) \subseteq Parts(Y) /\ \A m : Texts(m, X) => Texts(m, Y)
<1>1. ASSUME NEW g \in Parts(X) PROVE g \in Parts(Y)
  <2>1. g.units \in Seq(X) /\ g.endKey \in 1..3 /\ g = [units |-> g.units, endKey |-> g.endKey]
    BY DEF Parts
  <2>2. g.units \in Seq(Y)
    BY <2>1, Widen
  <2>3. QED
    BY <2>1, <2>2 DEF Parts
<1>2. Parts(X) \subseteq Parts(Y)
  BY <1>1
<1>3. \A s \in Seq(Parts(X)) : s \in Seq(Parts(Y))
  BY <1>2, Widen
<1>4. Seq(Parts(X)) \subseteq Seq(Parts(Y))
  BY <1>3
<1>5. ASSUME NEW m, Texts(m, X) PROVE Texts(m, Y)
  BY <1>4, <1>5, Widen DEF Texts
<1>6. QED
  BY <1>2, <1>5

LEMMA LongerPlaces ==
  ASSUME NEW X, NEW t \in Seq(X), NEW a \in Seq(X), NEW b \in Seq(X), NEW c \in Seq(X), NEW m \in Seq(X)
  PROVE  Same(InPlaces(t, a, b, c \o m), InPlaces(t, a, b, c) \o m)
<1>1. Cat(t, Cat(Cat(a, b), Cat(c, m))) = Cat(Cat(t, Cat(Cat(a, b), c)), m)
  <2>1. Cat(a, b) \in Seq(X) /\ Cat(Cat(a, b), c) \in Seq(X)
    BY CatLaws
  <2>2. Cat(Cat(a, b), Cat(c, m)) = Cat(Cat(Cat(a, b), c), m)
    BY <2>1, CatLaws
  <2>3. Cat(t, Cat(Cat(Cat(a, b), c), m)) = Cat(Cat(t, Cat(Cat(a, b), c)), m)
    BY <2>1, CatLaws
  <2>4. QED
    BY <2>2, <2>3
<1>2. QED
  BY <1>1 DEF Cat, InPlaces, Same

LEMMA SendMore ==
  ASSUME IInv, NEW q \in Queues, NEW size \in Nat, NEW endKey \in 1..3, Send(q, size, endKey),
         Continues(endKey)
  PROVE  IInv'
<1> DEFINE part == [units |-> Text(q, size), endKey |-> endKey]
           s == StateOf(q)
           state == [s EXCEPT !.pending = Append(s.pending, part)]
<1>1. /\ queues' = With(queues, q, state) /\ Accepts(q, size, endKey) /\ Says("send", q, 0) /\ endKey = 1
  BY DEF Send, Accepts, Continues
<1>2. HistoryOK /\ DOMAIN queues \subseteq Queues /\ \A p \in Queues : QueueOK(p)
  BY DEF IInv, QueuesOK
<1>3. /\ HistoryOK' /\ \A p : Contents(p) \subseteq Contents(p)'
      /\ WaitingPieces(q) \subseteq WaitingPieces(q)' /\ part \in WaitingPieces(q)'
  BY <1>1, <1>2, SendSets
<1>4. /\ DOMAIN queues' = DOMAIN queues \cup {q}
      /\ \A p : StateOf(p)' = IF p = q THEN state ELSE StateOf(p)
  BY <1>1, WithState
<1>5. Known \subseteq Known' /\ Text(q, size) \in Seq(Own(q)') /\ Own(q)' \subseteq Known'
  BY <1>1, <1>2, SendText DEF Own
<1>6. part.units = Text(q, size) /\ part.endKey = endKey /\ part \in Parts(Known')
  <2>1. Text(q, size) \in Seq(Known')
    BY <1>5, Widen
  <2>2. QED
    BY <2>1 DEF Parts
<1> HIDE DEF part
<1>7. s \in Contents(q) /\ s.pending \in Seq(Parts(Known))
  BY <1>2, StateTypes DEF QueueOK
<1>8. s \in Contents(q)' /\ s.pending \in Seq(WaitingPieces(q)') /\ s.pending \in Seq(Parts(Known'))
  <2>1. s \in Contents(q)'
    BY <1>3, <1>7
  <2>2. s.pending \in Seq(WaitingPieces(q))
    BY <1>7 DEF Contents
  <2>3. Parts(Known) \subseteq Parts(Known')
    BY <1>5, PartsWiden
  <2>4. QED
    BY <1>3, <1>7, <2>1, <2>2, <2>3, Widen
<1>9. Append(s.pending, part) \in Seq(WaitingPieces(q)')
  BY <1>3, <1>8
<1>10. /\ state \in Contents(q)' /\ state.pending = Append(s.pending, part)
       /\ state.messageReceive = s.messageReceive /\ state.segmentReceive = s.segmentReceive
       /\ state.messages = s.messages
  BY <1>8, <1>9 DEF Contents
<1> HIDE DEF state
<1>11. ASSUME NEW p \in Queues PROVE QueueOK(p)'
  <2>1. QueueOK(p)
    BY <1>2
  <2>2. CASE p = q
    <3>1. StateOf(p)' = state
      BY <1>4, <2>2
    <3>2. QED
      BY <1>10, <2>1, <2>2, <3>1 DEF QueueOK
  <2>3. CASE p # q
    <3>1. StateOf(p)' = StateOf(p)
      BY <1>4, <2>3
    <3>2. QED
      BY <1>3, <2>1, <3>1 DEF QueueOK
  <2>4. QED
    BY <2>2, <2>3
<1>12. QueuesOK' /\ ReplyOK'
  <2>1. ReplyOK'
    BY <1>1, ReplyIs DEF Calls
  <2>2. QED
    BY <1>2, <1>4, <1>11, <2>1 DEF QueuesOK
<1>13. taken' = taken
  BY <1>1 DEF Accepts
<1>14. ASSUME NEW p \in Queues, p # q PROVE Waiting(p)' = Waiting(p) /\ Got(p)' = Got(p)
  <2>1. StateOf(p)' = StateOf(p)
    BY <1>4, <1>14
  <2>2. QED
    BY <1>13, <2>1 DEF Waiting, Got, Begun, InParts, Queued
<1>15. Waiting(q)' = Waiting(q) \o Text(q, size) /\ Got(q)' = Got(q)
  <2>1. StateOf(q)' = state
    BY <1>4
  <2>2. Bytes(Append(s.pending, part)) = Bytes(s.pending) \o part.units
    BY <1>6, <1>8, BytesAppend
  <2>3. Waiting(q)' = Waiting(q) \o Text(q, size)
    BY <1>6, <1>10, <2>1, <2>2 DEF Waiting
  <2>4. Got(q)' = Got(q)
    BY <1>10, <1>13, <2>1 DEF Got, Begun, InParts, Queued
  <2>5. QED
    BY <2>3, <2>4
<1>16. PICK W : W = Waiting(q) \o Text(q, size)
  OBVIOUS
<1>17. Joins(q, W) /\ JoinedText(W, q, size)
  BY <1>14, <1>15, <1>16 DEF Joins, JoinedText
<1>18. WayOK'
  BY <1>1, <1>14, <1>17, SendWay
<1>19. QED
  BY <1>3, <1>12, <1>18 DEF IInv

LEMMA SendLast ==
  ASSUME IInv, NEW q \in Queues, NEW size \in Nat, NEW endKey \in 1..3, Send(q, size, endKey),
         ~Continues(endKey)
  PROVE  IInv'
<1> DEFINE part == [units |-> Text(q, size), endKey |-> endKey]
           s == StateOf(q)
           none == <<>>
           state == [s EXCEPT !.pending = none]
           m == Append(s.pending, part)
           before(p) == IF p = q THEN state ELSE StateOf(p)
<1>1. /\ queues' = Deliver(With(queues, q, state), q, m) /\ Accepts(q, size, endKey)
      /\ Says("send", q, 0) /\ endKey # 1
  BY DEF Send, Accepts, Continues
<1>2. HistoryOK /\ DOMAIN queues \subseteq Queues /\ \A p \in Queues : QueueOK(p)
  BY DEF IInv, QueuesOK
<1>3. /\ HistoryOK' /\ \A p : Contents(p) \subseteq Contents(p)'
      /\ WaitingPieces(q) \subseteq WaitingPieces(q)' /\ part \in Pieces'
  BY <1>1, <1>2, SendSets
<1>4. /\ DOMAIN queues' = DOMAIN queues \cup {q} \cup Targets(q)
      /\ \A p : StateOf(p)' = IF p \in Targets(q)
                                THEN [before(p) EXCEPT !.messages = Append(@, m)] ELSE before(p)
  BY <1>1, DeliverState
<1>5. Known \subseteq Known' /\ Text(q, size) \in Seq(Own(q)') /\ Own(q)' \subseteq Known'
  BY <1>1, <1>2, SendText DEF Own
<1>6. part.units = Text(q, size) /\ part.endKey = endKey /\ part \in Parts(Known')
  <2>1. Text(q, size) \in Seq(Known')
    BY <1>5, Widen
  <2>2. QED
    BY <2>1 DEF Parts
<1> HIDE DEF part
<1>7. Parts(Known) \subseteq Parts(Known') /\ \A x : Texts(x, Known) => Texts(x, Known')
  BY <1>5, PartsWiden
<1>8. /\ s.pending \in Seq(WaitingPieces(q)) /\ s.pending \in Seq(Parts(Known'))
      /\ s.pending \in Seq(WaitingPieces(q)')
  <2>1. s.pending \in Seq(WaitingPieces(q)) /\ s.pending \in Seq(Parts(Known))
    BY <1>2, StateTypes DEF QueueOK, Contents
  <2>2. QED
    BY <1>3, <1>7, <2>1, Widen
<1>9. m \in Messages' /\ m \in Seq(Parts(Known'))
  <2>1. m \in Seq(Parts(Known'))
    BY <1>6, <1>8
  <2>2. WaitingPieces(q)' \subseteq Pieces'
    BY DEF WaitingPieces
  <2>3. s.pending \in Seq(Pieces')
    BY <1>8, <2>2, Widen
  <2>4. m \in Seq(Pieces')
    BY <1>3, <2>3
  <2>5. Complete(m)
    <3>1. \A g \in WaitingPieces(q) : g.endKey = 1
      BY DEF WaitingPieces
    <3>2. PICK p : p = s.pending
      OBVIOUS
    <3>3. /\ Len(m) = Len(p) + 1 /\ Len(p) \in Nat /\ m[Len(m)] = part /\ m # <<>>
          /\ \A n \in 1..Len(p) : m[n] = p[n] /\ p[n].endKey = 1
      BY <1>8, <3>1, <3>2
    <3> HIDE DEF m
    <3>4. ASSUME NEW n \in 1..Len(m) PROVE m[n].endKey = 1 <=> n < Len(m)
      <4>1. CASE n = Len(m)
        BY <1>1, <1>6, <3>3, <4>1
      <4>2. CASE n # Len(m)
        <5>1. n \in 1..Len(p) /\ n < Len(m)
          BY <3>3, <4>2
        <5>2. QED
          BY <3>3, <5>1
      <4>3. QED
        BY <4>1, <4>2
    <3>5. QED
      BY <3>3, <3>4 DEF Complete
  <2>6. m \in {x \in Seq(Pieces') : Complete(x)}
    BY <2>4, <2>5
  <2>7. QED
    BY <2>1, <2>6 DEF Messages, Complete
<1>10. Bytes(m) = Waiting(q) \o Text(q, size)
  BY <1>6, <1>8, BytesAppend DEF Waiting
<1> HIDE DEF m
<1>11. ASSUME NEW p \in Queues
       PROVE  /\ before(p) \in Contents(p)' /\ before(p).messages = StateOf(p).messages
              /\ before(p).messageReceive = StateOf(p).messageReceive
              /\ before(p).segmentReceive = StateOf(p).segmentReceive
              /\ before(p).pending = IF p = q THEN <<>> ELSE StateOf(p).pending
  <2>1. StateOf(p) \in Contents(p)'
    BY <1>2, <1>3 DEF QueueOK
  <2>2. CASE p # q
    BY <2>1, <2>2
  <2>3. CASE p = q
    <3>1. none \in Seq(WaitingPieces(q)')
      OBVIOUS
    <3> HIDE DEF none
    <3>2. /\ state \in Contents(q)' /\ state.pending = none /\ state.messages = s.messages
          /\ state.messageReceive = s.messageReceive /\ state.segmentReceive = s.segmentReceive
      BY <2>1, <2>3, <3>1 DEF Contents
    <3>3. QED
      BY <2>3, <3>2 DEF none
  <2>4. QED
    BY <2>2, <2>3
<1> HIDE DEF before
<1>12. ASSUME NEW p \in Queues
       PROVE  /\ StateOf(p)' \in Contents(p)'
              /\ StateOf(p)'.messages = IF p \in Targets(q) THEN Append(StateOf(p).messages, m)
                                                            ELSE StateOf(p).messages
              /\ StateOf(p)'.messageReceive = StateOf(p).messageReceive
              /\ StateOf(p)'.segmentReceive = StateOf(p).segmentReceive
              /\ StateOf(p)'.pending = IF p = q THEN <<>> ELSE StateOf(p).pending
  <2>1. CASE p \notin Targets(q)
    BY <1>4, <1>11, <2>1
  <2>2. CASE p \in Targets(q)
    <3>1. StateOf(p)' = [before(p) EXCEPT !.messages = Append(before(p).messages, m)]
      BY <1>4, <2>2
    <3>2. before(p).messages \in Seq(Messages')
      BY <1>11 DEF Contents
    <3>3. Append(before(p).messages, m) \in Seq(Messages')
      BY <1>9, <3>2
    <3>4. /\ StateOf(p)' \in Contents(p)' /\ StateOf(p)'.messages = Append(before(p).messages, m)
          /\ StateOf(p)'.messageReceive = before(p).messageReceive
          /\ StateOf(p)'.segmentReceive = before(p).segmentReceive
          /\ StateOf(p)'.pending = before(p).pending
      BY <1>11, <3>1, <3>3 DEF Contents
    <3>5. QED
      BY <1>11, <2>2, <3>4
  <2>3. QED
    BY <2>1, <2>2
<1>13. ASSUME NEW p \in Queues PROVE QueueOK(p)'
  BY <1>2, <1>12 DEF QueueOK
<1>14. QueuesOK' /\ ReplyOK'
  <2>1. ReplyOK'
    BY <1>1, ReplyIs DEF Calls
  <2>2. DOMAIN queues' \subseteq Queues
    BY <1>2, <1>4, TargetsAreQueues
  <2>3. QED
    BY <1>13, <2>1, <2>2 DEF QueuesOK
<1>15. taken' = taken
  BY <1>1 DEF Accepts
<1>16. PICK W : W = Waiting(q) \o Text(q, size)
  OBVIOUS
<1>17. \A p \in Queues : p # q => Waiting(p)' = Waiting(p)
  BY <1>12 DEF Waiting
<1>18. Waiting(q)' = <<>>
  <2>1. StateOf(q)'.pending = <<>>
    BY <1>12
  <2>2. QED
    BY <2>1, BytesEmpty DEF Waiting
<1>19. ASSUME NEW t \in Queues
       PROVE  Got(t)' = IF t \in Targets(q) THEN Got(t) \o W ELSE Got(t)
  <2>1. Begun(t)' = Begun(t) /\ InParts(t)' = InParts(t)
    BY <1>12 DEF Begun, InParts
  <2>2. CASE t \notin Targets(q)
    <3>1. StateOf(t)'.messages = StateOf(t).messages
      BY <1>12, <2>2
    <3>2. QED
      BY <1>15, <2>1, <2>2, <3>1 DEF Got, Queued
  <2>3. CASE t \in Targets(q)
    <3>1. StateOf(t)'.messages = Append(StateOf(t).messages, m)
      BY <1>12, <2>3
    <3>2. Texts(StateOf(t).messages, Known')
      BY <1>2, <1>7, StateTypes
    <3>3. BytesIn(Append(StateOf(t).messages, m)) = BytesIn(StateOf(t).messages) \o Bytes(m)
      BY <1>9, <3>2, BytesInAppend
    <3>4. Queued(t)' = Queued(t) \o W
      BY <1>10, <1>16, <3>1, <3>3 DEF Queued
    <3>5. PICK b : b = Begun(t)
      OBVIOUS
    <3>6. PICK i : i = InParts(t)
      OBVIOUS
    <3>7. PICK c : c = Queued(t)
      OBVIOUS
    <3>8. PICK a : a = taken[t]
      OBVIOUS
    <3>9. a \in Seq(Known) /\ b \in Seq(Known) /\ i \in Seq(Known) /\ c \in Seq(Known)
      BY <1>2, <3>5, <3>6, <3>7, <3>8, PlaceTypes
    <3>10. a \in Seq(Known') /\ b \in Seq(Known') /\ i \in Seq(Known') /\ c \in Seq(Known')
      BY <1>5, <3>9, Widen
    <3>11. W \in Seq(Known')
      BY <1>9, <1>10, <1>16, BytesType
    <3>12. Same(InPlaces(a, b, i, c \o W), InPlaces(a, b, i, c) \o W)
      BY <3>10, <3>11, LongerPlaces
    <3>13. Got(t)' = InPlaces(a, b, i, c \o W)
      BY <1>15, <2>1, <3>4, <3>5, <3>6, <3>7, <3>8 DEF Got
    <3>14. Got(t) = InPlaces(a, b, i, c)
      BY <3>5, <3>6, <3>7, <3>8 DEF Got
    <3>15. QED
      BY <2>3, <3>12, <3>13, <3>14 DEF Same
  <2>4. QED
    BY <2>2, <2>3
<1>20. Leaves(q, W) /\ JoinedText(W, q, size)
  BY <1>16, <1>18, <1>19 DEF Leaves, JoinedText
<1>21. WayOK'
  BY <1>1, <1>17, <1>20, SendWay
<1>22. QED
  BY <1>3, <1>14, <1>21 DEF IInv

-----------------------------------------------------------------------------
(* The steps *)

(* The calls apart from a RECEIVE that delivers something. *)
OtherCall ==
  \/ \E q \in Switched : Enable(q) \/ Disable(q)
  \/ \E q \in Purgeable : Purge(q)
  \/ \E q \in Receivers : ReceiveRefused(q) \/ ReceiveNothing(q) \/ AcceptCount(q)
  \/ \E q \in Senders :
       \/ SendInvalid(q) \/ SendDisabled(q)
       \/ \E size \in TextSizes, endKey \in SendOptions : Send(q, size, endKey)

DeliveringReceive ==
  \E q \in Receivers : \E size \in BufferSizes : ReceiveMessage(q, size) \/ ReceiveSegment(q, size)

LEMMA KindsOfSteps ==
  ASSUME Next
  PROVE  OtherCall \/ DeliveringReceive
BY DEF Next, Receive, OtherCall, DeliveringReceive

LEMMA NextKeeps ==
  ASSUME IInv, Next
  PROVE  IInv'
<1>1. /\ Senders \subseteq Queues /\ Receivers \subseteq Queues /\ Switched \subseteq Queues
      /\ Purgeable \subseteq Queues /\ SendOptions \subseteq 1..3 /\ TextSizes \subseteq Nat
      /\ BufferSizes \subseteq Nat \ {0}
  BY SizesAssumption
<1>2. ASSUME NEW q \in Switched, Enable(q) \/ Disable(q) PROVE IInv'
  BY <1>1, <1>2, SwitchIsQuiet, QuietKeeps
<1>3. ASSUME NEW q \in Purgeable, Purge(q) PROVE IInv'
  BY <1>1, <1>3, PurgeKeeps
<1>4. ASSUME NEW q \in Receivers, ReceiveRefused(q) \/ ReceiveNothing(q) \/ AcceptCount(q) PROVE IInv'
  BY <1>1, <1>4, EmptyReceiveIsQuiet, QuietKeeps
<1>5. ASSUME NEW q \in Senders, SendInvalid(q) \/ SendDisabled(q) PROVE IInv'
  BY <1>1, <1>5, RefusedSendIsQuiet, QuietKeeps
<1>6. ASSUME NEW q \in Senders, NEW size \in TextSizes, NEW endKey \in SendOptions, Send(q, size, endKey)
      PROVE  IInv'
  <2>1. q \in Queues /\ size \in Nat /\ endKey \in 1..3
    BY <1>1
  <2>2. CASE Continues(endKey)
    BY <1>6, <2>1, <2>2, SendMore
  <2>3. CASE ~Continues(endKey)
    BY <1>6, <2>1, <2>3, SendLast
  <2>4. QED
    BY <2>2, <2>3
<1>7. CASE OtherCall
  BY <1>2, <1>3, <1>4, <1>5, <1>6, <1>7 DEF OtherCall
<1>8. ASSUME NEW q \in Receivers, NEW size \in BufferSizes, ReceiveMessage(q, size) PROVE IInv'
  BY <1>1, <1>8, MessageKeeps
<1>9. ASSUME NEW q \in Receivers, NEW size \in BufferSizes, ReceiveSegment(q, size) PROVE IInv'
  BY <1>1, <1>9, SegmentKeeps
<1>10. CASE DeliveringReceive
  BY <1>8, <1>9, <1>10 DEF DeliveringReceive
<1>11. QED
  BY <1>7, <1>10, KindsOfSteps

LEMMA StutterKeeps ==
  ASSUME IInv, UNCHANGED vars
  PROVE  IInv'
<1>1. UNCHANGED history /\ queues' = queues /\ reply' = reply
  BY DEF vars
<1>2. ReplyOK'
  BY <1>1 DEF IInv, ReplyOK
<1>3. PICK q : q \in Queues
  BY SizesAssumption
<1>4. Quiet
  BY <1>1, <1>2, <1>3, OneQueueQuiet
<1>5. QED
  BY <1>4, QuietKeeps

(* Every state of the runtime satisfies the inductive invariant.           *)
THEOREM Invariant == Spec => []IInv
<1>1. Init => IInv
  BY InitInvariant
<1>2. IInv /\ [Next]_vars => IInv'
  BY NextKeeps, StutterKeeps
<1>3. QED
  BY <1>1, <1>2, PTL DEF Spec

(* The queues hold what the calls of communication.rs may find in them:    *)
(* every message of a queue is complete, its segments marked ESI up to the *)
(* last, and a message that is still being sent has no last segment.       *)
THEOREM QueuesAlwaysCorrect == Spec => []QueuesCorrect
<1>1. IInv => QueuesCorrect
  BY InvariantQueuesCorrect
<1>2. QED
  BY <1>1, Invariant, PTL

(* No call of communication.rs loses or repeats a byte: what was sent      *)
(* through a CD and not purged reaches each of its targets, or is still on *)
(* its way, exactly once, whatever RECEIVE modes are mixed.                *)
THEOREM AlwaysDeliveredOnce == Spec => []DeliveredOnce
<1>1. IInv => DeliveredOnce
  BY InvariantDeliveredOnce
<1>2. QED
  BY <1>1, Invariant, PTL

(* A target that is read in one RECEIVE mode gets the bytes of each CD in  *)
(* the order in which they were sent, whatever the other CDs send to it,   *)
(* however long the texts and the areas are.                               *)
THEOREM AlwaysDeliveredInOrder == Spec => []DeliveredInOrder
<1>1. IInv => DeliveredInOrder
  BY InvariantDeliveredInOrder
<1>2. QED
  BY <1>1, Invariant, PTL

-----------------------------------------------------------------------------
(* END KEY *)

KeyOf(byte, K) ==
  IF \E e \in ends : e.unit = byte /\ e.key \in K
    THEN (CHOOSE e \in ends : e.unit = byte).key ELSE 0

(* The end of a part is told with its last unit, and 0 before.             *)
LEMMA KeyOfPart ==
  ASSUME HistoryOK, NEW part \in Parts(Known), part.units # <<>>, NEW size \in Nat \ {0},
         NEW K, NEW D, D \cap K = {}, part.endKey \in K, Ended(part), EndedInside(part, D)
  PROVE  LET f == Fitting(part.units, size)
         IN  KeyOf(part.units[Len(f)], K) = IF Left(part.units, size) = <<>> THEN part.endKey ELSE 0
<1> DEFINE u == part.units
           f == Fitting(u, size)
           r == Left(u, size)
           byte == u[Len(f)]
<1>1. u \in Seq(Known) /\ u # <<>>
  BY DEF Parts
<1>2. Len(f) \in 1..Len(u) /\ (r = <<>> <=> Len(f) = Len(u)) /\ Len(u) \in Nat
  BY <1>1, CutUnits
<1> HIDE DEF f, r
<1>3. \A e, g \in ends : e.unit = g.unit => e = g
  BY DEF HistoryOK
<1>4. CASE r = <<>>
  <2> DEFINE end == [unit |-> byte, key |-> part.endKey]
  <2>1. end \in ends
    BY <1>2, <1>4 DEF Ended
  <2>2. end.unit = byte /\ end.key = part.endKey
    OBVIOUS
  <2> HIDE DEF end, byte, u
  <2>3. (CHOOSE e \in ends : e.unit = byte) = end
    BY <1>3, <2>1, <2>2
  <2>4. KeyOf(byte, K) = part.endKey
    BY <2>1, <2>2, <2>3 DEF KeyOf
  <2>5. QED
    BY <1>4, <2>4 DEF byte, f, r, u
<1>5. CASE r # <<>>
  <2>1. Len(f) \in 1..Len(u) /\ Len(f) < Len(u)
    BY <1>2, <1>5
  <2>2. \A e \in ends : e.unit = byte => e.key \in D
    BY <2>1 DEF EndedInside
  <2>3. KeyOf(byte, K) = 0
    BY <2>2 DEF KeyOf
  <2>4. QED
    BY <1>5, <2>3 DEF f, r
<1>6. QED
  BY <1>4, <1>5

(* After a RECEIVE of a part, the end key is that of the last byte taken.  *)
LEMMA PartKey ==
  ASSUME IInv, NEW q \in Queues, NEW part \in Parts(Known), part.units # <<>>, NEW size \in Nat \ {0},
         NEW K, NEW D, D \cap K = {}, part.endKey \in K, Ended(part), EndedInside(part, D),
         PartTaken(q, part, size)
  PROVE  StateOf(q)'.lastEndKey = KeyOf(taken'[q][Len(taken'[q])], K)
<1> DEFINE f == Fitting(part.units, size)
           t == taken[q]
<1>1. part.units \in Seq(Known)
  BY DEF Parts
<1>2. /\ f \in Seq(Known) /\ Len(f) \in 1..Len(part.units) /\ f[Len(f)] = part.units[Len(f)]
      /\ Len(part.units) \in Nat
  BY <1>1, CutUnits
<1>3. HistoryOK /\ t \in Seq(Known)
  BY DEF IInv, HistoryOK
<1>4. KeyOf(part.units[Len(f)], K) = IF Left(part.units, size) = <<>> THEN part.endKey ELSE 0
  BY <1>3, KeyOfPart
<1>5. taken'[q] = t \o f
  BY DEF PartTaken, IInv, HistoryOK
<1> HIDE DEF f, t
<1> DEFINE z == t \o f
<1>6. Len(z) = Len(t) + Len(f) /\ z[Len(z)] = f[Len(f)]
  <2>1. z \in Seq(Known) /\ Len(z) = Len(t) + Len(f) /\ Len(t) \in Nat /\ Len(f) \in Nat
        /\ \A i \in 1..Len(z) : z[i] = IF i <= Len(t) THEN t[i] ELSE f[i - Len(t)]
    BY <1>2, <1>3, ConcatProperties
  <2> HIDE DEF z
  <2>2. Len(z) \in 1..Len(z) /\ ~(Len(z) <= Len(t)) /\ Len(z) - Len(t) = Len(f)
    BY <1>2, <2>1
  <2>3. QED
    BY <2>1, <2>2
<1>7. taken'[q][Len(taken'[q])] = part.units[Len(f)]
  BY <1>2, <1>5, <1>6
<1>8. QED
  BY <1>4, <1>7 DEF PartTaken

LEMMA OtherReply ==
  ASSUME OtherCall
  PROVE  /\ reply'.op \notin {"receiveMessage", "receiveSegment"}
         /\ \A r : reply' = [op |-> "receive", queue |-> r, status |-> 10] => ReceiveNothing(r)
<1> DEFINE Elsewhere(op) == op \notin {"receiveMessage", "receiveSegment", "receive"}
           Goal == /\ reply'.op \notin {"receiveMessage", "receiveSegment"}
                   /\ \A r : reply' = [op |-> "receive", queue |-> r, status |-> 10] => ReceiveNothing(r)
<1>1. ASSUME NEW op, NEW q, NEW status, Says(op, q, status), Elsewhere(op) PROVE Goal
  <2>1. reply' = [op |-> op, queue |-> q, status |-> status]
    BY <1>1 DEF Says
  <2>2. reply'.op = op
    BY <2>1
  <2>3. ASSUME NEW r, reply' = [op |-> "receive", queue |-> r, status |-> 10] PROVE FALSE
    <3>1. reply'.op = "receive"
      BY <2>3
    <3>2. QED
      BY <1>1, <2>2, <3>1
  <2>4. QED
    BY <1>1, <2>2, <2>3
<1>2. ASSUME NEW q, Enable(q) \/ Disable(q) PROVE Goal
  <2>1. PICK op \in {"enable", "disable"} : \E on \in BOOLEAN : Switch(op, q, on)
    BY <1>2 DEF Enable, Disable
  <2>2. PICK status : Says(op, q, status)
    BY <2>1 DEF Switch
  <2>3. Elsewhere(op)
    OBVIOUS
  <2> HIDE DEF Goal, Elsewhere
  <2>4. QED
    BY <1>1, <2>2, <2>3
<1>3. ASSUME NEW q, Purge(q) \/ AcceptCount(q) PROVE Goal
  <2>1. PICK op \in {"purge", "acceptCount"} : \E status : Says(op, q, status)
    BY <1>3 DEF Purge, AcceptCount
  <2>2. PICK status : Says(op, q, status)
    BY <2>1
  <2>3. Elsewhere(op)
    OBVIOUS
  <2> HIDE DEF Goal, Elsewhere
  <2>4. QED
    BY <1>1, <2>2, <2>3
<1>4. ASSUME NEW q, ReceiveRefused(q) PROVE Goal
  <2>1. reply' = [op |-> "receive", queue |-> q, status |-> 20]
    BY <1>4 DEF ReceiveRefused, Says
  <2>2. reply'.op = "receive" /\ reply'.status = 20
    BY <2>1
  <2>3. ASSUME NEW r, reply' = [op |-> "receive", queue |-> r, status |-> 10] PROVE FALSE
    <3>1. reply'.status = 10
      BY <2>3
    <3>2. QED
      BY <2>2, <3>1
  <2>4. QED
    BY <2>2, <2>3
<1>5. ASSUME NEW q, ReceiveNothing(q) PROVE Goal
  <2>1. reply' = [op |-> "receive", queue |-> q, status |-> 10]
    BY <1>5 DEF ReceiveNothing, Says
  <2>2. reply'.op = "receive" /\ reply'.queue = q
    BY <2>1
  <2>3. ASSUME NEW r, reply' = [op |-> "receive", queue |-> r, status |-> 10] PROVE ReceiveNothing(r)
    <3>1. reply'.queue = r
      BY <2>3
    <3>2. r = q
      BY <2>2, <3>1
    <3>3. QED
      BY <1>5, <3>2
  <2>4. QED
    BY <2>2, <2>3
<1>6. ASSUME NEW q, NEW size, NEW endKey, SendInvalid(q) \/ SendDisabled(q) \/ Send(q, size, endKey)
      PROVE  Goal
  <2>1. PICK status : Says("send", q, status)
    BY <1>6 DEF SendInvalid, SendDisabled, Send
  <2>2. Elsewhere("send")
    OBVIOUS
  <2> HIDE DEF Goal, Elsewhere
  <2>3. QED
    BY <1>1, <2>1, <2>2
<1> HIDE DEF Goal
<1>7. QED
  <2>1. Goal
    BY <1>2, <1>3, <1>4, <1>5, <1>6 DEF OtherCall
  <2>2. QED
    BY <2>1 DEF Goal

LastTaken(q) == taken[q][Len(taken[q])]

(* EndKeyIsSenders in these words. *)
KeysTold ==
  \A q \in DOMAIN queues :
    /\ reply = [op |-> "receiveMessage", queue |-> q, status |-> 0]
         => queues[q].lastEndKey = KeyOf(LastTaken(q), {2, 3})
    /\ reply = [op |-> "receiveSegment", queue |-> q, status |-> 0]
         => queues[q].lastEndKey = KeyOf(LastTaken(q), {1, 2, 3})

LEMMA KeysToldIs ==
  KeysTold => EndKeyIsSenders
BY DEF KeysTold, EndKeyIsSenders, KeyOf, LastTaken

LEMMA StateInDomain ==
  ASSUME NEW q, q \in DOMAIN queues'
  PROVE  queues'[q] = StateOf(q)'
BY DEF StateOf

LEMMA NextTellsKey ==
  ASSUME IInv, Next
  PROVE  KeysTold'
<1>1. SUFFICES ASSUME NEW r \in DOMAIN queues'
               PROVE  /\ reply' = [op |-> "receiveMessage", queue |-> r, status |-> 0]
                           => queues'[r].lastEndKey = KeyOf(LastTaken(r), {2, 3})'
                      /\ reply' = [op |-> "receiveSegment", queue |-> r, status |-> 0]
                           => queues'[r].lastEndKey = KeyOf(LastTaken(r), {1, 2, 3})'
  BY DEF KeysTold
<1>2. CASE OtherCall
  <2>1. reply'.op \notin {"receiveMessage", "receiveSegment"}
    BY <1>2, OtherReply
  <2>2. \A op, s : reply' = [op |-> op, queue |-> r, status |-> s] => reply'.op = op
    OBVIOUS
  <2>3. QED
    BY <2>1, <2>2
<1>3. ASSUME NEW q \in Receivers, NEW size \in BufferSizes, ReceiveMessage(q, size)
      PROVE  /\ reply' = [op |-> "receiveMessage", queue |-> q, status |-> 0]
             /\ StateOf(q)'.lastEndKey = KeyOf(LastTaken(q), {2, 3})'
  <2>1. q \in Queues /\ size \in Nat \ {0}
    BY SizesAssumption
  <2>2. PICK a \in Flat : PartTaken(q, a, size) /\ reply' = [op |-> "receiveMessage", queue |-> q, status |-> 0]
    BY <1>3, <2>1, MessageTaken
  <2>3. /\ a \in Parts(Known) /\ a.units # <<>> /\ a.endKey \in {2, 3} /\ Ended(a)
        /\ EndedInside(a, {1}) /\ {1} \cap {2, 3} = {}
    BY DEF Flat, Parts
  <2>4. StateOf(q)'.lastEndKey = KeyOf(taken'[q][Len(taken'[q])], {2, 3})
    BY <2>1, <2>2, <2>3, PartKey
  <2>5. QED
    BY <2>2, <2>4 DEF PartTaken, KeyOf, LastTaken
<1>4. ASSUME NEW q \in Receivers, NEW size \in BufferSizes, ReceiveSegment(q, size)
      PROVE  /\ reply' = [op |-> "receiveSegment", queue |-> q, status |-> 0]
             /\ StateOf(q)'.lastEndKey = KeyOf(LastTaken(q), {1, 2, 3})'
  <2>1. q \in Queues /\ size \in Nat \ {0}
    BY SizesAssumption
  <2>2. PICK g \in Pieces : PartTaken(q, g, size) /\ reply' = [op |-> "receiveSegment", queue |-> q, status |-> 0]
    BY <1>4, <2>1, SegmentTaken
  <2>3. /\ g \in Parts(Known) /\ g.units # <<>> /\ g.endKey \in {1, 2, 3} /\ Ended(g)
        /\ EndedInside(g, {}) /\ {} \cap {1, 2, 3} = {}
    BY DEF Pieces, Parts
  <2>4. StateOf(q)'.lastEndKey = KeyOf(taken'[q][Len(taken'[q])], {1, 2, 3})
    BY <2>1, <2>2, <2>3, PartKey
  <2>5. QED
    BY <2>2, <2>4 DEF PartTaken, KeyOf, LastTaken
<1>5. CASE DeliveringReceive
  <2>1. PICK q \in Receivers : \E size \in BufferSizes : ReceiveMessage(q, size) \/ ReceiveSegment(q, size)
    BY <1>5 DEF DeliveringReceive
  <2>2. PICK size \in BufferSizes : ReceiveMessage(q, size) \/ ReceiveSegment(q, size)
    BY <2>1
  <2>3. queues'[r] = StateOf(r)'
    BY StateInDomain
  <2>4. \A op, s : reply' = [op |-> op, queue |-> r, status |-> s] => reply'.op = op /\ reply'.queue = r
    OBVIOUS
  <2>5. CASE ReceiveMessage(q, size)
    <3>1. /\ reply' = [op |-> "receiveMessage", queue |-> q, status |-> 0]
          /\ StateOf(q)'.lastEndKey = KeyOf(LastTaken(q), {2, 3})'
      BY <1>3, <2>5
    <3>2. reply'.op = "receiveMessage" /\ reply'.queue = q
      BY <3>1
    <3>3. ~(reply' = [op |-> "receiveSegment", queue |-> r, status |-> 0])
      BY <2>4, <3>2
    <3>4. reply' = [op |-> "receiveMessage", queue |-> r, status |-> 0] => r = q
      BY <2>4, <3>2
    <3>5. QED
      BY <2>3, <3>1, <3>3, <3>4
  <2>6. CASE ReceiveSegment(q, size)
    <3>1. /\ reply' = [op |-> "receiveSegment", queue |-> q, status |-> 0]
          /\ StateOf(q)'.lastEndKey = KeyOf(LastTaken(q), {1, 2, 3})'
      BY <1>4, <2>6
    <3>2. reply'.op = "receiveSegment" /\ reply'.queue = q
      BY <3>1
    <3>3. ~(reply' = [op |-> "receiveMessage", queue |-> r, status |-> 0])
      BY <2>4, <3>2
    <3>4. reply' = [op |-> "receiveSegment", queue |-> r, status |-> 0] => r = q
      BY <2>4, <3>2
    <3>5. QED
      BY <2>3, <3>1, <3>3, <3>4
  <2>7. QED
    BY <2>2, <2>5, <2>6
<1>6. QED
  BY <1>2, <1>5, KindsOfSteps

(* END KEY, the last_end_key that RECEIVE leaves in the CD, is what the    *)
(* sender said of the last byte received: no receiver is told that a       *)
(* message or a segment is complete while part of it is still to come.     *)
THEOREM EndKeyAlwaysSenders == Spec => []EndKeyIsSenders
<1>1. Init => KeysTold
  <2>1. SUFFICES ASSUME Init PROVE KeysTold
    OBVIOUS
  <2>2. reply.op = "acceptCount"
    BY <2>1 DEF Init
  <2>3. \A op, r, s : reply = [op |-> op, queue |-> r, status |-> s] => reply.op = op
    OBVIOUS
  <2>4. QED
    BY <2>2, <2>3 DEF KeysTold
<1>2. IInv /\ KeysTold /\ [Next]_vars => KeysTold'
  <2>1. CASE UNCHANGED vars
    BY <2>1 DEF KeysTold, KeyOf, LastTaken, vars, history
  <2>2. QED
    BY <2>1, NextTellsKey
<1>3. QED
  BY <1>1, <1>2, Invariant, KeysToldIs, PTL DEF Spec

-----------------------------------------------------------------------------
(* NO DATA *)

LEMMA NothingInFlight ==
  ASSUME IInv, NEW q \in Queues, Cardinality(Modes[q]) <= 1, NothingLeft(q)
  PROVE  InFlight(q) = <<>>
<1>1. QueueOK(q) /\ OneMode(q)
  BY OneModeIs DEF IInv, QueuesOK
<1>2. /\ StateOf(q).messages = <<>> /\ StateOf(q).messageReceive = <<>>
      /\ StateOf(q).segmentReceive = <<>>
  BY <1>1 DEF NothingLeft, QueueOK, OneMode
<1>3. Bytes(<<>>) \o Bytes(<<>>) \o BytesIn(<<>>) = <<>>
  BY BytesEmpty, BytesInEmpty
<1>4. QED
  BY <1>2, <1>3 DEF InFlight

(* RECEIVE answers "no data" only when nothing is left on the way to the   *)
(* queue: a program that reads a queue in one mode until then misses no    *)
(* message and no rest of one.                                             *)
THEOREM NoDataAlwaysWhenDrained == Spec => NoDataOnlyWhenDrained
<1> DEFINE Drained ==
      \A q \in {r \in Queues : Cardinality(Modes[r]) <= 1} :
        reply' = [op |-> "receive", queue |-> q, status |-> 10] => InFlight(q) = <<>>
<1>1. IInv /\ [Next]_vars => [Drained]_vars
  <2>1. SUFFICES ASSUME IInv, Next, NEW q \in Queues, Cardinality(Modes[q]) <= 1,
                        reply' = [op |-> "receive", queue |-> q, status |-> 10]
                 PROVE  InFlight(q) = <<>>
    OBVIOUS
  <2>2. reply'.op = "receive"
    BY <2>1
  <2>3. CASE OtherCall
    <3>1. ReceiveNothing(q)
      BY <2>1, <2>3, OtherReply
    <3>2. NothingLeft(q)
      BY <3>1 DEF ReceiveNothing
    <3>3. QED
      BY <2>1, <3>2, NothingInFlight
  <2>4. CASE DeliveringReceive
    <3>1. PICK p \in Receivers : \E size \in BufferSizes : ReceiveMessage(p, size) \/ ReceiveSegment(p, size)
      BY <2>4 DEF DeliveringReceive
    <3>2. \E op \in {"receiveMessage", "receiveSegment"} : Says(op, p, 0)
      BY <3>1 DEF ReceiveMessage, ReceiveSegment
    <3>3. reply'.op \in {"receiveMessage", "receiveSegment"}
      BY <3>2 DEF Says
    <3>4. QED
      BY <2>2, <3>3
  <2>5. QED
    BY <2>1, <2>3, <2>4, KindsOfSteps
<1>2. QED
  BY <1>1, Invariant, PTL DEF Spec, NoDataOnlyWhenDrained
=============================================================================
