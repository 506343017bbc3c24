----------------------- MODULE GeneratedControl_proof -----------------------
(***************************************************************************)
(* What holds of the C code generated for a PROCEDURE DIVISION, for every  *)
(* shape of program, every choice of paragraph bodies and any depth of the *)
(* C call stack: its frames stay linked, however GO TO, PERFORM THRU and   *)
(* fall-through move control between the functions.                        *)
(***************************************************************************)
EXTENDS GeneratedControl, SequenceLemmas

Ops == {"work", "stop", "exit", "goTo", "goToIf", "perform"}
Waiting == {"single", "range", "outside", "called"}
Pcs == {"run", "dispatch", "entry", "loop", "disp"} \cup Waiting

-----------------------------------------------------------------------------
(* Shapes of program                                                       *)

(* The paragraphs of a shape, as Procedures has them for the shape that is *)
(* run; the shape never changes.                                           *)
SizeOf(sh) == Shapes[sh].n
HeadersOf(sh) == Shapes[sh].headers
BodiesOf(sh) == Shapes[sh].bodies

SectionIn(sh, p) ==
  LET headers == {h \in HeadersOf(sh) : h <= p}
  IN  IF p \in HeadersOf(sh) \/ headers = {} THEN 0 ELSE Max(headers)

GroupIn(sh, p) == {p} \cup {q \in 1..SizeOf(sh) : SectionIn(sh, q) = p}

HeadersIn(sh, s) == s.from \in HeadersOf(sh) \/ s.thru \in HeadersOf(sh)

RangeIn(sh, s) ==
  {p \in s.from..s.thru :
     IF p \in HeadersOf(sh) THEN HeadersIn(sh, s)
     ELSE ~(HeadersIn(sh, s) /\ SectionIn(sh, p) \in s.from..s.thru /\ SectionIn(sh, p) # 0)}

LEMMA Shaped ==
  /\ N = SizeOf(shape) /\ Headers = HeadersOf(shape) /\ Bodies = BodiesOf(shape)
  /\ \A p : SectionOf(p) = SectionIn(shape, p) /\ Group(p) = GroupIn(shape, p)
  /\ \A s : RangeParagraphs(s) = RangeIn(shape, s) /\ FirstCalled(s) = Min(RangeIn(shape, s))
  /\ \A s : IncludesHeaders(s) <=> HeadersIn(shape, s)
<1>1. N = SizeOf(shape) /\ Headers = HeadersOf(shape) /\ Bodies = BodiesOf(shape)
  BY DEF N, Headers, Bodies, SizeOf, HeadersOf, BodiesOf
<1>2. \A p : SectionOf(p) = SectionIn(shape, p)
  BY <1>1 DEF SectionOf, SectionIn
<1>3. \A p : Group(p) = GroupIn(shape, p)
  BY <1>1, <1>2 DEF Group, GroupIn
<1>4. \A s : IncludesHeaders(s) <=> HeadersIn(shape, s)
  BY <1>1 DEF IncludesHeaders, HeadersIn
<1>5. \A s : RangeParagraphs(s) = RangeIn(shape, s)
  BY <1>1, <1>2, <1>4 DEF RangeParagraphs, RangeIn
<1>6. \A s : FirstCalled(s) = Min(RangeIn(shape, s))
  BY <1>5 DEF FirstCalled
<1>7. QED
  BY <1>1, <1>2, <1>3, <1>4, <1>5, <1>6

LEMMA ShapeProperties ==
  ASSUME NEW sh \in DOMAIN Shapes
  PROVE  /\ SizeOf(sh) \in Nat /\ SizeOf(sh) > 0
         /\ HeadersOf(sh) \subseteq 1..SizeOf(sh)
         /\ \A p \in 0..SizeOf(sh) : \A body \in BodiesOf(sh)[p] :
              /\ body \in Seq(Statements(SizeOf(sh)))
              /\ p = 0 => \A i \in DOMAIN body : body[i].op # "exit"
<1>1. SizeOf(sh) \in Nat /\ SizeOf(sh) > 0 /\ HeadersOf(sh) \subseteq 1..SizeOf(sh)
  <2>1. SizeOf(sh) \in Nat \ {0} /\ HeadersOf(sh) \subseteq 1..SizeOf(sh)
    BY ShapesAssumption, Zenon DEF SizeOf, HeadersOf
  <2>2. QED
    BY <2>1
<1>2. \A p \in 0..SizeOf(sh) : \A body \in BodiesOf(sh)[p] :
        /\ body \in Seq(Statements(SizeOf(sh)))
        /\ p = 0 => \A i \in DOMAIN body : body[i].op # "exit"
  BY StatementsAssumption DEF SizeOf, BodiesOf
<1>3. QED
  BY <1>1, <1>2

LEMMA StatementProperties ==
  ASSUME NEW n \in Nat, NEW s \in Statements(n)
  PROVE  /\ s.op \in Ops
         /\ s.op = "goTo" \/ s.op = "goToIf" => s.to \in 1..n
         /\ s.op = "perform" => s.from \in 1..n /\ s.thru \in 1..n /\ s.from <= s.thru
<1>1. CASE s \in {Work, Stop, Exit}
  BY <1>1 DEF Work, Stop, Exit, Ops
<1>2. ASSUME NEW p \in 1..n, s = GoTo(p) \/ s = GoToIf(p)
      PROVE  s.op \in Ops /\ s.to \in 1..n /\ s.op # "perform"
  BY <1>2 DEF GoTo, GoToIf, Ops
<1>3. ASSUME NEW r \in {q \in (1..n) \X (1..n) : q[1] <= q[2]}, s = Perform(r[1], r[2])
      PROVE  /\ s.op \in Ops /\ s.op # "goTo" /\ s.op # "goToIf"
             /\ s.from \in 1..n /\ s.thru \in 1..n /\ s.from <= s.thru
  BY <1>3 DEF Perform, Ops
<1>4. QED
  BY <1>1, <1>2, <1>3 DEF Statements

(* Sections are the paragraphs from one header up to the next.             *)
LEMMA SectionProperties ==
  ASSUME NEW sh \in DOMAIN Shapes, NEW p \in 1..SizeOf(sh)
  PROVE  /\ SectionIn(sh, p) \in 0..p
         /\ SectionIn(sh, p) # 0 => SectionIn(sh, p) \in HeadersOf(sh) /\ SectionIn(sh, p) < p
         /\ SectionIn(sh, p) # 0 => \A h \in HeadersOf(sh) : h <= p => h <= SectionIn(sh, p)
         /\ p \in HeadersOf(sh) => SectionIn(sh, p) = 0
         /\ p \notin HeadersOf(sh) /\ (\E h \in HeadersOf(sh) : h <= p) => SectionIn(sh, p) # 0
<1> DEFINE headers == {h \in HeadersOf(sh) : h <= p}
<1>1. headers \in SUBSET Nat /\ p \in Nat /\ \A h \in headers : h <= p /\ h > 0 /\ h \in HeadersOf(sh)
  BY ShapeProperties
<1>2. SectionIn(sh, p) = IF p \in HeadersOf(sh) \/ headers = {} THEN 0 ELSE Max(headers)
  BY DEF SectionIn
<1>3. headers # {} => Max(headers) \in headers /\ \A h \in headers : h <= Max(headers)
  BY <1>1, MaxIsGreatest
<1>4. \A h \in HeadersOf(sh) : h <= p => h \in headers
  OBVIOUS
<1> HIDE DEF headers
<1>5. CASE p \in HeadersOf(sh) \/ headers = {}
  <2>1. SectionIn(sh, p) = 0
    BY <1>2, <1>5
  <2>2. p \in HeadersOf(sh) \/ ~\E h \in HeadersOf(sh) : h <= p
    BY <1>4, <1>5
  <2>3. 0 \in 0..p
    BY <1>1
  <2>4. QED
    BY <2>1, <2>2, <2>3, Zenon
<1>6. CASE p \notin HeadersOf(sh) /\ headers # {}
  <2>1. SectionIn(sh, p) = Max(headers) /\ Max(headers) \in headers
    BY <1>2, <1>3, <1>6
  <2>2. Max(headers) # p /\ Max(headers) <= p /\ Max(headers) > 0 /\ Max(headers) \in Nat
    BY <1>1, <1>6, <2>1
  <2>3. Max(headers) \in 0..p /\ Max(headers) \in HeadersOf(sh) /\ Max(headers) < p /\ Max(headers) # 0
    BY <1>1, <2>1, <2>2
  <2>4. \A h \in HeadersOf(sh) : h <= p => h <= Max(headers)
    BY <1>3, <1>4, <1>6
  <2>5. QED
    BY <1>6, <2>1, <2>3, <2>4, Zenon
<1>7. QED
  BY <1>5, <1>6

LEMMA GroupProperties ==
  ASSUME NEW sh \in DOMAIN Shapes, NEW p \in 0..SizeOf(sh)
  PROVE  /\ p \in GroupIn(sh, p) /\ GroupIn(sh, p) \subseteq 0..SizeOf(sh)
         /\ \A q \in GroupIn(sh, p) : p <= q
         /\ p > 0 /\ GroupIn(sh, p) # {p} => p \in HeadersOf(sh)
         /\ Max(GroupIn(sh, p)) \in GroupIn(sh, p)
         /\ \A q \in GroupIn(sh, p) : q <= Max(GroupIn(sh, p))
<1>1. SizeOf(sh) \in Nat /\ SizeOf(sh) > 0
  BY ShapeProperties
<1>2. p \in GroupIn(sh, p) /\ GroupIn(sh, p) \subseteq 0..SizeOf(sh)
  BY <1>1 DEF GroupIn
<1>3. \A q \in GroupIn(sh, p) : q = p \/ (q \in 1..SizeOf(sh) /\ SectionIn(sh, q) = p)
  BY DEF GroupIn
<1>4. \A q \in GroupIn(sh, p) : p <= q
  <2>1. ASSUME NEW q \in 1..SizeOf(sh), SectionIn(sh, q) = p PROVE p <= q
    BY <1>1, <2>1, SectionProperties
  <2>2. QED
    BY <1>1, <1>3, <2>1
<1>5. p > 0 /\ GroupIn(sh, p) # {p} => p \in HeadersOf(sh)
  <2>1. ASSUME p > 0, NEW q \in 1..SizeOf(sh), SectionIn(sh, q) = p PROVE p \in HeadersOf(sh)
    BY <2>1, SectionProperties
  <2>2. QED
    BY <1>2, <1>3, <2>1
<1>6. /\ Max(GroupIn(sh, p)) \in GroupIn(sh, p)
      /\ \A q \in GroupIn(sh, p) : q <= Max(GroupIn(sh, p))
  <2>1. GroupIn(sh, p) \in SUBSET Nat /\ GroupIn(sh, p) # {} /\ \A q \in GroupIn(sh, p) : q <= SizeOf(sh)
    BY <1>1, <1>2
  <2>2. QED
    BY <1>1, <2>1, MaxIsGreatest
<1>7. QED
  BY <1>2, <1>4, <1>5, <1>6

(* Control falls from a paragraph of a section into the next one.          *)
LEMMA GroupGoesOn ==
  ASSUME NEW sh \in DOMAIN Shapes, NEW h \in HeadersOf(sh), NEW p \in GroupIn(sh, h),
         p < Max(GroupIn(sh, h))
  PROVE  p + 1 \in GroupIn(sh, h)
<1> DEFINE n == SizeOf(sh)
           m == Max(GroupIn(sh, h))
<1>1. n \in Nat /\ h \in 1..n /\ h \in 0..n /\ HeadersOf(sh) \subseteq 1..n
  BY ShapeProperties
<1>2. p \in 0..n /\ m \in 0..n /\ m \in GroupIn(sh, h) /\ h <= p /\ p < m
  BY <1>1, GroupProperties
<1> HIDE DEF m, n
<1>3. p + 1 \in 1..n /\ m \in 1..n /\ p + 1 <= m /\ h < p + 1 /\ m # h
  BY <1>1, <1>2
<1>4. SectionIn(sh, m) = h /\ h # 0
  BY <1>1, <1>2, <1>3 DEF GroupIn
<1>5. /\ m \notin HeadersOf(sh)
      /\ \A k \in HeadersOf(sh) : k <= m => k <= h
  BY <1>3, <1>4, SectionProperties DEF n
<1>6. p + 1 \notin HeadersOf(sh)
  BY <1>1, <1>3, <1>5
<1>7. SectionIn(sh, p + 1) # 0
  <2>1. h <= p + 1
    BY <1>1, <1>3
  <2>2. QED
    BY <1>3, <1>6, <2>1, SectionProperties DEF n
<1>8. /\ SectionIn(sh, p + 1) \in HeadersOf(sh) /\ SectionIn(sh, p + 1) < p + 1
      /\ \A k \in HeadersOf(sh) : k <= p + 1 => k <= SectionIn(sh, p + 1)
  BY <1>3, <1>7, SectionProperties DEF n
<1>9. SectionIn(sh, p + 1) = h
  <2> DEFINE k == SectionIn(sh, p + 1)
  <2>1. k \in HeadersOf(sh) /\ k < p + 1 /\ (h <= p + 1 => h <= k)
    BY <1>8
  <2>2. k \in 1..n
    BY <1>1, <2>1
  <2>3. k <= m => k <= h
    BY <1>5, <2>1
  <2> HIDE DEF k
  <2>4. k = h
    BY <1>1, <1>3, <2>1, <2>2, <2>3
  <2>5. QED
    BY <2>4 DEF k
<1>10. QED
  BY <1>3, <1>9 DEF GroupIn, n

(* A range is not empty, and its paragraphs lie between its ends.          *)
LEMMA RangeProperties ==
  ASSUME NEW sh \in DOMAIN Shapes, NEW s \in Statements(SizeOf(sh)), s.op = "perform"
  PROVE  /\ RangeIn(sh, s) \subseteq 1..SizeOf(sh)
         /\ Min(RangeIn(sh, s)) \in RangeIn(sh, s)
         /\ \A S \in SUBSET RangeIn(sh, s) : S # {} => Min(S) \in S
<1> DEFINE n == SizeOf(sh)
<1>1. n \in Nat /\ s.from \in 1..n /\ s.thru \in 1..n /\ s.from <= s.thru
  BY ShapeProperties, StatementProperties
<1>2. RangeIn(sh, s) \subseteq 1..n
  <2>1. RangeIn(sh, s) \subseteq s.from..s.thru
    BY DEF RangeIn
  <2> HIDE DEF n
  <2>2. QED
    BY <1>1, <2>1
<1>3. s.from \in RangeIn(sh, s)
  <2>1. s.from \in s.from..s.thru
    BY <1>1
  <2>2. s.from \in HeadersOf(sh) => HeadersIn(sh, s)
    BY DEF HeadersIn
  <2>3. ~(SectionIn(sh, s.from) \in s.from..s.thru /\ SectionIn(sh, s.from) # 0)
    <3>1. SectionIn(sh, s.from) \in 0..s.from /\ (SectionIn(sh, s.from) # 0 => SectionIn(sh, s.from) < s.from)
      BY <1>1, SectionProperties
    <3>2. QED
      BY <1>1, <3>1
  <2>4. QED
    BY <2>1, <2>2, <2>3 DEF RangeIn
<1>4. ASSUME NEW S \in SUBSET RangeIn(sh, s), S # {} PROVE Min(S) \in S
  <2>1. S \in SUBSET Nat
    BY <1>1, <1>2
  <2>2. QED
    BY <1>4, <2>1, MinIsLeast
<1>5. QED
  BY <1>2, <1>3, <1>4

-----------------------------------------------------------------------------
(* The invariant                                                           *)

FrameType(n) ==
  [kind : {"main", "paragraph", "section"}, of : 0..n, at : 0..n, i : Nat, pc : Pcs,
   callee : 0..n, external : BOOLEAN, resume : BOOLEAN, preserved : Nat]

(* The frame stands at a PERFORM. *)
Performs(prog, f) ==
  /\ f.at \in DOMAIN prog /\ f.i \in 1..Len(prog[f.at])
  /\ prog[f.at][f.i].op = "perform"

(* Only main is never at a _goto_dispatch, only sections have more than one *)
(* label, and what happens at a PERFORM happens with the PERFORM at hand.   *)
FrameOK(sh, prog, f) ==
  /\ f \in FrameType(SizeOf(sh)) /\ f.i > 0
  /\ f.at \in GroupIn(sh, f.of)
  /\ f.kind = "main" => f.of = 0 /\ f.at = 0 /\ f.pc # "dispatch"
  /\ f.kind = "section" => f.of \in HeadersOf(sh)
  /\ f.kind = "paragraph" => f.of > 0 /\ GroupIn(sh, f.of) = {f.of}
  /\ f.pc \in {"single", "range", "outside", "disp"} => Performs(prog, f)

(* The function of paragraph p may be the one that f waits for. *)
Called(sh, prog, f, p) ==
  /\ f.pc \in Waiting
  /\ f.pc = "single" => p = Min(RangeIn(sh, prog[f.at][f.i]))
  /\ f.pc = "range" => p = f.callee /\ p \in RangeIn(sh, prog[f.at][f.i])
  /\ f.pc = "outside" => p \in 1..SizeOf(sh)
  /\ f.pc = "called" => p = f.callee

ProgramOK ==
  /\ shape \in DOMAIN Shapes
  /\ DOMAIN program \subseteq 0..SizeOf(shape)
  /\ \A p \in DOMAIN program : program[p] \in BodiesOf(shape)[p]

StackOK ==
  /\ frames \in Seq(FrameType(SizeOf(shape))) /\ Len(frames) > 0
  /\ \A k \in 1..Len(frames) : FrameOK(shape, program, frames[k]) /\ (frames[k].kind = "main" <=> k = 1)
  /\ \A k \in 1..(Len(frames) - 1) : Called(shape, program, frames[k], frames[k + 1].of)

(* A transfer is pending where it is dispatched, and nowhere while          *)
(* statements run.                                                          *)
TransferOK(sh, f, g) ==
  /\ g \in 0..SizeOf(sh)
  /\ f.pc = "run" => g = 0
  /\ f.pc = "disp" => g # 0

(* The COBOL machine is in the program or at its end. *)
MachineOK(sh, c) ==
  /\ c = [at |-> c.at, i |-> c.i, performs |-> c.performs]
  /\ c.at \in 0..(SizeOf(sh) + 1)
  /\ \E S : c.performs \in Seq(S)
  /\ \A k \in 1..Len(c.performs) : c.performs[k].at \in 0..(SizeOf(sh) + 1)

IInv ==
  /\ ProgramOK /\ StackOK /\ TransferOK(shape, Top, target)
  /\ MachineOK(shape, expected) /\ lawful \in BOOLEAN /\ stopped \in BOOLEAN

(* What the actions that move the stack need. *)
StackKept == shape' = shape /\ program' = program

LEMMA TopProperties ==
  ASSUME StackOK
  PROVE  /\ Len(frames) \in Nat /\ Len(frames) > 0 /\ frames # <<>> /\ Top = frames[Len(frames)]
         /\ FrameOK(shape, program, Top) /\ Top \in FrameType(SizeOf(shape))
         /\ Top.kind = "main" <=> Len(frames) = 1
<1>1. frames \in Seq(FrameType(SizeOf(shape))) /\ Len(frames) > 0
  BY DEF StackOK
<1>2. Len(frames) \in Nat /\ frames # <<>> /\ Len(frames) \in 1..Len(frames)
  BY <1>1
<1>3. Top = frames[Len(frames)]
  BY <1>2 DEF Top, Last
<1>4. FrameOK(shape, program, Top) /\ (Top.kind = "main" <=> Len(frames) = 1)
  BY <1>2, <1>3 DEF StackOK
<1>5. Top \in FrameType(SizeOf(shape))
  BY <1>4 DEF FrameOK
<1>6. QED
  BY <1>1, <1>2, <1>3, <1>4, <1>5

(* The running function moves on. *)
LEMMA MovedStack ==
  ASSUME StackOK, StackKept, NEW f, FrameOK(shape, program, f), f.kind = Top.kind, frames' = Replaced(f),
         f.of = Top.of
  PROVE  StackOK' /\ Top' = f
<1> DEFINE T == FrameType(SizeOf(shape))
           n == Len(frames)
<1>1. frames \in Seq(T) /\ n \in Nat /\ n > 0 /\ f \in T /\ Top = frames[n] /\ (Top.kind = "main" <=> n = 1)
  BY TopProperties DEF StackOK, FrameOK
<1> HIDE DEF T
<1>2. frames' \in Seq(T) /\ Len(frames') = n /\ \A k \in 1..n : frames'[k] = IF k = n THEN f ELSE frames[k]
  BY <1>1 DEF Replaced
<1> HIDE DEF n
<1>3. shape' = shape /\ program' = program
  BY DEF StackKept
<1>4. ASSUME NEW k \in 1..n
      PROVE  FrameOK(shape, program, frames'[k]) /\ (frames'[k].kind = "main" <=> k = 1)
  <2>1. FrameOK(shape, program, frames[k]) /\ (frames[k].kind = "main" <=> k = 1)
    BY DEF StackOK, n
  <2>2. frames'[k] = IF k = n THEN f ELSE frames[k]
    BY <1>2
  <2>3. QED
    BY <1>1, <2>1, <2>2
<1>5. ASSUME NEW k \in 1..(n - 1)
      PROVE  Called(shape, program, frames'[k], frames'[k + 1].of)
  <2>1. Called(shape, program, frames[k], frames[k + 1].of)
    BY DEF StackOK, n
  <2>2. k \in 1..n /\ k # n /\ k + 1 \in 1..n
    BY <1>1
  <2>3. frames'[k] = frames[k] /\ frames'[k + 1].of = frames[k + 1].of
    BY <1>1, <1>2, <2>2
  <2>4. QED
    BY <2>1, <2>3
<1>6. StackOK'
  BY <1>1, <1>2, <1>3, <1>4, <1>5 DEF StackOK, T
<1>7. Top' = f
  <2>1. frames' # <<>> /\ Len(frames') \in 1..n
    BY <1>1, <1>2
  <2>2. QED
    BY <1>1, <1>2, <2>1 DEF Top, Last
<1>8. QED
  BY <1>6, <1>7

(* The running function returns. *)
LEMMA ReturnedStack ==
  ASSUME StackOK, StackKept, Top.kind # "main", Returns
  PROVE  StackOK' /\ Top'.pc \in Waiting
<1> DEFINE T == FrameType(SizeOf(shape))
           n == Len(frames)
<1>1. frames \in Seq(T) /\ n \in Nat /\ n > 1 /\ frames # <<>>
  BY TopProperties DEF StackOK
<1> HIDE DEF T
<1>2. frames' \in Seq(T) /\ Len(frames') = n - 1 /\ \A k \in 1..(n - 1) : frames'[k] = frames[k]
  BY <1>1, FrontProperties DEF Returns
<1> HIDE DEF n
<1>3. shape' = shape /\ program' = program
  BY DEF StackKept
<1>4. ASSUME NEW k \in 1..(n - 1)
      PROVE  FrameOK(shape, program, frames'[k]) /\ (frames'[k].kind = "main" <=> k = 1)
  <2>1. k \in 1..n
    BY <1>1
  <2>2. FrameOK(shape, program, frames[k]) /\ (frames[k].kind = "main" <=> k = 1)
    BY <2>1 DEF StackOK, n
  <2>3. QED
    BY <1>2, <2>2
<1>5. ASSUME NEW k \in 1..((n - 1) - 1)
      PROVE  Called(shape, program, frames'[k], frames'[k + 1].of)
  <2>1. k \in 1..(n - 1) /\ k + 1 \in 1..(n - 1)
    BY <1>1
  <2>2. Called(shape, program, frames[k], frames[k + 1].of)
    BY <2>1 DEF StackOK, n
  <2>3. QED
    BY <1>2, <2>1, <2>2
<1>6. StackOK'
  <2>1. n - 1 \in Nat /\ n - 1 > 0
    BY <1>1
  <2>2. QED
    BY <1>2, <1>3, <1>4, <1>5, <2>1 DEF StackOK, T
<1>7. Top'.pc \in Waiting
  <2>1. n - 1 \in 1..(n - 1) /\ Len(frames') = n - 1
    BY <1>1, <1>2
  <2>2. Called(shape, program, frames[n - 1], frames[(n - 1) + 1].of)
    BY <2>1 DEF StackOK, n
  <2>3. Top' = frames[n - 1]
    BY <1>2, <2>1 DEF Top, Last
  <2>4. QED
    BY <2>2, <2>3 DEF Called
<1>8. QED
  BY <1>6, <1>7

(* The function of a paragraph that is called. *)
LEMMA NewFrame ==
  ASSUME ProgramOK, NEW p \in 1..SizeOf(shape), NEW g
  PROVE  /\ FrameOK(shape, program, CalledFrame(p, g))
         /\ CalledFrame(p, g).of = p /\ CalledFrame(p, g).kind # "main"
         /\ CalledFrame(p, g).pc \in {"run", "dispatch"}
         /\ CalledFrame(p, g).pc = "run" => g = 0 \/ Clears(p)
<1> DEFINE n == SizeOf(shape)
<1>1. n \in Nat /\ p \in 0..n /\ p > 0 /\ p \in GroupIn(shape, p) /\ 0 \in 0..n
      /\ (GroupIn(shape, p) # {p} => p \in HeadersOf(shape))
  BY ShapeProperties, GroupProperties DEF ProgramOK
<1>2. IsMerged(p) <=> GroupIn(shape, p) # {p}
  BY Shaped DEF IsMerged
<1>3. ASSUME NEW kind \in {"paragraph", "section"}, NEW pc \in {"run", "dispatch"}
      PROVE  /\ Frame(kind, p, pc) \in FrameType(n) /\ Frame(kind, p, pc).i = 1
             /\ Frame(kind, p, pc).of = p /\ Frame(kind, p, pc).at = p
             /\ Frame(kind, p, pc).kind = kind /\ Frame(kind, p, pc).pc = pc
  <2> HIDE DEF n
  <2>1. QED
    BY <1>1 DEF Frame, FrameType, Pcs
<1> HIDE DEF n
<1>4. CASE IsMerged(p)
  <2> DEFINE f == CalledFrame(p, g)
  <2>1. f = Frame("section", p, IF g # 0 THEN "dispatch" ELSE "run")
    BY <1>4 DEF CalledFrame
  <2>2. /\ f \in FrameType(n) /\ f.i = 1 /\ f.of = p /\ f.at = p /\ f.kind = "section"
        /\ f.pc = IF g # 0 THEN "dispatch" ELSE "run"
    BY <1>3, <2>1
  <2> HIDE DEF f
  <2>3. QED
    BY <1>1, <1>2, <1>4, <2>2 DEF FrameOK, n, f
<1>5. CASE ~IsMerged(p)
  <2> DEFINE f == CalledFrame(p, g)
  <2>1. f = Frame("paragraph", p, "run")
    BY <1>5 DEF CalledFrame
  <2>2. f \in FrameType(n) /\ f.i = 1 /\ f.of = p /\ f.at = p /\ f.kind = "paragraph" /\ f.pc = "run"
    BY <1>3, <2>1
  <2> HIDE DEF f
  <2>3. QED
    BY <1>1, <1>2, <1>5, <2>2 DEF FrameOK, n, f, Clears
<1>6. QED
  BY <1>4, <1>5

(* The running function calls another. *)
LEMMA CalledStack ==
  ASSUME ProgramOK, StackOK, StackKept, NEW w, FrameOK(shape, program, w), w.kind = Top.kind, w.of = Top.of,
         NEW p \in 1..SizeOf(shape), NEW g \in 0..SizeOf(shape), Called(shape, program, w, p), Calls(w, p, g)
  PROVE  StackOK' /\ TransferOK(shape, Top', target')
<1> DEFINE T == FrameType(SizeOf(shape))
           n == Len(frames)
           f == CalledFrame(p, g)
<1>1. frames \in Seq(T) /\ n \in Nat /\ n > 0 /\ w \in T /\ Top = frames[n] /\ (Top.kind = "main" <=> n = 1)
  BY TopProperties DEF StackOK, FrameOK
<1>2. /\ FrameOK(shape, program, f) /\ f.of = p /\ f.kind # "main" /\ f.pc \in {"run", "dispatch"}
      /\ (f.pc = "run" => g = 0 \/ Clears(p)) /\ f \in T
  BY NewFrame DEF FrameOK
<1>3. shape' = shape /\ program' = program
  BY DEF StackKept
<1>4. frames' = Append(Replaced(w), f) /\ target' = IF Clears(p) THEN 0 ELSE g
  BY DEF Calls
<1> HIDE DEF f, T
<1>5. /\ frames' \in Seq(T) /\ Len(frames') = n + 1
      /\ \A k \in 1..(n + 1) : frames'[k] = IF k = n + 1 THEN f ELSE IF k = n THEN w ELSE frames[k]
  <2>1. /\ Replaced(w) \in Seq(T) /\ Len(Replaced(w)) = n
        /\ \A k \in 1..n : Replaced(w)[k] = IF k = n THEN w ELSE frames[k]
    BY <1>1 DEF Replaced
  <2> HIDE DEF n
  <2>2. QED
    BY <1>1, <1>2, <1>4, <2>1
<1> HIDE DEF n
<1>6. ASSUME NEW k \in 1..(n + 1)
      PROVE  FrameOK(shape, program, frames'[k]) /\ (frames'[k].kind = "main" <=> k = 1)
  <2>1. frames'[k] = IF k = n + 1 THEN f ELSE IF k = n THEN w ELSE frames[k]
    BY <1>5
  <2>2. CASE k = n + 1
    BY <1>1, <1>2, <2>1, <2>2
  <2>3. CASE k = n
    BY <1>1, <2>1, <2>3
  <2>4. CASE k # n /\ k # n + 1
    <3>1. k \in 1..n
      BY <1>1, <2>4
    <3>2. FrameOK(shape, program, frames[k]) /\ (frames[k].kind = "main" <=> k = 1)
      BY <3>1 DEF StackOK, n
    <3>3. QED
      BY <2>1, <2>4, <3>2
  <2>5. QED
    BY <2>2, <2>3, <2>4
<1>7. ASSUME NEW k \in 1..((n + 1) - 1)
      PROVE  Called(shape, program, frames'[k], frames'[k + 1].of)
  <2>1. k \in 1..(n + 1) /\ k + 1 \in 1..(n + 1)
    BY <1>1
  <2>2. CASE k = n
    <3>1. frames'[k] = w /\ frames'[k + 1] = f
      BY <1>1, <1>5, <2>1, <2>2
    <3>2. QED
      BY <1>2, <3>1
  <2>3. CASE k # n
    <3>1. k \in 1..(n - 1)
      BY <1>1, <2>3
    <3>2. Called(shape, program, frames[k], frames[k + 1].of)
      BY <3>1 DEF StackOK, n
    <3>3. frames'[k] = frames[k]
      BY <1>1, <1>5, <2>1, <2>3, <3>1
    <3>4. frames'[k + 1].of = frames[k + 1].of
      BY <1>1, <1>5, <2>1, <3>1
    <3>5. QED
      BY <3>2, <3>3, <3>4
  <2>4. QED
    BY <2>2, <2>3
<1>8. StackOK'
  <2>1. n + 1 \in Nat /\ n + 1 > 0
    BY <1>1
  <2>2. QED
    BY <1>3, <1>5, <1>6, <1>7, <2>1 DEF StackOK, T
<1>9. TransferOK(shape, Top', target')
  <2>1. Top' = f
    BY <1>1, <1>5 DEF Top, Last
  <2>2. 0 \in 0..SizeOf(shape)
    BY ShapeProperties DEF ProgramOK
  <2>3. target' \in 0..SizeOf(shape) /\ (f.pc = "run" => target' = 0)
    BY <1>2, <1>4, <2>2
  <2>4. f.pc # "disp"
    BY <1>2
  <2>5. QED
    BY <2>1, <2>3, <2>4 DEF TransferOK
<1>10. QED
  BY <1>8, <1>9

-----------------------------------------------------------------------------
(* Frames that change                                                      *)

(* A frame that stays at its statement. *)
LEMMA FrameStays ==
  ASSUME NEW sh, NEW prog, NEW f, FrameOK(sh, prog, f), NEW g \in FrameType(SizeOf(sh)),
         g.kind = f.kind, g.of = f.of, g.at = f.at, g.i = f.i,
         f.kind = "main" => g.pc # "dispatch",
         g.pc \in {"single", "range", "outside", "disp"} => Performs(prog, f)
  PROVE  FrameOK(sh, prog, g)
<1>1. Performs(prog, f) => Performs(prog, g)
  BY DEF Performs
<1>2. QED
  BY <1>1, Zenon DEF FrameOK

(* A frame that goes to a label of its function. *)
LEMMA FrameMoves ==
  ASSUME NEW sh, NEW prog, NEW f, FrameOK(sh, prog, f), NEW g \in FrameType(SizeOf(sh)),
         g.kind = f.kind, g.of = f.of, g.at \in GroupIn(sh, f.of), g.i > 0, g.pc = "run",
         f.kind = "main" => g.at = f.at
  PROVE  FrameOK(sh, prog, g)
<1>1. g.pc \notin {"dispatch", "single", "range", "outside", "disp"}
  OBVIOUS
<1>2. QED
  BY <1>1 DEF FrameOK

LEMMA FrameFields ==
  ASSUME NEW n, NEW f \in FrameType(n)
  PROVE  /\ f.i \in Nat /\ f.pc \in Pcs /\ f.callee \in 0..n /\ f.of \in 0..n /\ f.at \in 0..n
         /\ f.external \in BOOLEAN /\ f.resume \in BOOLEAN /\ f.preserved \in Nat
         /\ f.kind \in {"main", "paragraph", "section"}
BY DEF FrameType

(* The next statement. *)
LEMMA NextFrame ==
  ASSUME NEW sh \in DOMAIN Shapes, NEW prog, NEW f, FrameOK(sh, prog, f)
  PROVE  /\ FrameOK(sh, prog, NextStatement(f)) /\ NextStatement(f).pc = "run"
         /\ NextStatement(f).kind = f.kind /\ NextStatement(f).of = f.of
<1> DEFINE n == SizeOf(sh)
           g == NextStatement(f)
<1>1. f \in FrameType(n) /\ f.i > 0 /\ f.at \in GroupIn(sh, f.of) /\ 0 \in 0..n
  BY ShapeProperties DEF FrameOK
<1>2. f.i \in Nat /\ f.i + 1 \in Nat
  BY <1>1 DEF FrameType
<1> HIDE DEF n
<1>3. /\ g \in FrameType(n) /\ g.i = f.i + 1 /\ g.pc = "run" /\ g.kind = f.kind /\ g.of = f.of
      /\ g.at = f.at
  BY <1>1, <1>2 DEF NextStatement, FrameType, Pcs
<1>4. g.i > 0
  BY <1>1, <1>3, FrameFields
<1> HIDE DEF g
<1>5. FrameOK(sh, prog, g)
  BY <1>1, <1>3, <1>4, FrameMoves DEF n
<1>6. QED
  BY <1>3, <1>5 DEF g

(* Another thing to do at the same statement. *)
LEMMA FrameWith ==
  ASSUME NEW sh, NEW prog, NEW f, FrameOK(sh, prog, f), NEW pc \in Pcs,
         f.kind = "main" => pc # "dispatch",
         pc \in {"single", "range", "outside", "disp"} => Performs(prog, f)
  PROVE  /\ FrameOK(sh, prog, [f EXCEPT !.pc = pc]) /\ [f EXCEPT !.pc = pc].pc = pc
         /\ [f EXCEPT !.pc = pc].kind = f.kind /\ [f EXCEPT !.pc = pc].of = f.of
<1> DEFINE n == SizeOf(sh)
           g == [f EXCEPT !.pc = pc]
<1>1. f \in FrameType(n)
  BY DEF FrameOK
<1> HIDE DEF n
<1>2. g \in FrameType(n) /\ g.kind = f.kind /\ g.of = f.of /\ g.at = f.at /\ g.i = f.i /\ g.pc = pc
  BY <1>1 DEF FrameType
<1> HIDE DEF g
<1>3. FrameOK(sh, prog, g)
  BY <1>2, FrameStays DEF n
<1>4. QED
  BY <1>2, <1>3 DEF g

(* A jump to a label, from a statement or from _goto_dispatch. *)
AtLabel(f, p) == [f EXCEPT !.at = p, !.i = 1, !.pc = "run"]
AtLabelToo(f, p) == [f EXCEPT !.at = p, !.i = 1]

LEMMA JumpedFrame ==
  ASSUME NEW sh \in DOMAIN Shapes, NEW prog, NEW f, FrameOK(sh, prog, f), f.kind # "main",
         NEW p \in GroupIn(sh, f.of), NEW g, g = AtLabel(f, p) \/ (f.pc = "run" /\ g = AtLabelToo(f, p))
  PROVE  FrameOK(sh, prog, g) /\ g.pc = "run" /\ g.kind = f.kind /\ g.of = f.of
<1> DEFINE n == SizeOf(sh)
<1>1. f \in FrameType(n) /\ f.of \in 0..n
  BY DEF FrameOK, FrameType
<1>2. p \in 0..n
  BY <1>1, GroupProperties
<1> HIDE DEF n
<1>3. g \in FrameType(n) /\ g.kind = f.kind /\ g.of = f.of /\ g.at = p /\ g.i = 1 /\ g.pc = "run"
  <2>1. CASE g = AtLabel(f, p)
    BY <1>1, <1>2, <2>1 DEF FrameType, Pcs, AtLabel
  <2>2. CASE f.pc = "run" /\ g = AtLabelToo(f, p)
    BY <1>1, <1>2, <2>2 DEF FrameType, Pcs, AtLabelToo
  <2>3. QED
    BY <2>1, <2>2
<1>4. g.i > 0
  BY <1>3
<1>5. QED
  BY <1>3, <1>4, FrameMoves DEF n

-----------------------------------------------------------------------------
(* The COBOL machine                                                       *)

LEMMA MachineStarts ==
  ASSUME NEW sh \in DOMAIN Shapes
  PROVE  MachineOK(sh, Start)
<1>1. SizeOf(sh) \in Nat /\ 0 \in 0..(SizeOf(sh) + 1)
  BY ShapeProperties
<1>2. <<>> \in Seq({}) /\ Len(<<>>) = 0
  OBVIOUS
<1>3. Start = [at |-> 0, i |-> 1, performs |-> <<>>]
  BY DEF Start
<1>4. Start.at = 0 /\ Start.i = 1 /\ Start.performs = <<>>
  BY <1>3
<1>5. QED
  BY <1>1, <1>2, <1>3, <1>4 DEF MachineOK

MovedTo(c, p, i) == [c EXCEPT !.at = p, !.i = i]

LEMMA MovedFields ==
  ASSUME NEW A, NEW I, NEW P, NEW c \in [at : A, i : I, performs : P], NEW p \in A, NEW i \in I
  PROVE  MovedTo(c, p, i) = [at |-> p, i |-> i, performs |-> c.performs]
<1> DEFINE R == [at : A, i : I, performs : P]
           d == MovedTo(c, p, i)
<1>1. d \in R /\ d.at = p /\ d.i = i /\ d.performs = c.performs
  BY DEF MovedTo
<1> HIDE DEF d
<1>2. d = [at |-> d.at, i |-> d.i, performs |-> d.performs]
  BY <1>1
<1>3. QED
  BY <1>1, <1>2 DEF d

(* The machine goes to another statement. *)
LEMMA MachineMoves ==
  ASSUME NEW sh, NEW c, MachineOK(sh, c), NEW p \in 0..(SizeOf(sh) + 1), NEW i
  PROVE  MachineOK(sh, MovedTo(c, p, i))
<1> DEFINE A == {c.at, p}
           I == {c.i, i}
           P == {c.performs}
           d == MovedTo(c, p, i)
<1>1. c.at \in A /\ p \in A /\ c.i \in I /\ i \in I /\ c.performs \in P
  OBVIOUS
<1> HIDE DEF A, I, P
<1>2. [at |-> c.at, i |-> c.i, performs |-> c.performs] \in [at : A, i : I, performs : P]
  BY <1>1
<1>3. c = [at |-> c.at, i |-> c.i, performs |-> c.performs]
  BY DEF MachineOK
<1>4. c \in [at : A, i : I, performs : P]
  BY <1>2, <1>3, Zenon
<1>5. d = [at |-> p, i |-> i, performs |-> c.performs]
  BY <1>1, <1>4, MovedFields
<1> HIDE DEF d
<1>6. d.at = p /\ d.i = i /\ d.performs = c.performs
  BY <1>5
<1>7. QED
  BY <1>5, <1>6 DEF MachineOK, d

LEMMA MachineChanges ==
  ASSUME NEW sh, NEW c, MachineOK(sh, c), NEW i
  PROVE  /\ MachineOK(sh, [c EXCEPT !.i = i])
         /\ MachineOK(sh, Continued(c))
         /\ \A p \in 0..(SizeOf(sh) + 1) : MachineOK(sh, Jumped(c, p))
<1>1. ASSUME NEW j PROVE MachineOK(sh, [c EXCEPT !.i = j])
  <2> DEFINE d == [c EXCEPT !.i = j]
  <2>1. c = [at |-> c.at, i |-> c.i, performs |-> c.performs]
    BY DEF MachineOK
  <2>2. d = [at |-> c.at, i |-> j, performs |-> c.performs]
    BY <2>1
  <2> HIDE DEF d
  <2>3. d.at = c.at /\ d.i = j /\ d.performs = c.performs
    BY <2>2
  <2>4. QED
    BY <2>2, <2>3 DEF MachineOK, d
<1>2. Continued(c) = [c EXCEPT !.i = c.i + 1]
  BY Zenon DEF Continued
<1>3. \A p : Jumped(c, p) = MovedTo(c, p, 1)
  BY Zenon DEF Jumped, MovedTo
<1>4. MachineOK(sh, Continued(c))
  BY <1>1, <1>2
<1>5. QED
  BY <1>1, <1>3, <1>4, MachineMoves

LEMMA MachinePerforms ==
  ASSUME NEW sh, NEW c, MachineOK(sh, c), NEW s, s.from \in 0..(SizeOf(sh) + 1)
  PROVE  MachineOK(sh, Performing(c, s))
<1> DEFINE r == [first |-> s.from, exit |-> GroupEnd(s.thru), at |-> c.at, i |-> c.i + 1]
           m == SizeOf(sh) + 1
           ps == c.performs
           d == Performing(c, s)
<1>1. PICK S : ps \in Seq(S)
  BY DEF MachineOK
<1>2. c.at \in 0..m /\ \A k \in 1..Len(ps) : ps[k].at \in 0..m
  BY DEF MachineOK
<1>3. d = [at |-> s.from, i |-> 1, performs |-> Append(ps, r)]
  BY DEF Performing
<1>4. r.at = c.at
  OBVIOUS
<1> HIDE DEF r, ps, d
<1>5. d.at = s.from /\ d.i = 1 /\ d.performs = Append(ps, r)
  BY <1>3
<1> HIDE DEF m
<1>6. ps \in Seq(S \cup {r}) /\ r \in S \cup {r}
  BY <1>1
<1>7. /\ Append(ps, r) \in Seq(S \cup {r}) /\ Len(Append(ps, r)) = Len(ps) + 1 /\ Len(ps) \in Nat
      /\ \A k \in 1..(Len(ps) + 1) : Append(ps, r)[k] = IF k = Len(ps) + 1 THEN r ELSE ps[k]
  BY <1>6
<1>8. \A k \in 1..Len(Append(ps, r)) : Append(ps, r)[k].at \in 0..m
  BY <1>2, <1>4, <1>7
<1>9. QED
  BY <1>3, <1>5, <1>7, <1>8 DEF MachineOK, m, d

(* The end of a paragraph. *)
LEMMA MachineEnds ==
  ASSUME NEW sh \in DOMAIN Shapes, NEW c, MachineOK(sh, c), c.at \in 0..SizeOf(sh)
  PROVE  MachineOK(sh, PastEnd(c))
<1> DEFINE m == SizeOf(sh) + 1
           ps == c.performs
<1>1. CASE ps # <<>> /\ Last(ps).exit = c.at
  <2> DEFINE d == [at |-> Last(ps).at, i |-> Last(ps).i, performs |-> Front(ps)]
  <2>1. PICK S : ps \in Seq(S)
    BY DEF MachineOK
  <2>2. \A k \in 1..Len(ps) : ps[k].at \in 0..m
    BY DEF MachineOK
  <2>3. PastEnd(c) = d
    BY <1>1 DEF PastEnd
  <2> HIDE DEF ps
  <2>4. d.at = Last(ps).at /\ d.i = Last(ps).i /\ d.performs = Front(ps)
    OBVIOUS
  <2> HIDE DEF m
  <2>5. /\ Front(ps) \in Seq(S) /\ Len(Front(ps)) = Len(ps) - 1 /\ Len(ps) \in Nat /\ Len(ps) > 0
        /\ \A k \in 1..(Len(ps) - 1) : Front(ps)[k] = ps[k]
    BY <1>1, <2>1, FrontProperties
  <2>6. Last(ps) = ps[Len(ps)] /\ Len(ps) \in 1..Len(ps)
    BY <2>5 DEF Last
  <2>7. Last(ps).at \in 0..m /\ \A k \in 1..Len(Front(ps)) : Front(ps)[k].at \in 0..m
    BY <2>2, <2>5, <2>6
  <2>8. d = [at |-> d.at, i |-> d.i, performs |-> d.performs]
    BY <2>4
  <2> HIDE DEF d
  <2>9. QED
    BY <2>3, <2>4, <2>5, <2>7, <2>8 DEF MachineOK, m
<1>2. CASE ~(ps # <<>> /\ Last(ps).exit = c.at)
  <2>1. PastEnd(c) = MovedTo(c, c.at + 1, 1)
    BY <1>2, Zenon DEF PastEnd, MovedTo
  <2>2. c.at + 1 \in 0..m
    BY ShapeProperties
  <2> HIDE DEF ps
  <2>3. QED
    BY <2>1, <2>2, MachineMoves
<1>3. QED
  BY <1>1, <1>2

LEMMA MachineExpects ==
  ASSUME IInv, NEW c, MachineOK(shape, c), Expecting(c)
  PROVE  MachineOK(shape, expected') /\ lawful' \in BOOLEAN
<1>1. shape \in DOMAIN Shapes
  BY DEF IInv, ProgramOK
<1>2. MachineOK(shape, expected')
  BY <1>1, MachineStarts DEF Expecting
<1>3. lawful' \in BOOLEAN
  BY Zenon DEF Expecting
<1>4. QED
  BY <1>2, <1>3

-----------------------------------------------------------------------------
(* The steps                                                               *)

(* What an action that leaves the program and the COBOL machine in order   *)
(* has to show of the stack.                                               *)
LEMMA StepKeeps ==
  ASSUME IInv, StackKept, StackOK', TransferOK(shape, Top', target'),
         MachineOK(shape, expected'), lawful' \in BOOLEAN, stopped' \in BOOLEAN
  PROVE  IInv'
<1>1. shape' = shape /\ program' = program
  BY DEF StackKept
<1>2. ProgramOK'
  BY <1>1 DEF IInv, ProgramOK
<1>3. TransferOK(shape, Top, target)' /\ MachineOK(shape, expected)'
  BY <1>1
<1>4. QED
  BY <1>2, <1>3 DEF IInv

LEMMA BodyStatements ==
  ASSUME ProgramOK, NEW p \in DOMAIN program, NEW i \in 1..Len(program[p])
  PROVE  /\ program[p][i] \in Statements(SizeOf(shape))
         /\ p = 0 => program[p][i].op # "exit"
<1>1. p \in 0..SizeOf(shape) /\ program[p] \in BodiesOf(shape)[p] /\ shape \in DOMAIN Shapes
  BY DEF ProgramOK
<1>2. /\ program[p] \in Seq(Statements(SizeOf(shape)))
      /\ p = 0 => \A j \in DOMAIN program[p] : program[p][j].op # "exit"
  BY <1>1, ShapeProperties
<1>3. i \in DOMAIN program[p]
  BY <1>2
<1>4. QED
  BY <1>2, <1>3

(* A frame at a PERFORM. *)
LEMMA PerformHas ==
  ASSUME ProgramOK, NEW f, Performs(program, f)
  PROVE  /\ program[f.at][f.i] \in Statements(SizeOf(shape)) /\ program[f.at][f.i].op = "perform"
         /\ RangeIn(shape, program[f.at][f.i]) \subseteq 1..SizeOf(shape)
         /\ Min(RangeIn(shape, program[f.at][f.i])) \in RangeIn(shape, program[f.at][f.i])
         /\ \A S \in SUBSET RangeIn(shape, program[f.at][f.i]) : S # {} => Min(S) \in S
<1>1. /\ f.at \in DOMAIN program /\ f.i \in 1..Len(program[f.at])
      /\ program[f.at][f.i].op = "perform"
  BY DEF Performs
<1>2. program[f.at][f.i] \in Statements(SizeOf(shape)) /\ shape \in DOMAIN Shapes
  BY <1>1, BodyStatements DEF ProgramOK
<1>3. QED
  BY <1>1, <1>2, RangeProperties

(* What holds when the running function is at a statement. *)
LEMMA AtTheStatement ==
  ASSUME IInv, AtStatement
  PROVE  /\ Top.pc = "run" /\ target = 0 /\ Statement \in Statements(SizeOf(shape))
         /\ Top.kind = "main" => Statement.op # "exit"
         /\ Statement.op = "perform" => Performs(program, Top)
<1>1. StackOK /\ ProgramOK /\ TransferOK(shape, Top, target)
  BY DEF IInv
<1>2. Top.pc = "run" /\ Top.at \in DOMAIN program /\ Top.i <= Len(program[Top.at])
  BY DEF AtStatement, Doing, Running, Read
<1>3. FrameOK(shape, program, Top) /\ Top \in FrameType(SizeOf(shape))
  BY <1>1, TopProperties
<1>4. Top.i \in Nat /\ Top.i > 0 /\ (Top.kind = "main" => Top.at = 0)
  BY <1>3, FrameFields DEF FrameOK
<1>5. Len(program[Top.at]) \in Nat
  <2>1. program[Top.at] \in Seq(Statements(SizeOf(shape)))
    BY <1>1, <1>2, ShapeProperties DEF ProgramOK
  <2>2. QED
    BY <2>1
<1>6. Top.i \in 1..Len(program[Top.at])
  BY <1>2, <1>4, <1>5
<1>7. /\ Statement \in Statements(SizeOf(shape))
      /\ Top.at = 0 => Statement.op # "exit"
  BY <1>1, <1>2, <1>6, BodyStatements DEF Statement
<1>8. Statement.op = "perform" => Performs(program, Top)
  BY <1>2, <1>6 DEF Performs, Statement
<1>9. target = 0
  BY <1>1, <1>2 DEF TransferOK
<1>10. QED
  BY <1>2, <1>4, <1>7, <1>8, <1>9

LEMMA IInvFacts ==
  ASSUME IInv
  PROVE  /\ shape \in DOMAIN Shapes /\ SizeOf(shape) \in Nat /\ SizeOf(shape) > 0 /\ N = SizeOf(shape)
         /\ ProgramOK /\ StackOK /\ TransferOK(shape, Top, target) /\ MachineOK(shape, expected)
         /\ FrameOK(shape, program, Top) /\ Top \in FrameType(SizeOf(shape))
         /\ target \in 0..SizeOf(shape) /\ lawful \in BOOLEAN /\ stopped \in BOOLEAN
<1>1. shape \in DOMAIN Shapes /\ ProgramOK /\ StackOK /\ TransferOK(shape, Top, target)
      /\ MachineOK(shape, expected) /\ lawful \in BOOLEAN /\ stopped \in BOOLEAN
  BY DEF IInv, ProgramOK
<1>2. SizeOf(shape) \in Nat /\ SizeOf(shape) > 0 /\ N = SizeOf(shape)
  BY <1>1, ShapeProperties, Shaped
<1>3. FrameOK(shape, program, Top) /\ Top \in FrameType(SizeOf(shape))
  BY <1>1, TopProperties
<1>4. target \in 0..SizeOf(shape)
  BY <1>1 DEF TransferOK
<1>5. QED
  BY <1>1, <1>2, <1>3, <1>4

(* The running function moves on, and nothing else happens to the stack. *)
LEMMA MoveKeeps ==
  ASSUME IInv, StackKept, NEW f, FrameOK(shape, program, f), f.kind = Top.kind, f.of = Top.of,
         frames' = Replaced(f), TransferOK(shape, f, target')
  PROVE  StackOK' /\ TransferOK(shape, Top', target')
<1>1. StackOK' /\ Top' = f
  BY IInvFacts, MovedStack
<1>2. QED
  BY <1>1

(* A function returns to one that waits: any target may be left to it. *)
LEMMA ReturnKeeps ==
  ASSUME IInv, StackKept, Top.kind # "main", Returns, target' \in 0..SizeOf(shape)
  PROVE  StackOK' /\ TransferOK(shape, Top', target')
<1>1. StackOK' /\ Top'.pc \in Waiting
  BY IInvFacts, ReturnedStack
<1>2. Top'.pc # "run" /\ Top'.pc # "disp"
  BY <1>1 DEF Waiting
<1>3. QED
  BY <1>1, <1>2 DEF TransferOK

LEMMA SameMachine ==
  ASSUME IInv, UNCHANGED <<expected, lawful>>
  PROVE  MachineOK(shape, expected') /\ lawful' \in BOOLEAN
BY DEF IInv

LEMMA WorkingKeeps ==
  ASSUME IInv, StackKept, Working \/ NotGoing
  PROVE  IInv'
<1>1. /\ AtStatement /\ frames' = Replaced(NextStatement(Top)) /\ Expecting(Continued(expected))
      /\ UNCHANGED <<target, stopped>>
  BY DEF Working, NotGoing, Executing
<1>2. target' = 0 /\ 0 \in 0..SizeOf(shape) /\ stopped' \in BOOLEAN
  BY <1>1, AtTheStatement, IInvFacts
<1>3. /\ FrameOK(shape, program, NextStatement(Top)) /\ NextStatement(Top).pc = "run"
      /\ NextStatement(Top).kind = Top.kind /\ NextStatement(Top).of = Top.of
  BY IInvFacts, NextFrame
<1>4. TransferOK(shape, NextStatement(Top), target')
  BY <1>2, <1>3 DEF TransferOK
<1>5. StackOK' /\ TransferOK(shape, Top', target')
  BY <1>1, <1>3, <1>4, MoveKeeps
<1>6. MachineOK(shape, Continued(expected))
  BY IInvFacts, MachineChanges
<1>7. MachineOK(shape, expected') /\ lawful' \in BOOLEAN
  BY <1>1, <1>6, MachineExpects
<1>8. QED
  BY <1>2, <1>5, <1>7, StepKeeps

LEMMA StopRunKeeps ==
  ASSUME IInv, StackKept, StopRun
  PROVE  IInv'
<1>1. Expecting(Jumped(expected, N + 1)) /\ stopped' = TRUE /\ frames' = frames /\ target' = target
  BY DEF StopRun
<1>2. N + 1 \in 0..(SizeOf(shape) + 1)
  BY IInvFacts
<1>3. MachineOK(shape, Jumped(expected, N + 1))
  BY <1>2, IInvFacts, MachineChanges
<1>4. MachineOK(shape, expected') /\ lawful' \in BOOLEAN
  BY <1>1, <1>3, MachineExpects
<1>5. StackOK' /\ TransferOK(shape, Top', target')
  <2>1. Top' = Top
    BY <1>1 DEF Top
  <2>2. StackOK'
    BY <1>1 DEF IInv, StackOK, StackKept
  <2>3. QED
    BY <1>1, <2>1, <2>2, IInvFacts
<1>6. QED
  BY <1>1, <1>4, <1>5, StepKeeps

LEMMA ExitKeeps ==
  ASSUME IInv, StackKept, ExitParagraph
  PROVE  IInv'
<1> DEFINE j == Len(program[expected.at]) + 1
<1>1. /\ AtStatement /\ Statement.op = "exit" /\ Returns /\ Expecting([expected EXCEPT !.i = j])
      /\ UNCHANGED <<target, stopped>>
  BY DEF ExitParagraph, Executing
<1> HIDE DEF j
<1>2. Top.kind # "main" /\ target' \in 0..SizeOf(shape) /\ stopped' \in BOOLEAN
  BY <1>1, AtTheStatement, IInvFacts
<1>3. StackOK' /\ TransferOK(shape, Top', target')
  BY <1>1, <1>2, ReturnKeeps
<1>4. MachineOK(shape, [expected EXCEPT !.i = j])
  BY IInvFacts, MachineChanges
<1>5. MachineOK(shape, expected') /\ lawful' \in BOOLEAN
  BY <1>1, <1>4, MachineExpects
<1>6. QED
  BY <1>2, <1>3, <1>5, StepKeeps

(* The labels of a function are those of its group. *)
LEMMA LocalProperties ==
  ASSUME IInv, NEW p \in 1..SizeOf(shape)
  PROVE  /\ Local(Top, p) \in 0..SizeOf(shape)
         /\ Top.kind # "main" /\ Local(Top, p) # 0 => p \in GroupIn(shape, Top.of)
<1> DEFINE n == SizeOf(shape)
           f == Top
<1>1. FrameOK(shape, program, f) /\ f \in FrameType(n) /\ n \in Nat /\ n > 0 /\ shape \in DOMAIN Shapes
  BY IInvFacts
<1>2. f.kind \in {"main", "paragraph", "section"} /\ f.of \in 0..n
  BY <1>1, FrameFields
<1>3. f.of \in GroupIn(shape, f.of)
  BY <1>1, <1>2, GroupProperties
<1>4. \A q : Group(q) = GroupIn(shape, q)
  BY Shaped
<1> HIDE DEF f
<1>5. CASE f.kind = "main"
  <2>1. Local(f, p) = p
    BY <1>5 DEF Local
  <2>2. QED
    BY <1>1, <1>5, <2>1 DEF f
<1>6. CASE f.kind = "paragraph"
  <2>1. Local(f, p) = IF p = f.of THEN 1 ELSE 0
    BY <1>6 DEF Local
  <2> HIDE DEF n
  <2>2. QED
    BY <1>1, <1>3, <1>6, <2>1 DEF f, n
<1>7. CASE f.kind = "section"
  <2>1. Local(f, p) = IF p \in GroupIn(shape, f.of) THEN p - f.of + 1 ELSE 0
    BY <1>4, <1>7 DEF Local
  <2>2. f.of \in 1..n
    BY <1>1, <1>7, ShapeProperties DEF FrameOK
  <2>3. p \in GroupIn(shape, f.of) => f.of <= p
    BY <1>1, <1>2, GroupProperties
  <2> HIDE DEF n
  <2>4. p \in 1..n
    BY DEF n
  <2>5. p \in GroupIn(shape, f.of) => p - f.of + 1 \in 0..n
    BY <1>1, <2>2, <2>3, <2>4
  <2>6. 0 \in 0..n
    BY <1>1
  <2>7. Local(f, p) \in 0..n /\ (Local(f, p) # 0 => p \in GroupIn(shape, f.of))
    BY <2>1, <2>5, <2>6
  <2>8. QED
    BY <2>7 DEF f, n
<1>8. QED
  BY <1>2, <1>5, <1>6, <1>7

(* The jumps within a function. *)
LEMMA JumpKeeps ==
  ASSUME IInv, StackKept, Top.kind # "main", NEW p \in GroupIn(shape, Top.of),
         NEW f, f = AtLabel(Top, p) \/ (Top.pc = "run" /\ f = AtLabelToo(Top, p)),
         frames' = Replaced(f), target' = 0
  PROVE  StackOK' /\ TransferOK(shape, Top', target')
<1>1. FrameOK(shape, program, f) /\ f.pc = "run" /\ f.kind = Top.kind /\ f.of = Top.of
  BY IInvFacts, JumpedFrame
<1>2. TransferOK(shape, f, target')
  BY <1>1, IInvFacts DEF TransferOK
<1>3. QED
  BY <1>1, <1>2, MoveKeeps

(* The running function does something else. *)
LEMMA PcKeeps ==
  ASSUME IInv, StackKept, NEW pc \in Pcs, frames' = Replaced([Top EXCEPT !.pc = pc]),
         target' \in 0..SizeOf(shape), pc # "run",
         Top.kind = "main" => pc # "dispatch", pc \notin {"single", "range", "outside"},
         pc = "disp" => Performs(program, Top) /\ target' # 0
  PROVE  StackOK' /\ TransferOK(shape, Top', target')
<1> DEFINE f == [Top EXCEPT !.pc = pc]
<1>1. FrameOK(shape, program, f) /\ f.pc = pc /\ f.kind = Top.kind /\ f.of = Top.of
  BY IInvFacts, FrameWith
<1> HIDE DEF f
<1>2. TransferOK(shape, f, target')
  BY <1>1 DEF TransferOK
<1>3. QED
  BY <1>1, <1>2, MoveKeeps DEF f

LEMMA TransferKeeps ==
  ASSUME IInv, StackKept, Top.pc = "run", target = 0, NEW p \in 1..SizeOf(shape), Transfer(p)
  PROVE  StackOK' /\ TransferOK(shape, Top', target')
<1>1. p \in 0..SizeOf(shape)
  BY IInvFacts
<1>2. CASE Top.kind = "main" /\ target' = p /\ frames' = Replaced([Top EXCEPT !.pc = "entry"])
  <2>1. "entry" \in Pcs
    BY DEF Pcs
  <2>2. QED
    BY <1>1, <1>2, <2>1, PcKeeps
<1>3. CASE /\ Top.kind # "main" /\ Local(Top, p) # 0
           /\ frames' = Replaced([Top EXCEPT !.at = p, !.i = 1]) /\ UNCHANGED target
  <2>1. p \in GroupIn(shape, Top.of) /\ target' = 0
    BY <1>3, LocalProperties
  <2>2. frames' = Replaced(AtLabelToo(Top, p))
    BY <1>3, Zenon DEF AtLabelToo
  <2>3. QED
    BY <1>3, <2>1, <2>2, JumpKeeps
<1>4. CASE Top.kind # "main" /\ target' = p /\ Returns
  BY <1>1, <1>4, ReturnKeeps
<1>5. QED
  BY <1>2, <1>3, <1>4 DEF Transfer

LEMMA GoingKeeps ==
  ASSUME IInv, StackKept, Going
  PROVE  IInv'
<1>1. /\ AtStatement /\ (Statement.op = "goTo" \/ Statement.op = "goToIf")
      /\ Transfer(Statement.to) /\ Expecting(Jumped(expected, Statement.to)) /\ UNCHANGED stopped
  BY DEF Going, Executing
<1>2. Top.pc = "run" /\ target = 0 /\ Statement \in Statements(SizeOf(shape))
  BY <1>1, AtTheStatement
<1>3. Statement.to \in 1..SizeOf(shape) /\ Statement.to \in 0..(SizeOf(shape) + 1)
  <2>1. Statement.to \in 1..SizeOf(shape)
    BY <1>1, <1>2, IInvFacts, StatementProperties
  <2>2. QED
    BY <2>1, IInvFacts
<1>4. StackOK' /\ TransferOK(shape, Top', target')
  BY <1>1, <1>2, <1>3, TransferKeeps
<1>5. MachineOK(shape, Jumped(expected, Statement.to))
  BY <1>3, IInvFacts, MachineChanges
<1>6. MachineOK(shape, expected') /\ lawful' \in BOOLEAN
  BY <1>1, <1>5, MachineExpects
<1>7. stopped' \in BOOLEAN
  BY <1>1, IInvFacts
<1>8. QED
  BY <1>4, <1>6, <1>7, StepKeeps

-----------------------------------------------------------------------------
(* PERFORM                                                                 *)

(* A frame that waits at its PERFORM. *)
LEMMA WaitingFrame ==
  ASSUME NEW sh, NEW prog, NEW f, FrameOK(sh, prog, f), Performs(prog, f),
         NEW g \in FrameType(SizeOf(sh)), g.kind = f.kind, g.of = f.of, g.at = f.at, g.i = f.i,
         g.pc # "dispatch"
  PROVE  FrameOK(sh, prog, g)
BY FrameStays

LEMMA PerformingKeeps ==
  ASSUME IInv, AtStatement, Statement.op = "perform", Expecting(Performing(expected, Statement))
  PROVE  MachineOK(shape, expected') /\ lawful' \in BOOLEAN
<1>1. Statement.from \in 0..(SizeOf(shape) + 1)
  <2>1. Statement.from \in 1..SizeOf(shape)
    BY AtTheStatement, IInvFacts, StatementProperties
  <2>2. QED
    BY <2>1, IInvFacts
<1>2. MachineOK(shape, Performing(expected, Statement))
  BY <1>1, IInvFacts, MachinePerforms
<1>3. QED
  BY <1>2, MachineExpects

(* The calls of a PERFORM. *)
LEMMA CallKeeps ==
  ASSUME IInv, StackKept, Performs(program, Top), NEW w \in FrameType(SizeOf(shape)),
         w.kind = Top.kind, w.of = Top.of, w.at = Top.at, w.i = Top.i,
         NEW p, NEW g \in 0..SizeOf(shape), Calls(w, p, g),
         \/ w.pc = "single" /\ p = FirstCalled(Statement)
         \/ w.pc = "range" /\ p = w.callee /\ p \in RangeParagraphs(Statement)
         \/ w.pc = "outside" /\ p \in 1..SizeOf(shape)
  PROVE  StackOK' /\ TransferOK(shape, Top', target')
<1>1. FrameOK(shape, program, w)
  BY IInvFacts, WaitingFrame
<1>2. program[w.at][w.i] = Statement
  BY DEF Statement
<1>3. /\ RangeIn(shape, Statement) \subseteq 1..SizeOf(shape)
      /\ Min(RangeIn(shape, Statement)) \in RangeIn(shape, Statement)
  BY PerformHas, IInvFacts DEF Statement
<1>4. /\ FirstCalled(Statement) = Min(RangeIn(shape, Statement))
      /\ RangeParagraphs(Statement) = RangeIn(shape, Statement)
  BY Shaped
<1>5. p \in 1..SizeOf(shape)
  BY <1>3, <1>4
<1>6. Called(shape, program, w, p)
  BY <1>2, <1>4, <1>5 DEF Called, Waiting
<1>7. QED
  BY <1>1, <1>5, <1>6, CalledStack, IInvFacts

LEMMA PerformOneKeeps ==
  ASSUME IInv, StackKept, PerformOne
  PROVE  IInv'
<1> DEFINE w == [Top EXCEPT !.pc = "single"]
<1>1. /\ AtStatement /\ Statement.op = "perform" /\ Expecting(Performing(expected, Statement))
      /\ Calls(w, FirstCalled(Statement), target) /\ UNCHANGED stopped
  BY DEF PerformOne, Executing
<1>2. Performs(program, Top) /\ target \in 0..SizeOf(shape) /\ Top \in FrameType(SizeOf(shape))
  BY <1>1, AtTheStatement, IInvFacts
<1>3. /\ w \in FrameType(SizeOf(shape)) /\ w.kind = Top.kind /\ w.of = Top.of /\ w.at = Top.at
      /\ w.i = Top.i /\ w.pc = "single"
  BY <1>2 DEF FrameType, Pcs, Waiting
<1> HIDE DEF w
<1>4. StackOK' /\ TransferOK(shape, Top', target')
  BY <1>1, <1>2, <1>3, CallKeeps
<1>5. MachineOK(shape, expected') /\ lawful' \in BOOLEAN
  BY <1>1, PerformingKeeps
<1>6. stopped' \in BOOLEAN
  BY <1>1, IInvFacts
<1>7. QED
  BY <1>4, <1>5, <1>6, StepKeeps

LEMMA PerformRangeKeeps ==
  ASSUME IInv, StackKept, PerformRange
  PROVE  IInv'
<1> DEFINE p == FirstCalled(Statement)
           w == [Top EXCEPT !.pc = "range", !.callee = p,
                            !.external = FALSE, !.resume = FALSE, !.preserved = 0]
<1>1. /\ AtStatement /\ Statement.op = "perform" /\ Expecting(Performing(expected, Statement))
      /\ Calls(w, p, target) /\ UNCHANGED stopped
  BY DEF PerformRange, Executing
<1>2. Performs(program, Top) /\ target \in 0..SizeOf(shape) /\ Top \in FrameType(SizeOf(shape))
  BY <1>1, AtTheStatement, IInvFacts
<1>3. p \in RangeParagraphs(Statement) /\ p \in 1..SizeOf(shape)
  <2>1. /\ RangeIn(shape, Statement) \subseteq 1..SizeOf(shape)
        /\ Min(RangeIn(shape, Statement)) \in RangeIn(shape, Statement)
    BY <1>2, PerformHas, IInvFacts DEF Statement
  <2>2. QED
    BY <2>1, Shaped
<1> HIDE DEF p
<1>4. p \in 0..SizeOf(shape)
  BY <1>3
<1>5. /\ w \in FrameType(SizeOf(shape)) /\ w.kind = Top.kind /\ w.of = Top.of /\ w.at = Top.at
      /\ w.i = Top.i /\ w.pc = "range" /\ w.callee = p
  BY <1>2, <1>4 DEF FrameType, Pcs, Waiting
<1> HIDE DEF w
<1>6. StackOK' /\ TransferOK(shape, Top', target')
  BY <1>1, <1>2, <1>3, <1>5, CallKeeps
<1>7. MachineOK(shape, expected') /\ lawful' \in BOOLEAN
  BY <1>1, PerformingKeeps
<1>8. stopped' \in BOOLEAN
  BY <1>1, IInvFacts
<1>9. QED
  BY <1>6, <1>7, <1>8, StepKeeps

(* A step that leaves the COBOL machine alone. *)
LEMMA StackStep ==
  ASSUME IInv, StackKept, StackOK', TransferOK(shape, Top', target'), UNCHANGED <<stopped, expected, lawful>>
  PROVE  IInv'
<1>1. MachineOK(shape, expected') /\ lawful' \in BOOLEAN
  BY SameMachine
<1>2. stopped' \in BOOLEAN
  BY IInvFacts
<1>3. QED
  BY <1>1, <1>2, StepKeeps

(* The PERFORM is done. *)
LEMMA PerformDone ==
  ASSUME IInv, StackKept, NEW f, FrameOK(shape, program, f), f.kind = Top.kind, f.of = Top.of,
         frames' = Replaced(NextStatement(f)), target' = 0
  PROVE  StackOK' /\ TransferOK(shape, Top', target')
<1> DEFINE g == NextStatement(f)
<1>1. FrameOK(shape, program, g) /\ g.pc = "run" /\ g.kind = f.kind /\ g.of = f.of
  BY IInvFacts, NextFrame
<1> HIDE DEF g
<1>2. TransferOK(shape, g, target')
  BY <1>1, IInvFacts DEF TransferOK
<1>3. QED
  BY <1>1, <1>2, MoveKeeps DEF g

LEMMA OneReturnsKeeps ==
  ASSUME IInv, StackKept, OneReturns
  PROVE  IInv'
<1>1. StackOK' /\ TransferOK(shape, Top', target')
  <2>1. CASE target # 0 /\ Top.kind # "main"
    <3>1. frames' = Replaced([Top EXCEPT !.pc = "dispatch"]) /\ target' = target
      BY <2>1 DEF OneReturns
    <3>2. "dispatch" \in Pcs
      BY DEF Pcs
    <3>3. QED
      BY <2>1, <3>1, <3>2, PcKeeps, IInvFacts
  <2>2. CASE ~(target # 0 /\ Top.kind # "main")
    <3>1. frames' = Replaced(NextStatement(Top)) /\ target' = 0
      BY <2>2 DEF OneReturns
    <3>2. QED
      BY <3>1, PerformDone, IInvFacts
  <2>3. QED
    BY <2>1, <2>2
<1>2. UNCHANGED <<stopped, expected, lawful>>
  BY DEF OneReturns
<1>3. QED
  BY <1>1, <1>2, StackStep

(* A PERFORM that is at work stands at its statement. *)
LEMMA AtThePerform ==
  ASSUME IInv, Top.pc \in {"single", "range", "outside", "disp"}
  PROVE  /\ Performs(program, Top) /\ Statement.op = "perform"
         /\ RangeParagraphs(Statement) \subseteq 1..SizeOf(shape)
         /\ \A S \in SUBSET RangeParagraphs(Statement) : S # {} => Min(S) \in S
<1>1. Performs(program, Top)
  BY IInvFacts DEF FrameOK
<1>2. /\ Statement.op = "perform" /\ RangeIn(shape, Statement) \subseteq 1..SizeOf(shape)
      /\ \A S \in SUBSET RangeIn(shape, Statement) : S # {} => Min(S) \in S
  BY <1>1, PerformHas, IInvFacts DEF Statement
<1>3. RangeParagraphs(Statement) = RangeIn(shape, Statement)
  BY Shaped
<1>4. QED
  BY <1>1, <1>2, <1>3

LEMMA RangeReturnsKeeps ==
  ASSUME IInv, StackKept, RangeReturns
  PROVE  IInv'
<1> DEFINE n == SizeOf(shape)
           f == [Top EXCEPT !.resume = FALSE, !.preserved = IF Top.resume THEN 0 ELSE @]
           rest == StillToCall(Statement, Top.callee)
<1>1. Top.pc = "range" /\ UNCHANGED <<stopped, expected, lawful>>
  BY DEF RangeReturns, Doing
<1>2. \/ /\ Kept # 0
         /\ frames' = Replaced([f EXCEPT !.pc = "disp"]) /\ target' = Kept
      \/ /\ Kept = 0 /\ rest # {}
         /\ Calls([f EXCEPT !.callee = Min(rest)], Min(rest), 0)
      \/ /\ Kept = 0 /\ rest = {}
         /\ frames' = Replaced(NextStatement(f)) /\ target' = 0
  BY DEF RangeReturns
<1>3. /\ Performs(program, Top) /\ RangeParagraphs(Statement) \subseteq 1..n
      /\ \A S \in SUBSET RangeParagraphs(Statement) : S # {} => Min(S) \in S
  BY <1>1, AtThePerform
<1>4. FrameOK(shape, program, Top) /\ Top \in FrameType(n) /\ target \in 0..n /\ 0 \in 0..n
  BY IInvFacts
<1> HIDE DEF n
<1>5. /\ f \in FrameType(n) /\ f.kind = Top.kind /\ f.of = Top.of /\ f.at = Top.at /\ f.i = Top.i
      /\ f.pc = "range"
  BY <1>1, <1>4 DEF FrameType
<1>6. Kept \in 0..n
  BY <1>4 DEF Kept
<1> HIDE DEF f
<1>7. FrameOK(shape, program, f) /\ Performs(program, f)
  <2>1. Performs(program, f)
    BY <1>3, <1>5 DEF Performs
  <2>2. QED
    BY <1>3, <1>4, <1>5, <2>1, WaitingFrame DEF n
<1>8. CASE Kept # 0 /\ frames' = Replaced([f EXCEPT !.pc = "disp"]) /\ target' = Kept
  <2> DEFINE g == [f EXCEPT !.pc = "disp"]
  <2>1. "disp" \in Pcs
    BY DEF Pcs
  <2>2. FrameOK(shape, program, g) /\ g.pc = "disp" /\ g.kind = f.kind /\ g.of = f.of
    BY <1>7, <2>1, FrameWith
  <2> HIDE DEF g
  <2>3. TransferOK(shape, g, target')
    BY <1>6, <1>8, <2>2 DEF TransferOK, n
  <2>4. frames' = Replaced(g)
    BY <1>8 DEF g
  <2>5. StackOK' /\ TransferOK(shape, Top', target')
    BY <1>5, <2>2, <2>3, <2>4, MoveKeeps
  <2>6. QED
    BY <1>1, <2>5, StackStep
<1>9. CASE Kept = 0 /\ rest # {} /\ Calls([f EXCEPT !.callee = Min(rest)], Min(rest), 0)
  <2> DEFINE p == Min(rest)
             w == [f EXCEPT !.callee = p]
  <2>1. rest \in SUBSET RangeParagraphs(Statement)
    BY DEF StillToCall
  <2>2. p \in RangeParagraphs(Statement)
    BY <1>3, <1>9, <2>1
  <2> HIDE DEF p
  <2>3. p \in 0..n
    BY <1>3, <2>2
  <2>4. /\ w \in FrameType(n) /\ w.kind = Top.kind /\ w.of = Top.of /\ w.at = Top.at /\ w.i = Top.i
        /\ w.pc = "range" /\ w.callee = p
    BY <1>5, <2>3 DEF FrameType
  <2>5. Calls(w, p, 0)
    BY <1>9 DEF p
  <2> HIDE DEF w
  <2>6. StackOK' /\ TransferOK(shape, Top', target')
    BY <1>3, <1>4, <2>2, <2>4, <2>5, CallKeeps DEF n
  <2>7. QED
    BY <1>1, <2>6, StackStep
<1>10. CASE frames' = Replaced(NextStatement(f)) /\ target' = 0
  <2>1. StackOK' /\ TransferOK(shape, Top', target')
    BY <1>5, <1>7, <1>10, PerformDone
  <2>2. QED
    BY <1>1, <2>1, StackStep
<1>11. QED
  BY <1>2, <1>8, <1>9, <1>10

(* The paragraph after the one the flow was in. *)
LEMMA FallsToIn ==
  ASSUME IInv, NEW g
  PROVE  FallsTo(Top, g) \in 0..SizeOf(shape)
<1> DEFINE n == SizeOf(shape)
           before == {p \in Numbered(Top, 1..(N - 1), g) : Local(Top, p + 1) # 0}
<1>1. n \in Nat /\ N = n /\ 0 \in 0..n
  BY IInvFacts
<1>2. before \subseteq 1..(n - 1)
  BY <1>1 DEF Numbered
<1>3. FallsTo(Top, g) = IF before = {} THEN 0 ELSE Local(Top, Max(before) + 1)
  BY DEF FallsTo
<1> HIDE DEF before
<1>4. CASE before # {}
  <2>1. Max(before) \in before
    <3>1. before \in SUBSET Nat /\ \A p \in before : p <= n
      BY <1>1, <1>2
    <3>2. QED
      BY <1>1, <1>4, <3>1, MaxIsGreatest
  <2>2. Max(before) \in 1..(n - 1)
    BY <1>2, <2>1
  <2> HIDE DEF n
  <2>3. Max(before) + 1 \in 1..n
    BY <1>1, <2>2
  <2>4. QED
    BY <1>3, <1>4, <2>3, LocalProperties DEF n
<1>5. QED
  BY <1>1, <1>3, <1>4

LEMMA OutsideReturnsKeeps ==
  ASSUME IInv, StackKept, OutsideReturns
  PROVE  IInv'
<1> DEFINE g == IF target # 0 THEN target ELSE FallsTo(Top, Top.callee)
<1>1. /\ Top.pc = "outside" /\ UNCHANGED <<stopped, expected, lawful>>
      /\ target' = g
      /\ frames' = Replaced(IF g # 0 THEN [Top EXCEPT !.pc = "disp"] ELSE NextStatement(Top))
  BY DEF OutsideReturns, Doing
<1>2. g \in 0..SizeOf(shape)
  BY FallsToIn, IInvFacts
<1>3. Performs(program, Top)
  BY <1>1, AtThePerform
<1> HIDE DEF g
<1>4. CASE g # 0
  <2>1. "disp" \in Pcs
    BY DEF Pcs
  <2>2. frames' = Replaced([Top EXCEPT !.pc = "disp"])
    BY <1>1, <1>4
  <2>3. StackOK' /\ TransferOK(shape, Top', target')
    BY <1>1, <1>2, <1>3, <1>4, <2>1, <2>2, PcKeeps
  <2>4. QED
    BY <1>1, <2>3, StackStep
<1>5. CASE g = 0
  <2>1. frames' = Replaced(NextStatement(Top)) /\ target' = 0
    BY <1>1, <1>5
  <2>2. StackOK' /\ TransferOK(shape, Top', target')
    BY <2>1, PerformDone, IInvFacts
  <2>3. QED
    BY <1>1, <2>2, StackStep
<1>6. QED
  BY <1>4, <1>5

-----------------------------------------------------------------------------
(* The dispatch table of a PERFORM THRU                                    *)

LEMMA ReEntriesInRange ==
  ASSUME IInv, Top.pc = "disp", NEW g, NEW p \in ReEntries(Top, Statement, g)
  PROVE  p \in RangeParagraphs(Statement)
<1> DEFINE RP == RangeParagraphs(Statement)
           direct == Numbered(Top, RP, g)
           passed == Numbered(Top, PassedHeaders(Statement), g)
           inside == Numbered(Top, InSections(Statement), g)
           after == {q \in RP : q > Min(passed)}
           n == SizeOf(shape)
<1>1. /\ RP \subseteq 1..n /\ \A S \in SUBSET RP : S # {} => Min(S) \in S
      /\ Statement \in Statements(n) /\ Statement.op = "perform"
  BY AtThePerform, PerformHas, IInvFacts DEF Statement
<1>2. n \in Nat /\ N = n /\ shape \in DOMAIN Shapes
  BY IInvFacts
<1>3. \/ direct # {} /\ p = Min(direct)
      \/ passed # {} /\ p = Min(after)
      \/ inside # {} /\ p = SectionOf(Min(inside))
  BY DEF ReEntries
<1>4. CASE direct # {} /\ p = Min(direct)
  <2>1. direct \in SUBSET RP
    BY DEF Numbered
  <2> HIDE DEF direct, RP
  <2>2. QED
    BY <1>1, <1>4, <2>1 DEF RP
<1>5. CASE passed # {} /\ p = Min(after)
  <2>1. passed \in SUBSET Nat /\ passed \subseteq PassedHeaders(Statement)
    <3>1. passed \subseteq PassedHeaders(Statement)
      BY DEF Numbered
    <3>2. PassedHeaders(Statement) \subseteq Headers
      BY DEF PassedHeaders
    <3>3. Headers \subseteq 1..n
      BY <1>2, Shaped, ShapeProperties
    <3> HIDE DEF passed, n
    <3>4. \A h \in 1..n : h \in Nat
      BY <1>2
    <3>5. \A h \in passed : h \in Nat
      BY <3>1, <3>2, <3>3, <3>4, Zenon
    <3>6. passed \in SUBSET Nat
      BY <3>5, Zenon
    <3>7. QED
      BY <3>1, <3>6, Zenon
  <2>2. Min(passed) \in PassedHeaders(Statement)
    <3> HIDE DEF passed
    <3>1. QED
      BY <1>5, <2>1, MinIsLeast
  <2>3. \E q \in RP : q > Min(passed)
    BY <2>2 DEF PassedHeaders
  <2>4. after \in SUBSET RP /\ after # {}
    BY <2>3
  <2> HIDE DEF after, RP
  <2>5. QED
    BY <1>1, <1>5, <2>4 DEF RP
<1>6. CASE inside # {} /\ p = SectionOf(Min(inside))
  <2>1. inside \subseteq InSections(Statement)
    BY DEF Numbered
  <2>2. /\ \A q \in InSections(Statement) : SectionOf(q) \in RP
        /\ InSections(Statement) \subseteq Statement.from..GroupEnd(Statement.thru)
    BY DEF InSections
  <2>3. inside \in SUBSET Nat
    <3>1. Statement.from \in 1..n
      BY <1>1, <1>2, StatementProperties
    <3> HIDE DEF inside, n
    <3>2. \A q \in Statement.from..GroupEnd(Statement.thru) : q \in Nat
      BY <1>2, <3>1
    <3>3. QED
      BY <2>1, <2>2, <3>2
  <2>4. Min(inside) \in inside
    <3> HIDE DEF inside
    <3>1. QED
      BY <1>6, <2>3, MinIsLeast
  <2>5. QED
    BY <1>6, <2>1, <2>2, <2>4
<1>7. QED
  BY <1>3, <1>4, <1>5, <1>6

LEMMA PreservedLabelIn ==
  ASSUME IInv, Top.pc = "disp", NEW g
  PROVE  PreservedLabel(Top, Statement, g) \in 0..SizeOf(shape)
<1> DEFINE n == SizeOf(shape)
           inside == Numbered(Top, InSections(Statement), g)
           m == Max(inside)
           e == GroupEnd(Statement.thru)
<1>1. n \in Nat /\ N = n /\ shape \in DOMAIN Shapes /\ 0 \in 0..n
  BY IInvFacts
<1>2. Statement \in Statements(n) /\ Statement.op = "perform"
  BY AtThePerform, PerformHas, IInvFacts DEF Statement
<1>3. Statement.from \in 1..n /\ Statement.thru \in 1..n /\ Statement.thru \in 0..n
  <2>1. Statement.from \in 1..n /\ Statement.thru \in 1..n
    BY <1>1, <1>2, StatementProperties
  <2> HIDE DEF n
  <2>2. QED
    BY <1>1, <2>1
<1>4. e \in 0..n
  <2>1. GroupEnd(Statement.thru) = Max(GroupIn(shape, Statement.thru))
    BY Shaped DEF GroupEnd
  <2>2. QED
    BY <1>1, <1>3, <2>1, GroupProperties
<1>5. PreservedLabel(Top, Statement, g) = IF inside = {} THEN 0 ELSE m - SectionOf(m) + 1
  BY DEF PreservedLabel
<1>6. inside \subseteq InSections(Statement)
  BY DEF Numbered
<1>7. \A q \in InSections(Statement) : q \in Statement.from..e /\ SectionOf(q) # 0
  BY DEF InSections
<1> HIDE DEF inside, e
<1>8. CASE inside # {}
  <2>1. \A q \in inside : q \in 1..n /\ SectionOf(q) # 0
    <3> HIDE DEF n
    <3>1. \A q \in Statement.from..e : q \in 1..n
      BY <1>1, <1>3, <1>4
    <3>2. QED
      BY <1>6, <1>7, <3>1
  <2>2. m \in inside
    <3>1. inside \in SUBSET Nat /\ \A q \in inside : q <= n
      <4> HIDE DEF n
      <4>1. QED
        BY <1>1, <2>1
    <3>2. QED
      BY <1>1, <1>8, <3>1, MaxIsGreatest
  <2>3. m \in 1..n /\ SectionOf(m) # 0
    BY <2>1, <2>2
  <2> HIDE DEF m
  <2>4. SectionOf(m) \in 0..m
    BY <1>1, <2>3, SectionProperties, Shaped
  <2> DEFINE k == SectionOf(m)
  <2> HIDE DEF n, k
  <2>5. k \in 0..m /\ k # 0 /\ m \in 1..n
    BY <2>3, <2>4 DEF k
  <2>6. m - k + 1 \in 0..n
    BY <1>1, <2>5
  <2>7. QED
    BY <1>5, <1>8, <2>6 DEF k, m, n
<1>9. QED
  BY <1>1, <1>5, <1>8

LEMMA DispatchInsideKeeps ==
  ASSUME IInv, StackKept, DispatchInside
  PROVE  IInv'
<1> DEFINE n == SizeOf(shape)
           label == PreservedLabel(Top, Statement, target)
           W(p) == [Top EXCEPT !.pc = "range", !.external = FALSE, !.resume = TRUE,
                               !.preserved = IF label = 0 THEN @ ELSE label, !.callee = p]
<1>1. Top.pc = "disp" /\ UNCHANGED <<stopped, expected, lawful>>
  BY DEF DispatchInside, Doing
<1>2. PICK p \in ReEntries(Top, Statement, target) : Calls(W(p), p, label)
  BY DEF DispatchInside
<1>3. p \in RangeParagraphs(Statement) /\ label \in 0..n
  BY <1>1, ReEntriesInRange, PreservedLabelIn
<1>4. Performs(program, Top) /\ RangeParagraphs(Statement) \subseteq 1..n
  BY <1>1, AtThePerform
<1>5. Top \in FrameType(n) /\ n \in Nat
  BY IInvFacts
<1> HIDE DEF n, label
<1>6. p \in 0..n /\ label \in Nat
  BY <1>3, <1>4, <1>5
<1> DEFINE w == W(p)
<1>7. /\ w \in FrameType(n) /\ w.kind = Top.kind /\ w.of = Top.of /\ w.at = Top.at /\ w.i = Top.i
      /\ w.pc = "range" /\ w.callee = p
  BY <1>5, <1>6 DEF FrameType, Pcs, Waiting
<1>8. Calls(w, p, label)
  BY <1>2
<1> HIDE DEF w
<1>9. StackOK' /\ TransferOK(shape, Top', target')
  BY <1>3, <1>4, <1>7, <1>8, CallKeeps DEF n
<1>10. QED
  BY <1>1, <1>9, StackStep

LEMMA DispatchOutsideKeeps ==
  ASSUME IInv, StackKept, DispatchOutside
  PROVE  IInv'
<1> DEFINE n == SizeOf(shape)
           p == Min(Numbered(Top, 1..N, target))
           w == [Top EXCEPT !.pc = "outside", !.callee = target, !.external = TRUE]
<1>1. Top.pc = "disp" /\ UNCHANGED <<stopped, expected, lawful>>
  BY DEF DispatchOutside, Doing
<1>2. \/ SameScope(Top, p) /\ Calls(w, p, 0)
      \/ /\ ~SameScope(Top, p) /\ Top.external
         /\ frames' = Replaced([Top EXCEPT !.pc = "dispatch"]) /\ UNCHANGED target
      \/ /\ ~SameScope(Top, p) /\ ~Top.external
         /\ frames' = Replaced(NextStatement(Top)) /\ target' = 0
  BY DEF DispatchOutside
<1>3. Performs(program, Top)
  BY <1>1, AtThePerform
<1>4. Top \in FrameType(n) /\ n \in Nat /\ N = n /\ target \in 0..n /\ target # 0 /\ 0 \in 0..n
  BY <1>1, IInvFacts DEF TransferOK
<1>5. p \in 1..n
  <2> DEFINE S == Numbered(Top, 1..N, target)
  <2> HIDE DEF n
  <2>1. target \in 1..N
    BY <1>4
  <2>2. target \in S /\ S \subseteq 1..N
    BY <2>1 DEF Numbered
  <2> HIDE DEF S
  <2>3. S \in SUBSET Nat /\ S # {}
    BY <1>4, <2>2
  <2>4. Min(S) \in S
    BY <2>3, MinIsLeast
  <2>5. QED
    BY <1>4, <2>2, <2>4 DEF S
<1>6. CASE SameScope(Top, p) /\ Calls(w, p, 0)
  <2> HIDE DEF n, p
  <2>1. /\ w \in FrameType(n) /\ w.kind = Top.kind /\ w.of = Top.of /\ w.at = Top.at /\ w.i = Top.i
        /\ w.pc = "outside"
    BY <1>4 DEF FrameType, Pcs, Waiting
  <2> HIDE DEF w
  <2>2. StackOK' /\ TransferOK(shape, Top', target')
    BY <1>3, <1>4, <1>5, <1>6, <2>1, CallKeeps DEF n
  <2>3. QED
    BY <1>1, <2>2, StackStep
<1>7. CASE ~SameScope(Top, p) /\ frames' = Replaced([Top EXCEPT !.pc = "dispatch"]) /\ UNCHANGED target
  <2>1. Top.kind # "main"
    <3>1. Top.at # 0
      BY <1>7 DEF SameScope
    <3>2. QED
      BY <3>1, IInvFacts DEF FrameOK
  <2>2. "dispatch" \in Pcs
    BY DEF Pcs
  <2>3. StackOK' /\ TransferOK(shape, Top', target')
    BY <1>4, <1>7, <2>1, <2>2, PcKeeps
  <2>4. QED
    BY <1>1, <2>3, StackStep
<1>8. CASE frames' = Replaced(NextStatement(Top)) /\ target' = 0
  <2>1. StackOK' /\ TransferOK(shape, Top', target')
    BY <1>8, PerformDone, IInvFacts
  <2>2. QED
    BY <1>1, <2>1, StackStep
<1>9. QED
  BY <1>2, <1>6, <1>7, <1>8

-----------------------------------------------------------------------------
(* The end of a label, and main                                            *)

LEMMA FallThroughKeeps ==
  ASSUME IInv, StackKept, FallThrough
  PROVE  IInv'
<1>1. Top.pc = "run" /\ UNCHANGED <<target, stopped, expected, lawful>>
  BY DEF FallThrough, Doing
<1>2. \/ Top.kind = "main" /\ frames' = Replaced([Top EXCEPT !.pc = "entry"])
      \/ /\ Top.kind = "section" /\ Top.at < GroupEnd(Top.of)
         /\ frames' = Replaced([Top EXCEPT !.at = @ + 1, !.i = 1])
      \/ Top.kind # "main" /\ frames' = Replaced([Top EXCEPT !.pc = "dispatch"])
  BY DEF FallThrough
<1>3. target' \in 0..SizeOf(shape) /\ target' = 0
  BY <1>1, IInvFacts DEF TransferOK
<1>4. FrameOK(shape, program, Top) /\ shape \in DOMAIN Shapes
  BY IInvFacts
<1>5. CASE Top.kind = "main" /\ frames' = Replaced([Top EXCEPT !.pc = "entry"])
  <2>1. "entry" \in Pcs
    BY DEF Pcs
  <2>2. StackOK' /\ TransferOK(shape, Top', target')
    BY <1>3, <1>5, <2>1, PcKeeps
  <2>3. QED
    BY <1>1, <2>2, StackStep
<1>6. CASE /\ Top.kind = "section" /\ Top.at < GroupEnd(Top.of)
           /\ frames' = Replaced([Top EXCEPT !.at = @ + 1, !.i = 1])
  <2> DEFINE p == Top.at + 1
  <2>1. GroupEnd(Top.of) = Max(GroupIn(shape, Top.of))
    BY Shaped DEF GroupEnd
  <2>2. Top.of \in HeadersOf(shape) /\ Top.at \in GroupIn(shape, Top.of) /\ Top.kind # "main"
    BY <1>4, <1>6 DEF FrameOK
  <2>3. p \in GroupIn(shape, Top.of)
    BY <1>4, <1>6, <2>1, <2>2, GroupGoesOn
  <2>4. frames' = Replaced(AtLabelToo(Top, p))
    BY <1>6, Zenon DEF AtLabelToo
  <2> HIDE DEF p
  <2>5. StackOK' /\ TransferOK(shape, Top', target')
    BY <1>1, <1>3, <2>2, <2>3, <2>4, JumpKeeps
  <2>6. QED
    BY <1>1, <2>5, StackStep
<1>7. CASE Top.kind # "main" /\ frames' = Replaced([Top EXCEPT !.pc = "dispatch"])
  <2>1. "dispatch" \in Pcs
    BY DEF Pcs
  <2>2. StackOK' /\ TransferOK(shape, Top', target')
    BY <1>3, <1>7, <2>1, PcKeeps
  <2>3. QED
    BY <1>1, <2>2, StackStep
<1>8. QED
  BY <1>2, <1>5, <1>6, <1>7

LEMMA DispatchKeeps ==
  ASSUME IInv, StackKept, Dispatch
  PROVE  IInv'
<1>1. Top.pc = "dispatch" /\ UNCHANGED <<stopped, expected, lawful>>
  BY DEF Dispatch, Doing
<1>2. Top.kind # "main"
  BY <1>1, IInvFacts DEF FrameOK
<1>3. \/ \E p \in Group(Top.of) :
           frames' = Replaced([Top EXCEPT !.at = p, !.i = 1, !.pc = "run"]) /\ target' = 0
      \/ Returns /\ UNCHANGED target
  BY DEF Dispatch
<1>4. ASSUME NEW p \in Group(Top.of),
             frames' = Replaced([Top EXCEPT !.at = p, !.i = 1, !.pc = "run"]), target' = 0
      PROVE  IInv'
  <2>1. p \in GroupIn(shape, Top.of)
    BY Shaped
  <2>2. frames' = Replaced(AtLabel(Top, p))
    BY <1>4, Zenon DEF AtLabel
  <2>3. StackOK' /\ TransferOK(shape, Top', target')
    BY <1>2, <1>4, <2>1, <2>2, JumpKeeps
  <2>4. QED
    BY <1>1, <2>3, StackStep
<1>5. CASE Returns /\ UNCHANGED target
  <2>1. StackOK' /\ TransferOK(shape, Top', target')
    BY <1>2, <1>5, ReturnKeeps, IInvFacts
  <2>2. QED
    BY <1>1, <2>1, StackStep
<1>6. QED
  BY <1>3, <1>4, <1>5

(* There is a paragraph that belongs to no section: the first one. *)
LEMMA FollowerIn ==
  ASSUME IInv
  PROVE  /\ Min(TopLevel) \in 0..SizeOf(shape)
         /\ \A p \in 0..SizeOf(shape) : Follower(p) \in 0..SizeOf(shape)
<1> DEFINE n == SizeOf(shape)
           later(p) == {q \in TopLevel : q > p}
<1>1. n \in Nat /\ n > 0 /\ N = n /\ shape \in DOMAIN Shapes
  BY IInvFacts
<1>2. SectionOf(1) = 0
  <2>1. 1 \in 1..n
    <3> HIDE DEF n
    <3>1. QED
      BY <1>1
  <2>2. SectionIn(shape, 1) \in 0..1 /\ (SectionIn(shape, 1) # 0 => SectionIn(shape, 1) < 1)
    BY <1>1, <2>1, SectionProperties
  <2>3. SectionIn(shape, 1) = 0
    BY <2>2
  <2>4. QED
    BY <2>3, Shaped
<1> HIDE DEF n
<1>3. TopLevel \subseteq 1..n /\ TopLevel \in SUBSET Nat /\ 1 \in TopLevel
  <2>1. TopLevel = {p \in 1..n : SectionOf(p) = 0}
    BY <1>1 DEF TopLevel
  <2>2. 1 \in 1..n /\ \A p \in 1..n : p \in Nat
    BY <1>1
  <2>3. QED
    BY <1>2, <2>1, <2>2
<1>4. \A S \in SUBSET TopLevel : S # {} => Min(S) \in S
  <2>1. ASSUME NEW S \in SUBSET TopLevel, S # {} PROVE Min(S) \in S
    <3>1. S \in SUBSET Nat
      BY <1>3
    <3>2. QED
      BY <2>1, <3>1, MinIsLeast
  <2>2. QED
    BY <2>1
<1>5. \A p \in 1..n : p \in 0..n
  BY <1>1
<1>6. Min(TopLevel) \in 0..n
  <2>1. TopLevel \in SUBSET TopLevel /\ TopLevel # {}
    BY <1>3
  <2>2. Min(TopLevel) \in TopLevel
    BY <1>4, <2>1
  <2>3. QED
    BY <1>3, <1>5, <2>2
<1>7. ASSUME NEW p \in 0..n PROVE Follower(p) \in 0..n
  <2>1. \/ later(p) # {} /\ Follower(p) = Min(later(p))
        \/ p < n /\ Follower(p) = p + 1
        \/ Follower(p) = 0
    BY <1>1 DEF Follower
  <2>2. later(p) \in SUBSET TopLevel
    OBVIOUS
  <2> HIDE DEF later
  <2>3. later(p) # {} => Min(later(p)) \in 0..n
    BY <1>3, <1>4, <1>5, <2>2
  <2>4. 0 \in 0..n
    BY <1>1
  <2>5. QED
    BY <1>1, <2>1, <2>3, <2>4
<1>8. QED
  BY <1>6, <1>7 DEF n

LEMMA MainEntryKeeps ==
  ASSUME IInv, StackKept, MainEntry
  PROVE  IInv'
<1>1. /\ target' = IF target = 0 THEN Min(TopLevel) ELSE target
      /\ frames' = Replaced([Top EXCEPT !.pc = "loop"]) /\ UNCHANGED <<stopped, expected, lawful>>
  BY DEF MainEntry
<1>2. target' \in 0..SizeOf(shape)
  BY <1>1, FollowerIn, IInvFacts
<1>3. "loop" \in Pcs
  BY DEF Pcs
<1>4. StackOK' /\ TransferOK(shape, Top', target')
  BY <1>1, <1>2, <1>3, PcKeeps
<1>5. QED
  BY <1>1, <1>4, StackStep

LEMMA MainFollowsKeeps ==
  ASSUME IInv, StackKept, MainFollows
  PROVE  IInv'
<1>1. /\ target' = IF target = 0 THEN Follower(Top.callee) ELSE target
      /\ frames' = Replaced([Top EXCEPT !.pc = "loop"]) /\ UNCHANGED <<stopped, expected, lawful>>
  BY DEF MainFollows
<1>2. Top.callee \in 0..SizeOf(shape)
  BY IInvFacts, FrameFields
<1>3. target' \in 0..SizeOf(shape)
  BY <1>1, <1>2, FollowerIn, IInvFacts
<1>4. "loop" \in Pcs
  BY DEF Pcs
<1>5. StackOK' /\ TransferOK(shape, Top', target')
  BY <1>1, <1>3, <1>4, PcKeeps
<1>6. QED
  BY <1>1, <1>5, StackStep

LEMMA MainCallsKeeps ==
  ASSUME IInv, StackKept, MainCalls
  PROVE  IInv'
<1> DEFINE n == SizeOf(shape)
           w == [Top EXCEPT !.pc = "called", !.callee = target]
<1>1. target # 0 /\ Calls(w, target, 0) /\ UNCHANGED <<stopped, expected, lawful>>
  BY DEF MainCalls
<1>2. Top \in FrameType(n) /\ target \in 0..n /\ n \in Nat /\ 0 \in 0..n /\ FrameOK(shape, program, Top)
  BY IInvFacts
<1> HIDE DEF n
<1>3. target \in 1..n
  BY <1>1, <1>2
<1>4. /\ w \in FrameType(n) /\ w.kind = Top.kind /\ w.of = Top.of /\ w.at = Top.at /\ w.i = Top.i
      /\ w.pc = "called" /\ w.callee = target
  BY <1>2 DEF FrameType, Pcs, Waiting
<1> HIDE DEF w
<1>5. FrameOK(shape, program, w)
  BY <1>2, <1>4, FrameStays DEF n
<1>6. Called(shape, program, w, target)
  BY <1>4 DEF Called, Waiting
<1>7. StackOK' /\ TransferOK(shape, Top', target')
  BY <1>1, <1>2, <1>3, <1>4, <1>5, <1>6, CalledStack, IInvFacts DEF n
<1>8. QED
  BY <1>1, <1>7, StackStep

(* The stack does not change. *)
LEMMA StackStays ==
  ASSUME IInv, StackKept, UNCHANGED <<frames, target>>
  PROVE  StackOK' /\ TransferOK(shape, Top', target')
<1>1. Top' = Top
  BY DEF Top
<1>2. StackOK'
  BY DEF IInv, StackOK, StackKept
<1>3. QED
  BY <1>1, <1>2, IInvFacts

LEMMA MainEndsKeeps ==
  ASSUME IInv, StackKept, MainEnds
  PROVE  IInv'
<1>1. UNCHANGED <<frames, target, expected, lawful>> /\ stopped' = TRUE
  BY DEF MainEnds
<1>2. StackOK' /\ TransferOK(shape, Top', target')
  BY <1>1, StackStays
<1>3. MachineOK(shape, expected') /\ lawful' \in BOOLEAN
  BY <1>1, SameMachine
<1>4. QED
  BY <1>1, <1>2, <1>3, StepKeeps

LEMMA SettlesKeeps ==
  ASSUME IInv, StackKept, Settles
  PROVE  IInv'
<1> DEFINE c == PastEnd(expected)
<1>1. /\ expected.at \in DOMAIN program /\ lawful' = LawfulEnd(c)
      /\ expected' = IF lawful' THEN c ELSE Start
      /\ UNCHANGED <<frames, target, stopped>>
  BY DEF Settles
<1>2. expected.at \in 0..SizeOf(shape)
  BY <1>1, IInvFacts DEF ProgramOK
<1>3. MachineOK(shape, c) /\ MachineOK(shape, Start)
  BY <1>2, IInvFacts, MachineEnds, MachineStarts
<1> HIDE DEF c
<1>4. MachineOK(shape, expected')
  BY <1>1, <1>3
<1>5. lawful' \in BOOLEAN
  BY <1>1, Zenon DEF LawfulEnd
<1>6. StackOK' /\ TransferOK(shape, Top', target') /\ stopped' \in BOOLEAN
  BY <1>1, StackStays, IInvFacts
<1>7. QED
  BY <1>4, <1>5, <1>6, StepKeeps

(* A paragraph that is read changes nothing of those read before. *)
LEMMA ProgramGrows ==
  ASSUME NEW p, p \notin DOMAIN program, NEW body, NEW sh, NEW new, new = WithBody(p, body)
  PROVE  /\ DOMAIN new = {p} \cup DOMAIN program /\ new[p] = body
         /\ \A q \in DOMAIN program : new[q] = program[q]
         /\ \A f : FrameOK(sh, program, f) => FrameOK(sh, new, f)
         /\ \A f, q : FrameOK(sh, program, f) /\ Called(sh, program, f, q) => Called(sh, new, f, q)
<1>3. /\ DOMAIN new = {p} \cup DOMAIN program /\ new[p] = body
      /\ \A q \in DOMAIN program : new[q] = program[q]
  BY DEF WithBody
<1>4. \A f : Performs(program, f) => Performs(new, f) /\ new[f.at][f.i] = program[f.at][f.i]
  BY <1>3 DEF Performs
<1>5. ASSUME NEW f, FrameOK(sh, program, f) PROVE FrameOK(sh, new, f)
  BY <1>4, <1>5, Zenon DEF FrameOK
<1>6. ASSUME NEW f, NEW q, FrameOK(sh, program, f), Called(sh, program, f, q) PROVE Called(sh, new, f, q)
  <2>1. f.pc = "single" \/ f.pc = "range" => new[f.at][f.i] = program[f.at][f.i]
    BY <1>4, <1>6 DEF FrameOK
  <2>2. QED
    BY <1>6, <2>1 DEF Called
<1>7. QED
  BY <1>3, <1>5, <1>6

LEMMA ReadsKeeps ==
  ASSUME IInv, shape' = shape, Reads
  PROVE  IInv'
<1> DEFINE n == SizeOf(shape)
<1>1. UNCHANGED <<frames, target, stopped, expected, lawful>>
  BY DEF Reads
<1>2. PICK p \in (0..N) \ DOMAIN program : \E body \in Bodies[p] : program' = WithBody(p, body)
  BY DEF Reads
<1>3. PICK body \in Bodies[p] : program' = WithBody(p, body)
  BY <1>2
<1>4. /\ DOMAIN program' = {p} \cup DOMAIN program /\ program'[p] = body
      /\ \A q \in DOMAIN program : program'[q] = program[q]
      /\ \A f : FrameOK(shape, program, f) => FrameOK(shape, program', f)
      /\ \A f, q : FrameOK(shape, program, f) /\ Called(shape, program, f, q) => Called(shape, program', f, q)
  <2> DEFINE new == WithBody(p, body)
  <2>1. /\ DOMAIN new = {p} \cup DOMAIN program /\ new[p] = body
        /\ \A q \in DOMAIN program : new[q] = program[q]
    BY <1>2 DEF WithBody
  <2>2. \A f : FrameOK(shape, program, f) => FrameOK(shape, new, f)
    BY <1>2, ProgramGrows
  <2>3. \A f, q : FrameOK(shape, program, f) /\ Called(shape, program, f, q) => Called(shape, new, f, q)
    BY <1>2, ProgramGrows
  <2>4. program' = new
    BY <1>3
  <2> HIDE DEF new
  <2>5. QED
    BY <2>1, <2>2, <2>3, <2>4, Zenon
<1>5. N = n /\ Bodies = BodiesOf(shape) /\ p \in 0..n /\ body \in BodiesOf(shape)[p]
  BY <1>2, <1>3, Shaped
<1>6. ProgramOK'
  <2>1. /\ shape \in DOMAIN Shapes /\ DOMAIN program \subseteq 0..n
        /\ \A q \in DOMAIN program : program[q] \in BodiesOf(shape)[q]
    BY IInvFacts DEF ProgramOK
  <2>2. DOMAIN program' \subseteq 0..n
    BY <1>4, <1>5, <2>1
  <2>3. \A q \in DOMAIN program' : program'[q] \in BodiesOf(shape)[q]
    BY <1>4, <1>5, <2>1
  <2>4. QED
    BY <2>1, <2>2, <2>3 DEF ProgramOK
<1>7. StackOK'
  <2>1. /\ frames \in Seq(FrameType(n)) /\ Len(frames) > 0
        /\ \A k \in 1..Len(frames) : FrameOK(shape, program, frames[k]) /\ (frames[k].kind = "main" <=> k = 1)
        /\ \A k \in 1..(Len(frames) - 1) : Called(shape, program, frames[k], frames[k + 1].of)
    BY IInvFacts DEF StackOK
  <2>2. \A k \in 1..(Len(frames) - 1) : k \in 1..Len(frames)
    BY <2>1
  <2>3. \A k \in 1..Len(frames) : FrameOK(shape, program', frames[k])
    BY <1>4, <2>1
  <2>4. \A k \in 1..(Len(frames) - 1) : Called(shape, program', frames[k], frames[k + 1].of)
    BY <1>4, <2>1, <2>2
  <2>5. QED
    BY <1>1, <2>1, <2>3, <2>4 DEF StackOK
<1>8. Top' = Top
  BY <1>1 DEF Top
<1>9. TransferOK(shape, Top, target)' /\ MachineOK(shape, expected)'
  BY <1>1, <1>8, IInvFacts
<1>10. lawful' \in BOOLEAN /\ stopped' \in BOOLEAN
  BY <1>1, IInvFacts
<1>11. QED
  BY <1>6, <1>7, <1>9, <1>10 DEF IInv

(* Nothing happens. *)
LEMMA StutterKeeps ==
  ASSUME IInv, UNCHANGED vars
  PROVE  IInv'
<1>1. StackKept /\ UNCHANGED <<frames, target>> /\ UNCHANGED <<stopped, expected, lawful>>
  BY DEF vars, StackKept
<1>2. StackOK' /\ TransferOK(shape, Top', target')
  BY <1>1, StackStays
<1>3. QED
  BY <1>1, <1>2, StackStep

LEMMA InitIInv ==
  ASSUME Init
  PROVE  IInv
<1> DEFINE n == SizeOf(shape)
           f == Frame("main", 0, "run")
<1>1. /\ shape \in DOMAIN Shapes /\ program = << >> /\ frames = <<f>>
      /\ target = 0 /\ stopped = FALSE /\ expected = Start /\ lawful = TRUE
  BY DEF Init
<1>2. n \in Nat /\ 0 \in 0..n /\ 0 \in GroupIn(shape, 0)
  BY <1>1, ShapeProperties, GroupProperties
<1>3. DOMAIN program = {}
  BY <1>1
<1>4. ProgramOK
  BY <1>1, <1>3 DEF ProgramOK
<1> HIDE DEF n
<1>5. /\ f \in FrameType(n) /\ f.i = 1 /\ f.of = 0 /\ f.at = 0 /\ f.kind = "main" /\ f.pc = "run"
  BY <1>2 DEF Frame, FrameType, Pcs
<1> HIDE DEF f
<1>6. FrameOK(shape, program, f)
  BY <1>2, <1>5 DEF FrameOK, n
<1>7. frames \in Seq(FrameType(n)) /\ Len(frames) = 1 /\ frames[1] = f /\ frames # <<>>
  BY <1>1, <1>5
<1>8. StackOK
  BY <1>5, <1>6, <1>7 DEF StackOK, n
<1>9. Top = f
  BY <1>7 DEF Top, Last
<1>10. TransferOK(shape, Top, target)
  BY <1>1, <1>2, <1>5, <1>9 DEF TransferOK, n
<1>11. MachineOK(shape, expected)
  BY <1>1, MachineStarts
<1>12. QED
  BY <1>1, <1>4, <1>8, <1>10, <1>11 DEF IInv

LEMMA NextIInv ==
  ASSUME IInv, [Next]_vars
  PROVE  IInv'
<1>1. CASE UNCHANGED vars
  BY <1>1, StutterKeeps
<1>2. CASE Next
  <2>1. shape' = shape
    BY <1>2 DEF Next
  <2>2. Reads => IInv'
    BY <2>1, ReadsKeeps
  <2>3. Finished => IInv'
    BY StutterKeeps DEF Finished
  <2>4. Working \/ NotGoing \/ StopRun \/ ExitParagraph \/ Going => IInv'
    <3>1. Working \/ NotGoing \/ StopRun \/ ExitParagraph \/ Going => StackKept
      BY <2>1 DEF StackKept, Working, NotGoing, StopRun, ExitParagraph, Going
    <3>2. QED
      BY <3>1, WorkingKeeps, StopRunKeeps, ExitKeeps, GoingKeeps
  <2>5. PerformOne \/ OneReturns \/ PerformRange \/ RangeReturns => IInv'
    <3>1. PerformOne \/ OneReturns \/ PerformRange \/ RangeReturns => StackKept
      BY <2>1 DEF StackKept, PerformOne, OneReturns, PerformRange, RangeReturns
    <3>2. QED
      BY <3>1, PerformOneKeeps, OneReturnsKeeps, PerformRangeKeeps, RangeReturnsKeeps
  <2>6. DispatchInside \/ DispatchOutside \/ OutsideReturns => IInv'
    <3>1. DispatchInside \/ DispatchOutside \/ OutsideReturns => StackKept
      BY <2>1 DEF StackKept, DispatchInside, DispatchOutside, OutsideReturns
    <3>2. QED
      BY <3>1, DispatchInsideKeeps, DispatchOutsideKeeps, OutsideReturnsKeeps
  <2>7. FallThrough \/ Dispatch => IInv'
    <3>1. FallThrough \/ Dispatch => StackKept
      BY <2>1 DEF StackKept, FallThrough, Dispatch
    <3>2. QED
      BY <3>1, FallThroughKeeps, DispatchKeeps
  <2>8. MainEntry \/ MainCalls \/ MainFollows \/ MainEnds \/ Settles => IInv'
    <3>1. MainEntry \/ MainCalls \/ MainFollows \/ MainEnds \/ Settles => StackKept
      BY <2>1 DEF StackKept, MainEntry, MainCalls, MainFollows, MainEnds, Settles
    <3>2. QED
      BY <3>1, MainEntryKeeps, MainCallsKeeps, MainFollowsKeeps, MainEndsKeeps, SettlesKeeps
  <2>9. QED
    BY <1>2, <2>2, <2>3, <2>4, <2>5, <2>6, <2>7, <2>8 DEF Next
<1>3. QED
  BY <1>1, <1>2

LEMMA CalledIsWaitedFor ==
  ASSUME NEW f, NEW p, Called(shape, program, f, p)
  PROVE  p \in WaitsFor(f)
<1>1. /\ N = SizeOf(shape)
      /\ \A s : RangeParagraphs(s) = RangeIn(shape, s) /\ FirstCalled(s) = Min(RangeIn(shape, s))
  BY Shaped
<1>2. CASE f.pc = "single"
  BY <1>1, <1>2 DEF Called, WaitsFor
<1>3. CASE f.pc = "range"
  <2>1. WaitsFor(f) = {f.callee} \cap RangeParagraphs(program[f.at][f.i])
    BY <1>3 DEF WaitsFor
  <2>2. QED
    BY <1>1, <1>3, <2>1 DEF Called
<1>4. CASE f.pc = "outside"
  BY <1>1, <1>4 DEF Called, WaitsFor
<1>5. CASE f.pc = "called"
  BY <1>5 DEF Called, WaitsFor
<1>6. QED
  BY <1>2, <1>3, <1>4, <1>5 DEF Called, Waiting

LEMMA IInvImplies ==
  ASSUME IInv
  PROVE  FramesCorrect
<1> DEFINE n == SizeOf(shape)
<1>1. /\ N = n /\ Bodies = BodiesOf(shape) /\ \A p : Group(p) = GroupIn(shape, p)
      /\ \A s : RangeParagraphs(s) = RangeIn(shape, s) /\ FirstCalled(s) = Min(RangeIn(shape, s))
  BY Shaped
<1>2. /\ frames \in Seq(FrameType(n)) /\ Len(frames) > 0 /\ Len(frames) \in Nat /\ frames # <<>>
      /\ DOMAIN frames = 1..Len(frames)
      /\ \A k \in 1..Len(frames) : FrameOK(shape, program, frames[k]) /\ (frames[k].kind = "main" <=> k = 1)
      /\ \A k \in 1..(Len(frames) - 1) : Called(shape, program, frames[k], frames[k + 1].of)
  <2>1. StackOK
    BY IInvFacts
  <2>2. QED
    BY <2>1 DEF StackOK
<1>3. TypeOK
  <2>1. DOMAIN program \subseteq 0..N /\ \A p \in DOMAIN program : program[p] \in Bodies[p]
    BY <1>1, IInvFacts DEF ProgramOK
  <2>2. frames # <<>> /\ frames[1].kind = "main"
    BY <1>2
  <2>3. ASSUME NEW k \in DOMAIN frames
        PROVE  /\ k > 1 => frames[k].kind \in {"paragraph", "section"}
               /\ frames[k].at \in Group(frames[k].of)
               /\ k < Len(frames) => frames[k].pc \in {"single", "range", "outside", "called"}
    <3>1. FrameOK(shape, program, frames[k]) /\ (frames[k].kind = "main" <=> k = 1)
      BY <1>2
    <3>2. frames[k].kind \in {"main", "paragraph", "section"} /\ frames[k].at \in GroupIn(shape, frames[k].of)
      BY <3>1, FrameFields DEF FrameOK
    <3>3. k < Len(frames) => frames[k].pc \in Waiting
      <4>1. k < Len(frames) => k \in 1..(Len(frames) - 1)
        BY <1>2
      <4>2. QED
        BY <1>2, <4>1 DEF Called
    <3>4. k > 1 => k # 1
      BY <1>2
    <3>5. QED
      BY <1>1, <3>1, <3>2, <3>3, <3>4 DEF Waiting
  <2>4. target \in 0..N /\ stopped \in BOOLEAN /\ lawful \in BOOLEAN /\ expected.at \in 0..(N + 1)
    BY <1>1, IInvFacts DEF MachineOK
  <2>5. QED
    BY <2>1, <2>2, <2>3, <2>4 DEF TypeOK
<1>4. CallsLinked
  <2>1. ASSUME NEW k \in 1..(Len(frames) - 1) PROVE frames[k + 1].of \in WaitsFor(frames[k])
    BY <1>2, CalledIsWaitedFor
  <2>2. QED
    BY <2>1 DEF CallsLinked
<1>5. NoPendingTransfer
  BY AtTheStatement DEF NoPendingTransfer
<1>6. QED
  BY <1>3, <1>4, <1>5 DEF FramesCorrect

(* Of every program, lawful COBOL or not: main is at the bottom of the C    *)
(* stack and every other frame is the function of the paragraph or section *)
(* that the frame below it called, at a label of its own function; a frame *)
(* that waits still stands at the PERFORM, or main at the call, that it    *)
(* waits for; and _goto_target is 0 whenever a statement runs, so no later *)
(* dispatch takes a GO TO again (cobol-codegen: codegen.rs, main's loop,   *)
(* the paragraph and section functions and their _goto_dispatch; stmt.rs,  *)
(* GO TO, PERFORM and the dispatch table of a PERFORM THRU).               *)
THEOREM FramesAlwaysCorrect == Spec => []FramesCorrect
<1>1. Init => IInv
  BY InitIInv
<1>2. IInv /\ [Next]_vars => IInv'
  BY NextIInv
<1>3. IInv => FramesCorrect
  BY IInvImplies
<1>4. QED
  BY <1>1, <1>2, <1>3, PTL DEF Spec
=============================================================================
