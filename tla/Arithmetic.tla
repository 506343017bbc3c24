----------------------------- MODULE Arithmetic -----------------------------
(***************************************************************************)
(* ADD, SUBTRACT, MULTIPLY, DIVIDE and COMPUTE as the code generator emits  *)
(* them (cobol-codegen stmt.rs and expr.rs) over the decimal runtime        *)
(* (cobol-runtime decimal.rs).  A statement is worked off one target at a   *)
(* time: the target's new value is computed in one of several ways, chosen  *)
(* by how the operands and the target are stored, and _size_error remembers *)
(* whether a result did not fit.  Afterwards one of the two phrases runs.   *)
(*                                                                         *)
(* A number is a scaled integer: 12.5 is [value |-> 125, scale |-> 1].  An  *)
(* item is "zoned" (digits in a char[]), "decimal" (a CobolDecimal),        *)
(* "integer" (an int64_t) or a "literal"; every item is signed.  Integers   *)
(* are taken small enough for 64 and 128 bits, so those widths, numeric     *)
(* edited items and PICTURE P are left out.                                 *)
(***************************************************************************)
EXTENDS Integers, Sequences, FiniteSets
LOCAL INSTANCE SequencesExt

CONSTANTS Item,         \* name -> [store, size, scale, packed]
          Statements,   \* the statements that may be executed
          Starts(_),    \* the values the items may have before a statement
          DoubleScale,  \* decimals kept of a double; 9 in the code
          LongestSize   \* digits of the longest number; 18 in the code

VARIABLES statement,    \* the statement being executed
          before,       \* the items when it began
          value,        \* name -> the item's scaled integer
          done,         \* how many targets have been dealt with
          sizeError,    \* _size_error
          ran           \* the phrase that ran, "none" before

vars == <<statement, before, value, done, sizeError, ran>>

ASSUME WidthAssumption == /\ DoubleScale \in Nat \ {0}
                          /\ LongestSize \in Nat /\ LongestSize > DoubleScale

(***************************************************************************)
(* Scaled integers                                                          *)
(***************************************************************************)
Number(v, scale, size) == [value |-> v, scale |-> scale, size |-> size]
Larger(a, b) == IF a > b THEN a ELSE b
Magnitude(a) == IF a < 0 THEN -a ELSE a

\* Division of C and Rust: toward zero.
Quotient(a, b) ==
  (IF (a < 0) = (b < 0) THEN 1 ELSE -1) * (Magnitude(a) \div Magnitude(b))

\* Half away from zero, the rounding of ROUNDED.
RoundedQuotient(a, b) == Quotient(a + (IF a < 0 THEN -1 ELSE 1) * (b \div 2), b)

\* The low-order digits that a store keeps.
LowDigits(v, size) == v - Quotient(v, 10^size) * 10^size

DigitsOf(v) == CHOOSE n \in 1..10 : Magnitude(v) < 10^n /\ (n = 1 \/ Magnitude(v) >= 10^(n-1))

FromInt(v, scale) == Number(v, scale, DigitsOf(v))

ClampToSize(v, size) ==
  LET limit == 10^size - 1
  IN IF v > limit THEN limit ELSE IF v < -limit THEN -limit ELSE v

\* The two values at the larger of the two scales.
AlignScales(a, b) ==
  LET scale == Larger(a.scale, b.scale)
  IN [left |-> a.value * 10^(scale - a.scale), right |-> b.value * 10^(scale - b.scale), scale |-> scale]

AddExact(a, b) ==
  LET c == AlignScales(a, b) IN Number(c.left + c.right, c.scale, Larger(a.size, b.size))

SubtractExact(a, b) ==
  LET c == AlignScales(a, b) IN Number(c.left - c.right, c.scale, Larger(a.size, b.size))

MultiplyExact(a, b) == Number(a.value * b.value, a.scale + b.scale, a.size + b.size)

AlignedSize(a, b) ==
  LET scale == Larger(a.scale, b.scale)
  IN Larger(a.size + scale - a.scale, b.size + scale - b.scale)

DecimalAdd(a, b) ==
  LET c == AddExact(a, b)
  IN Number(ClampToSize(c.value, AlignedSize(a, b)), c.scale, AlignedSize(a, b))

DecimalSub(a, b) ==
  LET c == SubtractExact(a, b)
  IN Number(ClampToSize(c.value, AlignedSize(a, b)), c.scale, AlignedSize(a, b))

\* The product keeps only the decimals and the digits of the longer factor.
DecimalMul(a, b) ==
  LET scale == Larger(a.scale, b.scale)
      size  == Larger(a.size, b.size)
      kept  == Quotient(a.value * b.value, 10^(a.scale + b.scale - scale))
  IN Number(ClampToSize(kept, size), scale, size)

DecimalDiv(a, b) ==
  LET c    == AlignScales(a, b)
      size == Larger(a.size, b.size)
  IN IF b.value = 0 THEN Number(0, a.scale, a.size)
     ELSE Number(ClampToSize(Quotient(c.left * 10^c.scale, c.right), size), c.scale, size)

Rescaled(n, scale, rounded) ==
  IF n.scale <= scale THEN n.value * 10^(scale - n.scale)
  ELSE IF rounded THEN RoundedQuotient(n.value, 10^(n.scale - scale))
  ELSE Quotient(n.value, 10^(n.scale - scale))

ToInt64(n) == Rescaled(n, 0, FALSE)

\* A quotient of doubles, brought back to so many decimals.
FromDouble(numerator, denominator, scale, size) ==
  LET n == IF denominator < 0 THEN -numerator ELSE numerator
  IN Number(ClampToSize(RoundedQuotient(n * 10^scale, Magnitude(denominator)), size), scale, size)

(***************************************************************************)
(* Reading and storing items                                                *)
(***************************************************************************)
Scaled(x) == Item[x].scale > 0

Zoned(x) == Item[x].store = "zoned"

\* An operand as the exact emitters read it.
NumberOf(v, x) ==
  IF Item[x].store \in {"literal", "integer"} THEN FromInt(v[x], Item[x].scale)
  ELSE Number(v[x], Item[x].scale, Item[x].size)

\* An operand of an integer expression: a CobolDecimal is cut off, a zoned
\* item is its digits, a literal with a fraction is a double.
IntCompatible(v, x) ==
  CASE Item[x].store = "decimal" -> FromInt(ToInt64(NumberOf(v, x)), 0)
    [] Item[x].store = "zoned"   -> FromInt(v[x], 0)
    [] OTHER                     -> NumberOf(v, x)

\* What the item holds after a store: a CobolDecimal's value is not cut to
\* its PICTURE, and neither is an integer of a COMP-3 item.
Placed(x, v) ==
  IF Item[x].store = "decimal" \/ (Item[x].packed /\ ~Zoned(x)) THEN v ELSE LowDigits(v, Item[x].size)

\* No limit is known of a COMP-3 item.
PicMax(x) == 10^Item[x].size - 1
Fits(x, v) == Item[x].packed \/ Magnitude(v) <= PicMax(x)

Stored(x, v) == [value |-> Placed(x, v), error |-> FALSE]
Kept(v, x) == [value |-> v[x], error |-> TRUE]

\* Variant for a mutant: what does not fit is told but stored all the same.
CheckedStoreAnyway(v, x, result, checked) ==
  [Stored(x, result) EXCEPT !.error = checked /\ ~Fits(x, result)]

\* With a phrase a result that does not fit sets _size_error instead.
CheckedStore(v, x, result, checked) ==
  IF checked /\ ~Fits(x, result) THEN Kept(v, x) ELSE Stored(x, result)

SumOf(v, first, operands) ==
  FoldLeft(LAMBDA sum, op : AddExact(sum, NumberOf(v, op)), first, operands)

DifferenceOf(v, first, operands) ==
  FoldLeft(LAMBDA rest, op : SubtractExact(rest, NumberOf(v, op)), first, operands)

IntSum(v, operands) ==
  FoldLeft(LAMBDA sum, op : AddExact(sum, IntCompatible(v, op)), FromInt(0, 0), operands)

AnyScaled(operands) == \E i \in DOMAIN operands : Scaled(operands[i])
AnyLiteral(operands) == \E i \in DOMAIN operands : Item[operands[i]].store = "literal"

(***************************************************************************)
(* ADD and SUBTRACT.  In each operator v is the items' present values, x    *)
(* the target, rounded its ROUNDED, and checked whether a phrase was given. *)
(***************************************************************************)
\* What the runtime computed, back in the target's decimals.
DecimalArith(x, n) == Placed(x, Rescaled(n, Item[x].scale, FALSE))

\* Adding (or subtracting) one operand to a target with decimals without
\* rounding or checking: in the target's scale if the operand fits it, else
\* through the runtime.
AddAssign(v, x, op) ==
  LET n == NumberOf(v, op)
  IN IF n.scale <= Item[x].scale
     THEN Placed(x, v[x] + Rescaled(n, Item[x].scale, FALSE))
     ELSE DecimalArith(x, DecimalAdd(NumberOf(v, x), n))

SubAssign(v, x, op) ==
  LET n == NumberOf(v, op)
  IN IF n.scale <= Item[x].scale
     THEN Placed(x, v[x] - Rescaled(n, Item[x].scale, FALSE))
     ELSE DecimalArith(x, DecimalSub(NumberOf(v, x), n))

AddToScaled(v, x, operands, rounded, checked) ==
  IF rounded \/ checked
  THEN CheckedStore(v, x, Rescaled(SumOf(v, NumberOf(v, x), operands), Item[x].scale, rounded), checked)
  ELSE [value |-> FoldLeft(LAMBDA u, op : [u EXCEPT ![x] = AddAssign(u, x, op)], v, operands)[x],
        error |-> FALSE]

AddToInteger(v, x, operands, rounded, checked) ==
  IF AnyScaled(operands) /\ rounded
  THEN CheckedStore(v, x, Rescaled(SumOf(v, NumberOf(v, x), operands), 0, TRUE), checked)
  ELSE CheckedStore(v, x, ToInt64(AddExact(IntCompatible(v, x), IntSum(v, operands))), checked)

\* ROUNDED is not looked at for a target with decimals, and its limit is
\* known whatever its USAGE.
AddGivingScaled(v, x, operands, checked) ==
  LET result == Rescaled(SumOf(v, NumberOf(v, Head(operands)), Tail(operands)), Item[x].scale, FALSE)
  IN IF checked /\ Magnitude(result) > PicMax(x) THEN Kept(v, x) ELSE Stored(x, result)

AddGivingInteger(v, x, operands, rounded, checked) ==
  IF AnyScaled(operands)
  THEN CheckedStore(v, x, Rescaled(SumOf(v, NumberOf(v, Head(operands)), Tail(operands)), 0, rounded),
                    checked)
  ELSE CheckedStore(v, x, ToInt64(IntSum(v, operands)), checked)

SubtractFromScaled(v, x, operands, rounded, checked) ==
  IF rounded \/ checked
  THEN CheckedStore(v, x, Rescaled(DifferenceOf(v, NumberOf(v, x), operands), Item[x].scale, rounded),
                    checked)
  ELSE [value |-> FoldLeft(LAMBDA u, op : [u EXCEPT ![x] = SubAssign(u, x, op)], v, operands)[x],
        error |-> FALSE]

SubtractFromInteger(v, x, operands, rounded, checked) ==
  IF AnyScaled(operands) \/ AnyLiteral(operands)
  THEN CheckedStore(v, x, Rescaled(DifferenceOf(v, NumberOf(v, x), operands), 0, rounded), checked)
  ELSE CheckedStore(v, x, ToInt64(SubtractExact(IntCompatible(v, x), IntSum(v, operands))), checked)

\* From integers the difference is moved to a CobolDecimal unchecked. The code
\* moves it with scale 0; here it has the item's scale, the same number.
SubtractGivingScaled(v, x, from, operands, rounded, checked) ==
  IF AnyScaled(<<from>> \o operands) \/ AnyLiteral(<<from>> \o operands)
  THEN CheckedStore(v, x, Rescaled(DifferenceOf(v, NumberOf(v, from), operands), Item[x].scale, rounded),
                    checked)
  ELSE Stored(x, Rescaled(SubtractExact(IntCompatible(v, from), IntSum(v, operands)), Item[x].scale, FALSE))

SubtractGivingInteger(v, x, from, operands, rounded, checked) ==
  IF AnyScaled(<<from>> \o operands) \/ AnyLiteral(<<from>> \o operands)
  THEN CheckedStore(v, x, Rescaled(DifferenceOf(v, NumberOf(v, from), operands), 0, rounded), checked)
  ELSE CheckedStore(v, x, ToInt64(SubtractExact(IntCompatible(v, from), IntSum(v, operands))), checked)

(***************************************************************************)
(* MULTIPLY and DIVIDE                                                      *)
(***************************************************************************)
RoundedMultiplyBy(v, x, op) ==
  LET n == NumberOf(v, op) IN Stored(x, RoundedQuotient(v[x] * n.value, 10^n.scale))

MultiplyByScaled(v, x, op, rounded, checked) ==
  IF Zoned(x) \/ checked
  THEN CheckedStore(v, x, Rescaled(MultiplyExact(NumberOf(v, x), NumberOf(v, op)), Item[x].scale, rounded),
                    checked)
  ELSE IF rounded THEN RoundedMultiplyBy(v, x, op)
  ELSE [value |-> DecimalArith(x, DecimalMul(NumberOf(v, x), NumberOf(v, op))), error |-> FALSE]

\* A target without decimals times an operand with decimals.
MultiplyByFraction(v, x, op, rounded, checked) ==
  CheckedStore(v, x, Rescaled(MultiplyExact(FromInt(v[x], 0), NumberOf(v, op)), 0, rounded), checked)

MultiplyByInteger(v, x, op, checked) ==
  CheckedStore(v, x, ToInt64(MultiplyExact(IntCompatible(v, x), IntCompatible(v, op))), checked)

\* The product of the digits, moved by the difference of the decimals.
FastMultiplyGiving(v, x, op, by, rounded) ==
  LET digits == v[op] * v[by]
      excess == Item[op].scale + Item[by].scale - Item[x].scale
  IN Stored(x, IF excess <= 0 THEN digits * 10^(-excess)
               ELSE IF rounded THEN RoundedQuotient(digits, 10^excess) ELSE Quotient(digits, 10^excess))

MultiplyGivingScaled(v, x, op, by, rounded, checked) ==
  IF ~checked THEN FastMultiplyGiving(v, x, op, by, rounded)
  ELSE CheckedStore(v, x, Rescaled(MultiplyExact(NumberOf(v, op), NumberOf(v, by)), Item[x].scale, rounded),
                    TRUE)

\* Unrounded and unchecked the product of the runtime is taken, which has
\* no more digits than the longer factor.
MultiplyGivingInteger(v, x, op, by, rounded, checked) ==
  IF ~AnyScaled(<<op, by>>)
  THEN CheckedStore(v, x, ToInt64(MultiplyExact(IntCompatible(v, by), IntCompatible(v, op))), checked)
  ELSE IF rounded \/ checked
  THEN CheckedStore(v, x, Rescaled(MultiplyExact(NumberOf(v, op), NumberOf(v, by)), 0, rounded), checked)
  ELSE Stored(x, ToInt64(DecimalMul(NumberOf(v, op), NumberOf(v, by))))

\* The dividend is first given the target's decimals, one more for ROUNDED.
Dividend(n, scale, rounded) ==
  LET wanted == Larger(n.scale, scale + (IF rounded THEN 1 ELSE 0))
  IN Number(Rescaled(n, wanted, FALSE), wanted, LongestSize)

DivideDecimal(v, x, into, by, rounded, checked) ==
  LET quotient == DecimalDiv(Dividend(into, Item[x].scale, rounded), [by EXCEPT !.size = LongestSize])
  IN IF checked /\ by.value = 0 THEN Kept(v, x)
     ELSE CheckedStore(v, x, Rescaled(quotient, Item[x].scale, rounded), checked)

DivideToInteger(v, x, into, by, rounded, checked) ==
  LET dividend == IF rounded THEN Dividend(into, 0, TRUE) ELSE [into EXCEPT !.size = LongestSize]
      quotient == DecimalDiv(dividend, [by EXCEPT !.size = LongestSize])
  IN IF checked /\ by.value = 0 THEN Kept(v, x)
     ELSE CheckedStore(v, x, Rescaled(quotient, 0, rounded), checked)

\* What fits is looked at only after a zoned target has cut the quotient off.
DivideInt64(v, x, into, by, rounded, checked) ==
  LET dividend == into.value * 10^by.scale
      divisor  == by.value * 10^into.scale
      quotient == IF rounded THEN RoundedQuotient((IF divisor < 0 THEN -1 ELSE 1) * dividend, Magnitude(divisor))
                  ELSE Quotient(dividend, divisor)
  IN IF checked /\ by.value = 0 THEN Kept(v, x)
     ELSE CheckedStore(v, x, quotient, checked /\ ~Zoned(x))

\* A target without decimals over a CobolDecimal; ROUNDED is not looked at.
DivideIntoByDecimal(v, x, by, checked) ==
  IF checked /\ by.value = 0 THEN Kept(v, x)
  ELSE Stored(x, ToInt64(DecimalDiv(FromInt(v[x], 0), by)))

\* The remainder belongs to the quotient cut off at the target's decimals,
\* here in no more digits than the longer of dividend and divisor.
Remainder(v, x, rest, into, by, rounded) ==
  LET scale    == Item[x].scale
      quotient == Rescaled(DecimalDiv([Dividend(into, scale, rounded) EXCEPT !.size = into.size], by), scale, FALSE)
      left     == SubtractExact(into, MultiplyExact(by, Number(quotient, scale, LongestSize)))
  IN Placed(rest, Rescaled(left, Item[rest].scale, FALSE))

(***************************************************************************)
(* COMPUTE of one operand, or of two with an operator                       *)
(***************************************************************************)
FractionOf(n) == [num |-> n.value, den |-> 10^n.scale]

Combined(op, a, b) ==
  CASE op = "+" -> [num |-> a.num * b.den + b.num * a.den, den |-> a.den * b.den]
    [] op = "-" -> [num |-> a.num * b.den - b.num * a.den, den |-> a.den * b.den]
    [] op = "*" -> [num |-> a.num * b.num, den |-> a.den * b.den]
    [] op = "/" -> [num |-> a.num * b.den, den |-> a.den * b.num]
    [] OTHER    -> a

\* The expression in doubles.
AsDouble(v, s) ==
  Combined(s.op, FractionOf(NumberOf(v, Head(s.operands))), FractionOf(NumberOf(v, s.other)))

\* The expression in C: integers, unless a literal has a fraction.
AsInt64(v, s) ==
  LET a == IntCompatible(v, Head(s.operands))
      b == IntCompatible(v, s.other)
      c == Combined(s.op, FractionOf(a), FractionOf(b))
  IN Quotient(c.num, c.den)

\* The expression as a number: exact for sums and differences with decimals,
\* through doubles for other expressions with decimals, else in integers.
ComputedNumber(v, s) ==
  LET a == NumberOf(v, Head(s.operands))
      b == NumberOf(v, s.other)
      f == AsDouble(v, s)
  IN CASE s.op = ""                           -> a
       [] ~AnyScaled(<<Head(s.operands), s.other>>) -> FromInt(AsInt64(v, s), 0)
       [] s.op = "+"                          -> AddExact(a, b)
       [] s.op = "-"                          -> SubtractExact(a, b)
       [] OTHER                               -> FromDouble(f.num, f.den, DoubleScale, LongestSize)

DoubleNumber(v, s) ==
  LET f == AsDouble(v, s) IN FromDouble(f.num, f.den, DoubleScale, LongestSize)

\* Stored first, in a CobolDecimal with scale 0 again, and taken back if the
\* target then holds too much.
SaveAndCheckOverflow(v, x, held) ==
  IF Fits(x, held) THEN [value |-> held * 10^Item[x].scale, error |-> FALSE] ELSE Kept(v, x)

\* With a phrase: exact for zoned targets, for others the integer expression.
ComputeChecked(v, x, s, rounded) ==
  IF Zoned(x) THEN CheckedStore(v, x, Rescaled(ComputedNumber(v, s), Item[x].scale, rounded), TRUE)
  ELSE SaveAndCheckOverflow(v, x, AsInt64(v, s))

ComputeZoned(v, x, s, rounded) ==
  Stored(x, Rescaled(IF s.op = "/" /\ Scaled(x) THEN DoubleNumber(v, s) ELSE ComputedNumber(v, s),
                     Item[x].scale, rounded))

\* A number moved to a CobolDecimal loses high-order digits ...
AssignNumberToDecimal(x, n) ==
  LET kept == LowDigits(n.value, Item[x].size - Item[x].scale + n.scale)
  IN LowDigits(Rescaled([n EXCEPT !.value = kept], Item[x].scale, FALSE), Item[x].size)

\* ... and what is taken in doubles, a zoned item with decimals or an
\* expression of items with decimals, is rounded to it.
AssignToDecimal(v, x, s) ==
  LET f == AsDouble(v, s)
      a == Head(s.operands)
  IN IF (s.op = "" /\ Zoned(a) /\ Scaled(a)) \/ (s.op # "" /\ AnyScaled(<<a, s.other>>))
     THEN FromDouble(f.num, f.den, Item[x].scale, Item[x].size).value
     ELSE AssignNumberToDecimal(x, ComputedNumber(v, s))

ComputeDecimal(v, x, s, rounded) ==
  Stored(x, IF rounded \/ s.op = "/" THEN Rescaled(DoubleNumber(v, s), Item[x].scale, rounded)
            ELSE AssignToDecimal(v, x, s))

ComputeInteger(v, x, s, rounded) ==
  LET f == AsDouble(v, s)
  IN IF rounded THEN Stored(x, FromDouble(f.num, f.den, 0, LongestSize).value)
     ELSE Stored(x, AsInt64(v, s))

(***************************************************************************)
(* A statement                                                              *)
(***************************************************************************)
Target == statement.targets[done + 1]
Rounded == done + 1 \in statement.rounded
Checked == statement.phrases # {}
Operands == statement.operands
Operand == Head(Operands)

\* Variant for a mutant: a target that fits resets _size_error.
TakeResetting(outcome) ==
  /\ value' = [value EXCEPT ![Target] = outcome.value]
  /\ sizeError' = outcome.error
  /\ done' = done + 1
  /\ UNCHANGED <<statement, before, ran>>

\* The target receives the outcome, the next one is due.
Take(outcome) ==
  /\ value' = [value EXCEPT ![Target] = outcome.value]
  /\ sizeError' = (sizeError \/ outcome.error)
  /\ done' = done + 1
  /\ UNCHANGED <<statement, before, ran>>

Pass ==
  /\ done' = done + 1
  /\ UNCHANGED <<statement, before, value, sizeError, ran>>

Working(verb, giving) ==
  /\ done < Len(statement.targets)
  /\ statement.verb = verb
  /\ statement.giving = giving

AddTo ==
  /\ Working("ADD", FALSE)
  /\ Take(IF Scaled(Target) THEN AddToScaled(value, Target, Operands, Rounded, Checked)
          ELSE AddToInteger(value, Target, Operands, Rounded, Checked))

\* With GIVING no target is stored after one that was too small, but for
\* DIVIDE.
AddGiving ==
  /\ Working("ADD", TRUE)
  /\ IF sizeError THEN Pass
     ELSE Take(IF Scaled(Target) THEN AddGivingScaled(value, Target, Operands, Checked)
               ELSE AddGivingInteger(value, Target, Operands, Rounded, Checked))

SubtractFrom ==
  /\ Working("SUBTRACT", FALSE)
  /\ Take(IF Scaled(Target) THEN SubtractFromScaled(value, Target, Operands, Rounded, Checked)
          ELSE SubtractFromInteger(value, Target, Operands, Rounded, Checked))

SubtractGiving ==
  /\ Working("SUBTRACT", TRUE)
  /\ IF sizeError THEN Pass
     ELSE Take(IF Scaled(Target)
               THEN SubtractGivingScaled(value, Target, statement.other, Operands, Rounded, Checked)
               ELSE SubtractGivingInteger(value, Target, statement.other, Operands, Rounded, Checked))

MultiplyBy ==
  /\ Working("MULTIPLY", FALSE)
  /\ Take(IF Scaled(Target) THEN MultiplyByScaled(value, Target, Operand, Rounded, Checked)
          ELSE IF Scaled(Operand) THEN MultiplyByFraction(value, Target, Operand, Rounded, Checked)
          ELSE MultiplyByInteger(value, Target, Operand, Checked))

MultiplyGiving ==
  /\ Working("MULTIPLY", TRUE)
  /\ IF sizeError THEN Pass
     ELSE Take(IF Scaled(Target)
               THEN MultiplyGivingScaled(value, Target, Operand, statement.other, Rounded, Checked)
               ELSE MultiplyGivingInteger(value, Target, Operand, statement.other, Rounded, Checked))

DecimalItem(x) == Item[x].store = "decimal"

DivideInto ==
  /\ Working("DIVIDE", FALSE)
  /\ Take(IF Scaled(Target)
          THEN DivideDecimal(value, Target, NumberOf(value, Target), NumberOf(value, Operand), Rounded, Checked)
          ELSE IF DecimalItem(Operand) THEN DivideIntoByDecimal(value, Target, NumberOf(value, Operand), Checked)
          ELSE DivideInt64(value, Target, IntCompatible(value, Target), IntCompatible(value, Operand),
                           Rounded, Checked))

\* Dividend and divisor are read once, before the first target; every target
\* is followed by the remainder it leaves.
DivideGiving ==
  LET into    == NumberOf(before, statement.other)
      by      == NumberOf(before, Operand)
      decimal == DecimalItem(Operand) \/ DecimalItem(statement.other)
      outcome == IF Scaled(Target) \/ (decimal /\ Zoned(Target))
                 THEN DivideDecimal(value, Target, into, by, Rounded, Checked)
                 ELSE IF decimal THEN DivideToInteger(value, Target, into, by, Rounded, Checked)
                 ELSE DivideInt64(value, Target, IntCompatible(before, statement.other),
                                  IntCompatible(before, Operand), Rounded, Checked)
      failed  == sizeError \/ outcome.error
      rest    == statement.remainder
  IN /\ Working("DIVIDE", TRUE)
     /\ IF rest = "" \/ failed
        THEN Take(outcome)
        ELSE /\ value' = [value EXCEPT ![Target] = outcome.value,
                                       ![rest] = Remainder(value, Target, rest, into, by, Rounded)]
             /\ done' = done + 1
             /\ UNCHANGED <<statement, before, sizeError, ran>>

Compute ==
  /\ Working("COMPUTE", FALSE)
  /\ Take(IF Checked THEN ComputeChecked(value, Target, statement, Rounded)
          ELSE IF Zoned(Target) THEN ComputeZoned(value, Target, statement, Rounded)
          ELSE IF Scaled(Target) THEN ComputeDecimal(value, Target, statement, Rounded)
          ELSE ComputeInteger(value, Target, statement, Rounded))

\* ON SIZE ERROR after an error, NOT ON SIZE ERROR otherwise, if written.
RunPhrase ==
  /\ done = Len(statement.targets) /\ ran = "none"
  /\ ran' = IF sizeError
            THEN IF "ON" \in statement.phrases THEN "ON" ELSE "nothing"
            ELSE IF "NOT" \in statement.phrases THEN "NOT" ELSE "nothing"
  /\ UNCHANGED <<statement, before, value, done, sizeError>>

Init ==
  /\ statement \in Statements
  /\ before \in Starts(statement)
  /\ value = before
  /\ done = 0 /\ sizeError = FALSE /\ ran = "none"

Next ==
  \/ AddTo \/ AddGiving \/ SubtractFrom \/ SubtractGiving \/ MultiplyBy \/ MultiplyGiving
  \/ DivideInto \/ DivideGiving \/ Compute \/ RunPhrase

Spec == Init /\ [][Next]_vars

(***************************************************************************)
(* What the statements promise, in fractions of the values at the beginning *)
(***************************************************************************)
Initially(x) == [num |-> before[x], den |-> 10^Item[x].scale]

Total == FoldLeft(LAMBDA sum, op : Combined("+", sum, Initially(op)), [num |-> 0, den |-> 1], Operands)

\* The exact result for a target; its denominator is 0 after a division by 0.
ExactFor(x) ==
  LET base == Initially(IF statement.giving THEN statement.other ELSE x)
  IN CASE statement.verb = "ADD"      -> IF statement.giving THEN Total ELSE Combined("+", base, Total)
       [] statement.verb = "SUBTRACT" -> Combined("-", base, Total)
       [] statement.verb = "MULTIPLY" -> Combined("*", base, Initially(Operand))
       [] statement.verb = "DIVIDE"   -> Combined("/", base, Initially(Operand))
       [] OTHER -> Combined(statement.op, Initially(Operand), Initially(statement.other))

\* That result in the target's decimals.
InDecimalsOf(x, f, rounded) ==
  LET n == (IF f.den < 0 THEN -f.num ELSE f.num) * 10^Item[x].scale
  IN IF rounded THEN RoundedQuotient(n, Magnitude(f.den)) ELSE Quotient(n, Magnitude(f.den))

ResultFor(i) == InDecimalsOf(statement.targets[i], ExactFor(statement.targets[i]), i \in statement.rounded)

Impossible(i) == ExactFor(statement.targets[i]).den = 0

TooLarge(i) == Magnitude(ResultFor(i)) > PicMax(statement.targets[i])

Failing(i) == Impossible(i) \/ TooLarge(i)

TargetIndexes == DOMAIN statement.targets

\* Ended: the phrases have been dealt with.
Ended == ran # "none"

\* dividend - divisor * quotient, for the first target's quotient.
RemainderOfDivision ==
  LET x == statement.targets[1]
      q == [num |-> InDecimalsOf(x, ExactFor(x), FALSE), den |-> 10^Item[x].scale]
  IN Combined("-", Initially(statement.other), Combined("*", Initially(Operand), q))

\* Every target ends with the exact result, cut off or rounded to its own
\* decimals; a target too small for it, or of a division by zero, keeps its
\* value when the statement has a SIZE ERROR phrase, whatever happens to the
\* other targets; the remainder is that of the quotient; nothing else changes
\* (the store of each verb in stmt.rs).
TargetsAsDefined ==
  Ended =>
    /\ \A i \in TargetIndexes :
         LET x == statement.targets[i]
         IN IF Failing(i) THEN Checked => value[x] = before[x] ELSE value[x] = ResultFor(i)
    /\ statement.remainder # "" =>
         IF Failing(1) THEN Checked => value[statement.remainder] = before[statement.remainder]
         ELSE value[statement.remainder] = InDecimalsOf(statement.remainder, RemainderOfDivision, FALSE)
    /\ \A x \in DOMAIN Item :
         (\A i \in TargetIndexes : statement.targets[i] # x) /\ statement.remainder # x => value[x] = before[x]

\* ON SIZE ERROR runs if and only if some target was too small or the divisor
\* was zero, NOT ON SIZE ERROR if and only if none was, whichever target of
\* the list it is (emit_on_size_error).
SizeErrorTold ==
  Ended =>
    LET failed == \E i \in TargetIndexes : Failing(i)
    IN /\ (ran = "ON")  <=> (failed /\ "ON" \in statement.phrases)
       /\ (ran = "NOT") <=> (~failed /\ "NOT" \in statement.phrases)
=============================================================================
