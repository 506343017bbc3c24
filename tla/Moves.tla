------------------------------- MODULE Moves -------------------------------
(***************************************************************************)
(* MOVE of a literal or an item to an item of the same or another category, *)
(* as emit_move_to (cobol-codegen stmt.rs) writes it around the runtime's   *)
(* conversions.  An item is                                                *)
(*   "text"     alphanumeric, possibly JUSTIFIED RIGHT,                     *)
(*   "group"    the characters of its members,                             *)
(*   "zoned"    a numeric member of a group, kept as digits of which the    *)
(*              last carries the sign,                                     *)
(*   "integer"  a numeric item without decimals, kept as an int64_t,        *)
(*   "decimal"  a numeric item with decimals, kept as a scaled CobolDecimal.*)
(* What an item holds is [text, number]: the first three hold characters,   *)
(* the others a number.  Every numeric item is signed.  National and edited *)
(* items, PICTURE P, tables and parts of items are left out.                *)
(***************************************************************************)
EXTENDS TextOperations

\* A source: the category and size of an item, or a literal, and its value.
\* "string", "number", "zero", "space", "quote", "high", "low" and "all" are
\* the literals.
Source(item, held) ==
  [kind |-> item.kind, size |-> item.size, scale |-> item.scale, display |-> item.display,
   text |-> held.text, number |-> held.number]

Literal(kind, text, number, scale) ==
  [kind |-> kind, size |-> Len(text), scale |-> scale, display |-> FALSE, text |-> text, number |-> number]

InCharacters(text) == [text |-> text, number |-> 0]
InNumber(number) == [text |-> <<>>, number |-> number]

----------------------------------------------------------------------------
(* Numbers and digits.                                                     *)
Digits == <<"0", "1", "2", "3", "4", "5", "6", "7", "8", "9">>
Plus == <<"{", "A", "B", "C", "D", "E", "F", "G", "H", "I">>
Minus == <<"}", "J", "K", "L", "M", "N", "O", "P", "Q", "R">>

IsIn(c, marks) == c \in ToSet(marks)
PlaceIn(c, marks) == (CHOOSE i \in DOMAIN marks : marks[i] = c) - 1
IsDigit(c) == IsIn(c, Digits)
AllDigits(text) == \A i \in DOMAIN text : IsDigit(text[i])

NumberIn(digits) == FoldLeft(LAMBDA n, c : 10 * n + PlaceIn(c, Digits), 0, digits)

Magnitude(n) == IF n < 0 THEN -n ELSE n
\* Division of C: toward zero.
Quotient(a, b) == IF a < 0 THEN -((-a) \div b) ELSE a \div b
LowDigits(n, size) == n - Quotient(n, 10^size) * 10^size

AsDigits(n, width) == [i \in 1..width |-> Digits[((n \div 10^(width - i)) % 10) + 1]]
Shortest(n) == AsDigits(n, CHOOSE k \in 1..9 : n < 10^k /\ (k = 1 \/ n >= 10^(k - 1)))

Trimmed(text) ==
  LET marks == {i \in DOMAIN text : text[i] # Space}
  IN IF marks = {} THEN <<>> ELSE SubSeq(text, Min(marks), Max(marks))

\* The digits of a zoned item; the last is overpunched for a negative value.
StoreNumericDisplay(n, width) ==
  LET digits == AsDigits(Magnitude(n), width)
  IN IF n < 0 THEN [digits EXCEPT ![width] = Minus[PlaceIn(@, Digits) + 1]] ELSE digits

\* Zoned digits read back.  The sign is on the first or the last of them; of
\* two the last counts.  Anything else is zero.
DisplayToInt64(text) ==
  LET t == Trimmed(text)
      edge(i) == i = 1 \/ i = Len(t)
      good(i) == IsDigit(t[i]) \/ (edge(i) /\ (IsIn(t[i], Plus) \/ IsIn(t[i], Minus)))
      digit(c) == CASE IsDigit(c) -> c [] IsIn(c, Plus) -> Digits[PlaceIn(c, Plus) + 1]
                    [] OTHER -> Digits[PlaceIn(c, Minus) + 1]
      signs == {i \in DOMAIN t : ~IsDigit(t[i])}
      n == NumberIn([i \in DOMAIN t |-> digit(t[i])])
  IN IF t = <<>> \/ \E i \in DOMAIN t : ~good(i) THEN 0
     ELSE IF signs # {} /\ IsIn(t[Max(signs)], Minus) THEN -n ELSE n

\* NUMVAL without its decimals: digits, one point, and signs at the ends;
\* every other character is skipped.
Numval(text) ==
  LET signs == {"-", "+"}
      marks == SelectSeq(text, LAMBDA c : IsDigit(c) \/ c = "." \/ c \in signs)
      bare  == SelectSeq(marks, LAMBDA c : c \notin signs)
      point == FindDelimiter(bare, <<".">>)
      inner == \E i, j, k \in DOMAIN marks :
                 i < j /\ j < k /\ marks[j] \in signs /\ marks[i] \notin signs /\ marks[k] \notin signs
      whole == SubSeq(bare, 1, point)
  IN IF inner \/ bare \in {<<>>, <<".">>} \/ ~AllDigits(Rest(bare, point + 2)) THEN 0
     ELSE IF "-" \in {Head(marks), Last(marks)} THEN -NumberIn(whole) ELSE NumberIn(whole)

\* Right-justified with its sign, the leading characters lost.
MoveNumericToDisplay(n, width) ==
  LET shown == (IF n < 0 THEN <<"-">> ELSE <<>>) \o Shortest(Magnitude(n))
  IN [i \in 1..width |-> IF i + Len(shown) > width THEN shown[i + Len(shown) - width] ELSE Space]

MoveStringRight(text, width) ==
  [i \in 1..width |-> IF i + Len(text) > width THEN text[i + Len(text) - width] ELSE Space]

Repeated(text, width) == [i \in 1..width |-> text[((i - 1) % Len(text)) + 1]]

\* A scaled number in the digits of a zoned target, high and low ones lost.
FitScaled(n, scale, x) ==
  LET up == x.scale - scale
  IN IF up > 0 THEN (IF up >= x.size THEN 0 ELSE LowDigits(n, x.size - up) * 10^up)
     ELSE LowDigits(Quotient(n, 10^(-up)), x.size)

\* An integer into the target as it is; only one without decimals is cut to
\* its PICTURE first, and COMP-3 is not.
StoreInt(x, n) ==
  LET kept == IF x.scale = 0 /\ ~x.packed THEN LowDigits(n, x.size) ELSE n
  IN IF x.kind = "zoned" THEN InCharacters(StoreNumericDisplay(kept, x.size)) ELSE InNumber(kept)

\* A scaled number into a CobolDecimal.
AssignScaledInt(x, n, scale) ==
  LET kept == LowDigits(n, x.size - x.scale + scale)
      up   == x.scale - scale
  IN InNumber(LowDigits(IF up > 0 THEN kept * 10^up ELSE Quotient(kept, 10^(-up)), x.size))

\* A double into a CobolDecimal: rounded, and held at the largest value.
AssignDouble(x, n, scale) ==
  LET down  == scale - x.scale
      half  == IF n < 0 THEN -(10^down \div 2) ELSE 10^down \div 2
      value == IF down <= 0 THEN n * 10^(-down) ELSE Quotient(n + half, 10^down)
      limit == 10^x.size - 1
  IN InNumber(IF Magnitude(value) <= limit THEN value ELSE IF value < 0 THEN -limit ELSE limit)

----------------------------------------------------------------------------
(* To alphanumeric items.                                                  *)
Figurative(s) == s.kind \in {"zero", "space", "quote", "high", "low"}

Fill(s) ==
  CASE s.kind = "zero" -> "0" [] s.kind = "space" -> Space [] s.kind = "quote" -> "q"
    [] s.kind = "high" -> "high" [] s.kind = "low" -> "low"

\* HIGH-VALUE spares the byte of a terminating zero, which a member of a
\* group has not.
FigurativeToText(s, x) ==
  LET filled == IF s.kind = "all" THEN Repeated(s.text, x.size) ELSE Repeated(<<Fill(s)>>, x.size)
  IN IF s.kind = "high" /\ x.member THEN [filled EXCEPT ![x.size] = "low"] ELSE filled

\* An integer literal loses its leading zeros; a zero is five of them where
\* five fit.
LiteralDigits(s, x) ==
  IF s.number = 0 /\ x.size >= 5 THEN AsDigits(0, 5) ELSE Shortest(Magnitude(s.number))

Justified(x, text) == IF x.right THEN MoveStringRight(text, x.size) ELSE MoveString(text, x.size)

LiteralToText(s, x) ==
  IF s.kind = "string" \/ s.scale > 0 THEN Justified(x, s.text) ELSE MoveString(LiteralDigits(s, x), x.size)

\* A number without its sign; only DISPLAY items keep their leading zeros.
ItemToText(s, x) ==
  CASE s.kind \in {"text", "group"} -> Justified(x, s.text)
    [] s.kind = "zoned"   -> Justified(x, AsDigits(Magnitude(DisplayToInt64(s.text)), s.size))
    [] s.kind = "integer" -> MoveString(IF s.display THEN AsDigits(Magnitude(s.number), s.size)
                                        ELSE Shortest(Magnitude(s.number)), x.size)

MoveToText(s, x) ==
  InCharacters(CASE s.kind \in {"string", "number"}     -> LiteralToText(s, x)
                 [] s.kind = "all" \/ Figurative(s) -> FigurativeToText(s, x)
                 [] OTHER                           -> ItemToText(s, x))

----------------------------------------------------------------------------
(* To groups.                                                              *)
ItemToGroup(s, x) ==
  CASE s.kind \in {"text", "group", "zoned"} -> MoveString(s.text, x.size)
    [] s.kind = "decimal" \/ s.display -> MoveString(AsDigits(Magnitude(s.number), s.size), x.size)
    [] OTHER -> MoveNumericToDisplay(s.number, x.size)

FigurativeToGroup(s, x) == Repeated(IF s.kind = "all" THEN s.text ELSE <<Fill(s)>>, x.size)

\* An integer fills a group that has a numeric member with leading zeros.
LiteralToGroup(s, x) ==
  LET digits == Shortest(Magnitude(s.number))
  IN CASE s.kind = "string" \/ s.scale > 0 -> MoveString(s.text, x.size)
       [] s.number < 0 -> MoveNumericToDisplay(s.number, x.size)
       [] x.numeric    -> MoveString(AsDigits(s.number, Max({x.size, Len(digits)})), x.size)
       [] OTHER        -> MoveString(digits, x.size)

MoveToGroup(s, x) ==
  InCharacters(CASE s.kind \in {"string", "number"}     -> LiteralToGroup(s, x)
                 [] s.kind = "all" \/ Figurative(s) -> FigurativeToGroup(s, x)
                 [] OTHER                           -> ItemToGroup(s, x))

----------------------------------------------------------------------------
(* To zoned items and integers.                                            *)

\* Variant for a mutant: digits are stored as they are, decimals or not.
StoreNumberUnscaled(x, n, scale) == StoreInt(x, n)

\* A scaled number aligned at the target's decimal point.
StoreNumber(x, n, scale) ==
  IF x.kind = "zoned" THEN InCharacters(StoreNumericDisplay(FitScaled(n, scale, x), x.size))
  ELSE StoreInt(x, Quotient(n, 10^scale))

\* Into a zoned item a group is copied; a DISPLAY integer takes as many of
\* its characters as it has digits.
GroupToNumber(s, x) ==
  IF x.kind = "zoned" THEN InCharacters(MoveString(s.text, x.size))
  ELSE StoreInt(x, Numval(IF x.display THEN SubSeq(s.text, 1, Min({s.size, x.size})) ELSE s.text))

\* Of a string longer than the target only the last characters are looked at.
StringToNumber(s, x) ==
  LET point == FindDelimiter(s.text, <<".">>)
      last == IF x.display THEN Rest(s.text, Max({1, Len(s.text) - x.size + 1})) ELSE s.text
  IN IF x.kind = "zoned" /\ IsIn(".", s.text)
     THEN StoreNumber(x, NumberIn(SubSeq(s.text, 1, point) \o Rest(s.text, point + 2)), Len(s.text) - point - 1)
     ELSE StoreInt(x, Numval(last))

LiteralToNumber(s, x) == StoreNumber(x, s.number, s.scale)

ItemToNumber(s, x) ==
  CASE s.kind = "text"  -> StoreInt(x, Numval(s.text))
    [] s.kind = "zoned" -> StoreNumber(x, DisplayToInt64(s.text), 0)
    [] OTHER            -> StoreNumber(x, s.number, s.scale)

MoveToNumber(s, x) ==
  CASE s.kind = "group"  -> GroupToNumber(s, x)
    [] s.kind = "string" -> StringToNumber(s, x)
    [] s.kind \in {"number", "zero"} -> LiteralToNumber(s, x)
    [] s.kind \in {"text", "zoned", "integer", "decimal"} -> ItemToNumber(s, x)

----------------------------------------------------------------------------
(* To a CobolDecimal.  A negative literal with decimals and a zoned item   *)
(* with decimals are taken as doubles.                                     *)
AssignToDecimal(s, x) ==
  CASE s.kind \in {"group", "text"} -> AssignScaledInt(x, Numval(s.text), 0)
    [] s.kind = "zoned"   -> IF s.scale = 0 THEN AssignScaledInt(x, DisplayToInt64(s.text), 0)
                             ELSE AssignDouble(x, DisplayToInt64(s.text), s.scale)
    [] s.kind = "number" /\ s.number < 0 /\ s.scale > 0 -> AssignDouble(x, s.number, s.scale)
    [] s.kind \in {"number", "zero", "integer", "decimal"} -> AssignScaledInt(x, s.number, s.scale)

MoveTo(s, x) ==
  CASE x.kind = "text"    -> MoveToText(s, x)
    [] x.kind = "group"   -> MoveToGroup(s, x)
    [] x.kind = "decimal" -> AssignToDecimal(s, x)
    [] x.kind \in {"zoned", "integer"} -> MoveToNumber(s, x)

----------------------------------------------------------------------------
(* What MOVE means.                                                        *)

\* The number a source stands for: that of its digits, whose last may carry
\* the sign in a zoned item.
MeansNumber(s) ==
  CASE s.kind \in {"number", "integer", "decimal", "zero"} -> TRUE
    [] s.kind = "zoned" -> AllDigits(Front(s.text)) /\ (IsDigit(Last(s.text)) \/ IsIn(Last(s.text), Minus))
    [] s.kind \in {"text", "string"} -> Trimmed(s.text) # <<>> /\ AllDigits(Trimmed(s.text))
    [] OTHER -> FALSE

NumberMeant(s) ==
  CASE s.kind = "zoned" -> IF IsDigit(Last(s.text)) THEN NumberIn(s.text)
                           ELSE -NumberIn([s.text EXCEPT ![Len(s.text)] = Digits[PlaceIn(@, Minus) + 1]])
    [] s.kind \in {"text", "string"} -> NumberIn(Trimmed(s.text))
    [] OTHER -> s.number

\* The digits of the number that the target has places for.
Aligned(s, x) ==
  LET n == Magnitude(NumberMeant(s)) * 10^x.scale
      kept == (n \div 10^s.scale) % 10^x.size
  IN IF NumberMeant(s) < 0 THEN -kept ELSE kept

\* The characters a source stands for in a target of that many: those of its
\* PICTURE, without sign, for an integer.
MeansCharacters(s) == s.kind \notin {"number", "integer", "decimal", "zoned"} \/ (s.scale = 0 /\ MeansNumber(s))

CharactersMeant(s, width) ==
  CASE s.kind = "all" -> Repeated(s.text, width)
    [] Figurative(s) -> Repeated(<<Fill(s)>>, width)
    [] s.kind = "number" -> s.text
    [] s.kind \in {"integer", "zoned"} -> AsDigits(Magnitude(NumberMeant(s)), s.size)
    [] OTHER -> s.text

\* Left-justified, or right-justified if the item says so.
Placed(x, text) ==
  LET spaces == [i \in 1..x.size |-> Space]
  IN IF x.right THEN Rest(spaces \o text, Len(text) + 1) ELSE SubSeq(text \o spaces, 1, x.size)

HeldAsMeant(s, x, held) ==
  CASE x.kind = "group" \/ s.kind = "group" ->
         held.text = Placed(x, IF s.kind = "zoned" THEN s.text ELSE CharactersMeant(s, x.size))
    [] x.kind = "text"  -> MeansCharacters(s) => held.text = Placed(x, CharactersMeant(s, x.size))
    [] x.kind = "zoned" -> MeansNumber(s) =>
         \* the digits and the sign, whatever the sign of zero
         /\ Len(held.text) = x.size
         /\ NumberMeant(Source(x, held)) = Aligned(s, x)
    [] OTHER -> MeansNumber(s) => held.number = Aligned(s, x)
=============================================================================
