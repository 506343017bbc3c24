---------------------------- MODULE MCArithmetic ----------------------------
(***************************************************************************)
(* Arithmetic statements over six items of one to three digits and two      *)
(* literals.  Agreed leaves out the statements for which the generated code *)
(* does something else than COBOL describes, each with its reason.          *)
(***************************************************************************)
EXTENDS Arithmetic

Kind(store, size, scale, packed) == [store |-> store, size |-> size, scale |-> scale, packed |-> packed]

MCItem ==
  [z |-> Kind("zoned", 1, 0, FALSE),   y |-> Kind("zoned", 2, 1, FALSE),
   i |-> Kind("integer", 1, 0, FALSE), d |-> Kind("decimal", 2, 1, FALSE),
   e |-> Kind("decimal", 3, 2, FALSE), c |-> Kind("decimal", 2, 1, TRUE),
   two |-> Kind("literal", 1, 0, FALSE), half3 |-> Kind("literal", 2, 1, FALSE)]

Literals == {"two", "half3"}
Data == DOMAIN MCItem \ Literals

Values ==
  [x \in DOMAIN MCItem |->
     CASE x \in {"z", "i"} -> {-7, 0, 4}
       [] x \in {"y", "d"} -> {-95, 5, 26}
       [] x = "e"          -> {-995, 5}
       [] x = "c"          -> {-95, 26}
       [] x = "two"        -> {2}
       [] OTHER            -> {15}]

More(x, y) == MCItem[x].scale > MCItem[y].scale
Fraction(x) == MCItem[x].scale > 0
IsZoned(x) == MCItem[x].store = "zoned"
IsDecimal(x) == MCItem[x].store = "decimal"
Named(s) == {s.operands[i] : i \in DOMAIN s.operands} \cup {s.other}

\* Statements that do what COBOL describes.
Agreed(s) ==
  LET several == Len(s.targets) > 1
      checked == s.phrases # {}
      targets == {s.targets[i] : i \in DOMAIN s.targets}
      operands == {s.operands[i] : i \in DOMAIN s.operands}
      Round(x) == \E i \in s.rounded : s.targets[i] = x
      plain(x) == ~checked /\ ~Round(x)
  IN \* a GIVING target after one that was too small is not stored
     /\ s.giving /\ s.verb # "DIVIDE" => ~(several /\ checked)
     \* an operand that is a target is read again for the next target
     /\ \A i \in DOMAIN s.targets : i < Len(s.targets) => s.targets[i] \notin Named(s) \/ (s.verb = "DIVIDE" /\ s.giving)
     /\ targets \cap operands # {} => Len(s.operands) = 1
     \* no limit is known of a COMP-3 item but in ADD GIVING
     /\ "c" \in targets => ~checked \/ (s.verb = "ADD" /\ s.giving)
     /\ \A x \in targets :
       /\ s.verb \in {"ADD", "SUBTRACT"} /\ ~s.giving =>
            \* decimals of operands of an integer sum are lost one by one
            /\ s.verb = "ADD" /\ ~Fraction(x) => Round(x) \/ \A op \in operands : ~Fraction(op)
            \* several operands are stored one by one
            /\ plain(x) /\ Fraction(x) => Len(s.operands) = 1
       \* ROUNDED of ADD GIVING is not looked at
       /\ s.verb = "ADD" /\ s.giving /\ Fraction(x) => ~Round(x)
       \* integers from integers to a target with decimals: unchecked
       /\ s.verb = "SUBTRACT" /\ s.giving /\ Fraction(x) /\ (\A op \in Named(s) : ~Fraction(op) /\ op \notin Literals) =>
            ~checked /\ ~IsZoned(x)
       \* does not compile
       /\ s.verb = "MULTIPLY" /\ s.giving /\ checked => ~(IsZoned(x) /\ Fraction(x))
       \* the product has no more digits than the longer factor
       /\ s.verb = "MULTIPLY" /\ s.giving /\ plain(x) /\ ~Fraction(x) => \A op \in Named(s) : ~Fraction(op)
       /\ s.verb = "DIVIDE" =>
            \* decimals of zoned operands are overlooked
            /\ ~Fraction(x) /\ (\A op \in Named(s) : ~IsDecimal(op)) => "y" \notin Named(s)
            \* ROUNDED and the limit are not looked at
            /\ ~s.giving /\ ~Fraction(x) /\ IsDecimal(Head(s.operands)) => plain(x)
       /\ s.verb = "COMPUTE" =>
            \* with a phrase only zoned targets keep decimals
            /\ checked => IsZoned(x) \/ (~Fraction(x) /\ \A op \in Named(s) : ~Fraction(op))
            \* an integer quotient is cut off
            /\ s.op = "/" /\ (\A op \in Named(s) : ~Fraction(op)) => ~Round(x) /\ (Fraction(x) => ~checked)
            \* decimals of operands of an integer expression are lost one by one
            /\ ~Fraction(x) /\ ~IsZoned(x) => Round(x) \/ \A op \in Named(s) : ~Fraction(op)
            \* an expression in doubles is rounded
            /\ IsDecimal(x) /\ ~Round(x) /\ s.op \in {"+", "-"} => \A op \in Named(s) : ~More(op, x)
            /\ IsDecimal(x) /\ ~Round(x) => s.op # "*" \/ \A op \in Named(s) : ~Fraction(op)
     \* the remainder of a rounded quotient, or of one with decimals, has too
     \* few digits
     /\ s.remainder # "" => /\ \A x \in targets : ~Fraction(x)
                            /\ s.rounded = {} /\ ~several
                            /\ ~(IsZoned(s.remainder) /\ Fraction(s.remainder))

Statement(verb, giving, operands, other, op, targets, rounded, remainder, phrases) ==
  [verb |-> verb, giving |-> giving, operands |-> operands, other |-> other, op |-> op,
   targets |-> targets, rounded |-> rounded, remainder |-> remainder, phrases |-> phrases]

Names == DOMAIN MCItem
Targets == {<<x>> : x \in Data} \cup {<<"z", "d">>, <<"d", "z">>, <<"i", "y">>, <<"y", "i">>}

MCStatements ==
  LET many == {Statement(verb, giving, ops, IF verb = "ADD" THEN Head(ops) ELSE other, "", t, r, "", p) :
                 verb \in {"ADD", "SUBTRACT"}, giving \in BOOLEAN,
                 ops \in {<<x>> : x \in Names} \cup {<<"z", "d">>, <<"e", "i">>, <<"half3", "y">>},
                 other \in {"two", "y"}, t \in Targets, r \in {{}, {1}, {2}}, p \in {{}, {"ON", "NOT"}}}
      pair == {Statement(verb, giving, <<x>>, other, "", t, r, rest, p) :
                 verb \in {"MULTIPLY", "DIVIDE"}, giving \in BOOLEAN, x \in Names,
                 other \in {"z", "e"}, t \in Targets, r \in {{}, {1}, {2}},
                 rest \in {"", "i", "d"}, p \in {{}, {"ON", "NOT"}}}
      computed == {Statement("COMPUTE", FALSE, <<x>>, other, op, <<t>>, r, "", p) :
                     x \in Names, other \in {"two", "d"}, op \in {"", "+", "-", "*", "/"},
                     t \in Data, r \in {{}, {1}}, p \in {{}, {"ON"}, {"NOT"}}}
  IN {s \in many \cup pair \cup computed :
        /\ s.rounded \subseteq DOMAIN s.targets
        /\ s.remainder # "" => s.verb = "DIVIDE" /\ s.giving
        /\ s.remainder \notin {s.targets[i] : i \in DOMAIN s.targets} \cup Named(s)
        \* the other operand is written only where there is one
        /\ s.verb # "COMPUTE" /\ ~s.giving => s.other \in {"two", "z", Head(s.operands)}
        /\ s.verb = "COMPUTE" /\ s.op = "" => s.other = "two"
        /\ Agreed(s)}

Divisor(s) ==
  IF s.verb = "DIVIDE" THEN Head(s.operands) ELSE IF s.op = "/" THEN s.other ELSE "two"

Used(s) ==
  {s.operands[i] : i \in DOMAIN s.operands} \cup {s.targets[i] : i \in DOMAIN s.targets}
    \cup (IF s.giving \/ s.op # "" THEN {s.other} ELSE {})

\* Every value for every item the statement names.
RECURSIVE Chosen(_, _)
Chosen(starts, names) ==
  IF names = {} THEN starts
  ELSE LET x == CHOOSE x \in names : TRUE
       IN Chosen({[v EXCEPT ![x] = n] : v \in starts, n \in Values[x]}, names \ {x})

\* Only a DIVIDE with a phrase may divide by zero.
MCStarts(s) ==
  {v \in Chosen({[x \in Names |-> CASE x = "two" -> 2 [] x = "half3" -> 15 [] OTHER -> 0]}, Used(s)) :
     v[Divisor(s)] # 0 \/ (s.verb = "DIVIDE" /\ s.phrases # {})}
=============================================================================
