---- MODULE Expressions ----
(* Arithmetic expressions and conditions as cobol-parser expr.rs parses them,
   over the cursor of ParserCursor.  Every parser takes a state and gives the
   state after it, the tree in val.  A leaf is a sequence of one token; an inner
   node is the operator and its operands.  Subscripts, qualifiers and reference
   modification are consumed and checked, and left out of the tree. *)
EXTENDS ParserCursor

Node(s, tree) == [s EXCEPT !.val = tree]
IsLeaf(tree) == Len(tree) = 1

(* What comes next, unless there was an error: the ? of the source. *)
Then(s, Next_(_)) == IF s.ok THEN Next_(s) ELSE s

RECURSIVE MatchingParen(_, _, _)
(* The index of the parenthesis that closes depth levels, or of eof. *)
MatchingParen(ts, i, depth) ==
    IF i >= Len(ts) THEN Len(ts)
    ELSE IF ts[i] = "(" THEN MatchingParen(ts, i + 1, depth + 1)
    ELSE IF ts[i] # ")" THEN MatchingParen(ts, i + 1, depth)
    ELSE IF depth = 1 THEN i
    ELSE MatchingParen(ts, i + 1, depth - 1)

SameDepth(ts, from, i) ==
    \A j \in (from + 1)..(i - 1) :
        ts[j] = "(" => MatchingParen(ts, j + 1, 1) < i

(* is_reference_modification_ahead, at an opening parenthesis. *)
ColonAhead(s) ==
    LET close == MatchingParen(s.ts, s.at + 1, 1)
    IN  \E i \in (s.at + 1)..(close - 1) : s.ts[i] = ":" /\ SameDepth(s.ts, s.at, i)

-----------------------------------------------------------------------------
(* The parsers that call one another do it through Reading, by what they read:
   it is defined at the end. *)
RECURSIVE Reading(_, _), Subscripts(_), SubscriptList(_), Qualifiers(_),
          AdditiveTail(_), MultiplicativeTail(_), Power(_), Arguments(_),
          TryLiteral(_)

Name(s) == IF Current(s) \in NameTokens THEN Advance(Node(s, <<Current(s)>>))
           ELSE Err(s)

(* parse_subscripts_into: an error inside the list is reported, and then
   ignored by the caller. *)
AfterSubscript(s) ==
    IF Current(s) \in {")", "eof"} THEN Expect(s, {")"}) ELSE SubscriptList(s)
SubscriptList(s) == Then(Reading("expr", s), LAMBDA t : AfterSubscript(Eat(t, {","})))

Forgiven(s) == [s EXCEPT !.ok = TRUE]
AfterSubscripts(s) == IF s.ok THEN Subscripts(s) ELSE Forgiven(s)
Subscripts(s) ==
    IF Current(s) # "(" \/ ColonAhead(s) THEN s ELSE AfterSubscripts(SubscriptList(Advance(s)))

Qualifiers(s) ==
    IF Current(s) \notin {"OF", "IN"} THEN s
    ELSE Then(Name(Advance(s)), LAMBDA t : Qualifiers(Subscripts(t)))

Length(s) == IF Current(s) = ")" THEN s ELSE Reading("expr", s)
ReferenceModification(s) ==
    Then(Then(Then(Reading("expr", Advance(s)),
                   LAMBDA start : Expect(start, {":"})),
              Length),
         LAMBDA len : Expect(len, {")"}))

Modified(s) ==
    IF Current(s) = "(" /\ ColonAhead(s) THEN ReferenceModification(s) ELSE s
QualifiedName(s) ==
    Then(Name(s), LAMBDA name :
        Then(Qualifiers(Subscripts(name)), LAMBDA whole : Node(Modified(whole), name.val)))

(* try_parse_literal; ok is FALSE, without an error, when there is none.  A
   sign not followed by a number is consumed all the same. *)
AllOf(s) == [s EXCEPT !.ok = TRUE, !.val = IF s.ok THEN @ ELSE <<"SPACE">>]
Signed(sign, s) ==
    IF Current(s) \in Numbers THEN Advance(Node(s, <<sign, <<Current(s)>>>>))
    ELSE [s EXCEPT !.ok = FALSE]
TryLiteral(s) ==
    CASE Current(s) \in Literals -> Advance(Node(s, <<Current(s)>>))
      [] Current(s) = "ALL" -> AllOf(TryLiteral(Advance(s)))
      [] Current(s) \in Signs -> Signed(Current(s), Advance(s))
      [] OTHER -> [s EXCEPT !.ok = FALSE]

Arguments(s) ==
    IF Current(s) \in {")", "eof"} THEN Expect(s, {")"})
    ELSE Then(Reading("expr", s), LAMBDA t : Arguments(Eat(t, {","})))

FunctionCall(s) ==
    Then(Name(Advance(s)), LAMBDA name :
        IF Current(name) = "(" THEN Node(Arguments(Advance(name)), name.val) ELSE name)

Primary(s) ==
    IF Current(s) = "(" THEN
        Then(Reading("expr", Advance(s)), LAMBDA inner :
            Node(Expect(inner, {")"}), <<"paren", inner.val>>))
    ELSE IF Current(s) \in Literals \cup {"ALL"} THEN TryLiteral(s)
    ELSE IF Current(s) = "FUNCTION" THEN FunctionCall(s)
    ELSE IF Current(s) \in NameTokens THEN QualifiedName(s)
    ELSE Err(s)

Unary(s) ==
    IF Current(s) \notin Signs THEN Primary(s)
    ELSE Then(Primary(Advance(s)), LAMBDA t : Node(t, <<Current(s), t.val>>))

Binary(op, l, right) == Then(right, LAMBDA r : Node(r, <<op, l.val, r.val>>))

Power(s) ==
    Then(Unary(s), LAMBDA l :
        IF Current(l) = "**" THEN Binary("**", l, Power(Advance(l))) ELSE l)

MultiplicativeTail(l) ==
    IF ~l.ok \/ Current(l) \notin {"*", "/"} THEN l
    ELSE MultiplicativeTail(Binary(Current(l), l, Power(Advance(l))))
Multiplicative(s) == MultiplicativeTail(Power(s))

AdditiveTail(l) ==
    IF ~l.ok \/ Current(l) \notin Signs THEN l
    ELSE AdditiveTail(Binary(Current(l), l, Multiplicative(Advance(l))))

Expr(s) == AdditiveTail(Multiplicative(s))

-----------------------------------------------------------------------------
(* Conditions.  A comparison is <<"cmp", op, left, right>>. *)

CompareTokens == {"=", ">", "<", ">=", "<=", "<>", "GREATER", "LESS", "EQUAL"}
ClassTokens == {"NUMERIC", "ALPHABETIC", "ALPHABETIC-LOWER", "ALPHABETIC-UPPER"}
SignTokens == {"POSITIVE", "NEGATIVE", "ZERO"}

(* Variant for a mutant: the comparison is turned round instead of negated. *)
Reversed == [op \in {"=", ">", "<", ">=", "<=", "<>"} |->
               CASE op = ">" -> "<" [] op = "<" -> ">" [] op = ">=" -> "<="
                 [] op = "<=" -> ">=" [] OTHER -> op]

Negated == [op \in {"=", ">", "<", ">=", "<=", "<>"} |->
              CASE op = "=" -> "<>" [] op = "<>" -> "=" [] op = ">" -> "<="
                [] op = "<" -> ">=" [] op = ">=" -> "<" [] op = "<=" -> ">"]

(* parse_comparison_op; the spelled forms may add OR EQUAL TO. *)
SpelledOp(s, strict, weak) ==
    IF Current(s) = "OR" THEN Node(Eat(Eat(Advance(s), {"EQUAL"}), {"TO"}), weak)
    ELSE Node(s, strict)
CompareOp(s) ==
    CASE Current(s) = "GREATER" -> SpelledOp(Eat(Advance(s), {"THAN"}), ">", ">=")
      [] Current(s) = "LESS" -> SpelledOp(Eat(Advance(s), {"THAN"}), "<", "<=")
      [] Current(s) = "EQUAL" -> Node(Eat(Advance(s), {"TO"}), "=")
      [] OTHER -> Node(Advance(s), Current(s))

(* extract_comparison_left and extract_comparison_left_and_op; <<>> is None. *)
RECURSIVE LeftOf(_), LeftAndOp(_)
LeftOf(c) ==
    CASE c[1] = "cmp" -> c[3]
      [] c[1] \in {"and", "or"} -> LeftOf(c[3])
      [] c[1] = "not" -> LeftOf(c[2])
      [] OTHER -> <<>>

LeftAndOp(c) ==
    CASE c[1] = "cmp" -> <<c[3], c[2]>>
      [] c[1] \in {"and", "or"} ->
            IF LeftAndOp(c[3]) # <<>> THEN LeftAndOp(c[3]) ELSE LeftAndOp(c[2])
      [] c[1] = "not" -> LeftAndOp(c[2])
      [] OTHER -> <<>>

(* IS before an operator, after AND or OR. *)
SkipIs(s) ==
    IF Holds({<<{"IS"}, CompareTokens \cup {"NOT"}>>}, s) THEN Advance(s) ELSE s

SubjectOnly == Numbers \cup Strings \cup {"ZERO", "SPACE", "QUOTE", "LOW-VALUE", "HIGH-VALUE"}

(* An identifier after AND or OR that does not begin a condition of its own. *)
OperandOnly(s) ==
    /\ Current(s) \in NameTokens \ {"NOT", "FUNCTION"}
    /\ Peek(s, 1) \notin CompareTokens \cup {"NOT", "OF", "IN", "("}
                           \cup SignTokens \cup ClassTokens
    /\ ~Holds({<<NameTokens, {"IS"}, CompareTokens \cup {"NOT"}>>}, s)

(* What follows AND or OR when it is not a whole condition: an operator and an
   operand (the subject is inherited from c), or only an operand (the subject
   and the operator are).  how tells which, "full" that it is neither. *)
OperatorAhead(s) ==
    Holds({<<CompareTokens>>, <<{"NOT"}, CompareTokens>>}, s)
OperandAhead(s, signs) ==
    \/ /\ Current(s) \in SubjectOnly
       /\ Peek(s, 1) \notin CompareTokens \cup {"NOT"}
    \/ OperandOnly(s)
    \/ signs /\ Current(s) \in Signs

Relation(op, left, r) == Node(r, <<"cmp", op, left, r.val>>)
OperatorOn(left, op) == Relation(op.val, left, Reading("expr", op))
NotTree(s) == Then(s, LAMBDA t : Node(t, <<"not", t.val>>))

Abbreviated(s, c, signs) ==
    IF OperatorAhead(s) /\ LeftOf(c) # <<>> THEN
        [how |-> "operator",
         s |-> IF Current(s) = "NOT" THEN NotTree(OperatorOn(LeftOf(c), CompareOp(Advance(s))))
               ELSE OperatorOn(LeftOf(c), CompareOp(s))]
    ELSE IF OperandAhead(s, signs) /\ LeftAndOp(c) # <<>> THEN
        [how |-> "operand",
         s |-> Relation(LeftAndOp(c)[2], LeftAndOp(c)[1], Reading("expr", s))]
    ELSE [how |-> "full", s |-> s]

-----------------------------------------------------------------------------
RECURSIVE OrTail(_), AndTail(_), WrapAnd(_), WrapOr(_)

Closing(s) == MatchingParen(s.ts, s.at + 1, 1)

(* is_paren_followed_by_comparison: the parentheses hold an expression. *)
ParenIsExpression(s) ==
    LET close == Closing(s)
    IN  /\ s.ts[close] = ")"
        /\ s.ts[close + 1] \in CompareTokens \cup {"+", "-", "*", "/", "IS"}

(* is_unclosed_wrapped_expr_condition: IS is seen, and no closing parenthesis,
   before the end of the statement or a comparison sign. *)
WrapEnds(s, i) ==
    \/ s.ts[i] \in {".", "THEN", "ELSE", "eof"}
    \/ s.ts[i] \in CompareTokens /\ SameDepth(s.ts, s.at, i)
UnclosedBefore(s, end) ==
    /\ Closing(s) > end \/ s.ts[Closing(s)] # ")"
    /\ s.ts[end] \notin CompareTokens
    /\ \E i \in (s.at + 1)..(end - 1) : s.ts[i] = "IS" /\ SameDepth(s.ts, s.at, i)
UnclosedWrap(s) ==
    UnclosedBefore(s, CHOOSE i \in (s.at + 1)..Len(s.ts) :
                          WrapEnds(s, i) /\ \A j \in (s.at + 1)..(i - 1) : ~WrapEnds(s, j))

(* After the expression e of a condition: IS, NOT, then a class, a sign, a
   comparison, the name of a class, or nothing (a condition-name). *)
IsName(tree) == IsLeaf(tree) /\ tree[1] \in NameTokens
ComparedWith(e, negated, op) ==
    Relation(IF negated THEN Negated[op.val] ELSE op.val, e.val, Reading("expr", op))
AfterNot(e, negated, s) ==
    CASE Current(s) \in ClassTokens \cup SignTokens ->
            Node(Advance(s), <<"test", Current(s), negated, e.val>>)
      [] Current(s) \in CompareTokens -> ComparedWith(e, negated, CompareOp(s))
      [] Current(s) \in Identifiers /\ IsName(e.val) ->
            Node(Advance(s), <<"test", Current(s), negated, e.val>>)
      [] OTHER -> IF IsName(e.val) /\ s.at = e.at THEN Node(e, <<"name", e.val>>) ELSE Err(s)
AfterIs(e, s) == AfterNot(e, Current(s) = "NOT", Eat(s, {"NOT"}))
AfterSubject(e) == AfterIs(e, Eat(e, {"IS"}))

PrimaryCondition(s) ==
    CASE Current(s) # "(" -> Then(Reading("expr", s), AfterSubject)
      [] Current(s) = "(" /\ UnclosedWrap(s) -> Then(Reading("expr", Advance(s)), AfterSubject)
      [] Current(s) = "(" /\ ~UnclosedWrap(s) ->
            IF ParenIsExpression(s) THEN Then(Reading("expr", s), AfterSubject)
            ELSE Then(Reading("cond", Advance(s)), LAMBDA inner :
                Node(Expect(inner, {")"}), <<"paren", inner.val>>))

NotCondition(s) ==
    IF Current(s) # "NOT" THEN PrimaryCondition(s)
    ELSE NotTree(PrimaryCondition(Advance(s)))

(* wrap_abbreviated_and: the ANDs after an abbreviation that follows OR. *)
WrappedAnd(a) == IF a.how = "full" THEN Reading("not", a.s) ELSE a.s
WrapAnd(l) ==
    IF ~l.ok \/ Current(l) # "AND" THEN l
    ELSE WrapAnd(Binary("and", l, WrappedAnd(Abbreviated(SkipIs(Advance(l)), l.val, FALSE))))

(* wrap_abbreviated_or: the ORs after an operator that follows AND.  When what
   follows OR is a condition of its own, OR is consumed and the loop ends. *)
WrappedOr(l, a) ==
    IF a.how = "full" THEN Node(a.s, l.val) ELSE WrapOr(Binary("or", l, a.s))
WrapOr(l) ==
    IF ~l.ok \/ Current(l) # "OR" THEN l
    ELSE WrappedOr(l, Abbreviated(SkipIs(Advance(l)), l.val, TRUE))

AfterAnd(a) ==
    CASE a.how = "full" -> Reading("not", a.s)
      [] a.how = "operator" -> WrapOr(a.s)
      [] a.how = "operand" -> a.s
AndTail(l) ==
    IF ~l.ok \/ Current(l) # "AND" THEN l
    ELSE AndTail(Binary("and", l, AfterAnd(Abbreviated(SkipIs(Advance(l)), l.val, TRUE))))
AndCondition(s) == AndTail(Reading("not", s))

AfterOr(a) == IF a.how = "full" THEN Reading("and", a.s) ELSE WrapAnd(a.s)
OrTail(l) ==
    IF ~l.ok \/ Current(l) # "OR" THEN l
    ELSE OrTail(Binary("or", l, AfterOr(Abbreviated(SkipIs(Advance(l)), l.val, TRUE))))

Condition(s) == OrTail(Reading("and", s))

Reading(what, s) ==
    CASE what = "expr" -> Expr(s)
      [] what = "ref" -> QualifiedName(s)
      [] what = "literal" -> TryLiteral(s)
      [] what = "compare" -> CompareOp(s)
      [] what = "cond" -> Condition(s)
      [] what = "and" -> AndCondition(s)
      [] what = "not" -> NotCondition(s)
====
