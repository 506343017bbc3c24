------------------------- MODULE MCTextStatements --------------------------
EXTENDS TextStatements

Size == <<>>
MCOperands ==
  {<<[text |-> t, delimiter |-> Size]>> :
     t \in {<<"A">>, <<"B">>, <<",">>, <<"A", "B">>, <<",", ",">>}} \cup
  {<<[text |-> <<"B", "A", ",", "B">>, delimiter |-> <<",">>], [text |-> <<"A", ",", "B">>, delimiter |-> <<"B">>]>>,
   <<[text |-> <<"A", "B">>, delimiter |-> <<"A">>]>>}

By(word) == [word |-> word, all |-> FALSE]
ByAll(word) == [word |-> word, all |-> TRUE]
MCDelimiterLists ==
  {<<>>, <<By(<<",">>)>>, <<ByAll(<<",">>)>>, <<By(<<"A", "B">>), By(<<"A">>)>>, <<By(<<",">>), By(<<"A", ",">>)>>,
   <<ByAll(<<"A">>), By(<<",">>)>>}

MCTargetLists == {<<LineWidth>>, <<LineWidth, LineWidth>>, <<2, LineWidth, 2>>}

Before(w) == [before |-> TRUE, word |-> w]
After(w) == [before |-> FALSE, word |-> w]
MCMarks ==
  {<<>>, <<Before(<<"B">>)>>, <<After(<<"A">>)>>, <<Before(<<",">>), After(<<"B">>)>>}
Words == {<<"A">>, <<"B">>, <<"A", "B">>, <<"A", "A">>}
Item(phrase, word, by, marks, counter) ==
  [phrase |-> phrase, word |-> word, by |-> by, marks |-> marks, counter |-> counter]
One(phrases, by) ==
  {Item(p, w, by, m, "C") : p \in phrases, w \in Words, m \in MCMarks}
Characters == {Item("characters", <<>>, <<"A">>, m, "D") : m \in MCMarks}
Few(phrase, counter) ==
  {Item(phrase, w, <<"C">>, m, counter) : w \in {<<"A">>, <<"A", "B">>}, m \in {<<>>, <<After(<<"B">>)>>}}
MCTallyingLists ==
  {<<i>> : i \in One({"all", "leading"}, <<>>) \cup Characters} \cup
  {<<i, j>> : i \in Few("leading", "C") \cup Few("all", "C"), j \in Characters \cup Few("all", "C")}
MCReplacingItems ==
  One({"all", "leading", "first"}, <<"B">>) \cup One({"all"}, <<"C", "A">>) \cup Characters
MCSeriesLists ==
  {<<<<Item("all", <<"A">>, <<>>, <<>>, "C")>>, <<i, j>>>> :
     i \in Few("leading", "C") \cup Few("first", "C"), j \in Characters \cup Few("all", "C")}
MCConversions ==
  {[from |-> f, to |-> t, marks |-> m] : f \in {<<"A", "B">>, <<",", "A">>}, t \in {<<"B", "A">>, <<"C">>}, m \in MCMarks}

An(kind, size, scale) ==
  [kind |-> kind, size |-> size, scale |-> scale, display |-> TRUE, packed |-> FALSE,
   right |-> FALSE, member |-> FALSE, numeric |-> FALSE]
Binary == [An("integer", 2, 0) EXCEPT !.display = FALSE]
Packed == [An("decimal", 4, 2) EXCEPT !.display = FALSE, !.packed = TRUE]
MCItems ==
  {An("text", 5, 0), [An("text", 2, 0) EXCEPT !.right = TRUE], [An("text", 3, 0) EXCEPT !.member = TRUE],
   An("group", 3, 0), [An("group", 4, 0) EXCEPT !.numeric = TRUE],
   An("zoned", 2, 0), An("zoned", 3, 1),
   An("integer", 3, 0), Binary, [Binary EXCEPT !.packed = TRUE], An("decimal", 2, 1), Packed}

String(text) == Literal("string", text, 0, 0)
Written(text, number, scale) == Literal("number", text, number, scale)
MCLiterals ==
  {String(<<"4">>), String(<<" ", "1", "2">>), String(<<"9", "8", "7", "6">>), String(<<"A">>), String(<<"2", ".", "5", "4">>),
   Written(<<"7">>, 7, 0), Written(<<"0", "7">>, 7, 0), Written(<<"0">>, 0, 0), Written(<<"1", "2", "3", "4">>, 1234, 0), Written(<<"5">>, -5, 0),
   Written(<<"3", ".", "5">>, 35, 1), Written(<<"1", "0", ".", "2", "5">>, -1025, 2), Literal("all", <<"A", "B">>, 0, 0)} \cup
  {Literal(kind, <<>>, 0, 0) : kind \in {"zero", "space", "quote", "high", "low"}}

\* MOVEs that do what COBOL describes, each of the others with its reason.
Numeric == {"zoned", "integer", "decimal"}
MCMovable(s, x) ==
  \* not COBOL: figurative constants but ZERO, and ALL, to numbers; numbers
  \* with decimals to characters; a text that is no number
  /\ x.kind \in Numeric => s.kind \notin {"space", "quote", "high", "low", "all"}
  /\ x.kind \in {"text", "group"} /\ s.scale > 0 => s.kind = "zoned" /\ x.kind = "group"
  \* the CobolDecimal receives the bytes of the group, the scale of the literal
  /\ x.kind = "decimal" => s.kind \notin {"group", "string"}
  \* a group's characters are taken for a number
  /\ x.kind = "integer" => s.kind # "group"
  \* JUSTIFIED is not looked at, and leading zeros are lost or added
  /\ x.kind = "text" /\ s.kind = "number" => ~x.right /\ s.text = LiteralDigits(s, x)
  /\ x.kind = "text" /\ s.kind = "integer" => ~x.right /\ s.display
  \* a member of a group has no byte for a terminating zero
  /\ s.kind = "high" => ~x.member
  \* a number is not in the group as it is in the item, or has leading zeros
  /\ x.kind = "group" /\ s.kind = "number" => ~x.numeric /\ s.number >= 0 /\ s.text = LiteralDigits(s, x)
  /\ x.kind = "group" /\ s.kind = "integer" => s.display /\ s.number >= 0
  \* the digits of a text are stored as if the item had no decimals
  /\ x.kind = "zoned" /\ s.kind \in {"text", "string"} => x.scale = 0
  \* a COMP-3 item keeps more digits than its PICTURE has
  /\ x.packed /\ x.kind = "integer" /\ MeansNumber(s) => Magnitude(Aligned(s, [x EXCEPT !.size = 6])) < 10^x.size
  \* a double is rounded, and held at the largest value
  /\ x.kind = "decimal" /\ (s.kind = "zoned" \/ s.number < 0) /\ s.scale > 0 =>
       s.kind = "decimal" \/ (s.scale <= x.scale /\ s.size - s.scale <= x.size - x.scale)
  \* does not compile
  /\ s.kind = "zoned" /\ s.scale > 0 => x.kind \in {"decimal", "group"}

\* The theorem about INSPECT is about these statements too.
ASSUME MCInspectsPlain == InspectsPlain

\* While items are moved on, the line and what was done with it do not matter.
StateView == IF phase = "moved" THEN <<phase, moved>> ELSE vars
=============================================================================
