-------------------------- MODULE TextStatements ---------------------------
(***************************************************************************)
(* A program that builds a line by STRING statements with a POINTER, moves *)
(* it to another field, and there takes it apart by UNSTRING statements    *)
(* with POINTER, TALLYING, DELIMITER IN and COUNT IN, or inspects it, or   *)
(* moves it, or a literal, on from item to item: the statements as          *)
(* emit_statement writes them around the operations of TextOperations and  *)
(* Moves.                                                                  *)
(***************************************************************************)
EXTENDS Moves

CONSTANTS
  LineWidth,         \* the characters of the line
  Operands,          \* the lists of operands of a STRING: [text, delimiter]
  DelimiterLists,    \* what DELIMITED BY of an UNSTRING may name: [word, all]
  TargetLists,       \* the widths of the receiving fields
  TallyingLists,     \* the lists of TALLYING items: [phrase, word, by, marks, counter]
  ReplacingItems,    \* the items of a REPLACING: the same; counter is for TALLYING, by for these
  SeriesLists,       \* TALLYING items and REPLACING items of one statement
  Conversions,       \* [from, to, marks]
  Literals,          \* the literals that are moved
  Items,             \* the items that receive them
  Movable(_, _)      \* whether the program moves this to that item

IsText(s) == s \in Seq(ToSet(s))

\* The characters that may be in a field: those of the operands, and spaces.
Char == {Space} \cup UNION {UNION {ToSet(operands[k].text) : k \in 1..Len(operands)} : operands \in Operands}

AreMarks(marks) == IsText(marks) /\ \A k \in 1..Len(marks) : IsText(marks[k].word) /\ marks[k].before \in BOOLEAN

AreItems(items, phrases) ==
  IsText(items) /\ \A k \in 1..Len(items) :
    /\ items[k].phrase \in phrases /\ AreMarks(items[k].marks)
    /\ IsText(items[k].word) /\ IsText(items[k].by)

(* Operands, delimiters and fields are sequences of characters; no item is *)
(* of length zero.                                                         *)
ASSUME TextAssumption ==
  /\ LineWidth \in Nat \ {0}
  /\ \A operands \in Operands :
       IsText(operands) /\ \A k \in 1..Len(operands) : IsText(operands[k].text) /\ IsText(operands[k].delimiter)
  /\ \A list \in DelimiterLists :
       IsText(list) /\ \A k \in 1..Len(list) : IsText(list[k].word) /\ list[k].all \in BOOLEAN
  /\ \A targets \in TargetLists : targets \in Seq(Nat \ {0})
  /\ \A items \in TallyingLists : AreItems(items, {"characters", "all", "leading"})
  /\ \A item \in ReplacingItems : AreItems(<<item>>, {"characters", "all", "leading", "first"})
  /\ \A both \in SeriesLists : /\ AreItems(both[1], {"characters", "all", "leading"})
                               /\ AreItems(both[2], {"characters", "all", "leading", "first"})
  /\ \A c \in Conversions : IsText(c.from) /\ IsText(c.to) /\ AreMarks(c.marks)

VARIABLES
  phase,      \* "build", "apart", "inspected" or "moved"
  line,       \* the receiving field of the STRINGs
  pointer,    \* of the STRINGs, then of the UNSTRINGs
  overflow,   \* whether the last statement took its ON OVERFLOW
  source,     \* the field that UNSTRING and INSPECT are about
  delimiters, \* of the UNSTRINGs
  tally,      \* TALLYING IN of the UNSTRINGs
  sent,       \* history: the characters of the operands so far
  given,      \* history: the fields, delimiters and counts of the UNSTRINGs
  inspected,  \* what the INSPECT said, its counters and the text it left
  moved       \* the last MOVE: what was moved, to which item, what that holds

vars == <<phase, line, pointer, overflow, source, delimiters, tally, sent, given, inspected, moved>>

Counters == {"C", "D"}
NotInspected == [items |-> <<>>, replacing |-> <<>>, conversion |-> <<>>,
                 counts |-> [c \in Counters |-> 0], text |-> <<>>]

Line == [kind |-> "text", size |-> LineWidth, scale |-> 0, display |-> TRUE, packed |-> FALSE,
         right |-> FALSE, member |-> FALSE, numeric |-> FALSE]
NotMoved == [from |-> Literal("space", <<>>, 0, 0), to |-> Line, held |-> InCharacters(MoveString(<<>>, LineWidth))]

Init ==
  /\ phase = "build" /\ line = MoveString(<<>>, LineWidth) /\ pointer = 1
  /\ overflow = FALSE
  /\ source = MoveString(<<>>, LineWidth) /\ delimiters = <<>> /\ tally = 0
  /\ sent = <<>> /\ given = <<>> /\ inspected = NotInspected /\ moved = NotMoved

(* STRING operands INTO line WITH POINTER pointer ON OVERFLOW ...          *)
StringStmt(operands) ==
  LET done == StringConcat(operands, line, pointer)
  IN /\ phase = "build"
     /\ ~overflow
     /\ line' = done.field /\ pointer' = done.pointer /\ overflow' = done.overflow
     /\ sent' = sent \o FlattenSeq([k \in 1..Len(operands) |-> Effective(operands[k])])
     /\ UNCHANGED <<phase, source, delimiters, tally, given, inspected, moved>>

(* MOVE line TO source, MOVE 1 TO pointer, MOVE 0 TO tally.                *)
TakeLine(chosen) ==
  /\ phase = "build" /\ pointer > 1
  /\ phase' = "apart" /\ source' = MoveString(line, LineWidth) /\ delimiters' = chosen
  /\ pointer' = 1 /\ tally' = 0 /\ overflow' = FALSE /\ sent' = <<>> /\ given' = <<>>
  /\ UNCHANGED <<line, inspected, moved>>

(* UNSTRING source DELIMITED BY delimiters INTO targets, each with its     *)
(* DELIMITER IN and COUNT IN, WITH POINTER pointer TALLYING IN tally.  ALL *)
(* is taken from the first delimiter, for every one.                       *)
UnstringStmt(targets) ==
  LET words == [k \in 1..Len(delimiters) |-> delimiters[k].word]
      all == delimiters # <<>> /\ delimiters[1].all
      done == Unstring(source, words, all, targets, pointer)
  IN /\ phase = "apart"
     /\ pointer <= Len(source)
     /\ pointer' = done.pointer /\ overflow' = done.overflow
     /\ tally' = tally + Len(done.given)
     /\ given' = given \o done.given
     /\ UNCHANGED <<phase, line, source, delimiters, sent, inspected, moved>>

----------------------------------------------------------------------------
(* INSPECT source TALLYING: one item is counted by the runtime, several by *)
(* the scan written out for them.                                          *)
Tallied(items) ==
  [c \in Counters |->
     IF Len(items) # 1 THEN TallyingSeries(source, items, c)
     ELSE IF items[1].counter = c THEN InspectTallying(source, items[1]) ELSE 0]

Inspect(items, replacing, conversion, counts, text) ==
  /\ phase = "apart" /\ pointer = 1 /\ given = <<>> /\ delimiters = <<>>
  /\ phase' = "inspected"
  /\ inspected' = [items |-> items, replacing |-> replacing, conversion |-> conversion,
                   counts |-> counts, text |-> text]
  /\ UNCHANGED <<line, pointer, overflow, source, delimiters, tally, sent, given, moved>>

Tallying(items) == Inspect(items, <<>>, <<>>, Tallied(items), source)

(* REPLACING: the items one after the other, each on what the one before   *)
(* it left.                                                                *)
OneAfterTheOther(items) == FoldLeft(LAMBDA t, i : InspectReplacing(t, i), source, items)

Replacing(items) == Inspect(<<>>, items, <<>>, NotInspected.counts, OneAfterTheOther(items))

(* TALLYING ... REPLACING: both scans are on the text as it was.           *)
TallyingReplacing(items, replacing) ==
  Inspect(items, replacing, <<>>, [c \in Counters |-> TallyingSeries(source, items, c)],
          ReplacingSeries(source, replacing))

Converting(conversion) ==
  Inspect(<<>>, <<>>, <<conversion>>, NotInspected.counts,
          InspectConverting(source, conversion.from, conversion.to, conversion.marks))

----------------------------------------------------------------------------
(* MOVE of the line or a literal to an item, and from there to another.    *)
Move(s, x) ==
  /\ Movable(s, x)
  /\ phase' = "moved"
  /\ moved' = [from |-> s, to |-> x, held |-> MoveTo(s, x)]
  /\ UNCHANGED <<line, pointer, overflow, source, delimiters, tally, sent, given, inspected>>

MoveLine(x) == phase = "build" /\ pointer > 1 /\ Move(Source(Line, InCharacters(line)), x)

MoveLiteral(literal, x) == phase = "build" /\ pointer = 1 /\ Move(literal, x)

MoveOn(x) == phase = "moved" /\ Move(Source(moved.to, moved.held), x)

(* The program begins the next line.                                       *)
NextLine ==
  /\ \/ phase \in {"inspected", "moved"}
     \/ phase = "apart" /\ pointer > Len(source)
     \/ phase = "build" /\ overflow
  /\ phase' = "build" /\ line' = MoveString(<<>>, LineWidth) /\ pointer' = 1 /\ overflow' = FALSE
  /\ source' = MoveString(<<>>, LineWidth) /\ delimiters' = <<>> /\ tally' = 0
  /\ sent' = <<>> /\ given' = <<>> /\ inspected' = NotInspected /\ moved' = NotMoved

Next ==
  \/ \E operands \in Operands : StringStmt(operands)
  \/ \E chosen \in DelimiterLists : TakeLine(chosen)
  \/ \E targets \in TargetLists : UnstringStmt(targets)
  \/ \E items \in TallyingLists : Tallying(items)
  \/ \E item \in ReplacingItems : Replacing(<<item>>)
  \/ \E both \in SeriesLists : TallyingReplacing(both[1], both[2])
  \/ \E conversion \in Conversions : Converting(conversion)
  \/ \E x \in Items : MoveLine(x) \/ MoveOn(x)
  \/ \E literal \in Literals, x \in Items : MoveLiteral(literal, x)
  \/ NextLine

Spec == Init /\ [][Next]_vars

----------------------------------------------------------------------------
(* Properties.                                                             *)

(* Whatever STRINGs the program ran, the line holds the characters of all  *)
(* their operands in order, cut where the line ends; the pointer is behind *)
(* them, and ON OVERFLOW was taken exactly when some did not fit           *)
(* (cobol_string_concat and the pointer stored back after it).             *)
LineIsWhatWasSent ==
  phase = "build" =>
    /\ line = MoveString(sent, LineWidth)
    /\ pointer = Min({Len(sent), LineWidth}) + 1
    /\ overflow <=> Len(sent) > LineWidth

(* Whatever number of receiving fields each UNSTRING had, the fields,      *)
(* delimiters and counts the program was given spell the source up to the  *)
(* pointer, the delimiter possibly repeated when ALL was written; no field *)
(* holds a delimiter, only the last of the source is without one behind    *)
(* it, and TALLYING is the number of fields (cobol_unstring, its pointer   *)
(* and tally stored back and read again by the next).                      *)
Spells(g, text) ==
  /\ g.count <= Len(text)
  /\ SubSeq(g.field, 1, Min({g.count, Len(g.field)})) = SubSeq(text, 1, Min({g.count, Len(g.field)}))
  /\ LET behind == Rest(text, g.count + 1)
         repeats == IF g.delimiter = <<>> THEN 0 ELSE Len(behind) \div Len(g.delimiter)
     IN /\ behind = FlattenSeq([k \in 1..repeats |-> g.delimiter])
        /\ repeats <= 1 \/ delimiters[1].all

TakenApart ==
  phase = "apart" =>
    LET words == {delimiters[k].word : k \in 1..Len(delimiters)}
        Piece(at, k) == SubSeq(source, at[k - 1], at[k] - 1)
    IN /\ tally = Len(given)
       /\ \E at \in [0..Len(given) -> 1..pointer] :
            /\ at[0] = 1 /\ at[Len(given)] = pointer
            /\ \A k \in 1..Len(given) :
                 /\ at[k - 1] < at[k]
                 /\ Spells(given[k], Piece(at, k))
                 /\ given[k].delimiter = <<>> /\ words # {} => at[k] = Len(source) + 1
                 /\ \A w \in words : Places(SubSeq(Piece(at, k), 1, given[k].count), w, 1, given[k].count) = {}

(* The matches of INSPECT as the statement defines them.  An item is about *)
(* the characters behind its AFTER marker and ahead of the BEFORE marker   *)
(* that follows; there it matches at a place unless characters are taken   *)
(* from further left, or from the same place by an item written before it; *)
(* LEADING only in an unbroken run from where its part begins, FIRST only  *)
(* when it has not matched further left.                                   *)
Concerned(text, marks) ==
  LET at(m) == Places(text, m.word, 1, Len(text))
      behind(p) == \A m \in marks : ~m.before => \E i \in at(m) : i + Len(m.word) <= p
  IN {p \in 1..Len(text) :
        behind(p) /\ \A m \in marks : m.before => ~\E i \in at(m) : i <= p /\ behind(i)}

AsDefined(text, items, matches) ==
  LET size(k) == IF items[k].phrase = "characters" THEN 1 ELSE Len(items[k].word)
      about == [k \in 1..Len(items) |-> Concerned(text, ToSet(items[k].marks))]
      covers(t) == t[1]..(t[1] + size(t[2]) - 1)
      spots == {s \in (1..Len(text)) \X (1..Len(items)) :
                  /\ covers(s) \subseteq about[s[2]]
                  /\ \/ items[s[2]].phrase = "characters"
                     \/ s[1] \in Places(text, items[s[2]].word, 1, Len(text))}
      taken(s) == \E t \in matches :
                    s[1] \in covers(t) /\ (t[1] = s[1] => t[2] < s[2])
      allowed(s) ==
        CASE items[s[2]].phrase = "leading" ->
               \A p \in {q \in about[s[2]] : q < s[1]} : \E t \in matches : t[2] = s[2] /\ p \in covers(t)
          [] items[s[2]].phrase = "first" -> ~\E t \in matches : t[2] = s[2] /\ t[1] < s[1]
          [] OTHER -> TRUE
  IN matches \subseteq spots /\ \A s \in spots : s \in matches <=> allowed(s) /\ ~taken(s)

(* The runtime's scan for one item and the scan the generator writes out   *)
(* for several both count and replace the matches INSPECT defines; the     *)
(* replacing half of TALLYING ... REPLACING is about the text as it was;   *)
(* CONVERTING is REPLACING ALL of every character.                         *)
Conversion(c) ==
  [k \in 1..Min({Len(c.from), Len(c.to)}) |->
     [phrase |-> "all", word |-> <<c.from[k]>>, by |-> <<c.to[k]>>, marks |-> c.marks]]

InspectedAsDefined ==
  phase = "inspected" =>
    LET replacing == IF inspected.conversion = <<>> THEN inspected.replacing
                     ELSE Conversion(inspected.conversion[1])
        counted == Series(source, inspected.items)
        replaced == Series(source, replacing)
    IN /\ AsDefined(source, inspected.items, counted)
       /\ AsDefined(source, replacing, replaced)
       /\ \A c \in Counters :
            inspected.counts[c] = Cardinality({m \in counted : inspected.items[m[2]].counter = c})
       /\ inspected.text = Replaced(source, replacing, replaced)

(* INSPECT statements of which InspectedAsDefined can hold (README, 3.4):  *)
(* they have at most one BEFORE and one AFTER phrase for an item, none of  *)
(* the characters to convert is written twice, and a LEADING item is the   *)
(* first, and no other one can match across the place it begins at.        *)
OneOfEach(marks) == \A j, k \in 1..Len(marks) : marks[j].before = marks[k].before => j = k

Undisturbed(text, items) ==
  \A k \in 1..Len(items) : items[k].phrase = "leading" =>
    LET about == Concerned(text, ToSet(items[k].marks))
    IN /\ k = 1
       /\ \A j \in 2..Len(items) : \A p \in Places(text, items[j].word, 1, Len(text)) :
            p \in about \/ (p..(p + Len(items[j].word) - 1)) \cap about = {}

InspectsPlain ==
  /\ \A items \in TallyingLists \cup {<<i>> : i \in ReplacingItems} \cup UNION {{b[1], b[2]} : b \in SeriesLists} :
       /\ \A k \in 1..Len(items) : OneOfEach(items[k].marks)
       /\ \A text \in [1..LineWidth -> Char] : Undisturbed(text, items)
  /\ \A c \in Conversions :
       OneOfEach(c.marks) /\ \A j, k \in 1..Len(c.from) : c.from[j] = c.from[k] => j = k

(* Whatever items a line or a literal is moved through, each receives what *)
(* MOVE defines for the two categories: characters from the left, or from  *)
(* the right if JUSTIFIED, numbers aligned at the decimal point with the   *)
(* digits and the sign that it has places for, and the plain characters    *)
(* from and to groups (emit_move_to and the conversions it calls).         *)
MovedAsDefined == phase = "moved" => HeldAsMeant(moved.from, moved.to, moved.held)
=============================================================================
