------------------------------ MODULE CopyText ------------------------------
(* The scanner and the replacer of the preprocessor, on source text as a     *)
(* sequence of symbols: a separator, or a piece of a COBOL word, of which    *)
(* the keywords are whole pieces.  "NL" ends a line; in the fixed format     *)
(* "NL-" and "NL*" do, before a continuation line and before a comment.      *)
(* "*>" begins a comment; "@1".. are the placeholders of replaced text.  A   *)
(* parser returns the value it read and the position behind it, in a         *)
(* sequence that is empty when it read none.                                 *)
EXTENDS Naturals, Sequences, FiniteSets

LOCAL SX == INSTANCE SequencesExt
LOCAL FX == INSTANCE FiniteSetsExt

LineEnds == {"NL", "NL-", "NL*"}
Spaces == {" "} \cup LineEnds
Placeholders == <<"@1", "@2", "@3">>
Separators ==
  Spaces \cup {".", ",", "(", ")", ":", "'", "==", "*>"} \cup {Placeholders[i] : i \in DOMAIN Placeholders}
IsWordChar(c) == c \notin Separators
Digits == {"1", "2"}

Cut(t, from, to) == SubSeq(t, from, to - 1)
At(t, p, c) == p >= 1 /\ p <= Len(t) /\ t[p] = c
WordAt(t, p) == p >= 1 /\ p <= Len(t) /\ IsWordChar(t[p])
BoundaryBehind(t, p) == ~WordAt(t, p)
IsWordBoundary(t, start, end) == ~WordAt(t, start - 1) /\ ~WordAt(t, end)
KeywordAt(t, p, k) == At(t, p, k) /\ BoundaryBehind(t, p + 1)

(* The first position from p on outside a set of symbols, or in it. *)
Behind(t, p, chars) == FX!Min({i \in p..Len(t) : t[i] \notin chars} \cup {Len(t) + 1})
Find(t, p, chars) == FX!Min({i \in p..Len(t) : t[i] \in chars} \cup {Len(t) + 1})
LineStart(t, p) == FX!Max({i \in 1..(p - 1) : t[i] \in LineEnds} \cup {0}) + 1

IsInCommentLine(t, p) ==
  At(t, LineStart(t, p) - 1, "NL*") \/ At(t, Behind(t, LineStart(t, p), {" "}), "*>")
IsInStringLiteral(t, p) ==
  Cardinality({i \in LineStart(t, p)..(p - 1) : t[i] = "'"}) % 2 = 1
FindKeyword(t, p, keyword) ==
  {i \in p..Len(t) : /\ t[i] = keyword
                     /\ ~IsInCommentLine(t, i)
                     /\ ~IsInStringLiteral(t, i)}

(* White space takes whole comment lines with it. *)
RECURSIVE SkipWhitespace(_, _)
SkipWhitespace(t, p) ==
  LET q == Behind(t, p, Spaces \ {"NL*"})
  IN  IF At(t, q, "NL*") THEN SkipWhitespace(t, Find(t, q + 1, LineEnds)) ELSE q

-----------------------------------------------------------------------------
Read(text, next) == <<[text |-> text, next |-> next]>>
Nothing == <<>>
Then(read, Next(_)) == IF read = Nothing THEN Nothing ELSE Next(read[1])
UpTo(t, p, end) == Read(Cut(t, p, end), end)

(* A word; the fixed format carries one over to a continuation line. *)
RECURSIVE ParseCobolWord(_, _)
ParseCobolWord(t, p) ==
  LET end == Find(t, p, Separators)
      rest == Behind(t, end + 1, {" "})
  IN  IF ~WordAt(t, p) THEN Nothing
      ELSE IF At(t, end, "NL-") /\ WordAt(t, rest)
      THEN Then(ParseCobolWord(t, rest), LAMBDA more : Read(Cut(t, p, end) \o more.text, more.next))
      ELSE UpTo(t, p, end)

ParseStringLiteral(t, p) ==
  LET closing == {i \in (p + 1)..Len(t) : /\ t[i] = "'" /\ ~At(t, i + 1, "'")
                                          /\ Cardinality({j \in p..i : t[j] = "'"}) % 2 = 0}
  IN  IF closing = {} THEN Nothing ELSE UpTo(t, p, FX!Min(closing) + 1)

(* A sign, digits, and a decimal point only with digits behind it: the       *)
(* period that ends the statement is not one.                                *)
ParseNumericLiteral(t, p) ==
  LET first == IF t[p] \in {"+", "-"} THEN p + 1 ELSE p
      whole == Behind(t, first, Digits)
      end == IF At(t, whole, ".") /\ whole + 1 <= Len(t) /\ t[whole + 1] \in Digits
             THEN Behind(t, whole + 1, Digits) ELSE whole
  IN  IF whole = first THEN Nothing ELSE UpTo(t, p, end)
StartsNumber(t, p) ==
  p <= Len(t) /\ (t[p] \in Digits \/ (t[p] \in {"+", "-"} /\ p + 1 <= Len(t) /\ t[p + 1] \in Digits))

(* The quote that opens the rest of a literal on a continuation line. *)
Reopened(t, i) ==
  LET s == LineStart(t, i)
  IN  At(t, i, "'") /\ At(t, s - 1, "NL-") /\ Behind(t, s, {" "}) = i

(* The text between two ==, the prefixes of its fixed format lines left out. *)
Visible(inner) ==
  LET kept == {i \in DOMAIN inner : ~Reopened(inner, i)}
  IN  [n \in 1..Cardinality(kept) |->
         LET i == CHOOSE k \in kept : Cardinality({j \in kept : j <= k}) = n
         IN  IF inner[i] \in LineEnds THEN "NL" ELSE inner[i]]
PseudoTextUpTo(t, p, end) ==
  IF end > Len(t) THEN Nothing ELSE Read(Visible(Cut(t, p + 1, end)), end + 1)
ParsePseudoText(t, p) == PseudoTextUpTo(t, p, Find(t, p + 1, {"=="}))

FindClosingParen(t, p) ==
  {i \in p..Len(t) : t[i] = ")" /\ Cardinality({j \in p..i : t[j] = "("}) = Cardinality({j \in p..i : t[j] = ")"})}

(* A word with its subscripts and qualifiers: the end of what was read. *)
ParseSubscripts(t, p) ==
  LET closing == FindClosingParen(t, p)
  IN  IF closing = {} THEN Nothing ELSE UpTo(t, p, FX!Min(closing) + 1)
ParseQualifier(t, p) ==
  IF At(t, p, "(") THEN ParseSubscripts(t, p)
  ELSE IF KeywordAt(t, p, "OF") THEN ParseCobolWord(t, SkipWhitespace(t, p + 1))
  ELSE Nothing
RECURSIVE QualifiedEnd(_, _), QualifiedBy(_, _, _)
QualifiedBy(t, end, qualifier) == IF qualifier = Nothing THEN end ELSE QualifiedEnd(t, qualifier[1].next)
QualifiedEnd(t, end) == QualifiedBy(t, end, ParseQualifier(t, SkipWhitespace(t, end)))
ParseQualifiedWord(t, p) ==
  Then(ParseCobolWord(t, p), LAMBDA word : UpTo(t, p, QualifiedEnd(t, word.next)))

(* An operand: a pseudo-text, a literal, or what words the clause allows.    *)
ParseOperand(t, p, ParseWords(_, _)) ==
  IF At(t, p, "==") THEN ParsePseudoText(t, p)
  ELSE IF At(t, p, "'") THEN ParseStringLiteral(t, p)
  ELSE IF StartsNumber(t, p) THEN ParseNumericLiteral(t, p)
  ELSE ParseWords(t, p)
StartsReplacePair(t, p) ==
  Then(ParseOperand(t, p, ParseQualifiedWord),
       LAMBDA operand : IF operand.text # <<>> /\ KeywordAt(t, SkipWhitespace(t, operand.next), "BY")
                        THEN Read(operand.text, operand.next) ELSE Nothing) # Nothing

(* What stands for a pseudo-text when no == does: everything to the period   *)
(* or to the next pair.                                                      *)
EndsTextWords(t, p, i) ==
  \/ t[i] = "."
  \/ (i > p \/ t[i] \in Spaces) /\ StartsReplacePair(t, IF t[i] \in Spaces THEN SkipWhitespace(t, i) ELSE i)
TextWordsUpTo(t, p, end) ==
  LET last == FX!Max({i \in p..(end - 1) : t[i] \notin Spaces} \cup {p - 1})
      next == IF end <= Len(t) /\ t[end] \in Spaces THEN SkipWhitespace(t, end) ELSE end
  IN  IF last < p /\ ~At(t, end, ".") THEN Nothing ELSE Read(Cut(t, p, last + 1), next)
ParseTextWordsUntilPeriod(t, p) ==
  TextWordsUpTo(t, p, FX!Min({i \in p..Len(t) : /\ Cardinality({j \in p..(i - 1) : t[j] = "'"}) % 2 = 0
                                                 /\ EndsTextWords(t, p, i)} \cup {Len(t) + 1}))

ParseOld(t, p) ==
  IF At(t, p, "==") THEN ParsePseudoText(t, p)
  ELSE IF At(t, p, "'") THEN ParseStringLiteral(t, p)
  ELSE ParseCobolWord(t, p)
ParseNew(t, p, pseudo) ==
  IF pseudo THEN ParseOperand(t, p, ParseTextWordsUntilPeriod) ELSE ParseOperand(t, p, ParseQualifiedWord)
ByNew(t, old, by, pseudo) ==
  IF ~KeywordAt(t, by, "BY") THEN Nothing
  ELSE Then(ParseNew(t, SkipWhitespace(t, by + 1), pseudo),
            LAMBDA new : <<[old |-> old.text, new |-> new.text, pseudo |-> pseudo, next |-> new.next]>>)
ParseReplacePair(t, p) ==
  Then(ParseOld(t, p), LAMBDA old : ByNew(t, old, SkipWhitespace(t, old.next), At(t, p, "==")))

(* The pairs from p on and the position behind them. *)
RECURSIVE ParsePairs(_, _, _), PairsBehind(_, _, _, _)
PairsBehind(t, p, pairs, pair) ==
  IF pair = Nothing THEN [pairs |-> pairs, next |-> p]
  ELSE ParsePairs(t, SkipWhitespace(t, pair[1].next), Append(pairs, pair[1]))
ParsePairs(t, p, pairs) ==
  PairsBehind(t, p, pairs, IF p > Len(t) \/ At(t, p, ".") THEN Nothing ELSE ParseReplacePair(t, p))
BehindPeriod(t, p) == IF At(t, p, ".") THEN p + 1 ELSE p

(* COPY, a name, OF and a library, and the pairs of REPLACING.               *)
ParseLibrary(t, p) ==
  IF At(t, p, "OF") /\ p < Len(t) /\ t[p + 1] \in Spaces
  THEN ParseCobolWord(t, SkipWhitespace(t, p + 1)) ELSE Nothing
ParseReplacing(t, p) ==
  IF KeywordAt(t, p, "REPLACING") THEN ParsePairs(t, SkipWhitespace(t, p + 1), <<>>)
  ELSE [pairs |-> <<>>, next |-> p]
CopyStatement(t, start, book, library, clause) ==
  <<[start |-> start, end |-> BehindPeriod(t, clause.next), book |-> book, library |-> library,
     pairs |-> clause.pairs]>>
CopyFrom(t, start, book, p, library) ==
  IF library = Nothing THEN CopyStatement(t, start, book, <<>>, ParseReplacing(t, p))
  ELSE CopyStatement(t, start, book, library[1].text, ParseReplacing(t, SkipWhitespace(t, library[1].next)))
CopyNamed(t, start, book, p) == CopyFrom(t, start, book, p, ParseLibrary(t, p))
ParseCopyStatement(t, start) ==
  Then(ParseCobolWord(t, SkipWhitespace(t, start + 1)),
       LAMBDA name : CopyNamed(t, start, name.text, SkipWhitespace(t, name.next)))

ParseReplaceClause(t, p) ==
  IF KeywordAt(t, p, "OFF") THEN [pairs |-> <<>>, next |-> SkipWhitespace(t, p + 1)] ELSE ParsePairs(t, p, <<>>)
ReplaceWith(t, start, p, clause) ==
  IF ~KeywordAt(t, p, "OFF") /\ clause.pairs = <<>> THEN Nothing
  ELSE <<[start |-> start, end |-> BehindPeriod(t, clause.next), pairs |-> clause.pairs]>>
ReplaceAt(t, start, p) == IF p > Len(t) THEN Nothing ELSE ReplaceWith(t, start, p, ParseReplaceClause(t, p))
ParseReplaceDirective(t, start) == ReplaceAt(t, start, SkipWhitespace(t, start + 1))

(* The statements from p on that begin with the keyword. *)
ScanAt(t, start, keyword) ==
  IF start = Len(t) \/ ~IsWordBoundary(t, start, start + 1) THEN Nothing
  ELSE IF keyword = "COPY" THEN ParseCopyStatement(t, start)
  ELSE ParseReplaceDirective(t, start)
RECURSIVE Scan(_, _, _), ScanBehind(_, _, _, _)
ScanBehind(t, start, keyword, statement) ==
  statement \o Scan(t, IF statement = Nothing THEN start + 1 ELSE statement[1].end, keyword)
Scan(t, p, keyword) ==
  LET found == FindKeyword(t, p, keyword)
      start == FX!Min(found)
  IN  IF found = {} THEN <<>> ELSE ScanBehind(t, start, keyword, ScanAt(t, start, keyword))
ScanCopyStatements(t) == Scan(t, 1, "COPY")
ScanReplaceDirectives(t) == Scan(t, 1, "REPLACE")

-----------------------------------------------------------------------------
Splice(t, start, end, new) == Cut(t, 1, start) \o new \o Cut(t, end, Len(t) + 1)

(* Text as the matching of pseudo-text sees it: one blank for any run of     *)
(* white space, none at either end; with the place each symbol stands at.    *)
(* A line end is white space in the text searched, none in a pattern; a      *)
(* continuation line goes on where its line ended, and so does any line when *)
(* fragments are joined.                                                     *)
Normalized(t, mode) ==
  LET blanks == {" "} \cup (IF mode.canonical THEN {","} ELSE {})
      step(acc, i) ==
        LET c == t[i]
        IN  IF c = "NL*" THEN [acc EXCEPT !.comment = TRUE]
            ELSE IF acc.comment /\ c \notin LineEnds THEN acc
            ELSE IF c = "NL-" THEN [acc EXCEPT !.pending = FALSE, !.suppress = TRUE, !.comment = FALSE]
            ELSE IF c = "NL" THEN [acc EXCEPT !.pending = (@ \/ mode.lines) /\ acc.text # <<>>,
                                              !.suppress = mode.joined /\ acc.text # <<>>, !.comment = FALSE]
            ELSE IF Reopened(t, i) THEN acc
            ELSE IF c \in blanks THEN [acc EXCEPT !.pending = @ \/ ~acc.suppress]
            ELSE LET gap == acc.pending /\ acc.text # <<>>
                 IN  [text |-> acc.text \o (IF gap THEN <<" ">> ELSE <<>>) \o <<c>>,
                      map |-> acc.map \o (IF gap THEN <<i>> ELSE <<>>) \o <<i>>,
                      pending |-> FALSE, suppress |-> FALSE, comment |-> FALSE]
  IN  SX!FoldLeft(step, [text |-> <<>>, map |-> <<>>, pending |-> FALSE, suppress |-> FALSE, comment |-> FALSE],
                  [i \in 1..Len(t) |-> i])
NormalizeForMatching(t) == Normalized(t, [lines |-> TRUE, joined |-> FALSE, canonical |-> TRUE])
NormalizePattern(t, joined) == Normalized(t, [lines |-> FALSE, joined |-> joined, canonical |-> TRUE]).text
NormalizePseudoText(t, joined) == Normalized(t, [lines |-> FALSE, joined |-> joined, canonical |-> FALSE]).text
(* Joining the fragments of lines wins when it changes anything. *)
PreferredPseudoReplacement(new) == NormalizePseudoText(new, TRUE)

Occurrences(t, pattern, wholeWords) ==
  {i \in 1..(Len(t) - Len(pattern) + 1) :
     /\ Cut(t, i, i + Len(pattern)) = pattern
     /\ wholeWords => IsWordBoundary(t, i, i + Len(pattern))}

RECURSIVE ReplaceWholeWord(_, _, _)
ReplaceWholeWord(t, old, new) ==
  LET found == Occurrences(t, old, TRUE)
  IN  IF old = <<>> \/ found = {} THEN t
      ELSE ReplaceWholeWord(Splice(t, FX!Min(found), FX!Min(found) + Len(old), new), old, new)

IsSingleCobolToken(pattern) == \A i \in DOMAIN pattern : IsWordChar(pattern[i])
RECURSIVE ReplacePseudoText(_, _, _)
ReplacePseudoText(t, old, new) ==
  LET seen == NormalizeForMatching(t)
      written == NormalizePattern(old, FALSE)
      joined == NormalizePattern(old, TRUE)
      whole == IsSingleCobolToken(written)
      pattern == IF Occurrences(seen.text, written, whole) # {} THEN written ELSE joined
      found == Occurrences(seen.text, pattern, whole)
      start == FX!Min(found)
  IN  IF written = <<>> \/ found = {} THEN t
      ELSE ReplacePseudoText(Splice(t, seen.map[start], seen.map[start + Len(pattern) - 1] + 1, new), old, new)

(* Variant for a mutant: a pair puts its text where a later pair sees it. *)
ApplyReplacingInTurn(t, pairs) ==
  LET put(acc, i) == IF pairs[i].pseudo THEN ReplacePseudoText(acc, pairs[i].old, PreferredPseudoReplacement(pairs[i].new))
                     ELSE ReplaceWholeWord(acc, pairs[i].old, pairs[i].new)
  IN  IF \E i \in DOMAIN pairs : Occurrences(pairs[i].new, pairs[i].old, FALSE) # {} THEN t
      ELSE SX!FoldLeft(put, t, [i \in DOMAIN pairs |-> i])
(* Each pair in turn puts its placeholder for what it replaces, so that no   *)
(* pair sees the text another one put in.                                    *)
ApplyReplacing(t, pairs) ==
  LET place(acc, i) == IF pairs[i].pseudo THEN ReplacePseudoText(acc, pairs[i].old, <<Placeholders[i]>>)
                       ELSE ReplaceWholeWord(acc, pairs[i].old, <<Placeholders[i]>>)
      marked == SX!FoldLeft(place, t, [i \in DOMAIN pairs |-> i])
      text(c) == LET of == {i \in DOMAIN pairs : Placeholders[i] = c}
                 IN  IF of = {} THEN <<c>>
                     ELSE LET i == CHOOSE i \in of : TRUE
                          IN  IF pairs[i].pseudo THEN PreferredPseudoReplacement(pairs[i].new) ELSE pairs[i].new
  IN  SX!FlattenSeq([i \in DOMAIN marked |-> text(marked[i])])

(* A REPLACE is in force from its period to the next REPLACE or REPLACE OFF. *)
InForce(t, directives, n) ==
  LET from == IF n = 0 THEN 1 ELSE directives[n].end
      to == IF n = Len(directives) THEN Len(t) + 1 ELSE directives[n + 1].start
  IN  ApplyReplacing(Cut(t, from, to), IF n = 0 THEN <<>> ELSE directives[n].pairs)
ReplaceBy(t, directives) ==
  SX!FlattenSeq([k \in 1..(Len(directives) + 1) |-> InForce(t, directives, k - 1)])
ApplyReplace(t) == ReplaceBy(t, ScanReplaceDirectives(t))
=============================================================================
