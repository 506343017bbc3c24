----------------------------- MODULE FixedLines -----------------------------
(* The fixed format of the preprocessor: a line is an indicator and the      *)
(* characters of its columns 8 to 72.  Lines that grew past the right margin *)
(* are wrapped into continuation lines and continuation lines are joined     *)
(* into logical lines, a literal of either quote carried over the margin.    *)
EXTENDS Naturals, Sequences, FiniteSets

CONSTANT ContentWidth    \* the 65 columns from 8 to 72
ASSUME ContentWidthAssumption == ContentWidth \in Nat /\ ContentWidth >= 4

LOCAL SX == INSTANCE SequencesExt
LOCAL FX == INSTANCE FiniteSetsExt

Quotes == {"'", "\""}
Blank == " "

Prefix(text, n) == SubSeq(text, 1, n)
From(text, n) == SubSeq(text, n + 1, Len(text))

(* The characters of a set a text begins, or ends, with. *)
Leading(text, chars) ==
  FX!Max({n \in 0..Len(text) : \A i \in 1..n : text[i] \in chars})
TrimStart(text) == From(text, Leading(text, {Blank}))
TrimEnd(text) == SX!Reverse(TrimStart(SX!Reverse(text)))

(* The quote of the literal a text ends in, or none: a doubled quote inside  *)
(* a literal of its own kind opens none.                                     *)
OpenQuote(text) ==
  SX!FoldLeft(LAMBDA q, c : IF q = c THEN "none" ELSE IF q = "none" /\ c \in Quotes THEN c ELSE q,
              "none", text)

(* Variant for a mutant: a text ends outside a literal only behind a quote. *)
EndsInsideStringUnlessQuote(text, quote) == text # <<>> /\ text[Len(text)] # quote
EndsInsideString(text, quote) ==
  Cardinality({i \in DOMAIN text : text[i] = quote}) % 2 = 1

NormalizeIndicator(c) ==
  CASE c \in {"T"} -> " " [] c \in {"U"} -> "*" [] c \in {" ", "*", "/", "-", "D", "$"} -> c [] OTHER -> "*"
CommentIndicators == {"*", "/"}

(* Lines of a program without DEBUGGING MODE: its debugging lines left out. *)
FilterInactiveDebugLines(lines, debugging) ==
  IF debugging THEN lines ELSE SelectSeq(lines, LAMBDA l : l.indicator \notin {"D", "U"})

-----------------------------------------------------------------------------
(* The quote of the literal a split would cut, or none: a doubled quote is   *)
(* read as one even when the split lies between its two.                     *)
QuoteCharAtSplit(text, split) ==
  LET doubled == /\ 0 < split /\ split < Len(text)
                 /\ text[split] \in Quotes /\ text[split + 1] = text[split]
                 /\ OpenQuote(Prefix(text, split - 1)) = text[split]
  IN  OpenQuote(Prefix(text, IF doubled THEN split + 1 ELSE split))

(* Where a text longer than a line is split: at its last blank outside a     *)
(* literal, at the margin when it has none, and inside a literal at a place  *)
(* a doubled quote is not cut in two.                                        *)
ChooseFixedSplit(text, limit) ==
  LET quote == QuoteCharAtSplit(text, limit)
      blanks == {i \in 1..limit : text[i] = Blank /\ OpenQuote(Prefix(text, i)) = "none"}
  IN  IF quote = "none"
      THEN LET last == IF blanks = {} THEN 0 ELSE FX!Max(blanks) - 1
           IN  IF last > 0 THEN last ELSE limit
      ELSE LET inside == {i \in 1..limit : EndsInsideString(Prefix(text, i), quote)}
           IN  IF inside = {} THEN 1 ELSE FX!Max(inside)

(* The run of quotes a last continuation line begins with is closed when a   *)
(* blank follows it: the literal ended on the line before.                   *)
CloseContinuedQuoteRun(chunk) ==
  LET quote == Head(chunk)
      run == Leading(chunk, {quote})
  IN  IF \/ chunk = <<>> \/ Head(chunk) \notin Quotes
         \/ run >= Len(chunk) \/ chunk[run + 1] # Blank \/ (run - 1) % 2 = 1
      THEN chunk
      ELSE Prefix(chunk, run) \o <<quote>> \o From(chunk, run)

RECURSIVE Wrapped(_, _, _)
Wrapped(remaining, indicator, first) ==
  LET limit == IF first THEN ContentWidth ELSE ContentWidth - 1
      final == Len(remaining) <= limit
      chosen == IF final THEN Len(remaining) ELSE ChooseFixedSplit(remaining, limit)
      quote == IF chosen < Len(remaining) THEN QuoteCharAtSplit(remaining, chosen) ELSE "none"
      take == IF quote # "none" /\ chosen = limit THEN chosen - 1 ELSE chosen
      mark == IF quote = "none" THEN <<>> ELSE <<quote>>
      chunk == Prefix(remaining, take)
      line == [indicator |-> IF first THEN indicator ELSE "-",
               content |-> (IF final /\ ~first THEN CloseContinuedQuoteRun(chunk) ELSE chunk) \o mark]
  IN  IF remaining = <<>> THEN <<>>
      ELSE <<line>> \o Wrapped(mark \o From(remaining, take), indicator, FALSE)

ReflowLine(line) ==
  LET indicator == NormalizeIndicator(line.indicator)
  IN  IF indicator \in CommentIndicators \/ line.content = <<>> THEN <<[line EXCEPT !.indicator = indicator]>>
      ELSE Wrapped(line.content, indicator, TRUE)
ReflowFixedFormatSource(lines) == SX!FlattenSeq([i \in DOMAIN lines |-> ReflowLine(lines[i])])

-----------------------------------------------------------------------------
(* A continuation line put behind the logical line so far. *)
AppendFixedContinuation(current, continuation) ==
  LET skip == Leading(continuation, {Blank})
      literal == skip < Len(continuation) /\ continuation[skip + 1] \in Quotes
      quote == continuation[skip + 1]
      behind == From(continuation, skip + 1)
      trimmed == TrimEnd(current)
      dropped == /\ trimmed # <<>> /\ trimmed[Len(trimmed)] = quote
                 /\ EndsInsideString(SX!Front(trimmed), quote)
      kept == CASE dropped -> SX!Front(trimmed)
                [] ~dropped /\ trimmed # <<>> /\ EndsInsideString(trimmed, quote) -> current
                [] OTHER -> trimmed \o (IF Len(current) - Len(trimmed) = 1 THEN <<Blank>> ELSE <<>>)
      again == IF dropped /\ Leading(behind, {quote}) = 1 THEN <<quote>> ELSE <<>>
      apart == IF skip = 1 /\ trimmed # <<>> /\ Len(continuation) > 1 THEN <<Blank>> ELSE <<>>
  IN  IF literal THEN kept \o again \o behind
      ELSE trimmed \o apart \o From(continuation, skip)

(* The logical lines: an empty one is not kept, a comment stands alone. *)
JoinLine(lines, line) ==
  LET indicator == NormalizeIndicator(line.indicator)
      content == [indicator |-> " ", content |-> line.content]
  IN  CASE indicator \in CommentIndicators -> Append(lines, [line EXCEPT !.indicator = "*"])
        [] indicator = "-" /\ lines # <<>> /\ SX!Last(lines).indicator # "*" ->
             Append(SX!Front(lines),
                    [content EXCEPT !.content = AppendFixedContinuation(SX!Last(lines).content, line.content)])
        [] indicator = "-" /\ ~(lines # <<>> /\ SX!Last(lines).indicator # "*") ->
             Append(lines, [content EXCEPT !.content = AppendFixedContinuation(<<>>, line.content)])
        [] OTHER -> IF line.content = <<>> THEN lines ELSE Append(lines, content)
NormalizeFixedFormatSource(lines) == SX!FoldLeft(JoinLine, <<>>, lines)
=============================================================================
