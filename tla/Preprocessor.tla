---------------------------- MODULE Preprocessor ----------------------------
(* What runs before the lexer: COPY statements are replaced by the text of   *)
(* their copybooks, copybooks within copybooks too, then REPLACE is applied  *)
(* to the whole; fixed format lines become logical lines.  expand_copy calls *)
(* itself for a copybook, so its calls are a stack of frames.                *)
EXTENDS CopyText, FixedLines

LOCAL SX == INSTANCE SequencesExt
LOCAL FX == INSTANCE FiniteSetsExt

CONSTANTS
  Sources,         \* programs to preprocess: [text, files, unreadable]
  SearchPaths,     \* directories in the order they are searched
  MaxCopyDepth,    \* the 64 of max_copy_depth
  LineSources      \* fixed format lines and the text they spell: [lines, debugging, text]

VARIABLES
  job,        \* the program being preprocessed
  frames,     \* the running calls of expand_copy, the program's own first
  included,   \* include_stack: the files being expanded
  notes,      \* diagnostics reported, in order
  stage,      \* "copying" or "lines", then "done"
  out         \* the text, or the lines, preprocessing ended with
vars == <<job, frames, included, notes, stage, out>>

Main == <<"main", <<>>, <<>>>>
Top == SX!Last(frames)
Rest == SX!Front(frames)

(* A copybook is looked for in every search path's directory of its library, *)
(* then, whatever the library, in the search paths themselves.               *)
Candidates(book, library) ==
  LET in(lib) == [i \in DOMAIN SearchPaths |-> <<SearchPaths[i], lib, book>>]
  IN  in(library) \o (IF library = <<>> THEN <<>> ELSE in(<<>>))
Resolve(files, book, library) ==
  SelectSeq(Candidates(book, library), LAMBDA f : f \in DOMAIN files)

(* Non-conforming source manipulation is warned of once per statement of the *)
(* program's own text.                                                       *)
Warnings(text) ==
  [i \in 1..(Len(ScanCopyStatements(text)) + Len(ScanReplaceDirectives(text))) |-> "W001"]

(* A call of expand_copy: the statements it found and what it has so far. *)
Frame(file, text, depth) ==
  [file |-> file, text |-> text, result |-> <<>>, last |-> 1,
   statements |-> IF depth > MaxCopyDepth THEN <<>> ELSE ScanCopyStatements(text)]
TooDeep(depth) == IF depth > MaxCopyDepth THEN <<"PP001">> ELSE <<>>

-----------------------------------------------------------------------------
Statement == Head(Top.statements)
Found == Resolve(job.files, Statement.book, Statement.library)
File == Found[1]

(* The caller's frame when the statement has been dealt with. *)
Passed(text) ==
  [Top EXCEPT !.result = @ \o Cut(Top.text, Top.last, Statement.start) \o text,
              !.last = Statement.end, !.statements = Tail(@)]
Drop(code) ==
  /\ frames' = Append(Rest, Passed(<<>>))
  /\ notes' = Append(notes, code)
  /\ UNCHANGED <<job, included, stage, out>>

Copying == stage = "copying" /\ Top.statements # <<>>
NotFound == Copying /\ Found = <<>> /\ Drop("PP004")
Circular == Copying /\ Found # <<>> /\ File \in included /\ Drop("PP002")
CannotRead ==
  /\ Copying /\ Found # <<>> /\ File \notin included /\ File \in job.unreadable
  /\ Drop("PP003")

(* The copybook's own text is replaced first, then searched for copybooks. *)
Include ==
  /\ Copying /\ Found # <<>>
  /\ File \notin included /\ File \notin job.unreadable
  /\ frames' = Append(frames, Frame(File, ApplyReplacing(job.files[File], Statement.pairs), Len(frames)))
  /\ included' = included \cup {File}
  /\ notes' = notes \o TooDeep(Len(frames))
  /\ UNCHANGED <<job, stage, out>>

Expanded(frame) == frame.result \o Cut(frame.text, frame.last, Len(frame.text) + 1)
(* A call ends: its text stands for the statement that called it. *)
Return ==
  /\ stage = "copying" /\ Top.statements = <<>> /\ Len(frames) > 1
  /\ LET caller == SX!Last(Rest)
         statement == Head(caller.statements)
     IN  frames' = Append(SX!Front(Rest),
           [caller EXCEPT !.result = @ \o Cut(caller.text, caller.last, statement.start) \o Expanded(Top),
                          !.last = statement.end, !.statements = Tail(@)])
  /\ included' = included \ {Top.file}
  /\ UNCHANGED <<job, notes, stage, out>>

(* REPLACE is applied when the program's own call has ended. *)
Replace ==
  /\ stage = "copying" /\ Top.statements = <<>> /\ Len(frames) = 1
  /\ stage' = "done"
  /\ out' = ApplyReplace(Expanded(Top))
  /\ UNCHANGED <<job, frames, included, notes>>

(* The lines of a fixed format source: wrapped at the margin, then joined. *)
NormalizeLines ==
  /\ stage = "lines"
  /\ stage' = "done"
  /\ out' = NormalizeFixedFormatSource(ReflowFixedFormatSource(FilterInactiveDebugLines(job.lines, job.debugging)))
  /\ UNCHANGED <<job, frames, included, notes>>

InitCopying ==
  /\ job \in Sources
  /\ frames = <<Frame(Main, job.text, 0)>>
  /\ notes = Warnings(job.text)
  /\ stage = "copying"
InitLines ==
  /\ job \in LineSources
  /\ frames = <<>> /\ notes = <<>>
  /\ stage = "lines"
Init == included = {Main} /\ out = <<>> /\ (InitCopying \/ InitLines)
Step == NotFound \/ Circular \/ CannotRead \/ Include \/ Return \/ Replace \/ NormalizeLines
Done == stage = "done" /\ UNCHANGED vars
Next == Step \/ Done
Spec == Init /\ [][Next]_vars

-----------------------------------------------------------------------------
(* What the rules of COBOL say, on text-words read from left to right: a     *)
(* word knows whether white space stands before it.                          *)
RECURSIVE WordsFrom(_, _, _)
WordsFrom(t, p, gap) ==
  LET literal == FX!Min({i \in (p + 1)..Len(t) : t[i] = "'"} \cup {Len(t)}) + 1
      word == Behind(t, p, {c \in SX!ToSet(t) : IsWordChar(c)})
      end == IF t[p] = "'" THEN literal ELSE IF IsWordChar(t[p]) THEN word ELSE p + 1
  IN  IF p > Len(t) THEN <<>>
      ELSE IF t[p] \in {"NL*", "*>"} THEN WordsFrom(t, Find(t, p + 1, LineEnds), TRUE)
      ELSE IF t[p] = "NL-" THEN WordsFrom(t, Behind(t, p + 1, {" "}), FALSE)
      ELSE IF t[p] \in Spaces THEN WordsFrom(t, p + 1, TRUE)
      ELSE <<[gap |-> gap, text |-> Cut(t, p, end)]>> \o WordsFrom(t, end, FALSE)
Words(t) == WordsFrom(t, 1, TRUE)
Spelled(words) ==
  SX!FlattenSeq([i \in DOMAIN words |-> (IF words[i].gap THEN <<" ">> ELSE <<>>) \o words[i].text])
Is(words, c) == words # <<>> /\ Head(words).text = <<c>>
Skip(words, c) == IF Is(words, c) THEN Tail(words) ELSE words

(* An operand of REPLACING and the words behind it. *)
Operand(words) ==
  IF Is(words, "==")
  THEN LET end == FX!Min({i \in 2..Len(words) : words[i].text = <<"==">>})
       IN  [words |-> SubSeq(words, 2, end - 1), rest |-> SubSeq(words, end + 1, Len(words))]
  ELSE LET end == FX!Max({n \in {1, 3} : n = 1 \/ (Len(words) >= n /\ words[2].text = <<"OF">>)})
       IN  [words |-> SubSeq(words, 1, end), rest |-> SubSeq(words, end + 1, Len(words))]
RECURSIVE PairsOf(_, _)
PairsOf(words, pairs) ==
  LET old == Operand(words)
      new == Operand(Tail(old.rest))
  IN  IF words = <<>> \/ Is(words, ".") THEN [pairs |-> pairs, rest |-> Skip(words, ".")]
      ELSE PairsOf(new.rest, Append(pairs, [old |-> old.words, new |-> new.words]))

Matches(words, old) ==
  old # <<>> /\ Len(old) <= Len(words) /\ \A i \in DOMAIN old : words[i].text = old[i].text
(* The first pair that matches where the reading stands replaces; what it    *)
(* puts there is not read again.                                             *)
RECURSIVE Substituted(_, _)
Substituted(words, pairs) ==
  LET which == {i \in DOMAIN pairs : Matches(words, pairs[i].old)}
      pair == pairs[FX!Min(which)]
      new == [i \in DOMAIN pair.new |-> IF i = 1 THEN [pair.new[1] EXCEPT !.gap = words[1].gap] ELSE pair.new[i]]
  IN  IF words = <<>> THEN <<>>
      ELSE IF which = {} THEN <<Head(words)>> \o Substituted(Tail(words), pairs)
      ELSE new \o Substituted(SubSeq(words, Len(pair.old) + 1, Len(words)), pairs)

(* A program's words with its copybooks in, and what is reported on the way. *)
RECURSIVE WithCopybooks(_, _, _, _)
WithCopybooks(words, files, unreadable, chain) ==
  LET named == words[2].text
      of == Len(words) >= 4 /\ words[3].text = <<"OF">>
      behind == SubSeq(words, IF of THEN 5 ELSE 3, Len(words))
      clause == IF Is(behind, "REPLACING") THEN PairsOf(Tail(behind), <<>>) ELSE [pairs |-> <<>>, rest |-> Skip(behind, ".")]
      file == Resolve(files, named, IF of THEN words[4].text ELSE <<>>)
      code == IF file = <<>> THEN "PP004" ELSE IF file[1] \in SX!ToSet(chain) THEN "PP002"
              ELSE IF file[1] \in unreadable THEN "PP003" ELSE "none"
      copied == Substituted(Words(files[file[1]]), clause.pairs)
      deep == Len(chain) > MaxCopyDepth
      inner == IF code # "none" THEN [words |-> <<>>, notes |-> <<code>>]
               ELSE IF deep THEN [words |-> copied, notes |-> <<"PP001">>]
               ELSE WithCopybooks(copied, files, unreadable, Append(chain, file[1]))
      rest == WithCopybooks(clause.rest, files, unreadable, chain)
      others == WithCopybooks(Tail(words), files, unreadable, chain)
  IN  IF words = <<>> THEN [words |-> <<>>, notes |-> <<>>]
      ELSE IF Is(words, "COPY") THEN [words |-> inner.words \o rest.words, notes |-> inner.notes \o rest.notes]
      ELSE [words |-> <<Head(words)>> \o others.words, notes |-> others.notes]

RECURSIVE WithReplaced(_, _)
WithReplaced(words, pairs) ==
  LET next == FX!Min({i \in DOMAIN words : words[i].text = <<"REPLACE">>} \cup {Len(words) + 1})
      directive == SubSeq(words, next + 1, Len(words))
      clause == IF Is(directive, "OFF") THEN [pairs |-> <<>>, rest |-> Skip(Tail(directive), ".")]
                ELSE PairsOf(directive, <<>>)
  IN  Substituted(SubSeq(words, 1, next - 1), pairs)
        \o (IF next > Len(words) THEN <<>> ELSE WithReplaced(clause.rest, clause.pairs))

ManipulationsIn(words) == {i \in DOMAIN words : words[i].text \in {<<"COPY">>, <<"REPLACE">>}}
Reported(words) == [i \in 1..Cardinality(ManipulationsIn(words)) |-> "W001"]

(* Preprocessing ends with the program its COPY and REPLACE statements       *)
(* describe: every copybook stands where it is named and under its own       *)
(* REPLACING only, a circle of copybooks is cut where it closes, a REPLACE   *)
(* reaches from its period to the next one through the text of copybooks,    *)
(* comments and literals name no copybook; and every copybook left out is    *)
(* reported once, in the order met.                                          *)
TextAsDefined ==
  stage = "done" /\ frames # <<>> =>
    LET words == Words(job.text)
        copied == WithCopybooks(words, job.files, job.unreadable, <<Main>>)
    IN  /\ Spelled(Words(out)) = Spelled(WithReplaced(copied.words, <<>>))
        /\ notes = Reported(words) \o copied.notes

(* The logical lines of a fixed format source spell the text its author      *)
(* carried over the right margin: words, literals and doubled quotes cut     *)
(* anywhere are whole again, and lines grown too long lose nothing.          *)
LinesKept == stage = "done" /\ frames = <<>> => out = job.text
=============================================================================
