---- MODULE ProcedureText ----
(* Procedure text as a programmer writes it: statements, those with phrases
   nested in one another, each closed by its END word or by the period, and
   sentences and paragraphs of them.  tree is what cobol-parser should make of
   the text, in the notation of Parser.  After them, whole programs. *)
EXTENDS Parser, SequencesExt, FiniteSets

CONSTANTS Simple,         \* statements without phrases: the text and its tree
          Alone,          \* the same, written first and followed by one other
          Compound,       \* statements with phrases
          Whole,          \* what ends with its own period: headers, and statements
                          \* that take what comes after them as operands
          MaxStatements,  \* statements in a text
          MaxOpen,        \* statements open within one another
          MaxSentences,   \* sentences in a text, headers among them
          Damage          \* tokens that may stand in the place of another

VARIABLES text,           \* the tokens written
          tree,           \* what they should be parsed to
          open,           \* the statements open, the innermost last
          statements,     \* how many were written
          sentences       \* how many were finished
textVars == <<text, tree, open, statements, sentences>>

(* A phrase: its words and their tree, and whether it may come again.  A
   statement with phrases is its first words, its phrases in order, and its END
   word.  An open statement is one of those, the phrase it is in, and whether
   that phrase is still empty. *)
Innermost == open[Len(open)]
Within == [open EXCEPT ![Len(open)].empty = FALSE]
AtSentenceStart == text # <<>> => text[Len(text)] = "."
TextInit == text = <<>> /\ tree = <<>> /\ open = <<>> /\ statements = 0 /\ sentences = 0

MayWriteStatement ==
    /\ statements < MaxStatements /\ sentences < MaxSentences
    /\ open # <<>> => Innermost.phrase > 0

Sentenced(marks) == IF AtSentenceStart THEN <<"sentence">> \o marks ELSE marks

WriteSimple ==
    \E s \in Simple \cup Alone :
        /\ MayWriteStatement
        /\ s \in Alone => statements = 0
        /\ text' = text \o s.text
        /\ tree' = tree \o Sentenced(<<"[">> \o s.tree \o <<"]">>)
        /\ open' = IF open = <<>> THEN open ELSE Within
        /\ statements' = IF s \in Alone THEN MaxStatements - 1 ELSE statements + 1
        /\ UNCHANGED sentences

BeginCompound ==
    \E c \in Compound :
        /\ MayWriteStatement /\ Len(open) < MaxOpen
        /\ text' = text \o c.text
        /\ tree' = tree \o Sentenced(<<"[">> \o c.tree)
        /\ open' = Append(IF open = <<>> THEN open ELSE Within,
                          [statement |-> c, phrase |-> 0, empty |-> FALSE])
        /\ statements' = statements + 1
        /\ UNCHANGED sentences

Brace == IF Innermost.phrase > 0 THEN <<"}">> ELSE <<>>

BeginPhrase ==
    /\ open # <<>> /\ ~Innermost.empty
    /\ \E p \in DOMAIN Innermost.statement.phrases :
        LET phrase == Innermost.statement.phrases[p]
        IN  /\ p > Innermost.phrase \/ (p = Innermost.phrase /\ phrase.again)
            /\ Innermost.phrase = 0 => p = 1 \/ ~Innermost.statement.phrases[1].needed
            /\ text' = text \o phrase.text
            /\ tree' = tree \o Brace \o phrase.tree \o <<"{">>
            /\ open' = [open EXCEPT ![Len(open)].phrase = p, ![Len(open)].empty = TRUE]
            /\ UNCHANGED <<statements, sentences>>

Closable(frame) == frame.phrase > 0 /\ ~frame.empty

EndCompound ==
    /\ open # <<>> /\ Closable(Innermost)
    /\ text' = Append(text, Innermost.statement.end)
    /\ tree' = tree \o <<"}", "]">>
    /\ open' = SubSeq(open, 1, Len(open) - 1)
    /\ UNCHANGED <<statements, sentences>>

WriteWholeSentence ==
    \E h \in Whole :
        /\ AtSentenceStart /\ sentences < MaxSentences
        /\ text' = text \o h.text
        /\ tree' = tree \o h.tree
        /\ sentences' = sentences + 1
        /\ UNCHANGED <<open, statements>>

(* The period ends every open statement. *)
EndSentence ==
    /\ ~AtSentenceStart
    /\ open # <<>> => Closable(Innermost)
    /\ text' = Append(text, ".")
    /\ tree' = tree \o FlattenSeq([i \in DOMAIN open |-> <<"}", "]">>])
    /\ open' = <<>>
    /\ sentences' = sentences + 1
    /\ UNCHANGED statements

-----------------------------------------------------------------------------
Body_(ts) == Parse(<<ProcedureBody>>, ts \o <<"eof">>)
Finished == text # <<>> /\ AtSentenceStart

ReadTo(length, marks, t) == ~t.err /\ t.at = length + 1 /\ t.out = marks

(* A text that is complete is parsed to what was written: every phrase belongs
   to the statement it was written in, every END word and period ends what it
   was written to end, and no statement takes the words of the next one
   (parse_procedure_body down to every parse_X_statement). *)
ParsedAsWritten == Finished => ReadTo(Len(text), tree, Body_(text))

(* The text with one token of its first sentence lost, or replaced. *)
Lost(i) == SubSeq(text, 1, i - 1) \o SubSeq(text, i + 1, Len(text))
Replaced(i, token) == [text EXCEPT ![i] = token]
FirstEnd == CHOOSE i \in DOMAIN text : text[i] = "." /\ \A j \in 1..(i - 1) : text[j] # "."
Damaged == {Lost(i) : i \in 1..(FirstEnd - 1)}
             \cup {Replaced(i, token) : i \in 1..(FirstEnd - 1), token \in Damage}

EndsWith(rest, t) == ~t.stuck /\ AtEof(t) /\ IsSuffix(rest, t.out)
AllEndWith(rest) == \A damaged \in Damaged : EndsWith(rest, Body_(damaged))

(* Whatever happens to one token of a sentence, the parser comes to the end of
   the text, and of the sentences after it none is lost or read otherwise: the
   error recovery of parse_sentence goes on right after the period. *)
DamageContained ==
    Finished /\ sentences > 1 => AllEndWith(Body_(SubSeq(text, FirstEnd + 1, Len(text))).out)

-----------------------------------------------------------------------------
(* Whole programs as a programmer writes them: the parts of each division in
   their order, most of them optional and some of them several times.  A part
   with an error in it has no tree. *)

CONSTANTS Parts,     \* the alternatives of each part, in the order of the parts:
                     \* text, tree and whether it is in error
          Optional,  \* the parts that may be left out
          Several,   \* the parts that may come again
          MaxExtra   \* optional parts and parts that come again, in a program

VARIABLES program,      \* the tokens written
          programTree,  \* what they should be parsed to
          part,         \* the part written last
          extra,        \* how many of them could have been left out
          broken        \* whether one is in error
programVars == <<program, programTree, part, extra, broken>>

ProgramInit ==
    program = <<>> /\ programTree = <<>> /\ part = 0 /\ extra = 0 /\ broken = FALSE

WritePart(n) ==
    LET isExtra == n \in Optional \/ n = part
    IN  /\ n >= part /\ (n = part => n \in Several)
        /\ \A m \in (part + 1)..(n - 1) : m \in Optional
        /\ isExtra => extra < MaxExtra
        /\ \E p \in Parts[n] :
              /\ program' = program \o p.text
              /\ programTree' = programTree \o p.tree
              /\ broken' = (broken \/ p.broken)
        /\ part' = n
        /\ extra' = IF isExtra THEN extra + 1 ELSE extra

-----------------------------------------------------------------------------
ProgramRead(t) ==
    /\ t.at = Len(program) + 1
    /\ t.out = programTree
    /\ t.err = broken

(* Every part of a program is parsed to what was written, whichever parts come
   before and after it; an entry of FILE-CONTROL in error is reported and costs
   only itself (parse_program, parse_environment_division, parse_data_division,
   parse_procedure_division and what they call). *)
ProgramParsedAsWritten ==
    part = Len(Parts) => ProgramRead(Parse(<<Call("program")>>, Append(program, "eof")))
====
