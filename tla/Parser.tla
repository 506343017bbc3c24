---- MODULE Parser ----
(* The recursive-descent parser of cobol-parser over the grammar of
   StatementGrammar: statements, sentences, paragraphs and sections, the
   declaratives and whole programs.  out is the parse tree, flat: a statement is
   [ verb ... ], the statements of a phrase are { ... }, a paragraph or section
   header is "paragraph" or "section" and its name. *)
EXTENDS StatementGrammar, ProgramGrammar, DataGrammar, Expressions

(* What an expression, a name, a condition or a literal consumed joins the
   output. *)
Consumed(s, t) ==
    IF t.ok THEN [t EXCEPT !.out = @ \o SubSeq(s.ts, s.at, t.at - 1)] ELSE t

IfLiteral(s, t) == IF t.ok THEN Consumed(s, t) ELSE Err(t)

Going(s) == s.ok /\ ~s.left /\ ~s.retry
NotLeft(s) == [s EXCEPT !.left = FALSE]

(* Run is the only one of these that the others call by name, but for those that
   call themselves. *)
RECURSIVE Run(_, _), Loop(_, _, _, _), Again(_, _, _), Statements(_)

(* The functions that call themselves, or are called from another grammar. *)
Rules == [r \in {"when-object", "program", "data-division"} |->
            CASE r = "when-object" -> WhenObject
              [] r = "program" -> Program
              [] r = "data-division" -> DataDivision]

(* An iteration that consumes nothing and does not leave the loop would be
   repeated for ever: the parser is stuck. *)
AfterIteration(go, stop, items, s, t) ==
    IF Going(t) /\ t.at = s.at THEN [t EXCEPT !.stuck = TRUE, !.ok = FALSE]
    ELSE IF t.left THEN NotLeft(t)
    ELSE Loop(go, stop, items, t)
Loop(go, stop, items, s) ==
    IF ~Going(s) \/ AtEof(s) \/ ~Holds(go, s) \/ Holds(stop, s) THEN NotLeft(s)
    ELSE AfterIteration(go, stop, items, s, Run(items, s))

AfterOnce(items, until, t) ==
    IF ~Going(t) \/ Holds(until, t) THEN NotLeft(t) ELSE Again(items, until, t)
Again(items, until, s) == AfterOnce(items, until, Run(items, s))

FirstOf(alternatives, s) ==
    LET holding == {n \in DOMAIN alternatives : Holds(alternatives[n].test, s)}
    IN  IF holding = {} THEN s
        ELSE Run(alternatives[CHOOSE n \in holding : \A m \in holding : n <= m].items, s)

Recovered(s, t) ==
    IF t.ok \/ t.stuck THEN t ELSE RecoverToPeriod([t EXCEPT !.out = s.out])
Ignored(t) == [t EXCEPT !.ok = ~t.stuck]
Retried(others, s, t) == IF t.retry THEN Run(others, [s EXCEPT !.err = t.err]) ELSE t

-----------------------------------------------------------------------------
(* parse_statement. *)
StatementOf(verb, s) ==
    IF verb \notin DOMAIN Verbs THEN Err(s)
    ELSE Run(<<Mark("["), Mark(verb)>> \o Verbs[verb] \o <<Mark("]")>>, s)
StatementHere(s) == StatementOf(Current(s), s)
Statement(s) == StatementHere(Run(<<Skip({",", ";"})>>, s))

(* The statements of a sentence, up to its period, to the end of the program or
   to what looks like a header.  What was made of the statement that fails is
   dropped. *)
SentenceEnd ==
    On({"."}) \cup AtEnds \cup {<<ProcedureNames \ StatementStarts, {".", "SECTION"}>>}

AfterStatement(s, t) == IF t.ok THEN Statements(t) ELSE [t EXCEPT !.out = s.out]
Statements(s) ==
    IF AtEof(s) \/ Holds(SentenceEnd, s) THEN s
    ELSE IF Current(s) \in {",", ";"} THEN Statements(Advance(s))
    ELSE AfterStatement(s, Run(<<Inner>>, s))

(* parse_sentence: after a statement that fails the parser goes on after the
   next period.  left says that there was no sentence. *)
AfterStatements(s, begun, t) ==
    IF t.stuck THEN t
    ELSE IF ~t.ok THEN RecoverToPeriod(t)
    ELSE IF t.out = begun.out /\ Current(t) # "."
         THEN [s EXCEPT !.at = t.at, !.left = TRUE]
    ELSE Eat(t, {"."})
SentenceFrom(s, begun) == AfterStatements(s, begun, Statements(begun))
Sentence(s) ==
    IF AtEof(s) \/ Holds(AtEnds, s) THEN [s EXCEPT !.left = TRUE]
    ELSE SentenceFrom(s, Put(s, "sentence"))

-----------------------------------------------------------------------------
Item(i, s) ==
    CASE i[1] = "need" -> Expect(s, i[2])
      [] i[1] = "may" -> Eat(s, i[2])
      [] i[1] = "flag" -> IF Current(s) \in i[2] THEN Put(Advance(s), Current(s)) ELSE s
      [] i[1] = "take" -> IF Current(s) \in i[2] THEN Put(Advance(s), Current(s)) ELSE Err(s)
      [] i[1] = "mark" -> Put(s, i[2])
      [] i[1] \in {"ref", "expr", "cond", "compare"} -> Consumed(s, Reading(i[1], s))
      [] i[1] = "literal" -> IfLiteral(s, TryLiteral(s))
      [] i[1] = "statement" -> Statement(s)
      [] i[1] = "break" -> [s EXCEPT !.left = TRUE]
      [] i[1] = "give-up" -> [s EXCEPT !.retry = TRUE]
      [] i[1] = "fail" -> Err(s)
      [] i[1] = "sentence" -> Sentence(s)
      [] i[1] = "any-sentence" -> NotLeft(Run(<<NextSentenceOrLeave>>, s))
      [] i[1] = "next" -> Advance(s)
      [] i[1] = "call" -> Run(Rules[i[2]], s)
      [] i[1] = "first" -> FirstOf(i[2], s)
      [] i[1] = "while" -> Loop(i[2], i[3], i[4], s)
      [] i[1] = "repeat" -> Again(i[2], i[3], s)
      [] i[1] = "ignoring" -> Ignored(Run(i[2], s))
      [] i[1] = "or-recover" -> Recovered(s, Run(i[2], s))
      [] i[1] = "attempt" -> Retried(i[3], s, Run(i[2], s))

Run(items, s) ==
    IF items = <<>> \/ ~Going(s) THEN s ELSE Run(Tail(items), Item(Head(items), s))

Parse(items, ts) == Run(items, Start(ts))
====
