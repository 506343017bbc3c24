------------------------------ MODULE Procedures ------------------------------
\* The PROCEDURE DIVISION of a program and what its PERFORM, GO TO and EXIT
\* PARAGRAPH mean in COBOL, apart from the C code that is generated for them.
\*
\* The lowered program (cobol-hir, lower_procedure_division) is a list of
\* paragraphs, numbered 1..N as the generator numbers their labels; a section
\* header is a paragraph with no statement, and a paragraph after a header
\* belongs to the last header before it. Paragraph 0 stands for the statements
\* before the first paragraph. Everything but control is one statement, Work.
EXTENDS Integers, Sequences, SequencesExt, FiniteSetsExt

CONSTANT Shapes     \* the shapes of program the instance runs, by name

\* A shape has n paragraphs, section headers included; the paragraphs `headers`
\* are section headers; bodies[p] are the statement sequences paragraph p may
\* have; and its programs do not do what is in leftOut.
ASSUME ShapesAssumption ==
    \A name \in DOMAIN Shapes :
        LET s == Shapes[name]
        IN  /\ s.n \in Nat \ {0} /\ s.headers \subseteq 1..s.n
            /\ s.leftOut \subseteq {"leave the range", "part of a section", "run off a section",
                                     "exit in a section"}
            /\ DOMAIN s.bodies = 0..s.n /\ \A h \in s.headers : s.bodies[h] = {<<>>}

\* The program that is run: its shape, and the bodies of the paragraphs reached
\* so far. A body is chosen when control first reaches its paragraph, and stays.
VARIABLES shape, program

N       == Shapes[shape].n
Headers == Shapes[shape].headers
Bodies  == Shapes[shape].bodies
LeftOut == Shapes[shape].leftOut

Work          == [op |-> "work"]
Stop          == [op |-> "stop"]
Exit          == [op |-> "exit"]
GoTo(p)       == [op |-> "goTo", to |-> p]
GoToIf(p)     == [op |-> "goToIf", to |-> p]
Perform(p, q) == [op |-> "perform", from |-> p, thru |-> q]

\* The statements of a program of n paragraphs. A range is not written backwards,
\* and there is no EXIT PARAGRAPH before the first paragraph.
Statements(n) ==
    {Work, Stop, Exit} \cup {GoTo(p) : p \in 1..n} \cup {GoToIf(p) : p \in 1..n}
    \cup {Perform(r[1], r[2]) : r \in {q \in (1..n) \X (1..n) : q[1] <= q[2]}}

ASSUME StatementsAssumption ==
    \A name \in DOMAIN Shapes : \A p \in 0..Shapes[name].n :
        \A body \in Shapes[name].bodies[p] :
            /\ body \in Seq(Statements(Shapes[name].n))
            /\ p = 0 => \A i \in DOMAIN body : body[i].op # "exit"

\* The section a paragraph belongs to: 0 for a header and before any header.
SectionOf(p) ==
    LET headers == {h \in Headers : h <= p}
    IN  IF p \in Headers \/ headers = {} THEN 0 ELSE Max(headers)

\* A header with the paragraphs of its section; any other paragraph alone.
Group(p) == {p} \cup {q \in 1..N : SectionOf(q) = p}

GroupEnd(p) == Max(Group(p))

-----------------------------------------------------------------------------
\* The COBOL machine. c.at and c.i are the statement to execute next,
\* c.performs the PERFORMs in progress, the innermost last. N + 1 is the end of
\* the program.
Start == [at |-> 0, i |-> 1, performs |-> <<>>]

Ended(c)   == c.at = N + 1
Settled(c) == Ended(c) \/ (c.at \in DOMAIN program /\ c.i <= Len(program[c.at]))

\* Control reaches the end of a paragraph: the innermost PERFORM returns if the
\* paragraph is the last of its range, and otherwise control falls through.
PastEnd(c) ==
    IF c.performs # <<>> /\ Last(c.performs).exit = c.at
    THEN [at |-> Last(c.performs).at, i |-> Last(c.performs).i, performs |-> Front(c.performs)]
    ELSE [c EXCEPT !.at = @ + 1, !.i = 1]

Continued(c) == [c EXCEPT !.i = @ + 1]
Jumped(c, p) == [c EXCEPT !.at = p, !.i = 1]

Performing(c, s) ==
    [at |-> s.from, i |-> 1,
     performs |-> Append(c.performs, [first |-> s.from, exit |-> GroupEnd(s.thru),
                                      at |-> c.at, i |-> c.i + 1])]

\* A PERFORM from a section THRU a paragraph inside a section.
PartOfSection(s) ==
    s.from \in Headers /\ s.thru \notin Headers /\ s.thru # GroupEnd(SectionOf(s.thru))

\* What COBOL leaves undefined: a PERFORM whose range ends where the range of
\* one in progress does. And what the instance leaves out: a GO TO out of the
\* range in progress, a PERFORM of part of a section, EXIT PARAGRAPH in a section,
\* the end of a program that ends with a section.
Lawful(c, s) ==
    /\ s.op = "perform" =>
          /\ \A k \in DOMAIN c.performs : c.performs[k].exit # GroupEnd(s.thru)
          /\ PartOfSection(s) => "part of a section" \notin LeftOut
    /\ s.op \in {"goTo", "goToIf"} /\ c.performs # <<>> =>
          \/ "leave the range" \notin LeftOut
          \/ s.to \in Last(c.performs).first..Last(c.performs).exit
    /\ s.op = "exit" => "exit in a section" \notin LeftOut \/ SectionOf(c.at) = 0

LawfulEnd(c) == Ended(c) /\ Headers # {} => "run off a section" \notin LeftOut
=============================================================================
