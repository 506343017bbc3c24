--------------------------- MODULE GeneratedControl ---------------------------
\* The C code that cobol-codegen generates for a PROCEDURE DIVISION: one
\* function per paragraph, one per section that has paragraphs (its paragraphs
\* once more, merged), main with its dispatch loop, and the global _goto_target
\* through which a GO TO leaves a C function. The COBOL machine of Procedures
\* runs beside it, in `expected`.
\*
\* Left out: ALTER, independent segments, the debugging module, a THRU range
\* written backwards, PERFORM inside another statement, and EXIT PARAGRAPH
\* before the first paragraph.
EXTENDS Procedures

CONSTANT MaxFrames  \* bound: a program whose C stack is deeper is not followed

VARIABLES
    frames,         \* the C call stack: main first, the running function last
    target,         \* _goto_target
    stopped,        \* cobol_stop_run was called
    expected,       \* the COBOL machine
    lawful          \* the program has stayed within what COBOL defines

vars == <<shape, program, frames, target, stopped, expected, lawful>>

\* A frame runs the statements of the label `at`, of the function of kind `kind`
\* for paragraph `of`. pc tells what it does: "run" them, "dispatch" at
\* _goto_dispatch, "entry" and "loop" in main, or wait for the function it
\* called: "single", "range", "outside" (by the code of a PERFORM), "called" (by
\* main's loop). The last four fields are the locals of a PERFORM THRU.
Frame(kind, of, pc) ==
    [kind |-> kind, of |-> of, at |-> of, i |-> 1, pc |-> pc,
     callee |-> 0, external |-> FALSE, resume |-> FALSE, preserved |-> 0]

Top == Last(frames)
Replaced(f) == [frames EXCEPT ![Len(frames)] = f]

\* Variant for a mutant: the header has no label in its section.
LocalWithoutSelf(f, p) ==
    CASE f.kind = "main" -> p
      [] f.kind = "paragraph" -> 0
      [] f.kind = "section" -> IF p \in Group(f.of) THEN p - f.of + 1 ELSE 0

\* The label number of a paragraph inside a function, 0 if it has none there.
Local(f, p) ==
    CASE f.kind = "main" -> p
      [] f.kind = "paragraph" -> IF p = f.of THEN 1 ELSE 0
      [] f.kind = "section" -> IF p \in Group(f.of) THEN p - f.of + 1 ELSE 0

\* A call of para_p() from the running frame, left as `waiting`, with g in
\* _goto_target: a merged section starts at the label in it, an isolated
\* paragraph clears it.
IsMerged(p) == Group(p) # {p}
Clears(p) == ~IsMerged(p)

CalledFrame(p, g) ==
    IF IsMerged(p) THEN Frame("section", p, IF g # 0 THEN "dispatch" ELSE "run")
    ELSE Frame("paragraph", p, "run")

Calls(waiting, p, g) ==
    /\ frames' = Append(Replaced(waiting), CalledFrame(p, g))
    /\ target' = IF Clears(p) THEN 0 ELSE g

Returns == frames' = Front(frames)

-----------------------------------------------------------------------------
Read == Top.pc = "run" => Top.at \in DOMAIN program
Running == ~stopped /\ (lawful => Settled(expected)) /\ Read /\ Len(frames) <= MaxFrames
Doing(pc) == Running /\ Top.pc = pc
AtStatement == Doing("run") /\ Top.i <= Len(program[Top.at])
Statement == program[Top.at][Top.i]

Executing(ops) == AtStatement /\ Statement.op \in ops

\* The COBOL machine executes the statement too, as long as COBOL defines it.
Expecting(c) ==
    /\ lawful' = (lawful /\ Lawful(expected, Statement))
    /\ expected' = IF lawful' THEN c ELSE Start

NextStatement(f) == [f EXCEPT !.pc = "run", !.i = @ + 1, !.callee = 0, !.external = FALSE,
                             !.resume = FALSE, !.preserved = 0]

Working ==
    /\ Executing({"work"})
    /\ frames' = Replaced(NextStatement(Top))
    /\ Expecting(Continued(expected))
    /\ UNCHANGED <<program, target, stopped>>

StopRun ==
    /\ Executing({"stop"})
    /\ stopped' = TRUE
    /\ Expecting(Jumped(expected, N + 1))
    /\ UNCHANGED <<program, frames, target>>

\* EXIT PARAGRAPH: `return`.
ExitParagraph ==
    /\ Executing({"exit"})
    /\ Returns
    /\ Expecting([expected EXCEPT !.i = Len(program[expected.at]) + 1])
    /\ UNCHANGED <<program, target, stopped>>

\* A GO TO stays in the C function that has a label for the target; otherwise
\* it leaves the target's number in _goto_target and returns, main at once to
\* its loop.
Transfer(p) ==
    \/ /\ Top.kind = "main"
       /\ target' = p /\ frames' = Replaced([Top EXCEPT !.pc = "entry"])
    \/ /\ Top.kind # "main" /\ Local(Top, p) # 0
       /\ frames' = Replaced([Top EXCEPT !.at = p, !.i = 1]) /\ UNCHANGED target
    \/ /\ Top.kind # "main" /\ Local(Top, p) = 0
       /\ target' = p /\ Returns

Going ==
    /\ Executing({"goTo", "goToIf"})
    /\ Transfer(Statement.to)
    /\ Expecting(Jumped(expected, Statement.to))
    /\ UNCHANGED <<program, stopped>>

NotGoing ==
    /\ Executing({"goToIf"})
    /\ frames' = Replaced(NextStatement(Top))
    /\ Expecting(Continued(expected))
    /\ UNCHANGED <<program, target, stopped>>

-----------------------------------------------------------------------------
\* PERFORM. The paragraphs called for a range, in order: headers only when one
\* end of the range is a section, and then not the paragraphs of those sections.
IncludesHeaders(s) == s.from \in Headers \/ s.thru \in Headers

\* Variant for a mutant: the paragraphs of a section in the range are called again.
RangeWithMembers(s) == {p \in s.from..s.thru : p \in Headers => IncludesHeaders(s)}

RangeParagraphs(s) ==
    {p \in s.from..s.thru :
        IF p \in Headers THEN IncludesHeaders(s)
        ELSE ~(IncludesHeaders(s) /\ SectionOf(p) \in s.from..s.thru /\ SectionOf(p) # 0)}

FirstCalled(s)    == Min(RangeParagraphs(s))
StillToCall(s, p) == {q \in RangeParagraphs(s) : q > p}

IsRange(s) == Cardinality(RangeParagraphs(s)) > 1

PerformOne ==
    /\ Executing({"perform"}) /\ ~IsRange(Statement)
    /\ Expecting(Performing(expected, Statement))
    /\ Calls([Top EXCEPT !.pc = "single"], FirstCalled(Statement), target)
    /\ UNCHANGED <<program, stopped>>

\* Back from the one paragraph: in main's prefix a transfer is dropped, anywhere
\* else it goes to the _goto_dispatch of this function.
OneReturns ==
    /\ Doing("single")
    /\ IF target # 0 /\ Top.kind # "main"
       THEN frames' = Replaced([Top EXCEPT !.pc = "dispatch"]) /\ UNCHANGED target
       ELSE frames' = Replaced(NextStatement(Top)) /\ target' = 0
    /\ UNCHANGED <<program, stopped, expected, lawful>>

PerformRange ==
    /\ Executing({"perform"}) /\ IsRange(Statement)
    /\ Expecting(Performing(expected, Statement))
    /\ Calls([Top EXCEPT !.pc = "range", !.callee = FirstCalled(Statement),
                         !.external = FALSE, !.resume = FALSE, !.preserved = 0],
             FirstCalled(Statement), target)
    /\ UNCHANGED <<program, stopped>>

\* Back from a paragraph of the range: a transfer is dispatched, otherwise the
\* next paragraph is called, and after the last one the PERFORM is done.
Kept == IF Top.resume /\ Top.preserved # 0 /\ target = Top.preserved THEN 0 ELSE target

RangeReturns ==
    /\ Doing("range")
    /\ LET f == [Top EXCEPT !.resume = FALSE, !.preserved = IF Top.resume THEN 0 ELSE @]
           rest == StillToCall(Statement, Top.callee)
       IN  \/ /\ Kept # 0
              /\ frames' = Replaced([f EXCEPT !.pc = "disp"]) /\ target' = Kept
           \/ /\ Kept = 0 /\ rest # {}
              /\ Calls([f EXCEPT !.callee = Min(rest)], Min(rest), 0)
           \/ /\ Kept = 0 /\ rest = {}
              /\ frames' = Replaced(NextStatement(f)) /\ target' = 0
    /\ UNCHANGED <<program, stopped, expected, lawful>>

\* The dispatch table of a PERFORM THRU compares _goto_target with the local
\* and the body label numbers of the paragraphs.
Numbered(f, ps, g) == {p \in ps : Local(f, p) = g \/ p = g}

\* The paragraphs of a section of the range, entered through their section.
InSections(s) ==
    IF ~IncludesHeaders(s) THEN {}
    ELSE {p \in s.from..GroupEnd(s.thru) :
             SectionOf(p) # 0 /\ SectionOf(p) \in RangeParagraphs(s)}

\* The headers inside the range that stand for the first paragraph after them.
PassedHeaders(s) ==
    {h \in Headers \cap s.from..(s.thru - 1) :
        \E p \in RangeParagraphs(s) : p > h}

ReEntries(f, s, g) ==
    LET direct == Numbered(f, RangeParagraphs(s), g)
        passed == Numbered(f, PassedHeaders(s), g)
        inside == Numbered(f, InSections(s), g)
    IN  CASE direct # {} -> {Min(direct)}
          [] direct = {} /\ passed # {} -> {Min({p \in RangeParagraphs(s) : p > Min(passed)})}
          [] direct = {} /\ passed = {} /\ inside # {} -> {SectionOf(Min(inside))}
          [] OTHER -> {}

\* The label a re-entered section must go on from.
PreservedLabel(f, s, g) ==
    LET inside == Numbered(f, InSections(s), g)
    IN  IF inside = {} THEN 0 ELSE Max(inside) - SectionOf(Max(inside)) + 1

\* Variant for a mutant: no paragraph of the section is in the scope.
SameScopeOnlySelf(f, p) == f.at = 0 \/ p = f.at

SameScope(f, p) ==
    LET scope(q) == IF q \in Headers THEN q ELSE SectionOf(q)
    IN  \/ f.at = 0
        \/ p = f.at
        \/ scope(f.at) # 0 /\ scope(f.at) = scope(p)

\* The transfer stays in the range: the range goes on from that paragraph.
DispatchInside ==
    /\ Doing("disp")
    /\ \E p \in ReEntries(Top, Statement, target) :
          LET label == PreservedLabel(Top, Statement, target)
          IN  Calls([Top EXCEPT !.pc = "range", !.external = FALSE, !.resume = TRUE,
                                !.preserved = IF label = 0 THEN @ ELSE label,
                                !.callee = p],
                    p, label)
    /\ UNCHANGED <<program, stopped, expected, lawful>>

\* The transfer leaves the range. A paragraph of the performer's own section is
\* called, and what follows it, until the range is entered again; any other one
\* ends the PERFORM, or the function if the flow had already left the range.
DispatchOutside ==
    /\ Doing("disp")
    /\ ReEntries(Top, Statement, target) = {}
    /\ LET p == Min(Numbered(Top, 1..N, target))
       IN  \/ /\ SameScope(Top, p)
              /\ Calls([Top EXCEPT !.pc = "outside", !.callee = target, !.external = TRUE], p, 0)
           \/ /\ ~SameScope(Top, p) /\ Top.external
              /\ frames' = Replaced([Top EXCEPT !.pc = "dispatch"]) /\ UNCHANGED target
           \/ /\ ~SameScope(Top, p) /\ ~Top.external
              /\ frames' = Replaced(NextStatement(Top)) /\ target' = 0
    /\ UNCHANGED <<program, stopped, expected, lawful>>

\* Variant for a mutant: nothing follows outside the range.
FallsNowhere(f, g) == 0

FallsTo(f, g) ==
    LET before == {p \in Numbered(f, 1..(N - 1), g) : Local(f, p + 1) # 0}
    IN  IF before = {} THEN 0 ELSE Local(f, Max(before) + 1)

OutsideReturns ==
    /\ Doing("outside")
    /\ LET g == IF target # 0 THEN target ELSE FallsTo(Top, Top.callee)
       IN  /\ target' = g
           /\ frames' = Replaced(IF g # 0 THEN [Top EXCEPT !.pc = "disp"] ELSE NextStatement(Top))
    /\ UNCHANGED <<program, stopped, expected, lawful>>

-----------------------------------------------------------------------------
\* The end of the statements of a label: the next paragraph of a merged section,
\* else _goto_dispatch, with nothing to dispatch, and the end of the function.
FallThrough ==
    /\ Doing("run") /\ ~AtStatement
    /\ CASE Top.kind = "main" -> frames' = Replaced([Top EXCEPT !.pc = "entry"])
         [] Top.kind = "section" /\ Top.at < GroupEnd(Top.of) ->
               frames' = Replaced([Top EXCEPT !.at = @ + 1, !.i = 1])
         [] OTHER -> frames' = Replaced([Top EXCEPT !.pc = "dispatch"])
    /\ UNCHANGED <<program, target, stopped, expected, lawful>>

\* Variant for a mutant: the transfer stays pending.
DispatchKeeping ==
    /\ Doing("dispatch")
    /\ LET here == {p \in Group(Top.of) : Local(Top, p) # 0 /\ Local(Top, p) = target}
       IN  \/ \E p \in here : frames' = Replaced([Top EXCEPT !.at = p, !.i = 1, !.pc = "run"])
           \/ here = {} /\ Returns
    /\ UNCHANGED <<program, target, stopped, expected, lawful>>

\* _goto_dispatch of a paragraph or a section: a label of this function is
\* jumped to, any other is left to the caller.
Dispatch ==
    /\ Doing("dispatch")
    /\ LET here == {p \in Group(Top.of) : Local(Top, p) # 0 /\ Local(Top, p) = target}
       IN  \/ \E p \in here : /\ frames' = Replaced([Top EXCEPT !.at = p, !.i = 1, !.pc = "run"])
                              /\ target' = 0
           \/ here = {} /\ Returns /\ UNCHANGED target
    /\ UNCHANGED <<program, stopped, expected, lawful>>

\* main's loop calls the paragraph of _goto_target; when it comes back without a
\* transfer the next one follows, a section counting as one paragraph.
TopLevel == {p \in 1..N : SectionOf(p) = 0}

\* Variant for a mutant: the last paragraph has a successor.
FollowerUnbounded(p) ==
    LET later == {q \in TopLevel : q > p}
    IN  IF p \in TopLevel /\ later # {} THEN Min(later) ELSE p + 1

Follower(p) ==
    LET later == {q \in TopLevel : q > p}
    IN  CASE p \in TopLevel /\ later # {} -> Min(later)
          [] (p \notin TopLevel \/ later = {}) /\ p < N -> p + 1
          [] OTHER -> 0

MainEntry ==
    /\ Doing("entry")
    /\ target' = IF target = 0 THEN Min(TopLevel) ELSE target
    /\ frames' = Replaced([Top EXCEPT !.pc = "loop"])
    /\ UNCHANGED <<program, stopped, expected, lawful>>

\* Variant for a mutant: the number of the paragraph stays pending.
MainCallsKeeping ==
    /\ Doing("loop") /\ target # 0
    /\ Calls([Top EXCEPT !.pc = "called", !.callee = target], target, target)
    /\ UNCHANGED <<program, stopped, expected, lawful>>

MainCalls ==
    /\ Doing("loop") /\ target # 0
    /\ Calls([Top EXCEPT !.pc = "called", !.callee = target], target, 0)
    /\ UNCHANGED <<program, stopped, expected, lawful>>

MainFollows ==
    /\ Doing("called")
    /\ target' = IF target = 0 THEN Follower(Top.callee) ELSE target
    /\ frames' = Replaced([Top EXCEPT !.pc = "loop"])
    /\ UNCHANGED <<program, stopped, expected, lawful>>

MainEnds ==
    /\ Doing("loop") /\ target = 0
    /\ stopped' = TRUE
    /\ UNCHANGED <<program, frames, target, expected, lawful>>

-----------------------------------------------------------------------------
\* The COBOL machine goes on by itself from the end of a paragraph to the next
\* statement.
Settles ==
    /\ lawful /\ ~Settled(expected) /\ expected.at \in DOMAIN program
    /\ lawful' = LawfulEnd(PastEnd(expected))
    /\ expected' = IF lawful' THEN PastEnd(expected) ELSE Start
    /\ UNCHANGED <<program, frames, target, stopped>>

\* A paragraph that is reached for the first time gets its body.
WithBody(p, body) == [q \in {p} \cup DOMAIN program |-> IF q = p THEN body ELSE program[q]]

Reads ==
    /\ \E p \in {expected.at} \cup (IF Top.pc = "run" THEN {Top.at} ELSE {}) :
          /\ p \in 0..N \ DOMAIN program
          /\ \E body \in Bodies[p] : program' = WithBody(p, body)
    /\ UNCHANGED <<frames, target, stopped, expected, lawful>>

Finished ==
    /\ (stopped /\ (lawful => Settled(expected))) \/ Len(frames) > MaxFrames
    /\ UNCHANGED vars

Init ==
    /\ shape \in DOMAIN Shapes /\ program = << >>
    /\ frames = <<Frame("main", 0, "run")>>
    /\ target = 0 /\ stopped = FALSE
    /\ expected = Start /\ lawful = TRUE

Next ==
    /\ UNCHANGED shape
    /\ \/ Working \/ StopRun \/ ExitParagraph \/ Going \/ NotGoing
       \/ PerformOne \/ OneReturns \/ PerformRange \/ RangeReturns
       \/ DispatchInside \/ DispatchOutside \/ OutsideReturns
       \/ FallThrough \/ Dispatch \/ MainEntry \/ MainCalls \/ MainFollows \/ MainEnds
       \/ Settles \/ Reads \/ Finished

\* Generated code runs on one thread: it goes on as long as it can.
Spec == Init /\ [][Next]_vars /\ WF_vars(Next)

-----------------------------------------------------------------------------
\* The call stack is main and functions that wait, below one that runs.
TypeOK ==
    /\ DOMAIN program \subseteq 0..N
    /\ \A p \in DOMAIN program : program[p] \in Bodies[p]
    /\ frames # <<>> /\ frames[1].kind = "main"
    /\ \A k \in DOMAIN frames :
          /\ k > 1 => frames[k].kind \in {"paragraph", "section"}
          /\ frames[k].at \in Group(frames[k].of)
          /\ k < Len(frames) => frames[k].pc \in {"single", "range", "outside", "called"}
    /\ target \in 0..N /\ stopped \in BOOLEAN /\ lawful \in BOOLEAN
    /\ expected.at \in 0..(N + 1)

\* No transfer is pending when a statement runs: a GO TO that was taken cannot be
\* taken again by a later dispatch.
NoPendingTransfer == AtStatement => target = 0

\* The paragraphs whose function a frame may be waiting for.
WaitsFor(f) ==
    CASE f.pc = "single"  -> {FirstCalled(program[f.at][f.i])}
      [] f.pc = "range"   -> {f.callee} \cap RangeParagraphs(program[f.at][f.i])
      [] f.pc = "outside" -> 1..N
      [] f.pc = "called"  -> {f.callee}

\* A function that waits stands at the PERFORM, or main at the call, that started
\* the function above it, whatever jumps were made in between.
CallsLinked ==
    \A k \in 1..(Len(frames) - 1) : frames[k + 1].of \in WaitsFor(frames[k])

\* The frames of the generated functions are well formed, each waits for the one
\* above it, and no transfer is pending when a statement runs.
FramesCorrect == TypeOK /\ CallsLinked /\ NoPendingTransfer

\* The next statement of C is the next one of COBOL, and C stops where COBOL does.
SameStatement ==
    lawful /\ Settled(expected) =>
        /\ stopped => Ended(expected)
        /\ AtStatement => /\ ~Ended(expected)
                          /\ expected.at = Top.at /\ expected.i = Top.i

\* When a statement runs, the C functions that wait for a PERFORM are exactly
\* the PERFORMs in progress: no GO TO leaves one behind, or takes one away.
PerformsNest ==
    lawful /\ AtStatement =>
        Len(SelectSeq(frames, LAMBDA f : f.pc \in {"single", "range", "outside"}))
            = Len(expected.performs)

\* Whatever the program does with PERFORM, PERFORM THRU, GO TO and fall-through,
\* what leftOut of its shape names apart, the generated C executes the statement
\* COBOL says comes next, inside the same PERFORMs, and stops when COBOL does.
FollowsCobol == SameStatement /\ PerformsNest

\* The dispatch loops never spin: a statement is always reached again, or the end.
Progress == []<>(AtStatement \/ stopped \/ Len(frames) > MaxFrames)
=============================================================================
