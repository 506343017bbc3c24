--------------------------- MODULE FileStatements ---------------------------
(***************************************************************************)
(* The C code cobol-codegen emits for the file statements, and the USE     *)
(* AFTER EXCEPTION procedures it may call.  A statement is compiled to a   *)
(* sequence of guarded steps around one call of the runtime; its phrases   *)
(* and the declaratives are user code, in which any statement may follow,  *)
(* so statements nest and each keeps the status it was answered in a local *)
(* of its own.  A guard is the set of the statuses that satisfy it.        *)
(*                                                                         *)
(* The runtime is what FileAnswers promises of it, and the modes the files *)
(* are open in.  Left out: INTO, FROM and the record areas; a GO TO from a *)
(* declarative to another paragraph of it; LINAGE apart from whether the   *)
(* page ends; files of one program used by another.                        *)
(***************************************************************************)
EXTENDS Integers, Sequences, SequencesExt, FiniteSetsExt, FileAnswers

CONSTANTS
  Files,
  Programs,   \* the programs of the instance, see ProgramsAssumption
  Outcomes,   \* bound: the statuses the runtime is let to answer
  MaxDepth    \* bound: how many statements may be nested

(* statused: the files with a FILE STATUS; uses: the declaratives, each of *)
(* them for modes or for files; numbered: the relative files whose READ    *)
(* NEXT stores a RELATIVE KEY; varying: RECORD IS VARYING DEPENDING ON;    *)
(* ops: the statements it has.                                             *)
ASSUME ProgramsAssumption ==
  \A p \in Programs :
    /\ p.statused \subseteq Files /\ p.numbered \subseteq Files /\ p.varying \subseteq Files
    /\ p.uses \in Seq([modes : SUBSET Modes, files : SUBSET Files])
    /\ \A u \in Range(p.uses) : (u.modes = {}) # (u.files = {})
    /\ p.ops \subseteq {"open", "close", "closeUnit", "read", "write", "rewrite", "delete", "start"}
ASSUME DepthAssumption == MaxDepth \in Nat

FsNoReel == 7
FsKeyOverflow == 14

VARIABLES
  program,     \* the program that runs; never changes
  openMode,    \* the file table of the runtime: the mode of each file
  fileMode,    \* FILE_MODE of each file in the C code; Closed is ""
  statusItem,  \* the FILE STATUS items
  answered,    \* the last status of each file and whether the statement that
               \* was answered it is one of those that tell nobody
  stack,       \* the statements and declaratives under way, innermost last
  target       \* _goto_target is set

vars == <<program, openMode, fileMode, statusItem, answered, stack, target>>

HasStatus(f) == f \in program.statused
HasDeclaratives == program.uses # <<>>

----------------------------------------------------------------------------
(* The code of a statement *)

All == Statuses \cup {FsNoReel, FsKeyOverflow}
ReadSuccess == {FsOk, FsDuplicateAltSuccess}
Opened == {FsOk, FsOptionalCreated}

Do(step, when) == [step |-> step, when |-> when]
If(condition, code) == IF condition THEN code ELSE <<>>
Phrase(s, name, when) == If(name \in s.phrases, <<Do(name, when)>>)

DispatchCode(when) == <<Do("use", when), Do("jump", when)>>

(* Variant for a mutant: nobody looks at _goto_target. *)
StatusUpdateStaying(f, dispatching) ==
  If(HasStatus(f), <<Do("tell", All)>>) \o If(dispatching, <<Do("use", All)>>)

(* Variant for a mutant: the status is told after the declarative. *)
StatusUpdateLate(f, dispatching) ==
  If(dispatching, DispatchCode(All \ {FsOk})) \o If(HasStatus(f), <<Do("tell", All)>>)

StatusUpdate(f, dispatching) ==
  If(HasStatus(f), <<Do("tell", All)>>) \o If(dispatching, DispatchCode(All \ {FsOk}))

OpenCode(s) ==
  <<Do("call", All)>>
  \o If(HasStatus(s.file) \/ HasDeclaratives \/ s.file \in program.varying,
        <<Do("setMode", Opened)>> \o StatusUpdate(s.file, HasDeclaratives))

(* Variant for a mutant: CLOSE does not reset FILE_MODE. *)
CloseCodeKeeping(s) ==
  <<Do("call", All)>> \o If(HasStatus(s.file), StatusUpdate(s.file, HasDeclaratives))

CloseCode(s) ==
  <<Do("call", All)>>
  \o If(HasStatus(s.file),
        StatusUpdate(s.file, HasDeclaratives) \o <<Do("clearMode", {FsOk})>>)

(* CLOSE REEL and CLOSE UNIT leave the file open. *)
CloseUnitCode(s) ==
  If(HasStatus(s.file), <<Do("noReel", All)>> \o StatusUpdate(s.file, FALSE))

(* Variant for a mutant: the declarative does not care for the phrases. *)
ReadUnhandledAlways(s) == All \ ReadSuccess

(* The statuses of a READ that none of its phrases handles. *)
ReadUnhandled(s) ==
  All \ (ReadSuccess
         \cup (IF "atEnd" \in s.phrases THEN {FsAtEnd} ELSE {})
         \cup (IF "invalidKey" \in s.phrases THEN All \ ReadSuccess ELSE {}))

ReadCode(s) ==
  <<Do("call", All)>>
  \o If(s.file \in program.numbered, <<Do("checkNumber", ReadSuccess)>>)
  \o StatusUpdate(s.file, FALSE)
  \o If(HasDeclaratives, DispatchCode(ReadUnhandled(s)))
  \o <<Do("store", ReadSuccess)>>
  \o Phrase(s, "invalidKey", All \ ReadSuccess)
  \o Phrase(s, "notInvalidKey", ReadSuccess)
  \o Phrase(s, "atEnd", {FsAtEnd})
  \o Phrase(s, "notAtEnd", All \ {FsAtEnd})

KeyPhrases(s) ==
  Phrase(s, "invalidKey", All \ {FsOk}) \o Phrase(s, "notInvalidKey", {FsOk})
HasKeyPhrase(s) == s.phrases \cap {"invalidKey", "notInvalidKey"} # {}

EndOfPage(s, when) ==
  If(s.phrases \cap {"atEop", "notAtEop"} # {},
     <<Do("linage", when)>> \o Phrase(s, "atEop", when) \o Phrase(s, "notAtEop", when))

(* Variant for a mutant: the page turns whatever the WRITE was answered. *)
WriteCodeTurning(s) ==
  IF HasKeyPhrase(s)
    THEN <<Do("call", All)>> \o If(HasStatus(s.file), StatusUpdate(s.file, HasDeclaratives))
         \o EndOfPage(s, {FsOk}) \o KeyPhrases(s)
    ELSE <<Do("call", All)>> \o StatusUpdate(s.file, HasDeclaratives) \o EndOfPage(s, All)

(* The phrases of the page follow the call unconditionally where nothing   *)
(* else asks for the status.                                               *)
WriteCode(s) ==
  IF HasKeyPhrase(s)
    THEN <<Do("call", All)>> \o If(HasStatus(s.file), StatusUpdate(s.file, HasDeclaratives))
         \o EndOfPage(s, {FsOk}) \o KeyPhrases(s)
    ELSE <<Do("call", All)>> \o StatusUpdate(s.file, HasDeclaratives)
         \o EndOfPage(s, IF HasStatus(s.file) \/ HasDeclaratives THEN {FsOk} ELSE All)

RewriteCode(s) ==
  <<Do("call", All)>>
  \o StatusUpdate(s.file, HasDeclaratives /\ "invalidKey" \notin s.phrases)
  \o KeyPhrases(s)

DeleteCode(s) == RewriteCode(s)

StartCode(s) ==
  IF HasKeyPhrase(s)
    THEN <<Do("call", All)>> \o StatusUpdate(s.file, FALSE)
         \o If(HasDeclaratives /\ "invalidKey" \notin s.phrases, DispatchCode(All \ {FsOk}))
         \o KeyPhrases(s)
    ELSE <<Do("call", All)>> \o If(HasDeclaratives, StatusUpdate(s.file, TRUE))

Code(s) ==
  CASE s.op = "open" -> OpenCode(s)
    [] s.op = "close" -> CloseCode(s)
    [] s.op = "closeUnit" -> CloseUnitCode(s)
    [] s.op = "read" -> ReadCode(s)
    [] s.op = "write" -> WriteCode(s)
    [] s.op = "rewrite" -> RewriteCode(s)
    [] s.op = "delete" -> DeleteCode(s)
    [] s.op = "start" -> StartCode(s)

KeyPhraseSets == SUBSET {"invalidKey", "notInvalidKey"}
EndPhraseSets == SUBSET {"atEnd", "notAtEnd"}
PagePhraseSets == SUBSET {"atEop", "notAtEop"}

PhraseSets(op) ==
  CASE op = "read" -> KeyPhraseSets \cup EndPhraseSets
    [] op = "write" -> KeyPhraseSets \cup PagePhraseSets
    [] op \in {"rewrite", "delete", "start"} -> KeyPhraseSets
    [] OTHER -> {{}}

Statement(op, f, m, phrases) == [op |-> op, file |-> f, mode |-> m, phrases |-> phrases]

ProgramStatements ==
  UNION {{Statement(op, f, m, phrases) :
            f \in Files, m \in (IF op = "open" THEN Modes ELSE {"Closed"}), phrases \in PhraseSets(op)} :
         op \in program.ops}

----------------------------------------------------------------------------
(* Running it *)

(* was: the mode of the file when the runtime was called; use: the          *)
(* declarative that was called; ran: the phrases that were; page: it ended; *)
(* inside: user code runs, of a phrase or of a declarative.                 *)
Frame(s, code) ==
  [s |-> s, code |-> code, fs |-> FsOk, was |-> "Closed", use |-> 0, ran |-> {},
   page |-> FALSE, inside |-> FALSE]

Declarative == [Frame(Statement("declarative", "none", "Closed", {}), <<>>) EXCEPT !.inside = TRUE]
IsDeclarative(f) == f.s.op = "declarative"

Top == Last(stack)
Replaced(f) == Append(Front(stack), f)
InUserCode == ~target /\ (stack # <<>> => Top.inside)

UnderWay == {i \in DOMAIN stack : ~IsDeclarative(stack[i])}

Begin(s) ==
  /\ InUserCode /\ Cardinality(UnderWay) < MaxDepth
  /\ stack' = Append(stack, Frame(s, Code(s)))
  /\ UNCHANGED <<program, openMode, fileMode, statusItem, answered, target>>

Running == stack # <<>> /\ ~Top.inside
NextStep == Head(Top.code)
AtStep(step) == Running /\ Top.code # <<>> /\ NextStep.step = step
Fires(step) == AtStep(step) /\ Top.fs \in NextStep.when
Passed(f) == [f EXCEPT !.code = Tail(@)]
Pass(f) == stack' = Replaced(Passed(f))

Skip ==
  /\ Running /\ Top.code # <<>> /\ Top.fs \notin NextStep.when
  /\ Pass(Top)
  /\ UNCHANGED <<program, openMode, fileMode, statusItem, answered, target>>

(* A START that has no phrase, in a program that has no declarative, does  *)
(* not look at what it is answered.                                        *)
TellsNobody(s) == s.op = "start" /\ ~HasKeyPhrase(s) /\ ~HasDeclaratives

Answered(s, fs) ==
  answered' = [answered EXCEPT ![s.file] = [status |-> fs, untold |-> TellsNobody(s)]]

TableAfter(s, fs) ==
  CASE s.op = "open" /\ fs \in Opened -> [openMode EXCEPT ![s.file] = s.mode]
    [] s.op = "close" /\ fs = FsOk -> [openMode EXCEPT ![s.file] = "Closed"]
    [] OTHER -> openMode

(* WRITE and REWRITE of a record of varying length are answered 44 by the  *)
(* generated code when its length is out of bounds.                        *)
LocalAnswers(s) ==
  IF s.op \in {"write", "rewrite"} /\ s.file \in program.varying THEN {FsRecordLengthMismatch} ELSE {}

Call ==
  /\ AtStep("call")
  /\ LET s == Top.s IN
     \E fs \in ((Answers(s.op, openMode[s.file]) \cap Outcomes) \cup LocalAnswers(s)) :
       /\ Pass([Top EXCEPT !.fs = fs, !.was = openMode[s.file]])
       /\ openMode' = TableAfter(s, fs)
       /\ Answered(s, fs)
  /\ UNCHANGED <<program, fileMode, statusItem, target>>

(* The statuses the generated code makes up itself. *)
Overrule(step, fs) ==
  /\ Fires(step)
  /\ Pass([Top EXCEPT !.fs = fs])
  /\ Answered(Top.s, fs)
  /\ UNCHANGED <<program, openMode, fileMode, statusItem, target>>

NumberTooLarge == Overrule("checkNumber", FsKeyOverflow)
NumberFits ==
  /\ Fires("checkNumber") /\ Pass(Top)
  /\ UNCHANGED <<program, openMode, fileMode, statusItem, answered, target>>

(* Variant for a mutant: the digits of 07 are swapped. *)
NoReelSwapped == Overrule("noReel", 70)

NoReel == Overrule("noReel", FsNoReel)

SetMode(step, m) ==
  /\ Fires(step)
  /\ fileMode' = [fileMode EXCEPT ![Top.s.file] = m]
  /\ Pass(Top)
  /\ UNCHANGED <<program, openMode, statusItem, answered, target>>

TellStatus ==
  /\ Fires("tell")
  /\ statusItem' = [statusItem EXCEPT ![Top.s.file] = Top.fs]
  /\ Pass(Top)
  /\ UNCHANGED <<program, openMode, fileMode, answered, target>>

(* The first declarative for the mode or for the file, 0 if there is none. *)
Chosen(f, m) ==
  LET fits == {i \in DOMAIN program.uses :
                 m \in program.uses[i].modes \/ f \in program.uses[i].files}
  IN  IF fits = {} THEN 0 ELSE Min(fits)

(* Variant for a mutant: OPEN tells the mode the file was in. *)
ToldModeBefore == Top.was

(* OPEN tells the dispatcher the mode it was to open the file in. *)
ToldMode == IF Top.s.op = "open" THEN Top.s.mode ELSE fileMode[Top.s.file]
Silent == {FsOk, FsOptionalCreated}

Use ==
  /\ Fires("use")
  /\ LET d == IF Top.fs \in Silent THEN 0 ELSE Chosen(Top.s.file, ToldMode) IN
       \/ d = 0 /\ Pass(Top)
       \/ /\ d # 0
          /\ stack' = Append(Replaced(Passed([Top EXCEPT !.use = d])), Declarative)
  /\ UNCHANGED <<program, openMode, fileMode, statusItem, answered, target>>

(* A GO TO leaves the C function. In main its dispatch loop takes it up; a  *)
(* declarative returns to the statement that called it.                     *)
Unwound ==
  LET declaratives == {i \in DOMAIN stack : IsDeclarative(stack[i])}
  IN  IF declaratives = {} THEN <<>> ELSE SubSeq(stack, 1, Max(declaratives) - 1)

Leave ==
  /\ stack' = Unwound
  /\ target' = (Unwound # <<>>)
  /\ UNCHANGED <<program, openMode, fileMode, statusItem, answered>>

GoTo == InUserCode /\ stack # <<>> /\ Leave
Jump == Fires("jump") /\ target /\ Leave
NoJump ==
  /\ Fires("jump") /\ ~target /\ Pass(Top)
  /\ UNCHANGED <<program, openMode, fileMode, statusItem, answered, target>>

(* INTO, the peers of SAME RECORD AREA and the RELATIVE KEY *)
StoreRecord ==
  /\ Fires("store")
  /\ Pass([Top EXCEPT !.ran = @ \cup {"store"}])
  /\ UNCHANGED <<program, openMode, fileMode, statusItem, answered, target>>

TurnPage ==
  /\ Fires("linage")
  /\ \E page \in BOOLEAN : Pass([Top EXCEPT !.page = page])
  /\ UNCHANGED <<program, openMode, fileMode, statusItem, answered, target>>

Phrases == {"invalidKey", "notInvalidKey", "atEnd", "notAtEnd", "atEop", "notAtEop"}
OfPage(name) == [page \in BOOLEAN |-> name \notin (IF page THEN {"notAtEop"} ELSE {"atEop"})]

EnterPhrase ==
  /\ \E name \in Phrases :
       /\ Fires(name)
       /\ IF OfPage(name)[Top.page]
            THEN Pass([Top EXCEPT !.ran = @ \cup {name}, !.inside = TRUE])
            ELSE Pass(Top)
  /\ UNCHANGED <<program, openMode, fileMode, statusItem, answered, target>>

(* The user code of a phrase or of a declarative ends. *)
EndOfUserCode ==
  /\ stack # <<>> /\ InUserCode
  /\ stack' = IF IsDeclarative(Top) THEN Front(stack) ELSE Replaced([Top EXCEPT !.inside = FALSE])
  /\ UNCHANGED <<program, openMode, fileMode, statusItem, answered, target>>

Done == Running /\ Top.code = <<>>
EndOfStatement ==
  /\ Done
  /\ stack' = Front(stack)
  /\ UNCHANGED <<program, openMode, fileMode, statusItem, answered, target>>

Init ==
  /\ program \in Programs
  /\ openMode = [f \in Files |-> "Closed"] /\ fileMode = [f \in Files |-> "Closed"]
  /\ statusItem = [f \in Files |-> FsOk]
  /\ answered = [f \in Files |-> [status |-> FsOk, untold |-> FALSE]]
  /\ stack = <<>> /\ target = FALSE

Next ==
  \/ \E s \in ProgramStatements : Begin(s)
  \/ Skip \/ Call \/ NumberTooLarge \/ NumberFits \/ NoReel
  \/ SetMode("setMode", Top.s.mode) \/ SetMode("clearMode", "Closed")
  \/ TellStatus \/ Use \/ GoTo \/ Jump \/ NoJump
  \/ StoreRecord \/ TurnPage \/ EnterPhrase \/ EndOfUserCode \/ EndOfStatement

Spec == Init /\ [][Next]_vars

----------------------------------------------------------------------------
(* Properties *)

(* Every variable stays in its range. *)
TypeOK ==
  /\ program \in Programs
  /\ openMode \in [Files -> Modes \cup {"Closed"}] /\ fileMode \in [Files -> Modes \cup {"Closed"}]
  /\ statusItem \in [Files -> All]
  /\ answered \in [Files -> [status : All, untold : BOOLEAN]]
  /\ target \in BOOLEAN
  /\ Len(stack) <= 2 * MaxDepth
  /\ \A i \in DOMAIN stack :
       /\ stack[i].fs \in All /\ stack[i].use \in 0..Len(program.uses)
       /\ stack[i].ran \subseteq Phrases \cup {"store"}

Successful == {FsOk, FsDuplicateAltSuccess, FsOptionalCreated, FsNoReel}

(* The handlers COBOL has for what the statement was answered: a phrase of  *)
(* its own, else the declarative for the mode the file was in or for the    *)
(* file (of an OPEN, for the mode it asked for).                            *)
OwnHandlers(f) ==
  f.s.phrases \cap
    (IF f.fs \in Successful THEN {}
     ELSE IF f.fs = FsAtEnd THEN {"atEnd", "invalidKey"} ELSE {"invalidKey"})

DueDeclarative(f) ==
  IF f.fs \in Successful \/ OwnHandlers(f) # {} THEN 0
  ELSE Chosen(f.s.file, IF f.s.op = "open" THEN f.s.mode ELSE f.was)

(* Exactly one handler runs for an exception: the phrase of the statement   *)
(* that is meant for it, otherwise the declarative of the file, and none    *)
(* after a success.  Of the files with a FILE STATUS; a WRITE with INVALID  *)
(* KEY, which runs both, excepted.                                          *)
OneHandler ==
  Done /\ HasStatus(Top.s.file) /\ ~(Top.s.op = "write" /\ "invalidKey" \in Top.s.phrases)
    => /\ Top.ran \cap {"atEnd", "invalidKey"} = OwnHandlers(Top)
       /\ Top.use = DueDeclarative(Top)

(* What a statement does only when it succeeded (INTO and RELATIVE KEY, NOT *)
(* INVALID KEY, the end of a page) it never does after an exception.  NOT   *)
(* AT END is excepted, which runs after any status but 10, and so is a      *)
(* page of a program that nowhere asks for a status.                        *)
OnlyAfterSuccess ==
  \A i \in DOMAIN stack :
    stack[i].fs \notin Successful =>
      /\ stack[i].ran \cap {"store", "notInvalidKey"} = {}
      /\ HasStatus(stack[i].s.file) \/ HasDeclaratives
           => stack[i].ran \cap {"atEop", "notAtEop"} = {}

(* User code, a declarative's too, finds in the FILE STATUS item what the   *)
(* last statement for the file was answered; a START of TellsNobody         *)
(* excepted.                                                                *)
StatusTold ==
  InUserCode =>
    \A f \in Files :
      HasStatus(f) /\ ~answered[f].untold => statusItem[f] = answered[f].status

(* FILE_MODE, from which the declarative is chosen, is the mode of the file *)
(* in the runtime whenever user code runs.  Of the files with a FILE        *)
(* STATUS: CLOSE resets it for no other.                                    *)
ModeTold ==
  InUserCode => \A f \in Files : HasStatus(f) => fileMode[f] = openMode[f]

(* What the generated code tells the program of its files is true: the      *)
(* types, the FILE STATUS items and FILE_MODE together                      *)
(* (emit_file_status_update and the assignments to FILE_MODE).              *)
FilesTold == TypeOK /\ StatusTold /\ ModeTold

(* A GO TO a declarative leaves behind is taken up before anything else     *)
(* happens: the statement that called it goes on with no step but the jump. *)
PendingJumpTaken == target => Fires("jump")
=============================================================================
