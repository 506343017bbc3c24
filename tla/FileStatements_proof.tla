------------------------ MODULE FileStatements_proof ------------------------
(***************************************************************************)
(* What the generated file statements keep, for every program, every       *)
(* number of files and every depth of nesting.                             *)
(***************************************************************************)
EXTENDS FileStatements, SequenceLemmas

(***************************************************************************)
(* The steps of a statement come in one order whatever the statement is,   *)
(* so what is left of its code is known by the step it stands at.          *)
(***************************************************************************)
StepNames ==
  {"call", "noReel", "checkNumber", "setMode", "tell", "use", "jump", "clearMode", "store",
   "linage"} \cup Phrases

Rank(step) ==
  CASE step = "call" -> 1
    [] step = "noReel" -> 2
    [] step = "checkNumber" -> 3
    [] step = "setMode" -> 4
    [] step = "tell" -> 5
    [] step = "use" -> 6
    [] step = "jump" -> 7
    [] step = "clearMode" -> 8
    [] step = "store" -> 9
    [] step = "linage" -> 10
    [] step = "atEop" -> 11
    [] step = "notAtEop" -> 12
    [] step = "invalidKey" -> 13
    [] step = "notInvalidKey" -> 14
    [] step = "atEnd" -> 15
    [] step = "notAtEnd" -> 16

Steps == [step : StepNames, when : SUBSET All]

InOrder(code) == \A m, n \in DOMAIN code : m < n => Rank(code[m].step) < Rank(code[n].step)

(* The frame f has still to run this step. *)
Ahead(f, name) == \E x \in Range(f.code) : x.step = name
Asked(f) == ~Ahead(f, "call") /\ ~Ahead(f, "noReel")

(* The code of f is the end of the code of its statement. *)
Rest(f) ==
  /\ f.code \in Seq(Steps) /\ InOrder(f.code)
  /\ Range(f.code) \subseteq Range(Code(f.s))
  /\ \A x \in Range(Code(f.s)) \ Range(f.code), y \in Range(f.code) : Rank(x.step) < Rank(y.step)

Frames ==
  [s : ProgramStatements \cup {Statement("declarative", "none", "Closed", {})},
   code : Seq(Steps), fs : All, was : Modes \cup {"Closed"}, use : 0..Len(program.uses),
   ran : SUBSET (Phrases \cup {"store"}), page : BOOLEAN, inside : BOOLEAN]

(* The statuses a statement can be answered. *)
Possible(op) ==
  CASE op = "open" -> {FsOk, FsOptionalCreated, FsIoError, FsNotFound, FsLocked, FsAlreadyOpen}
    [] op = "close" -> {FsOk, FsNotOpen}
    [] op = "closeUnit" -> {FsOk, FsNoReel}
    [] op = "read" -> {FsOk, FsDuplicateAltSuccess, FsAtEnd, FsRecNotFound, FsIoError,
                       FsNoValidNextRecord, FsReadNotPermitted, FsKeyOverflow}
    [] OTHER -> All \ {FsDuplicateAltSuccess, FsOptionalCreated, FsNoReel, FsAtEnd}

(* What a statement has done so far of what it will have done at its end. *)
StatementInv(f) ==
  /\ Rest(f)
  /\ \A name \in f.ran, y \in Range(f.code) : Rank(name) < Rank(y.step)
  /\ f.inside => f.ran \cap Phrases # {}
  /\ f.fs \in Possible(f.s.op)
  /\ ~Asked(f) => f.fs = FsOk
  /\ Ahead(f, "use") => f.use = 0
  /\ f.ran \cap {"store", "notInvalidKey"} # {} => f.fs \in Successful
  /\ (HasStatus(f.s.file) \/ HasDeclaratives) /\ f.ran \cap {"atEop", "notAtEop"} # {}
       => f.fs \in Successful
  /\ f.ran \cap {"atEnd", "invalidKey"} \subseteq OwnHandlers(f)
  /\ \A name \in OwnHandlers(f) : name \in f.ran \/ Ahead(f, name)
  /\ HasStatus(f.s.file) /\ ~Ahead(f, "use") /\ ~(f.s.op = "write" /\ "invalidKey" \in f.s.phrases)
       => f.use = DueDeclarative(f)

FrameInv(f) == f \in Frames /\ (IF IsDeclarative(f) THEN f = Declarative ELSE StatementInv(f))

(* A statement that has called a declarative goes on with its jump. *)
AtJump(f) ==
  /\ ~IsDeclarative(f) /\ ~f.inside /\ f.code # <<>>
  /\ Head(f.code).step = "jump" /\ f.fs \in Head(f.code).when

Links(below, above) == IF IsDeclarative(above) THEN AtJump(below) ELSE below.inside

GoodStack(frames) ==
  /\ frames \in Seq(Frames)
  /\ \A i \in DOMAIN frames : FrameInv(frames[i])
  /\ frames # <<>> => ~IsDeclarative(frames[1])
  /\ \A i \in DOMAIN frames : i > 1 => Links(frames[i - 1], frames[i])
  /\ Cardinality({i \in DOMAIN frames : ~IsDeclarative(frames[i])}) <= MaxDepth

StackInv == GoodStack(stack)

TargetInv == target => stack # <<>> /\ AtJump(Top)

(* A FILE STATUS item is behind the runtime only while the statement that  *)
(* was answered has still to tell it.                                      *)
ToldInv ==
  /\ Running /\ Asked(Top) /\ Ahead(Top, "tell") => answered[Top.s.file].status = Top.fs
  /\ \A f \in Files :
       HasStatus(f) /\ ~answered[f].untold /\ statusItem[f] # answered[f].status
         => Running /\ Asked(Top) /\ Top.s.file = f /\ Ahead(Top, "tell")

(* FILE_MODE is behind the runtime only while the OPEN or CLOSE that       *)
(* changed the mode has still to set it.                                   *)
Setting(f) == f.s.op = "open" /\ f.fs \in Opened /\ Ahead(f, "setMode")
Clearing(f) == f.s.op = "close" /\ f.fs = FsOk /\ Ahead(f, "clearMode")

ModeInv ==
  /\ Running /\ Asked(Top) =>
       /\ Setting(Top) => openMode[Top.s.file] = Top.s.mode
       /\ Clearing(Top) => openMode[Top.s.file] = "Closed"
       /\ Ahead(Top, "use") /\ Top.s.op # "open" /\ ~(Top.s.op = "close" /\ Top.fs = FsOk)
            => openMode[Top.s.file] = Top.was
  /\ \A f \in Files :
       HasStatus(f) /\ fileMode[f] # openMode[f]
         => Running /\ Asked(Top) /\ Top.s.file = f /\ (Setting(Top) \/ Clearing(Top))

VarsOK ==
  /\ program \in Programs
  /\ openMode \in [Files -> Modes \cup {"Closed"}] /\ fileMode \in [Files -> Modes \cup {"Closed"}]
  /\ statusItem \in [Files -> All]
  /\ answered \in [Files -> [status : All, untold : BOOLEAN]]
  /\ target \in BOOLEAN

IInv == VarsOK /\ StackInv /\ TargetInv /\ ToldInv /\ ModeInv

-----------------------------------------------------------------------------
(***************************************************************************)
(* The code of the statements                                              *)
(***************************************************************************)

(* The ranks are numbers, and tell the steps apart. *)
LEMMA RankValues ==
  /\ Rank("call") = 1 /\ Rank("noReel") = 2 /\ Rank("checkNumber") = 3 /\ Rank("setMode") = 4
  /\ Rank("tell") = 5 /\ Rank("use") = 6 /\ Rank("jump") = 7 /\ Rank("clearMode") = 8
  /\ Rank("store") = 9 /\ Rank("linage") = 10 /\ Rank("atEop") = 11 /\ Rank("notAtEop") = 12
  /\ Rank("invalidKey") = 13 /\ Rank("notInvalidKey") = 14 /\ Rank("atEnd") = 15 /\ Rank("notAtEnd") = 16
BY DEF Rank

LEMMA RankType ==
  /\ \A n \in StepNames : Rank(n) \in 1..16
  /\ \A m, n \in StepNames : Rank(m) = Rank(n) => m = n
<1>1. ASSUME NEW n \in StepNames
      PROVE  \/ n = "call" \/ n = "noReel" \/ n = "checkNumber" \/ n = "setMode"
             \/ n = "tell" \/ n = "use" \/ n = "jump" \/ n = "clearMode"
             \/ n = "store" \/ n = "linage" \/ n = "atEop" \/ n = "notAtEop"
             \/ n = "invalidKey" \/ n = "notInvalidKey" \/ n = "atEnd" \/ n = "notAtEnd"
  BY DEF StepNames, Phrases
<1>2. \A n \in StepNames : Rank(n) \in 1..16
  BY <1>1, RankValues
<1>3. ASSUME NEW m \in StepNames, NEW n \in StepNames, Rank(m) = Rank(n)  PROVE m = n
  BY <1>1, <1>3, RankValues
<1>4. QED
  BY <1>2, <1>3

(* A piece of code: its steps, in order, with ranks from lo to hi. *)
Coded(code, S, lo, hi) ==
  /\ code \in Seq(Steps) /\ InOrder(code) /\ Range(code) = S
  /\ \A x \in S : x \in Steps /\ Rank(x.step) \in lo..hi

LEMMA CodedWider ==
  ASSUME NEW code, NEW S, NEW lo \in Nat, NEW hi \in Nat, NEW low \in Nat, NEW high \in Nat,
         Coded(code, S, lo, hi), low <= lo, hi <= high
  PROVE  Coded(code, S, low, high)
BY DEF Coded

LEMMA CodedNothing ==
  ASSUME NEW lo \in Nat, NEW hi \in Nat
  PROVE  Coded(<<>>, {}, lo, hi)
BY DEF Coded, InOrder, Range

LEMMA CodedStep ==
  ASSUME NEW name \in StepNames, NEW when \in SUBSET All
  PROVE  Coded(<<Do(name, when)>>, {Do(name, when)}, Rank(name), Rank(name))
<1>1. Do(name, when) \in Steps /\ Do(name, when).step = name
  BY DEF Do, Steps
<1>2. /\ <<Do(name, when)>> \in Seq(Steps) /\ DOMAIN <<Do(name, when)>> = 1..1
      /\ <<Do(name, when)>>[1] = Do(name, when)
  BY <1>1
<1>3. Range(<<Do(name, when)>>) = {Do(name, when)}
  BY <1>2 DEF Range
<1>4. InOrder(<<Do(name, when)>>)
  BY <1>2 DEF InOrder
<1>5. Rank(name) \in Rank(name)..Rank(name)
  BY RankType
<1>6. QED
  BY <1>1, <1>2, <1>3, <1>4, <1>5 DEF Coded

LEMMA CodedConcat ==
  ASSUME NEW a, NEW b, NEW S, NEW T, NEW lo \in Nat, NEW m \in Nat, NEW n \in Nat, NEW hi \in Nat,
         Coded(a, S, lo, m), Coded(b, T, n, hi), lo <= n, m <= hi, m < n
  PROVE  Coded(a \o b, S \cup T, lo, hi)
<1>1. a \in Seq(Steps) /\ b \in Seq(Steps)
  BY DEF Coded
<1>2. a \o b \in Seq(Steps) /\ Range(a \o b) = S \cup T
  BY <1>1, ConcatProperties, RangeConcatenation DEF Coded
<1>3. \A x \in S \cup T : x \in Steps /\ Rank(x.step) \in lo..hi
  BY DEF Coded
<1>4. InOrder(a \o b)
  <2>1. /\ DOMAIN (a \o b) = 1..(Len(a) + Len(b)) /\ Len(a) \in Nat /\ Len(b) \in Nat
        /\ DOMAIN a = 1..Len(a) /\ DOMAIN b = 1..Len(b)
        /\ \A i \in 1..(Len(a) + Len(b)) : (a \o b)[i] = IF i <= Len(a) THEN a[i] ELSE b[i - Len(a)]
    BY <1>1
  <2>2. /\ \A i \in DOMAIN a : Rank(a[i].step) \in lo..m
        /\ \A i \in DOMAIN b : Rank(b[i].step) \in n..hi
    BY DEF Coded, Range
  <2>3. SUFFICES ASSUME NEW i \in 1..(Len(a) + Len(b)), NEW j \in 1..(Len(a) + Len(b)), i < j
                 PROVE  Rank((a \o b)[i].step) < Rank((a \o b)[j].step)
    BY <2>1 DEF InOrder
  <2>4. CASE j <= Len(a)
    <3>1. i \in DOMAIN a /\ j \in DOMAIN a /\ (a \o b)[i] = a[i] /\ (a \o b)[j] = a[j]
      BY <2>1, <2>3, <2>4
    <3>2. QED
      BY <3>1, <2>3 DEF Coded, InOrder
  <2>5. CASE i <= Len(a) /\ j > Len(a)
    <3>1. i \in DOMAIN a /\ j - Len(a) \in DOMAIN b
      BY <2>1, <2>5
    <3>2. Rank(a[i].step) \in lo..m /\ Rank(b[j - Len(a)].step) \in n..hi
      BY <3>1, <2>2
    <3>3. (a \o b)[i] = a[i] /\ (a \o b)[j] = b[j - Len(a)]
      BY <2>1, <2>5
    <3>4. QED
      BY <3>2, <3>3
  <2>6. CASE i > Len(a)
    <3>1. i - Len(a) \in DOMAIN b /\ j - Len(a) \in DOMAIN b /\ i - Len(a) < j - Len(a)
      BY <2>1, <2>3, <2>6
    <3>2. Rank(b[i - Len(a)].step) < Rank(b[j - Len(a)].step)
      BY <3>1 DEF Coded, InOrder
    <3>3. (a \o b)[i] = b[i - Len(a)] /\ (a \o b)[j] = b[j - Len(a)]
      BY <2>1, <2>3, <2>6
    <3>4. QED
      BY <3>2, <3>3
  <2>7. QED
    BY <2>1, <2>4, <2>5, <2>6
<1>5. QED
  BY <1>1, <1>2, <1>3, <1>4 DEF Coded

(* Only(c, S): the steps S if the condition holds. *)
Only(condition, S) == IF condition THEN S ELSE {}

LEMMA CodedPhrase ==
  ASSUME NEW s, NEW name \in Phrases, NEW when \in SUBSET All
  PROVE  Coded(Phrase(s, name, when), Only(name \in s.phrases, {Do(name, when)}),
               Rank(name), Rank(name))
<1>1. name \in StepNames
  BY DEF StepNames
<1>2. Rank(name) \in Nat
  BY <1>1, RankType
<1>3. QED
  BY <1>1, <1>2, CodedStep, CodedNothing DEF Phrase, If, Only

DispatchSteps(when) == {Do("use", when), Do("jump", when)}

LEMMA CodedDispatch ==
  ASSUME NEW when \in SUBSET All
  PROVE  Coded(DispatchCode(when), DispatchSteps(when), 6, 7)
<1>1. "use" \in StepNames /\ "jump" \in StepNames
  BY DEF StepNames
<1>2. Coded(<<Do("use", when)>>, {Do("use", when)}, 6, 6)
  BY <1>1, CodedStep, RankValues
<1>3. Coded(<<Do("jump", when)>>, {Do("jump", when)}, 7, 7)
  BY <1>1, CodedStep, RankValues
<1>4. Coded(<<Do("use", when)>> \o <<Do("jump", when)>>, {Do("use", when)} \cup {Do("jump", when)}, 6, 7)
  BY <1>2, <1>3, CodedConcat
<1>5. <<Do("use", when)>> \o <<Do("jump", when)>> = <<Do("use", when), Do("jump", when)>>
  BY TwoElements
<1>6. {Do("use", when)} \cup {Do("jump", when)} = {Do("use", when), Do("jump", when)}
  OBVIOUS
<1>7. QED
  BY <1>4, <1>5, <1>6 DEF DispatchCode, DispatchSteps

TellSteps(f) == Only(HasStatus(f), {Do("tell", All)})
UpdateSteps(f, dispatching) == TellSteps(f) \cup Only(dispatching, DispatchSteps(All \ {FsOk}))

LEMMA CodedUpdate ==
  ASSUME NEW f, NEW dispatching
  PROVE  Coded(StatusUpdate(f, dispatching), UpdateSteps(f, dispatching), 5, 7)
<1>1. Coded(<<Do("tell", All)>>, {Do("tell", All)}, 5, 5)
  BY CodedStep, RankValues DEF StepNames
<1>2. Coded(If(HasStatus(f), <<Do("tell", All)>>), TellSteps(f), 5, 5)
  BY <1>1, CodedNothing DEF If, Only, TellSteps
<1>3. Coded(If(dispatching, DispatchCode(All \ {FsOk})),
            Only(dispatching, DispatchSteps(All \ {FsOk})), 6, 7)
  BY CodedDispatch, CodedNothing DEF If, Only
<1>4. QED
  BY <1>2, <1>3, CodedConcat DEF StatusUpdate, UpdateSteps

LEMMA CodedTell ==
  ASSUME NEW f
  PROVE  Coded(StatusUpdate(f, FALSE), TellSteps(f), 5, 5)
<1>1. Coded(<<Do("tell", All)>>, {Do("tell", All)}, 5, 5)
  BY CodedStep, RankValues DEF StepNames
<1> DEFINE tell == If(HasStatus(f), <<Do("tell", All)>>)
<1>2. Coded(tell, TellSteps(f), 5, 5)
  BY <1>1, CodedNothing DEF If, Only, TellSteps
<1> HIDE DEF tell
<1>3. tell \o <<>> = tell
  BY <1>2, ConcatEmptySeq DEF Coded
<1>4. QED
  BY <1>2, <1>3 DEF StatusUpdate, If, tell

CallSteps == {Do("call", All)}

LEMMA CodedCall == Coded(<<Do("call", All)>>, CallSteps, 1, 1)
BY CodedStep, RankValues DEF StepNames, CallSteps

OpenSteps(s) ==
  CallSteps \cup Only(HasStatus(s.file) \/ HasDeclaratives \/ s.file \in program.varying,
                     {Do("setMode", Opened)} \cup UpdateSteps(s.file, HasDeclaratives))

LEMMA CodedOpen ==
  ASSUME NEW s
  PROVE  Coded(OpenCode(s), OpenSteps(s), 1, 7)
<1>1. Coded(<<Do("setMode", Opened)>>, {Do("setMode", Opened)}, 4, 4)
  BY CodedStep, RankValues DEF StepNames, Opened, All, Statuses, FsOk, FsOptionalCreated
<1>2. Coded(<<Do("setMode", Opened)>> \o StatusUpdate(s.file, HasDeclaratives),
            {Do("setMode", Opened)} \cup UpdateSteps(s.file, HasDeclaratives), 4, 7)
  BY <1>1, CodedUpdate, CodedConcat
<1>3. Coded(If(HasStatus(s.file) \/ HasDeclaratives \/ s.file \in program.varying,
               <<Do("setMode", Opened)>> \o StatusUpdate(s.file, HasDeclaratives)),
            Only(HasStatus(s.file) \/ HasDeclaratives \/ s.file \in program.varying,
                 {Do("setMode", Opened)} \cup UpdateSteps(s.file, HasDeclaratives)), 4, 7)
  BY <1>2, CodedNothing DEF If, Only
<1>4. QED
  BY <1>3, CodedCall, CodedConcat DEF OpenCode, OpenSteps

CloseSteps(s) ==
  CallSteps \cup Only(HasStatus(s.file),
                     UpdateSteps(s.file, HasDeclaratives) \cup {Do("clearMode", {FsOk})})

LEMMA CodedClose ==
  ASSUME NEW s
  PROVE  Coded(CloseCode(s), CloseSteps(s), 1, 8)
<1>1. Coded(<<Do("clearMode", {FsOk})>>, {Do("clearMode", {FsOk})}, 8, 8)
  BY CodedStep, RankValues DEF StepNames, All, Statuses
<1>2. Coded(StatusUpdate(s.file, HasDeclaratives) \o <<Do("clearMode", {FsOk})>>,
            UpdateSteps(s.file, HasDeclaratives) \cup {Do("clearMode", {FsOk})}, 5, 8)
  BY <1>1, CodedUpdate, CodedConcat
<1> DEFINE rest == If(HasStatus(s.file),
                      StatusUpdate(s.file, HasDeclaratives) \o <<Do("clearMode", {FsOk})>>)
           steps == Only(HasStatus(s.file),
                         UpdateSteps(s.file, HasDeclaratives) \cup {Do("clearMode", {FsOk})})
<1>3. Coded(rest, steps, 5, 8)
  BY <1>2, CodedNothing DEF If, Only
<1> HIDE DEF rest, steps
<1>4. Coded(<<Do("call", All)>> \o rest, CallSteps \cup steps, 1, 8)
  BY <1>3, CodedCall, CodedConcat
<1>5. QED
  BY <1>4 DEF CloseCode, CloseSteps, rest, steps

CloseUnitSteps(s) == Only(HasStatus(s.file), {Do("noReel", All)} \cup TellSteps(s.file))

LEMMA CodedCloseUnit ==
  ASSUME NEW s
  PROVE  Coded(CloseUnitCode(s), CloseUnitSteps(s), 2, 5)
<1>1. Coded(<<Do("noReel", All)>>, {Do("noReel", All)}, 2, 2)
  BY CodedStep, RankValues DEF StepNames
<1> DEFINE tell == StatusUpdate(s.file, FALSE)
<1>2. Coded(tell, TellSteps(s.file), 5, 5)
  BY CodedTell
<1> HIDE DEF tell
<1>3. Coded(<<Do("noReel", All)>> \o tell, {Do("noReel", All)} \cup TellSteps(s.file), 2, 5)
  BY <1>1, <1>2, CodedConcat
<1>4. QED
  BY <1>3, CodedNothing DEF CloseUnitCode, CloseUnitSteps, If, Only, tell

PhraseStep(s, name, when) == Only(name \in s.phrases, {Do(name, when)})
KeySteps(s) ==
  PhraseStep(s, "invalidKey", All \ {FsOk}) \cup PhraseStep(s, "notInvalidKey", {FsOk})

LEMMA CodedKeyPhrases ==
  ASSUME NEW s
  PROVE  Coded(KeyPhrases(s), KeySteps(s), 13, 14)
<1>1. Coded(Phrase(s, "invalidKey", All \ {FsOk}), PhraseStep(s, "invalidKey", All \ {FsOk}), 13, 13)
  BY CodedPhrase, RankValues DEF Phrases, PhraseStep
<1>2. Coded(Phrase(s, "notInvalidKey", {FsOk}), PhraseStep(s, "notInvalidKey", {FsOk}), 14, 14)
  BY CodedPhrase, RankValues DEF Phrases, PhraseStep, All, Statuses
<1>3. QED
  BY <1>1, <1>2, CodedConcat DEF KeyPhrases, KeySteps

PageSteps(s, when) ==
  Only(s.phrases \cap {"atEop", "notAtEop"} # {},
       {Do("linage", when)} \cup PhraseStep(s, "atEop", when) \cup PhraseStep(s, "notAtEop", when))

LEMMA CodedEndOfPage ==
  ASSUME NEW s, NEW when \in SUBSET All
  PROVE  Coded(EndOfPage(s, when), PageSteps(s, when), 10, 12)
<1>1. Coded(<<Do("linage", when)>>, {Do("linage", when)}, 10, 10)
  BY CodedStep, RankValues DEF StepNames
<1>2. Coded(Phrase(s, "atEop", when), PhraseStep(s, "atEop", when), 11, 11)
  BY CodedPhrase, RankValues DEF Phrases, PhraseStep
<1>3. Coded(Phrase(s, "notAtEop", when), PhraseStep(s, "notAtEop", when), 12, 12)
  BY CodedPhrase, RankValues DEF Phrases, PhraseStep
<1>4. Coded(<<Do("linage", when)>> \o Phrase(s, "atEop", when),
            {Do("linage", when)} \cup PhraseStep(s, "atEop", when), 10, 11)
  BY <1>1, <1>2, CodedConcat
<1>5. Coded(<<Do("linage", when)>> \o Phrase(s, "atEop", when) \o Phrase(s, "notAtEop", when),
            {Do("linage", when)} \cup PhraseStep(s, "atEop", when) \cup PhraseStep(s, "notAtEop", when),
            10, 12)
  BY <1>3, <1>4, CodedConcat
<1>6. QED
  BY <1>5, CodedNothing DEF EndOfPage, PageSteps, If, Only

ReadSteps(s) ==
  CallSteps \cup Only(s.file \in program.numbered, {Do("checkNumber", ReadSuccess)})
  \cup TellSteps(s.file)
  \cup Only(HasDeclaratives, DispatchSteps(ReadUnhandled(s)))
  \cup {Do("store", ReadSuccess)}
  \cup PhraseStep(s, "invalidKey", All \ ReadSuccess)
  \cup PhraseStep(s, "notInvalidKey", ReadSuccess)
  \cup PhraseStep(s, "atEnd", {FsAtEnd})
  \cup PhraseStep(s, "notAtEnd", All \ {FsAtEnd})

LEMMA CodedRead ==
  ASSUME NEW s
  PROVE  Coded(ReadCode(s), ReadSteps(s), 1, 16)
<1> DEFINE check == If(s.file \in program.numbered, <<Do("checkNumber", ReadSuccess)>>)
           checkSteps == Only(s.file \in program.numbered, {Do("checkNumber", ReadSuccess)})
           tell == StatusUpdate(s.file, FALSE)
           use == If(HasDeclaratives, DispatchCode(ReadUnhandled(s)))
           useSteps == Only(HasDeclaratives, DispatchSteps(ReadUnhandled(s)))
           store == <<Do("store", ReadSuccess)>>
           storeSteps == {Do("store", ReadSuccess)}
           c1 == <<Do("call", All)>> \o check
           c2 == c1 \o tell
           c3 == c2 \o use
           c4 == c3 \o store
           c5 == c4 \o Phrase(s, "invalidKey", All \ ReadSuccess)
           c6 == c5 \o Phrase(s, "notInvalidKey", ReadSuccess)
           c7 == c6 \o Phrase(s, "atEnd", {FsAtEnd})
           c8 == c7 \o Phrase(s, "notAtEnd", All \ {FsAtEnd})
           s1 == CallSteps \cup checkSteps
           s2 == s1 \cup TellSteps(s.file)
           s3 == s2 \cup useSteps
           s4 == s3 \cup storeSteps
           s5 == s4 \cup PhraseStep(s, "invalidKey", All \ ReadSuccess)
           s6 == s5 \cup PhraseStep(s, "notInvalidKey", ReadSuccess)
           s7 == s6 \cup PhraseStep(s, "atEnd", {FsAtEnd})
           s8 == s7 \cup PhraseStep(s, "notAtEnd", All \ {FsAtEnd})
<1>1. ReadSuccess \in SUBSET All /\ {FsAtEnd} \in SUBSET All
  BY DEF ReadSuccess, All, Statuses
<1>2. Coded(check, checkSteps, 3, 3)
  <2>1. Coded(<<Do("checkNumber", ReadSuccess)>>, {Do("checkNumber", ReadSuccess)}, 3, 3)
    BY <1>1, CodedStep, RankValues DEF StepNames
  <2>2. QED
    BY <2>1, CodedNothing DEF If, Only
<1>3. Coded(tell, TellSteps(s.file), 5, 5)
  BY CodedTell
<1>4. Coded(use, useSteps, 6, 7)
  <2>1. ReadUnhandled(s) \in SUBSET All
    BY DEF ReadUnhandled
  <2>2. QED
    BY <2>1, CodedDispatch, CodedNothing DEF If, Only
<1>5. Coded(store, storeSteps, 9, 9)
  BY <1>1, CodedStep, RankValues DEF StepNames
<1>6. /\ Coded(Phrase(s, "invalidKey", All \ ReadSuccess),
               PhraseStep(s, "invalidKey", All \ ReadSuccess), 13, 13)
      /\ Coded(Phrase(s, "notInvalidKey", ReadSuccess),
               PhraseStep(s, "notInvalidKey", ReadSuccess), 14, 14)
  BY <1>1, CodedPhrase, RankValues DEF Phrases, PhraseStep
<1>7. /\ Coded(Phrase(s, "atEnd", {FsAtEnd}), PhraseStep(s, "atEnd", {FsAtEnd}), 15, 15)
      /\ Coded(Phrase(s, "notAtEnd", All \ {FsAtEnd}),
               PhraseStep(s, "notAtEnd", All \ {FsAtEnd}), 16, 16)
  BY <1>1, CodedPhrase, RankValues DEF Phrases, PhraseStep
<1> HIDE DEF check, checkSteps, tell, use, useSteps, store, storeSteps
<1>8. Coded(c1, s1, 1, 3)
  BY <1>2, CodedCall, CodedConcat
<1> HIDE DEF c1, s1
<1>9. Coded(c2, s2, 1, 5)
  BY <1>3, <1>8, CodedConcat
<1> HIDE DEF c2, s2
<1>10. Coded(c3, s3, 1, 7)
  BY <1>4, <1>9, CodedConcat
<1> HIDE DEF c3, s3
<1>11. Coded(c4, s4, 1, 9)
  BY <1>5, <1>10, CodedConcat
<1> HIDE DEF c4, s4
<1>12. Coded(c5, s5, 1, 13)
  BY <1>6, <1>11, CodedConcat
<1> HIDE DEF c5, s5
<1>13. Coded(c6, s6, 1, 14)
  BY <1>6, <1>12, CodedConcat
<1> HIDE DEF c6, s6
<1>14. Coded(c7, s7, 1, 15)
  BY <1>7, <1>13, CodedConcat
<1> HIDE DEF c7, s7
<1>15. Coded(c8, s8, 1, 16)
  BY <1>7, <1>14, CodedConcat
<1>16. c8 = ReadCode(s)
  BY DEF ReadCode, c7, c6, c5, c4, c3, c2, c1, check, tell, use, store
<1>17. s8 = ReadSteps(s)
  BY DEF ReadSteps, s7, s6, s5, s4, s3, s2, s1, checkSteps, useSteps, storeSteps
<1>18. QED
  BY <1>15, <1>16, <1>17

PageWhen(s) == IF HasStatus(s.file) \/ HasDeclaratives THEN {FsOk} ELSE All

WriteSteps(s) ==
  IF HasKeyPhrase(s)
    THEN CallSteps \cup Only(HasStatus(s.file), UpdateSteps(s.file, HasDeclaratives))
         \cup PageSteps(s, {FsOk}) \cup KeySteps(s)
    ELSE CallSteps \cup UpdateSteps(s.file, HasDeclaratives) \cup PageSteps(s, PageWhen(s))

LEMMA CodedWrite ==
  ASSUME NEW s
  PROVE  Coded(WriteCode(s), WriteSteps(s), 1, 14)
<1> DEFINE update == StatusUpdate(s.file, HasDeclaratives)
           told == If(HasStatus(s.file), update)
           updateSteps == UpdateSteps(s.file, HasDeclaratives)
           toldSteps == Only(HasStatus(s.file), updateSteps)
<1>1. Coded(update, updateSteps, 5, 7)
  BY CodedUpdate
<1>2. Coded(told, toldSteps, 5, 7)
  BY <1>1, CodedNothing DEF If, Only
<1>3. {FsOk} \in SUBSET All /\ PageWhen(s) \in SUBSET All
  BY DEF PageWhen, All, Statuses
<1> DEFINE page == EndOfPage(s, IF HasStatus(s.file) \/ HasDeclaratives THEN {FsOk} ELSE All)
           pageSteps == PageSteps(s, PageWhen(s))
<1>4. Coded(EndOfPage(s, {FsOk}), PageSteps(s, {FsOk}), 10, 12) /\ Coded(page, pageSteps, 10, 12)
  BY <1>3, CodedEndOfPage DEF PageWhen
<1> HIDE DEF update, told, updateSteps, toldSteps, page, pageSteps
<1>5. CASE HasKeyPhrase(s)
  <2>1. Coded(<<Do("call", All)>> \o told, CallSteps \cup toldSteps, 1, 7)
    BY <1>2, CodedCall, CodedConcat
  <2>2. Coded(<<Do("call", All)>> \o told \o EndOfPage(s, {FsOk}),
              CallSteps \cup toldSteps \cup PageSteps(s, {FsOk}), 1, 12)
    BY <1>4, <2>1, CodedConcat
  <2>3. Coded(<<Do("call", All)>> \o told \o EndOfPage(s, {FsOk}) \o KeyPhrases(s),
              CallSteps \cup toldSteps \cup PageSteps(s, {FsOk}) \cup KeySteps(s), 1, 14)
    BY <2>2, CodedKeyPhrases, CodedConcat
  <2>4. QED
    BY <1>5, <2>3 DEF WriteCode, WriteSteps, told, toldSteps, update, updateSteps
<1>6. CASE ~HasKeyPhrase(s)
  <2>1. Coded(<<Do("call", All)>> \o update, CallSteps \cup updateSteps, 1, 7)
    BY <1>1, CodedCall, CodedConcat
  <2>2. Coded(<<Do("call", All)>> \o update \o page,
              CallSteps \cup updateSteps \cup pageSteps, 1, 12)
    BY <1>4, <2>1, CodedConcat
  <2>3. Coded(<<Do("call", All)>> \o update \o page,
              CallSteps \cup updateSteps \cup pageSteps, 1, 14)
    BY <2>2, CodedWider
  <2>4. QED
    BY <1>6, <2>3 DEF WriteCode, WriteSteps, update, updateSteps, page, pageSteps
<1>7. QED
  BY <1>5, <1>6

RewriteSteps(s) ==
  CallSteps \cup UpdateSteps(s.file, HasDeclaratives /\ "invalidKey" \notin s.phrases)
  \cup KeySteps(s)

LEMMA CodedRewrite ==
  ASSUME NEW s
  PROVE  Coded(RewriteCode(s), RewriteSteps(s), 1, 14)
<1> DEFINE update == StatusUpdate(s.file, HasDeclaratives /\ "invalidKey" \notin s.phrases)
           updateSteps == UpdateSteps(s.file, HasDeclaratives /\ "invalidKey" \notin s.phrases)
<1>1. Coded(update, updateSteps, 5, 7)
  BY CodedUpdate
<1> HIDE DEF update, updateSteps
<1>2. Coded(<<Do("call", All)>> \o update, CallSteps \cup updateSteps, 1, 7)
  BY <1>1, CodedCall, CodedConcat
<1>3. Coded(<<Do("call", All)>> \o update \o KeyPhrases(s),
            CallSteps \cup updateSteps \cup KeySteps(s), 1, 14)
  BY <1>2, CodedKeyPhrases, CodedConcat
<1>4. QED
  BY <1>3 DEF RewriteCode, RewriteSteps, update, updateSteps

StartSteps(s) ==
  IF HasKeyPhrase(s)
    THEN CallSteps \cup TellSteps(s.file)
         \cup Only(HasDeclaratives /\ "invalidKey" \notin s.phrases, DispatchSteps(All \ {FsOk}))
         \cup KeySteps(s)
    ELSE CallSteps \cup Only(HasDeclaratives, UpdateSteps(s.file, TRUE))

LEMMA CodedStart ==
  ASSUME NEW s
  PROVE  Coded(StartCode(s), StartSteps(s), 1, 14)
<1> DEFINE tell == StatusUpdate(s.file, FALSE)
           use == If(HasDeclaratives /\ "invalidKey" \notin s.phrases, DispatchCode(All \ {FsOk}))
           useSteps == Only(HasDeclaratives /\ "invalidKey" \notin s.phrases,
                            DispatchSteps(All \ {FsOk}))
           update == StatusUpdate(s.file, TRUE)
           updateSteps == UpdateSteps(s.file, TRUE)
           told == If(HasDeclaratives, update)
           toldSteps == Only(HasDeclaratives, updateSteps)
<1>1. Coded(tell, TellSteps(s.file), 5, 5)
  BY CodedTell
<1>2. Coded(use, useSteps, 6, 7)
  BY CodedDispatch, CodedNothing DEF If, Only
<1>3. Coded(update, updateSteps, 5, 7)
  BY CodedUpdate
<1>4. Coded(told, toldSteps, 5, 7)
  BY <1>3, CodedNothing DEF If, Only
<1> HIDE DEF tell, use, useSteps, update, updateSteps, told, toldSteps
<1>5. CASE HasKeyPhrase(s)
  <2>1. Coded(<<Do("call", All)>> \o tell, CallSteps \cup TellSteps(s.file), 1, 5)
    BY <1>1, CodedCall, CodedConcat
  <2>2. Coded(<<Do("call", All)>> \o tell \o use,
              CallSteps \cup TellSteps(s.file) \cup useSteps, 1, 7)
    BY <1>2, <2>1, CodedConcat
  <2>3. Coded(<<Do("call", All)>> \o tell \o use \o KeyPhrases(s),
              CallSteps \cup TellSteps(s.file) \cup useSteps \cup KeySteps(s), 1, 14)
    BY <2>2, CodedKeyPhrases, CodedConcat
  <2>4. QED
    BY <1>5, <2>3 DEF StartCode, StartSteps, tell, use, useSteps
<1>6. CASE ~HasKeyPhrase(s)
  <2>1. Coded(<<Do("call", All)>> \o told, CallSteps \cup toldSteps, 1, 7)
    BY <1>4, CodedCall, CodedConcat
  <2>2. Coded(<<Do("call", All)>> \o told, CallSteps \cup toldSteps, 1, 14)
    BY <2>1, CodedWider
  <2>3. QED
    BY <1>6, <2>2 DEF StartCode, StartSteps, told, toldSteps, update, updateSteps
<1>7. QED
  BY <1>5, <1>6

StepsOf(s) ==
  CASE s.op = "open" -> OpenSteps(s)
    [] s.op = "close" -> CloseSteps(s)
    [] s.op = "closeUnit" -> CloseUnitSteps(s)
    [] s.op = "read" -> ReadSteps(s)
    [] s.op = "write" -> WriteSteps(s)
    [] s.op \in {"rewrite", "delete"} -> RewriteSteps(s)
    [] s.op = "start" -> StartSteps(s)

Operations == {"open", "close", "closeUnit", "read", "write", "rewrite", "delete", "start"}

(* The code of a statement, step by step. *)
LEMMA CodedCode ==
  ASSUME NEW s, s.op \in Operations
  PROVE  Coded(Code(s), StepsOf(s), 1, 16)
<1>1. CASE s.op = "open"
  BY <1>1, CodedOpen, CodedWider DEF Code, StepsOf
<1>2. CASE s.op = "close"
  BY <1>2, CodedClose, CodedWider DEF Code, StepsOf
<1>3. CASE s.op = "closeUnit"
  BY <1>3, CodedCloseUnit, CodedWider DEF Code, StepsOf
<1>4. CASE s.op = "read"
  BY <1>4, CodedRead DEF Code, StepsOf
<1>5. CASE s.op = "write"
  BY <1>5, CodedWrite, CodedWider DEF Code, StepsOf
<1>6. CASE s.op = "rewrite" \/ s.op = "delete"
  BY <1>6, CodedRewrite, CodedWider DEF Code, StepsOf, DeleteCode
<1>7. CASE s.op = "start"
  BY <1>7, CodedStart, CodedWider DEF Code, StepsOf
<1>8. QED
  BY <1>1, <1>2, <1>3, <1>4, <1>5, <1>6, <1>7 DEF Operations

(***************************************************************************)
(* Which steps a statement has, and for which statuses                     *)
(***************************************************************************)
Dispatches(s) ==
  /\ HasDeclaratives
  /\ s.op = "close" => HasStatus(s.file)
  /\ s.op # "closeUnit"
  /\ s.op = "write" /\ HasKeyPhrase(s) => HasStatus(s.file)
  /\ s.op \in {"rewrite", "delete", "start"} => "invalidKey" \notin s.phrases

UseWhen(s) == IF s.op = "read" THEN ReadUnhandled(s) ELSE All \ {FsOk}
EopWhen(s) == IF HasKeyPhrase(s) THEN {FsOk} ELSE PageWhen(s)
InvalidWhen(s) == IF s.op = "read" THEN All \ ReadSuccess ELSE All \ {FsOk}
ValidWhen(s) == IF s.op = "read" THEN ReadSuccess ELSE {FsOk}

HasStep(s, x) ==
  \/ x = Do("call", All) /\ s.op # "closeUnit"
  \/ x = Do("noReel", All) /\ s.op = "closeUnit" /\ HasStatus(s.file)
  \/ x = Do("checkNumber", ReadSuccess) /\ s.op = "read" /\ s.file \in program.numbered
  \/ /\ x = Do("setMode", Opened) /\ s.op = "open"
     /\ HasStatus(s.file) \/ HasDeclaratives \/ s.file \in program.varying
  \/ x = Do("tell", All) /\ HasStatus(s.file) /\ ~TellsNobody(s)
  \/ x = Do("use", UseWhen(s)) /\ Dispatches(s)
  \/ x = Do("jump", UseWhen(s)) /\ Dispatches(s)
  \/ x = Do("clearMode", {FsOk}) /\ s.op = "close" /\ HasStatus(s.file)
  \/ x = Do("store", ReadSuccess) /\ s.op = "read"
  \/ x = Do("linage", EopWhen(s)) /\ s.phrases \cap {"atEop", "notAtEop"} # {}
  \/ x = Do("atEop", EopWhen(s)) /\ "atEop" \in s.phrases
  \/ x = Do("notAtEop", EopWhen(s)) /\ "notAtEop" \in s.phrases
  \/ x = Do("invalidKey", InvalidWhen(s)) /\ "invalidKey" \in s.phrases
  \/ x = Do("notInvalidKey", ValidWhen(s)) /\ "notInvalidKey" \in s.phrases
  \/ x = Do("atEnd", {FsAtEnd}) /\ "atEnd" \in s.phrases
  \/ x = Do("notAtEnd", All \ {FsAtEnd}) /\ "notAtEnd" \in s.phrases

LEMMA StatementParts ==
  ASSUME program \in Programs, NEW s \in ProgramStatements
  PROVE  /\ s.op \in Operations /\ s.file \in Files /\ s.phrases \in PhraseSets(s.op)
         /\ s.mode \in Modes \cup {"Closed"} /\ (s.op = "open" => s.mode \in Modes)
<1>1. PICK op \in program.ops :
        s \in {Statement(op, f, m, phrases) : f \in Files,
                m \in (IF op = "open" THEN Modes ELSE {"Closed"}), phrases \in PhraseSets(op)}
  BY DEF ProgramStatements
<1>2. PICK f \in Files, m \in (IF op = "open" THEN Modes ELSE {"Closed"}), phrases \in PhraseSets(op) :
        s = Statement(op, f, m, phrases)
  BY <1>1
<1>3. op \in Operations
  BY ProgramsAssumption DEF Operations
<1>4. QED
  BY <1>2, <1>3 DEF Statement, Modes

LEMMA StatementSteps ==
  ASSUME program \in Programs, NEW s \in ProgramStatements, NEW x
  PROVE  x \in StepsOf(s) <=> HasStep(s, x)
<1>1. s.op \in Operations /\ s.phrases \in PhraseSets(s.op)
  BY StatementParts
<1> USE DEF HasStep, CallSteps, Only, UpdateSteps, TellSteps, DispatchSteps, Dispatches,
            UseWhen, EopWhen, InvalidWhen, ValidWhen, PhraseSets, TellsNobody, StepsOf
<1>2. CASE s.op = "open"
  BY <1>1, <1>2 DEF OpenSteps
<1>3. CASE s.op = "close"
  BY <1>1, <1>3 DEF CloseSteps
<1>4. CASE s.op = "closeUnit"
  BY <1>1, <1>4 DEF CloseUnitSteps
<1>5. CASE s.op = "read"
  BY <1>1, <1>5 DEF ReadSteps, PhraseStep, KeyPhraseSets, EndPhraseSets
<1>6. CASE s.op = "write" /\ HasKeyPhrase(s)
  BY <1>1, <1>6 DEF WriteSteps, PhraseStep, PageSteps, KeySteps, KeyPhraseSets, PagePhraseSets
<1>7. CASE s.op = "write" /\ ~HasKeyPhrase(s)
  BY <1>1, <1>7 DEF WriteSteps, PhraseStep, PageSteps, HasKeyPhrase, KeyPhraseSets, PagePhraseSets
<1>8. CASE s.op = "rewrite" \/ s.op = "delete"
  BY <1>1, <1>8 DEF RewriteSteps, PhraseStep, KeySteps, KeyPhraseSets
<1>9. CASE s.op = "start" /\ HasKeyPhrase(s)
  BY <1>1, <1>9 DEF StartSteps, PhraseStep, KeySteps, KeyPhraseSets
<1>10. CASE s.op = "start" /\ ~HasKeyPhrase(s)
  BY <1>1, <1>10 DEF StartSteps, HasKeyPhrase, KeyPhraseSets
<1>11. QED
  BY <1>1, <1>2, <1>3, <1>4, <1>5, <1>6, <1>7, <1>8, <1>9, <1>10 DEF Operations

LEMMA CodeSteps ==
  ASSUME program \in Programs, NEW s \in ProgramStatements
  PROVE  /\ Code(s) \in Seq(Steps) /\ InOrder(Code(s))
         /\ \A x : x \in Range(Code(s)) <=> HasStep(s, x)
<1>1. Coded(Code(s), StepsOf(s), 1, 16)
  BY StatementParts, CodedCode
<1>2. QED
  BY <1>1, StatementSteps DEF Coded

(* Only calls of the runtime come before the status is known, so a status *)
(* decides which handlers are due.                                        *)
LEMMA HandlersOfStatement ==
  ASSUME program \in Programs, NEW f, f.s \in ProgramStatements, f.fs \in Possible(f.s.op)
  PROVE  /\ f.fs \in All
         /\ \A x : HasStep(f.s, x) /\ x.step \in {"atEnd", "invalidKey"} =>
              (f.fs \in x.when <=> x.step \in OwnHandlers(f))
         /\ \A name \in OwnHandlers(f) : \E x : HasStep(f.s, x) /\ x.step = name
         /\ OwnHandlers(f) \subseteq {"atEnd", "invalidKey"}
<1>1. f.s.op \in Operations /\ f.s.phrases \in PhraseSets(f.s.op)
  BY StatementParts
<1>2. f.fs \in All
  BY <1>1 DEF Possible, Operations, All, Statuses
<1>3. ASSUME NEW x, HasStep(f.s, x), x.step = "atEnd"
      PROVE  f.fs \in x.when <=> x.step \in OwnHandlers(f)
  <2>1. x = Do("atEnd", {FsAtEnd}) /\ "atEnd" \in f.s.phrases
    BY <1>3 DEF HasStep, Do
  <2>2. x.when = {FsAtEnd}
    BY <2>1 DEF Do
  <2>3. QED
    BY <1>3, <2>1, <2>2 DEF OwnHandlers, Successful, FsOk, FsDuplicateAltSuccess, FsOptionalCreated,
                       FsNoReel, FsAtEnd
<1>4. ASSUME NEW x, HasStep(f.s, x), x.step = "invalidKey"
      PROVE  f.fs \in x.when <=> x.step \in OwnHandlers(f)
  <2>1. x = Do("invalidKey", InvalidWhen(f.s)) /\ "invalidKey" \in f.s.phrases
    BY <1>4 DEF HasStep, Do
  <2>2. x.when = InvalidWhen(f.s)
    BY <2>1 DEF Do
  <2>3. "invalidKey" \in OwnHandlers(f) <=> f.fs \notin Successful
    BY <2>1 DEF OwnHandlers
  <2>4. f.s.op \in {"read", "write", "rewrite", "delete", "start"}
    BY <1>1, <2>1 DEF PhraseSets, Operations
  <2>5. f.fs \in InvalidWhen(f.s) <=> f.fs \notin Successful
    BY <1>2, <2>4 DEF Possible, InvalidWhen, ReadSuccess, Successful, FsOk, FsDuplicateAltSuccess,
         FsOptionalCreated, FsNoReel, FsAtEnd, FsRecNotFound, FsIoError, FsNoValidNextRecord,
         FsReadNotPermitted, FsKeyOverflow
  <2>6. QED
    BY <1>4, <2>2, <2>3, <2>5
<1>5. OwnHandlers(f) \subseteq {"atEnd", "invalidKey"} /\ OwnHandlers(f) \subseteq f.s.phrases
  BY DEF OwnHandlers
<1>6. ASSUME NEW name \in OwnHandlers(f)
      PROVE  \E x : HasStep(f.s, x) /\ x.step = name
  <2>1. /\ Do("atEnd", {FsAtEnd}).step = "atEnd"
        /\ Do("invalidKey", InvalidWhen(f.s)).step = "invalidKey"
    BY DEF Do
  <2>2. /\ "atEnd" \in f.s.phrases => HasStep(f.s, Do("atEnd", {FsAtEnd}))
        /\ "invalidKey" \in f.s.phrases => HasStep(f.s, Do("invalidKey", InvalidWhen(f.s)))
    BY DEF HasStep
  <2>3. QED
    BY <1>5, <2>1, <2>2
<1>7. QED
  BY <1>2, <1>3, <1>4, <1>5, <1>6

(* Whether a declarative is due is what the guard of the dispatch says. *)
LEMMA DeclarativeOfStatement ==
  ASSUME program \in Programs, NEW f, f.s \in ProgramStatements, f.fs \in Possible(f.s.op),
         ~(f.s.op = "write" /\ "invalidKey" \in f.s.phrases)
  PROVE  /\ \A x : HasStep(f.s, x) /\ x.step = "use" =>
              IF f.fs \in x.when /\ f.fs \notin Silent
              THEN DueDeclarative(f) = Chosen(f.s.file, IF f.s.op = "open" THEN f.s.mode ELSE f.was)
              ELSE DueDeclarative(f) = 0
         /\ HasStatus(f.s.file) /\ (\A x : HasStep(f.s, x) => x.step # "use") => DueDeclarative(f) = 0
<1>1. f.s.op \in Operations /\ f.s.phrases \in PhraseSets(f.s.op)
  BY StatementParts
<1>2. f.fs \in All
  BY HandlersOfStatement
<1>3. ASSUME ~HasDeclaratives  PROVE DueDeclarative(f) = 0
  <2>1. program.uses = <<>>
    BY <1>3 DEF HasDeclaratives
  <2>2. \A m : Chosen(f.s.file, m) = 0
    BY <2>1 DEF Chosen
  <2>3. QED
    BY <2>2 DEF DueDeclarative
<1>4. ASSUME NEW x, HasStep(f.s, x), x.step = "use"
      PROVE  IF f.fs \in x.when /\ f.fs \notin Silent
             THEN DueDeclarative(f) = Chosen(f.s.file, IF f.s.op = "open" THEN f.s.mode ELSE f.was)
             ELSE DueDeclarative(f) = 0
  <2>1. x = Do("use", UseWhen(f.s)) /\ Dispatches(f.s)
    BY <1>4 DEF HasStep, Do
  <2>2. x.when = UseWhen(f.s)
    BY <2>1 DEF Do
  <2>3. CASE f.s.op = "read"
    <3>1. f.fs \in UseWhen(f.s) /\ f.fs \notin Silent
            <=> f.fs \notin Successful /\ OwnHandlers(f) = {}
      BY <1>1, <1>2, <2>3 DEF UseWhen, ReadUnhandled, OwnHandlers, Possible, ReadSuccess, Silent,
           Successful, FsOk, FsDuplicateAltSuccess, FsOptionalCreated, FsNoReel, FsAtEnd,
           FsRecNotFound, FsIoError, FsNoValidNextRecord, FsReadNotPermitted, FsKeyOverflow
    <3>2. QED
      BY <2>2, <3>1 DEF DueDeclarative
  <2>4. CASE f.s.op # "read"
    <3>1. f.fs \in UseWhen(f.s) /\ f.fs \notin Silent <=> f.fs \notin Successful
      BY <1>1, <1>2, <2>1, <2>4 DEF UseWhen, Dispatches, Possible, Operations, Silent, Successful, FsOk,
           FsDuplicateAltSuccess, FsOptionalCreated, FsNoReel, FsAtEnd, FsIoError, FsNotFound,
           FsLocked, FsAlreadyOpen, FsNotOpen
    <3>2. f.fs \notin Successful => OwnHandlers(f) = {}
      BY <1>1, <2>1, <2>4 DEF Dispatches, OwnHandlers, PhraseSets, Operations, KeyPhraseSets,
           PagePhraseSets
    <3>3. QED
      BY <2>2, <3>1, <3>2 DEF DueDeclarative
  <2>5. QED
    BY <2>3, <2>4
<1>5. ASSUME HasStatus(f.s.file), \A x : HasStep(f.s, x) => x.step # "use"
      PROVE  DueDeclarative(f) = 0
  <2>1. Do("use", UseWhen(f.s)).step = "use"
    BY DEF Do
  <2>2. ~Dispatches(f.s)
    BY <1>5, <2>1 DEF HasStep
  <2>3. \/ ~HasDeclaratives \/ f.s.op = "closeUnit"
        \/ f.s.op \in {"rewrite", "delete", "start"} /\ "invalidKey" \in f.s.phrases
    BY <1>5, <2>2 DEF Dispatches
  <2>4. f.s.op = "closeUnit" => f.fs \in Successful
    BY DEF Possible, Successful
  <2>5. "invalidKey" \in f.s.phrases /\ f.fs \notin Successful => OwnHandlers(f) # {}
    BY DEF OwnHandlers
  <2>6. QED
    BY <1>3, <2>3, <2>4, <2>5 DEF DueDeclarative
<1>6. QED
  BY <1>4, <1>5

(***************************************************************************)
(* A statement passes a step                                               *)
(***************************************************************************)

(* What is left of the code after its first step. *)
LEMMA Advance ==
  ASSUME program \in Programs, NEW f, NEW g, f.s \in ProgramStatements, Rest(f), f.code # <<>>,
         g.s = f.s, g.code = Tail(f.code)
  PROVE  LET h == Head(f.code) IN
         /\ h \in Steps /\ HasStep(f.s, h)
         /\ Rest(g)
         /\ \A n : Ahead(g, n) <=> Ahead(f, n) /\ n # h.step
         /\ Ahead(f, h.step)
         /\ \A y \in Range(g.code) : y \in Steps /\ y \in Range(f.code) /\ Rank(h.step) < Rank(y.step)
         /\ \A x : HasStep(f.s, x) /\ Rank(x.step) > Rank(h.step) => x \in Range(g.code)
         /\ \A x : HasStep(f.s, x) /\ x.step = h.step => x = h
<1> DEFINE h == Head(f.code)
<1>1. f.code \in Seq(Steps) /\ InOrder(f.code)
  BY DEF Rest
<1>2. /\ h \in Range(f.code) /\ h = f.code[1] /\ Range(f.code) = {h} \cup Range(g.code)
  BY <1>1, RangeOfTail
<1>3. /\ g.code \in Seq(Steps) /\ Len(f.code) \in Nat \ {0} /\ DOMAIN f.code = 1..Len(f.code)
      /\ DOMAIN g.code = 1..(Len(f.code) - 1)
      /\ \A i \in 1..(Len(f.code) - 1) : g.code[i] = f.code[i + 1]
  BY <1>1
<1> HIDE DEF h
<1>4. InOrder(g.code)
  <2>1. SUFFICES ASSUME NEW i \in DOMAIN g.code, NEW j \in DOMAIN g.code, i < j
                 PROVE  Rank(g.code[i].step) < Rank(g.code[j].step)
    BY DEF InOrder
  <2>2. i + 1 \in DOMAIN f.code /\ j + 1 \in DOMAIN f.code /\ i + 1 < j + 1
    BY <1>3, <2>1
  <2>3. Rank(f.code[i + 1].step) < Rank(f.code[j + 1].step)
    BY <1>1, <2>2 DEF InOrder
  <2>4. QED
    BY <2>3, <1>3
<1>5. ASSUME NEW y \in Range(g.code)
      PROVE  y \in Steps /\ y \in Range(f.code) /\ Rank(h.step) < Rank(y.step)
  <2>1. PICK i \in 1..(Len(f.code) - 1) : y = f.code[i + 1]
    BY <1>3 DEF Range
  <2>2. 1 \in DOMAIN f.code /\ i + 1 \in DOMAIN f.code /\ 1 < i + 1
    BY <1>3
  <2>3. Rank(f.code[1].step) < Rank(f.code[i + 1].step)
    BY <1>1, <2>2 DEF InOrder
  <2>4. y \in Range(f.code) /\ y \in Steps
    BY <1>1, <1>2, <2>1, <2>2 DEF Range
  <2>5. QED
    BY <2>1, <2>3, <2>4, <1>2
<1>6. h \in Steps
  BY <1>1, <1>3, <1>2
<1>7. \A y \in Steps : y.step \in StepNames /\ Rank(y.step) \in 1..16
  BY RankType DEF Steps
<1>8. Range(f.code) \subseteq Range(Code(f.s))
  BY DEF Rest
<1>9. \A x \in Range(Code(f.s)) : x \in Steps
  BY CodeSteps DEF Range
<1>10. ASSUME NEW x \in Range(Code(f.s)) \ Range(g.code), NEW y \in Range(g.code)
       PROVE  Rank(x.step) < Rank(y.step)
  <2>1. CASE x \in Range(f.code)
    BY <1>2, <1>5, <2>1
  <2>2. CASE x \notin Range(f.code)
    BY <1>5, <2>2 DEF Rest
  <2>3. QED
    BY <2>1, <2>2
<1>11. Rest(g)
  BY <1>2, <1>3, <1>4, <1>8, <1>10 DEF Rest
<1>12. HasStep(f.s, h)
  BY <1>2, <1>8, CodeSteps
<1>13. \A n : Ahead(g, n) <=> Ahead(f, n) /\ n # h.step
  <2>1. TAKE n
  <2>2. ASSUME Ahead(g, n)  PROVE Ahead(f, n) /\ n # h.step
    BY <1>5, <1>6, <1>7, <2>2 DEF Ahead
  <2>3. ASSUME Ahead(f, n), n # h.step  PROVE Ahead(g, n)
    BY <1>2, <2>3 DEF Ahead
  <2>4. QED
    BY <2>2, <2>3
<1>14. \A x : HasStep(f.s, x) => x \in Steps /\ x \in Range(Code(f.s))
  BY CodeSteps, <1>9
<1>15. ASSUME NEW x, HasStep(f.s, x), Rank(x.step) > Rank(h.step)  PROVE x \in Range(g.code)
  <2>1. x \in Range(f.code)
    <3>1. x \notin Range(f.code) => Rank(x.step) < Rank(h.step)
      BY <1>2, <1>14, <1>15 DEF Rest
    <3>2. Rank(x.step) \in Int /\ Rank(h.step) \in Int
      BY <1>6, <1>7, <1>14, <1>15
    <3>3. QED
      BY <3>1, <3>2, <1>15
  <2>2. x # h
    BY <1>6, <1>7, <1>15
  <2>3. QED
    BY <2>1, <2>2, <1>2
<1>16. ASSUME NEW x, HasStep(f.s, x), x.step = h.step  PROVE x = h
  <2>1. x \in Range(f.code)
    BY <1>2, <1>6, <1>7, <1>14, <1>16 DEF Rest
  <2>2. QED
    BY <2>1, <1>2, <1>5, <1>6, <1>7, <1>16
<1>17. Ahead(f, h.step)
  BY <1>2 DEF Ahead
<1>18. QED
  BY <1>5, <1>6, <1>11, <1>12, <1>13, <1>15, <1>16, <1>17 DEF h

(* A statement passes a step and keeps its status: what it does at the step *)
(* is what the guard of the step says.                                      *)
LEMMA StatementGoesOn ==
  ASSUME program \in Programs, NEW f, NEW g, f.s \in ProgramStatements, StatementInv(f),
         f.code # <<>>, f.ran \subseteq Phrases \cup {"store"},
         g.s = f.s, g.code = Tail(f.code), g.fs = f.fs, g.was = f.was,
         \/ g.ran = f.ran
         \/ /\ g.ran = f.ran \cup {Head(f.code).step}
            /\ f.fs \in Head(f.code).when /\ Head(f.code).step \in Phrases \cup {"store"},
         Head(f.code).step \in {"atEnd", "invalidKey"} /\ f.fs \in Head(f.code).when
           => g.ran = f.ran \cup {Head(f.code).step},
         g.inside => g.ran \cap Phrases # {},
         Head(f.code).step # "use" => g.use = f.use,
         Head(f.code).step = "use" /\ HasStatus(f.s.file)
             /\ ~(f.s.op = "write" /\ "invalidKey" \in f.s.phrases)
           => g.use = DueDeclarative(f)
  PROVE  StatementInv(g)
<1> DEFINE h == Head(f.code)
<1>1. /\ h \in Steps /\ HasStep(f.s, h) /\ Rest(g)
      /\ \A n : Ahead(g, n) <=> Ahead(f, n) /\ n # h.step
      /\ Ahead(f, h.step)
      /\ \A y \in Range(g.code) : y \in Range(f.code) /\ Rank(h.step) < Rank(y.step)
      /\ \A x : HasStep(f.s, x) /\ x.step = h.step => x = h
  BY Advance DEF StatementInv
<1>2. g.ran \subseteq f.ran \cup {h.step}
  OBVIOUS
<1>3. OwnHandlers(g) = OwnHandlers(f) /\ DueDeclarative(g) = DueDeclarative(f)
  BY DEF OwnHandlers, DueDeclarative
<1>4. /\ f.fs \in Possible(f.s.op) /\ f.fs \in All
      /\ h.step \in {"atEnd", "invalidKey"} => (f.fs \in h.when <=> h.step \in OwnHandlers(f))
  BY <1>1, HandlersOfStatement DEF StatementInv
<1> HIDE DEF h
<1>5. \A name \in g.ran, y \in Range(g.code) : Rank(name) < Rank(y.step)
  BY <1>1, <1>2 DEF StatementInv
<1>6. ~Asked(g) => g.fs = FsOk
  BY <1>1 DEF StatementInv, Asked
<1>7. Ahead(g, "use") => g.use = 0
  BY <1>1 DEF StatementInv, h
<1>8. g.ran \cap {"store", "notInvalidKey"} # {} => g.fs \in Successful
  <2>1. CASE f.ran \cap {"store", "notInvalidKey"} # {}
    BY <2>1 DEF StatementInv
  <2>2. CASE h.step \in {"store", "notInvalidKey"} /\ f.fs \in h.when
    <3>1. h.when \subseteq ReadSuccess \cup {FsOk}
      BY <1>1, <2>2 DEF HasStep, Do, ValidWhen
    <3>2. QED
      BY <2>2, <3>1 DEF ReadSuccess, Successful
  <2>3. QED
    BY <2>1, <2>2 DEF h
<1>9. (HasStatus(g.s.file) \/ HasDeclaratives) /\ g.ran \cap {"atEop", "notAtEop"} # {}
        => g.fs \in Successful
  <2> SUFFICES ASSUME HasStatus(f.s.file) \/ HasDeclaratives, g.ran \cap {"atEop", "notAtEop"} # {}
               PROVE  g.fs \in Successful
    OBVIOUS
  <2>1. CASE f.ran \cap {"atEop", "notAtEop"} # {}
    BY <2>1 DEF StatementInv
  <2>2. CASE h.step \in {"atEop", "notAtEop"} /\ f.fs \in h.when
    <3>1. h.when = {FsOk}
      BY <1>1, <2>2 DEF HasStep, Do, EopWhen, PageWhen
    <3>2. QED
      BY <2>2, <3>1 DEF Successful
  <2>3. QED
    BY <2>1, <2>2 DEF h
<1>10. g.ran \cap {"atEnd", "invalidKey"} \subseteq OwnHandlers(g)
  BY <1>3, <1>4 DEF StatementInv, h
<1>11. \A name \in OwnHandlers(g) : name \in g.ran \/ Ahead(g, name)
  <2> SUFFICES ASSUME NEW name \in OwnHandlers(f)
               PROVE  name \in g.ran \/ Ahead(g, name)
    BY <1>3
  <2>1. CASE name = h.step
    <3>1. name \in {"atEnd", "invalidKey"}
      BY HandlersOfStatement DEF StatementInv
    <3>2. QED
      BY <1>4, <2>1, <3>1 DEF h
  <2>2. CASE name # h.step
    BY <1>1, <2>2 DEF StatementInv
  <2>3. QED
    BY <2>1, <2>2
<1>12. HasStatus(g.s.file) /\ ~Ahead(g, "use") /\ ~(g.s.op = "write" /\ "invalidKey" \in g.s.phrases)
         => g.use = DueDeclarative(g)
  BY <1>1, <1>3 DEF StatementInv, h
<1>13. QED
  BY <1>1, <1>4, <1>5, <1>6, <1>7, <1>8, <1>9, <1>10, <1>11, <1>12 DEF StatementInv

(* A statement is answered a status: nothing that depends on it was done. *)
LEMMA StatementAnswered ==
  ASSUME program \in Programs, NEW f, NEW g, f.s \in ProgramStatements, StatementInv(f),
         f.code # <<>>, f.ran \subseteq Phrases \cup {"store"},
         Head(f.code).step \in {"call", "noReel", "checkNumber"},
         g.s = f.s, g.code = Tail(f.code), g.fs \in Possible(f.s.op),
         g.ran = f.ran, g.inside = f.inside, g.use = f.use
  PROVE  StatementInv(g) /\ Asked(g) /\ g.ran = {}
<1> DEFINE h == Head(f.code)
<1>1. /\ h \in Steps /\ HasStep(f.s, h) /\ Rest(g)
      /\ \A n : Ahead(g, n) <=> Ahead(f, n) /\ n # h.step
      /\ Ahead(f, h.step)
      /\ \A y \in Range(g.code) : y \in Steps /\ y \in Range(f.code) /\ Rank(h.step) < Rank(y.step)
      /\ \A x : HasStep(f.s, x) /\ Rank(x.step) > Rank(h.step) => x \in Range(g.code)
  BY Advance DEF StatementInv
<1>2. h.step \in {"call", "noReel", "checkNumber"} /\ Rank(h.step) \in 1..3
  BY RankValues
<1> HIDE DEF h
<1>3. f.ran = {}
  <2>1. \A name \in f.ran : Rank(name) < Rank(h.step)
    BY <1>1 DEF StatementInv, Ahead
  <2>2. \A name \in Phrases \cup {"store"} : Rank(name) \in 9..16
    BY RankValues DEF Phrases
  <2>3. QED
    BY <1>2, <2>1, <2>2
<1>4. \A x : HasStep(f.s, x) /\ x.step \in {"use", "atEnd", "invalidKey"} => x \in Range(g.code)
  BY <1>1, <1>2, RankValues
<1>5. Asked(g)
  <2>1. CASE h.step = "checkNumber"
    <3>1. \A y \in Range(g.code) : Rank(y.step) > 3
      BY <1>1, <2>1, RankValues
    <3>2. QED
      BY <3>1, RankValues DEF Asked, Ahead
  <2>2. CASE h.step = "noReel"
    <3>1. \A y \in Range(g.code) : Rank(y.step) > 2
      BY <1>1, <2>2, RankValues
    <3>2. QED
      BY <3>1, RankValues DEF Asked, Ahead
  <2>3. CASE h.step = "call"
    <3>1. f.s.op # "closeUnit"
      BY <1>1, <2>3 DEF HasStep, Do
    <3>2. \A x : HasStep(f.s, x) => x.step # "noReel"
      BY <3>1 DEF HasStep, Do
    <3>3. \A y \in Range(g.code) : HasStep(f.s, y)
      BY <1>1, CodeSteps DEF Rest
    <3>4. QED
      BY <1>1, <2>3, <3>2, <3>3 DEF Asked, Ahead
  <2>4. QED
    BY <1>2, <2>1, <2>2, <2>3
<1>6. ~f.inside
  BY <1>3 DEF StatementInv
<1>7. Ahead(f, "use") <=> Ahead(g, "use")
  BY <1>1, <1>2
<1>8. \A name \in OwnHandlers(g) : Ahead(g, name)
  <2>1. ASSUME NEW name \in OwnHandlers(g)  PROVE Ahead(g, name)
    <3>1. name \in {"atEnd", "invalidKey"} /\ \E x : HasStep(g.s, x) /\ x.step = name
      BY HandlersOfStatement
    <3>2. QED
      BY <1>4, <3>1 DEF Ahead
  <2>2. QED
    BY <2>1
<1>9. HasStatus(g.s.file) /\ ~Ahead(g, "use") /\ ~(g.s.op = "write" /\ "invalidKey" \in g.s.phrases)
        => g.use = DueDeclarative(g)
  <2> SUFFICES ASSUME HasStatus(f.s.file), ~Ahead(g, "use"),
                      ~(f.s.op = "write" /\ "invalidKey" \in f.s.phrases)
               PROVE  f.use = 0 /\ DueDeclarative(g) = 0
    OBVIOUS
  <2>1. \A x : HasStep(f.s, x) => x.step # "use"
    BY <1>4 DEF Ahead
  <2>2. DueDeclarative(g) = 0 /\ DueDeclarative(f) = 0
    BY <2>1, DeclarativeOfStatement DEF StatementInv
  <2>3. QED
    BY <1>7, <2>2 DEF StatementInv
<1>10. QED
  BY <1>1, <1>3, <1>5, <1>6, <1>7, <1>8, <1>9 DEF StatementInv

(* A statement starts with all of its code ahead of it. *)
LEMMA StatementStarts ==
  ASSUME program \in Programs, NEW s \in ProgramStatements
  PROVE  StatementInv(Frame(s, Code(s))) /\ Frame(s, Code(s)) \in Frames
<1> DEFINE g == Frame(s, Code(s))
<1>1. /\ g.s = s /\ g.code = Code(s) /\ g.fs = FsOk /\ g.was = "Closed" /\ g.use = 0
      /\ g.ran = {} /\ ~g.inside /\ g.page \in BOOLEAN
  BY DEF Frame
<1>2. /\ Code(s) \in Seq(Steps) /\ InOrder(Code(s))
      /\ \A x : x \in Range(Code(s)) <=> HasStep(s, x)
  BY CodeSteps
<1>3. g \in Frames
  <2>1. Len(program.uses) \in Nat
    BY ProgramsAssumption
  <2>2. FsOk \in All
    BY DEF All, Statuses
  <2>3. QED
    BY <1>2, <2>1, <2>2 DEF Frame, Frames
<1> HIDE DEF g
<1>4. FsOk \in Possible(s.op) /\ FsOk \in Successful
  <2>1. FsOk \in All \ {FsDuplicateAltSuccess, FsOptionalCreated, FsNoReel, FsAtEnd}
    BY DEF All, Statuses, FsOk, FsDuplicateAltSuccess, FsOptionalCreated, FsNoReel, FsAtEnd
  <2>2. QED
    BY <2>1 DEF Possible, Successful
<1>5. OwnHandlers(g) = {} /\ DueDeclarative(g) = 0
  BY <1>1, <1>4 DEF OwnHandlers, DueDeclarative
<1>6. Rest(g)
  BY <1>1, <1>2 DEF Rest
<1>7. StatementInv(g)
  BY <1>1, <1>4, <1>5, <1>6 DEF StatementInv
<1>8. QED
  BY <1>3, <1>7 DEF g

(***************************************************************************)
(* The stack                                                               *)
(***************************************************************************)

LEMMA StackFacts ==
  ASSUME NEW st, GoodStack(st), st # <<>>
  PROVE  /\ Len(st) \in Nat \ {0} /\ DOMAIN st = 1..Len(st)
         /\ Last(st) = st[Len(st)] /\ Last(st) \in Frames /\ FrameInv(Last(st))
         /\ Front(st) = SubSeq(st, 1, Len(st) - 1)
         /\ Len(st) > 1 => Links(st[Len(st) - 1], Last(st))
         /\ Len(st) = 1 => ~IsDeclarative(Last(st))
<1>1. st \in Seq(Frames)
  BY DEF GoodStack
<1>2. Len(st) \in Nat \ {0} /\ DOMAIN st = 1..Len(st)
  BY <1>1
<1>3. Len(st) \in DOMAIN st /\ st[Len(st)] \in Frames
  BY <1>1, <1>2
<1>4. QED
  BY <1>2, <1>3 DEF GoodStack, Last, Front

LEMMA DeclarativeFrame ==
  ASSUME program \in Programs
  PROVE  Declarative \in Frames /\ FrameInv(Declarative) /\ IsDeclarative(Declarative) /\ Declarative.inside
<1>1. Len(program.uses) \in Nat /\ FsOk \in All
  BY ProgramsAssumption DEF All, Statuses
<1>2. Declarative \in Frames
  <2> DEFINE r == Frame(Statement("declarative", "none", "Closed", {}), <<>>)
  <2>1. r \in Frames
    BY <1>1 DEF Frame, Frames
  <2>2. [r EXCEPT !.inside = TRUE] \in Frames
    BY <2>1 DEF Frames
  <2>3. QED
    BY <2>2 DEF Declarative
<1>3. IsDeclarative(Declarative) /\ Declarative.inside
  BY DEF Declarative, Frame, IsDeclarative, Statement
<1>4. QED
  BY <1>2, <1>3 DEF FrameInv

LEMMA StatementFrame ==
  ASSUME program \in Programs, NEW f \in Frames
  PROVE  /\ IsDeclarative(f) <=> f.s \notin ProgramStatements
         /\ FrameInv(f) /\ ~IsDeclarative(f) => f.s \in ProgramStatements /\ StatementInv(f)
<1>1. \A s \in ProgramStatements : s.op # "declarative"
  BY StatementParts DEF Operations
<1>2. Statement("declarative", "none", "Closed", {}).op = "declarative"
  BY DEF Statement
<1>3. f.s \in ProgramStatements \cup {Statement("declarative", "none", "Closed", {})}
  BY DEF Frames
<1>4. QED
  BY <1>1, <1>2, <1>3 DEF IsDeclarative, FrameInv

LEMMA StackPrefix ==
  ASSUME NEW st, GoodStack(st), NEW n \in 0..Len(st)
  PROVE  GoodStack(SubSeq(st, 1, n))
<1> DEFINE pre == SubSeq(st, 1, n)
<1>1. st \in Seq(Frames) /\ Len(st) \in Nat /\ DOMAIN st = 1..Len(st)
  BY DEF GoodStack
<1>2. pre \in Seq(Frames) /\ Len(pre) = n /\ DOMAIN pre = 1..n /\ \A i \in 1..n : pre[i] = st[i]
  BY <1>1, PrefixProperties
<1> HIDE DEF pre
<1>3. \A i \in 1..n : i \in DOMAIN st
  BY <1>1
<1>4. Cardinality({i \in DOMAIN pre : ~IsDeclarative(pre[i])}) <= MaxDepth
  <2> DEFINE U == {i \in DOMAIN st : ~IsDeclarative(st[i])}
             V == {i \in DOMAIN pre : ~IsDeclarative(pre[i])}
  <2>1. V \subseteq U
    BY <1>2, <1>3
  <2>2. IsFiniteSet(U)
    <3>1. U \subseteq 1..Len(st) /\ IsFiniteSet(1..Len(st))
      BY <1>1, FS_Interval
    <3>2. QED
      BY <3>1, FS_Subset
  <2>3. Cardinality(V) <= Cardinality(U) /\ Cardinality(V) \in Nat /\ Cardinality(U) \in Nat
    BY <2>1, <2>2, FS_Subset, FS_CardinalityType
  <2>4. Cardinality(U) <= MaxDepth
    BY DEF GoodStack
  <2>5. QED
    BY <2>3, <2>4, DepthAssumption
<1>5. \A i \in DOMAIN pre : i > 1 => Links(pre[i - 1], pre[i])
  <2>1. SUFFICES ASSUME NEW i \in 1..n, i > 1  PROVE Links(pre[i - 1], pre[i])
    BY <1>2
  <2>2. i - 1 \in 1..n
    BY <2>1
  <2>3. pre[i] = st[i] /\ pre[i - 1] = st[i - 1]
    BY <1>2, <2>2
  <2>4. QED
    BY <1>3, <2>1, <2>3 DEF GoodStack
<1>6. pre # <<>> => ~IsDeclarative(pre[1])
  <2>1. pre # <<>> => n > 0 /\ 1 \in 1..n
    BY <1>2
  <2>2. n > 0 => st # <<>>
    BY <1>1
  <2>3. QED
    BY <1>2, <2>1, <2>2 DEF GoodStack
<1>7. QED
  BY <1>2, <1>3, <1>4, <1>5, <1>6 DEF GoodStack, pre

LEMMA StackReplaced ==
  ASSUME NEW st, GoodStack(st), st # <<>>, NEW g \in Frames, FrameInv(g),
         ~IsDeclarative(g), ~IsDeclarative(Last(st))
  PROVE  /\ GoodStack(Append(Front(st), g)) /\ Append(Front(st), g) # <<>>
         /\ Last(Append(Front(st), g)) = g /\ Len(Append(Front(st), g)) = Len(st)
<1> DEFINE new == Append(Front(st), g)
<1>1. /\ Len(st) \in Nat /\ Len(st) >= 1 /\ 1 \in 1..Len(st)
      /\ DOMAIN st = 1..Len(st) /\ Last(st) = st[Len(st)]
  BY StackFacts
<1>2. /\ new \in Seq(Frames) /\ Len(new) = Len(st) /\ DOMAIN new = 1..Len(st)
      /\ \A i \in 1..Len(st) : new[i] = IF i = Len(st) THEN g ELSE st[i]
  <2>1. /\ new \in Seq(Frames) /\ Len(new) = Len(st)
        /\ \A i \in 1..Len(st) : new[i] = IF i = Len(st) THEN g ELSE st[i]
    <3>1. st \in Seq(Frames)
      BY DEF GoodStack
    <3>2. QED
      BY <3>1, ReplaceLast
  <2> HIDE DEF new
  <2>2. DOMAIN new = 1..Len(new)
    BY <2>1
  <2>3. QED
    BY <2>1, <2>2
<1> HIDE DEF new
<1>3. \A i \in DOMAIN new : IsDeclarative(new[i]) <=> IsDeclarative(st[i])
  BY <1>1, <1>2
<1>4. {i \in DOMAIN new : ~IsDeclarative(new[i])} = {i \in DOMAIN st : ~IsDeclarative(st[i])}
  BY <1>1, <1>2, <1>3
<1>5. \A i \in DOMAIN new : i > 1 => Links(new[i - 1], new[i])
  <2>1. SUFFICES ASSUME NEW i \in 1..Len(st), i > 1  PROVE Links(new[i - 1], new[i])
    BY <1>2
  <2>2. i - 1 \in 1..Len(st) /\ i - 1 # Len(st)
    BY <1>1, <2>1
  <2>3. new[i - 1] = st[i - 1] /\ Links(st[i - 1], st[i])
    BY <1>1, <1>2, <2>1, <2>2 DEF GoodStack
  <2>4. QED
    BY <1>1, <1>2, <1>3, <2>3 DEF Links
<1>6. \A i \in DOMAIN new : FrameInv(new[i])
  BY <1>1, <1>2 DEF GoodStack
<1>7. ~IsDeclarative(new[1])
  <2>1. 1 \in DOMAIN new
    BY <1>1, <1>2
  <2>2. QED
    BY <1>3, <2>1 DEF GoodStack
<1>8. GoodStack(new)
  BY <1>2, <1>4, <1>5, <1>6, <1>7 DEF GoodStack
<1>9. new # <<>> /\ Last(new) = g
  <2>1. new # <<>>
    <3>1. Len(new) = Len(st)
      BY <1>2
    <3>2. Len(new) # 0
      BY <1>1, <3>1
    <3>3. QED
      BY <3>2, EmptySeq
  <2>2. Last(new) = new[Len(new)]
    BY DEF Last
  <2>3. Len(st) \in 1..Len(st)
    BY <1>1
  <2>4. QED
    BY <1>2, <2>1, <2>2, <2>3
<1>10. QED
  BY <1>2, <1>8, <1>9 DEF new

LEMMA StackPushed ==
  ASSUME NEW st, GoodStack(st), NEW g \in Frames, FrameInv(g),
         st = <<>> => ~IsDeclarative(g),
         st # <<>> => Links(Last(st), g),
         ~IsDeclarative(g) => Cardinality({i \in DOMAIN st : ~IsDeclarative(st[i])}) < MaxDepth
  PROVE  GoodStack(Append(st, g)) /\ Append(st, g) # <<>> /\ Last(Append(st, g)) = g
<1> DEFINE new == Append(st, g)
           U == {i \in DOMAIN st : ~IsDeclarative(st[i])}
           V == {i \in DOMAIN new : ~IsDeclarative(new[i])}
<1>1. st \in Seq(Frames) /\ Len(st) \in Nat /\ DOMAIN st = 1..Len(st)
  BY DEF GoodStack
<1>2. /\ new \in Seq(Frames) /\ Len(new) = Len(st) + 1 /\ DOMAIN new = 1..(Len(st) + 1)
      /\ \A i \in 1..(Len(st) + 1) : new[i] = IF i = Len(st) + 1 THEN g ELSE st[i]
  BY <1>1
<1> HIDE DEF new
<1>3. new # <<>> /\ Last(new) = g
  BY <1>1, <1>2 DEF Last
<1>4. \A i \in DOMAIN new : FrameInv(new[i])
  <2>1. \A i \in 1..(Len(st) + 1) : i = Len(st) + 1 \/ i \in 1..Len(st)
    BY <1>1
  <2>2. QED
    BY <1>1, <1>2, <2>1 DEF GoodStack
<1>5. ~IsDeclarative(new[1])
  <2>1. CASE st = <<>>
    BY <1>2, <2>1
  <2>2. CASE st # <<>>
    <3>1. 1 \in 1..Len(st) /\ 1 # Len(st) + 1 /\ 1 \in 1..(Len(st) + 1)
      BY <1>1, <2>2
    <3>2. QED
      BY <1>2, <2>2, <3>1 DEF GoodStack
  <2>3. QED
    BY <2>1, <2>2
<1>6. \A i \in DOMAIN new : i > 1 => Links(new[i - 1], new[i])
  <2>1. SUFFICES ASSUME NEW i \in 1..(Len(st) + 1), i > 1  PROVE Links(new[i - 1], new[i])
    BY <1>2
  <2>2. i - 1 \in 1..Len(st) /\ i - 1 # Len(st) + 1 /\ new[i - 1] = st[i - 1]
    BY <1>1, <1>2, <2>1
  <2>3. CASE i = Len(st) + 1
    <3>1. i - 1 = Len(st) /\ Len(st) \in 1..Len(st) /\ Len(st) + 1 \in 1..(Len(st) + 1)
      BY <1>1, <2>1, <2>3
    <3>4. new[i] = g
      BY <1>2, <2>3, <3>1
    <3>2. Last(st) = st[Len(st)]
      BY DEF Last
    <3>3. st # <<>>
      BY <3>1, <1>1
    <3>5. QED
      BY <2>2, <3>1, <3>2, <3>3, <3>4
  <2>4. CASE i # Len(st) + 1
    <3>1. i \in 1..Len(st) /\ new[i] = st[i]
      BY <1>1, <1>2, <2>4
    <3>2. QED
      BY <1>1, <2>1, <2>2, <3>1 DEF GoodStack
  <2>5. QED
    BY <2>3, <2>4
<1>7. Cardinality(V) <= MaxDepth
  <2>1. IsFiniteSet(U) /\ Cardinality(U) \in Nat
    <3>1. U \subseteq 1..Len(st) /\ IsFiniteSet(1..Len(st))
      BY <1>1, FS_Interval
    <3>2. QED
      BY <3>1, FS_Subset, FS_CardinalityType
  <2>2. CASE IsDeclarative(g)
    <3>1. V = U
      BY <1>1, <1>2, <2>2
    <3>2. QED
      BY <3>1 DEF GoodStack
  <2>3. CASE ~IsDeclarative(g)
    <3>1. V = U \cup {Len(st) + 1}
      BY <1>1, <1>2, <2>3
    <3>2. Len(st) + 1 \notin U
      BY <1>1
    <3>3. Cardinality(V) = Cardinality(U) + 1
      BY <2>1, <3>1, <3>2, FS_AddElement
    <3>4. QED
      BY <2>1, <2>3, <3>3, DepthAssumption
  <2>4. QED
    BY <2>2, <2>3
<1>8. QED
  BY <1>2, <1>3, <1>4, <1>5, <1>6, <1>7 DEF GoodStack, new

(***************************************************************************)
(* The program never changes, so a frame is as good after a step as before *)
(***************************************************************************)

LEMMA SameProgram ==
  ASSUME program' = program
  PROVE  /\ ProgramStatements' = ProgramStatements
         /\ \A f : HasStatus(f)' <=> HasStatus(f)
         /\ \A s : Code(s)' = Code(s)
         /\ \A f, m : Chosen(f, m)' = Chosen(f, m)
<1>1. ProgramStatements' = ProgramStatements
  BY DEF ProgramStatements
<1>2. \A f : HasStatus(f)' <=> HasStatus(f)
  BY DEF HasStatus
<1>3. HasDeclaratives' <=> HasDeclaratives
  BY DEF HasDeclaratives
<1>4. \A s : Code(s)' = Code(s)
  BY DEF Code, OpenCode, CloseCode, CloseUnitCode, ReadCode, WriteCode, RewriteCode, DeleteCode,
         StartCode, StatusUpdate, HasStatus, HasDeclaratives
<1>5. \A f, m : Chosen(f, m)' = Chosen(f, m)
  BY DEF Chosen
<1>6. QED
  BY <1>1, <1>2, <1>4, <1>5

LEMMA SameStack ==
  ASSUME program' = program
  PROVE  \A st : GoodStack(st) => GoodStack(st)'
<1>1. HasDeclaratives' <=> HasDeclaratives
  BY DEF HasDeclaratives
<1>2. Frames' = Frames
  BY SameProgram DEF Frames
<1>3. \A f : Rest(f)' <=> Rest(f)
  BY SameProgram DEF Rest
<1>4. \A f : DueDeclarative(f)' = DueDeclarative(f)
  BY SameProgram DEF DueDeclarative
<1>5. \A f : StatementInv(f)' <=> StatementInv(f)
  BY <1>1, <1>3, <1>4, SameProgram DEF StatementInv
<1>6. \A f : FrameInv(f) => FrameInv(f)'
  BY <1>2, <1>5 DEF FrameInv
<1>7. QED
  BY <1>2, <1>6 DEF GoodStack

(***************************************************************************)
(* What the statement under way still owes the program                     *)
(***************************************************************************)
Owes(f) == Ahead(f, "tell") \/ Setting(f) \/ Clearing(f)
Free(f) == ~Owes(f) /\ ~Ahead(f, "use")

(* The items and FILE_MODE are what the runtime answered. *)
Quiet ==
  \A f \in Files : HasStatus(f) =>
    /\ ~answered[f].untold => statusItem[f] = answered[f].status
    /\ fileMode[f] = openMode[f]

LEMMA HeadIsFirst ==
  ASSUME NEW f, Rest(f), f.code # <<>>
  PROVE  /\ Head(f.code) \in Steps /\ Head(f.code) \in Range(f.code)
         /\ \A y \in Range(f.code) : y \in Steps /\ Rank(Head(f.code).step) <= Rank(y.step)
<1>1. f.code \in Seq(Steps) /\ InOrder(f.code)
  BY DEF Rest
<1>2. /\ Len(f.code) \in Nat /\ 1 \in 1..Len(f.code) /\ DOMAIN f.code = 1..Len(f.code)
      /\ Head(f.code) = f.code[1]
  BY <1>1
<1>3. \A x \in Steps : Rank(x.step) \in 1..16
  BY RankType DEF Steps
<1>4. ASSUME NEW i \in 1..Len(f.code)
      PROVE  f.code[i] \in Steps /\ Rank(f.code[1].step) <= Rank(f.code[i].step)
  <2>1. f.code[i] \in Steps
    BY <1>1, <1>2
  <2>2. CASE i = 1
    BY <1>3, <2>1, <2>2
  <2>3. CASE i # 1
    <3>1. 1 < i
      BY <1>2, <2>3
    <3>2. Rank(f.code[1].step) < Rank(f.code[i].step)
      BY <1>1, <1>2, <3>1 DEF InOrder
    <3>3. f.code[1] \in Steps
      BY <1>1, <1>2
    <3>4. Rank(f.code[1].step) \in 1..16 /\ Rank(f.code[i].step) \in 1..16
      BY <1>3, <2>1, <3>3
    <3>5. \A x, y \in 1..16 : x < y => x <= y
      OBVIOUS
    <3>6. QED
      BY ONLY <2>1, <3>2, <3>4, <3>5
  <2>4. QED
    BY <2>2, <2>3
<1>5. QED
  BY <1>2, <1>4 DEF Range

(* Past the dispatch nothing is owed. *)
LEMMA NothingOwed ==
  ASSUME program \in Programs, NEW f, f.s \in ProgramStatements, StatementInv(f)
  PROVE  /\ f.code = <<>> => Free(f)
         /\ f.inside => Free(f)
         /\ AtJump(f) => Free(f)
         /\ f.code # <<>> /\ Head(f.code).step \in Phrases => Free(f)
         /\ f.code # <<>> /\ Head(f.code).step \in {"use", "jump"} /\ f.fs \in Head(f.code).when
              => ~Owes(f)
<1>1. Rest(f)
  BY DEF StatementInv
<1>2. \A name \in Phrases : Rank(name) \in 11..16
  BY RankValues DEF Phrases
<1>3. ASSUME \A y \in Range(f.code) : Rank(y.step) >= 9
      PROVE  Free(f)
  BY <1>3, RankValues DEF Free, Owes, Setting, Clearing, Ahead
<1>4. f.code = <<>> => Free(f)
  <2>1. Range(<<>>) = {}
    BY DEF Range
  <2>2. QED
    BY <1>3, <2>1
<1>5. \A y \in Range(f.code) : Rank(y.step) \in 1..16
  <2>1. \A y \in Range(f.code) : y \in Steps
    BY <1>1 DEF Rest, Range
  <2>2. QED
    BY <2>1, RankType DEF Steps
<1>6. f.inside => Free(f)
  <2>1. ASSUME f.inside  PROVE \A y \in Range(f.code) : Rank(y.step) >= 9
    <3>1. PICK name \in Phrases : name \in f.ran
      BY <2>1 DEF StatementInv
    <3>2. \A y \in Range(f.code) : Rank(name) < Rank(y.step)
      BY <3>1 DEF StatementInv
    <3>3. QED
      BY <1>2, <1>5, <3>2
  <2>2. QED
    BY <1>3, <2>1
<1>7. f.code # <<>> /\ Head(f.code).step \in Phrases => Free(f)
  <2>1. ASSUME f.code # <<>>, Head(f.code).step \in Phrases
        PROVE  \A y \in Range(f.code) : Rank(y.step) >= 9
    <3>1. Rank(Head(f.code).step) \in 11..16
      BY <1>2, <2>1
    <3>2. QED
      BY <1>1, <1>5, <2>1, <3>1, HeadIsFirst
  <2>2. QED
    BY <1>3, <2>1
<1>8. ASSUME f.code # <<>>, Head(f.code).step \in {"use", "jump"}, f.fs \in Head(f.code).when
      PROVE  ~Owes(f) /\ (Head(f.code).step = "jump" => ~Ahead(f, "use"))
  <2> DEFINE h == Head(f.code)
  <2>1. /\ h \in Range(f.code)
        /\ \A y \in Range(f.code) : Rank(h.step) <= Rank(y.step)
    BY <1>1, <1>8, HeadIsFirst
  <2>2. HasStep(f.s, h)
    BY <1>1, <2>1, CodeSteps DEF Rest
  <2>3. ~Ahead(f, "tell") /\ ~Ahead(f, "setMode") /\ (h.step = "jump" => ~Ahead(f, "use"))
    BY <1>8, <2>1, RankValues DEF Ahead
  <2>4. ~Clearing(f)
    <3>1. h = Do(h.step, UseWhen(f.s))
      BY <1>8, <2>2 DEF HasStep, Do
    <3>2. h.when = UseWhen(f.s)
      BY <3>1 DEF Do
    <3>3. f.s.op = "close" => f.fs # FsOk
      BY <1>8, <3>2 DEF UseWhen
    <3>4. QED
      BY <3>3 DEF Clearing
  <2>5. QED
    BY <2>3, <2>4 DEF Owes, Setting
<1>9. AtJump(f) => Free(f)
  BY <1>8 DEF AtJump, Free
<1>10. QED
  BY <1>4, <1>6, <1>7, <1>8, <1>9

(* Before the runtime is called nothing is known of the statement. *)
LEMMA NothingOwedBefore ==
  ASSUME program \in Programs, NEW s \in ProgramStatements, Asked(Frame(s, Code(s)))
  PROVE  Free(Frame(s, Code(s)))
<1> DEFINE g == Frame(s, Code(s))
<1>1. g.s = s /\ g.code = Code(s)
  BY DEF Frame
<1> HIDE DEF g
<1>2. \A n : Ahead(g, n) <=> \E x : HasStep(s, x) /\ x.step = n
  BY <1>1, CodeSteps DEF Ahead
<1>3. ~(\E x : HasStep(s, x) /\ x.step \in {"call", "noReel"})
  BY <1>2 DEF Asked, g
<1>4. s.op = "closeUnit" /\ ~HasStatus(s.file)
  <2>1. Do("call", All).step = "call" /\ Do("noReel", All).step = "noReel"
    BY DEF Do
  <2>2. ~HasStep(s, Do("call", All)) /\ ~HasStep(s, Do("noReel", All))
    BY <1>3, <2>1
  <2>3. s.op = "closeUnit"
    BY <2>2 DEF HasStep
  <2>4. QED
    BY <2>2, <2>3 DEF HasStep
<1>5. \A x : HasStep(s, x) => x.step \notin {"tell", "use", "setMode", "clearMode"}
  BY <1>4, StatementParts DEF HasStep, Do, Dispatches, PhraseSets
<1>6. QED
  BY <1>2, <1>5 DEF Free, Owes, Setting, Clearing, g

LEMMA QuietUnlessOwed ==
  ASSUME ToldInv, ModeInv, ~(Running /\ Asked(Top) /\ Owes(Top))
  PROVE  Quiet
BY DEF ToldInv, ModeInv, Quiet, Owes

LEMMA QuietIsEnough ==
  ASSUME Quiet, UNCHANGED <<program, openMode, fileMode, statusItem, answered>>,
         ~Running' \/ ~Asked(Top') \/ Free(Top')
  PROVE  ToldInv' /\ ModeInv'
<1>1. \A f \in Files : HasStatus(f)' =>
        /\ ~answered'[f].untold => statusItem'[f] = answered'[f].status
        /\ fileMode'[f] = openMode'[f]
  BY DEF Quiet, HasStatus
<1>2. ToldInv'
  BY <1>1 DEF ToldInv, Free, Owes
<1>3. ModeInv'
  BY <1>1 DEF ModeInv, Free, Owes
<1>4. QED
  BY <1>2, <1>3

(* A GO TO that is left behind waits at the jump. *)
LEMMA JumpWaits ==
  ASSUME TargetInv, target
  PROVE  Fires("jump") /\ stack # <<>> /\ Top.code # <<>> /\ Head(Top.code).step = "jump"
         /\ Top.fs \in Head(Top.code).when /\ ~Top.inside
BY DEF TargetInv, AtJump, Fires, AtStep, Running, NextStep

LEMMA TopStatement ==
  ASSUME IInv, Running
  PROVE  /\ stack # <<>> /\ ~Top.inside /\ Top \in Frames /\ ~IsDeclarative(Top)
         /\ Top.s \in ProgramStatements /\ StatementInv(Top) /\ Top.s.file \in Files
         /\ Top.s.mode \in Modes \cup {"Closed"}
         /\ Top.fs \in All /\ Top.fs \in Possible(Top.s.op) /\ Top.ran \subseteq Phrases \cup {"store"}
<1>1. stack # <<>> /\ ~Top.inside /\ GoodStack(stack) /\ program \in Programs
  BY DEF IInv, VarsOK, StackInv, Running
<1>2. Top \in Frames /\ FrameInv(Top)
  BY <1>1, StackFacts DEF Top
<1>3. ~IsDeclarative(Top)
  BY <1>1, <1>2, DeclarativeFrame DEF FrameInv
<1>4. Top.s \in ProgramStatements /\ StatementInv(Top)
  BY <1>1, <1>2, <1>3, StatementFrame
<1>5. QED
  BY <1>1, <1>2, <1>3, <1>4, StatementParts DEF Frames, StatementInv

(***************************************************************************)
(* The steps                                                               *)
(***************************************************************************)

(* The statement under way is replaced by what it is after its step. *)
LEMMA TopReplaced ==
  ASSUME IInv, Running, UNCHANGED program, NEW g \in Frames, g.s = Top.s, StatementInv(g),
         stack' = Replaced(g)
  PROVE  /\ StackInv' /\ stack' # <<>> /\ Top' = g
         /\ Running' <=> ~g.inside
<1>1. stack # <<>> /\ GoodStack(stack) /\ Top.s \in ProgramStatements /\ ~IsDeclarative(Top)
  BY TopStatement DEF IInv, StackInv
<1>2. FrameInv(g) /\ ~IsDeclarative(g)
  BY <1>1 DEF FrameInv, IsDeclarative
<1>3. GoodStack(Append(Front(stack), g)) /\ Append(Front(stack), g) # <<>>
      /\ Last(Append(Front(stack), g)) = g
  BY <1>1, <1>2, StackReplaced DEF Top
<1>4. GoodStack(stack') /\ stack' # <<>> /\ Last(stack') = g
  BY <1>3 DEF Replaced
<1>5. StackInv'
  BY <1>4, SameStack DEF StackInv
<1>6. Top' = g
  BY <1>4 DEF Top
<1>7. QED
  BY <1>4, <1>5, <1>6 DEF Running

(* A step that neither calls the runtime nor tells the program anything. *)
LEMMA SilentStep ==
  ASSUME IInv, Running, Top.code # <<>>, ~target, NEW g \in Frames,
         UNCHANGED <<program, openMode, fileMode, statusItem, answered, target>>,
         stack' = Replaced(g), g.s = Top.s, g.code = Tail(Top.code), g.fs = Top.fs, g.was = Top.was,
         StatementInv(g), g.inside => Head(Top.code).step \in Phrases,
         Head(Top.code).step \notin {"call", "noReel", "tell"},
         Head(Top.code).step \in {"setMode", "clearMode"} => Top.fs \notin Head(Top.code).when
  PROVE  IInv'
<1> DEFINE h == Head(Top.code)
<1>1. /\ Top.s \in ProgramStatements /\ StatementInv(Top) /\ program \in Programs /\ Top.fs \in All
  BY TopStatement DEF IInv, VarsOK
<1>2. /\ StackInv' /\ stack' # <<>> /\ Top' = g
      /\ Running' <=> ~g.inside
  BY TopReplaced
<1>3. /\ h \in Steps /\ HasStep(Top.s, h)
      /\ \A n : Ahead(g, n) <=> Ahead(Top, n) /\ n # h.step
  BY <1>1, Advance DEF StatementInv
<1> HIDE DEF h
<1>4. Asked(g) <=> Asked(Top)
  BY <1>3 DEF Asked, h
<1>5. Setting(Top) => Setting(g)
  <2>1. Setting(Top) => h.step # "setMode"
    <3>1. h.step = "setMode" => h.when = Opened
      BY <1>3 DEF HasStep, Do
    <3>2. QED
      BY <3>1 DEF Setting, h
  <2>2. QED
    BY <1>3, <2>1 DEF Setting
<1>6. Clearing(Top) => Clearing(g)
  <2>1. Clearing(Top) => h.step # "clearMode"
    <3>1. h.step = "clearMode" => h.when = {FsOk}
      BY <1>3 DEF HasStep, Do
    <3>2. QED
      BY <3>1 DEF Clearing, h
  <2>2. QED
    BY <1>3, <2>1 DEF Clearing
<1>7. (Setting(g) => Setting(Top)) /\ (Clearing(g) => Clearing(Top))
  BY <1>3 DEF Setting, Clearing
<1>8. Ahead(Top, "tell") <=> Ahead(g, "tell")
  BY <1>3 DEF h
<1>9. ToldInv' /\ ModeInv'
  <2>1. CASE g.inside
    <3>1. ~Owes(Top)
      BY <1>1, <2>1, NothingOwed DEF Free
    <3>2. Quiet
      BY <3>1, QuietUnlessOwed DEF IInv
    <3>3. QED
      BY <1>2, <2>1, <3>2, QuietIsEnough
  <2>2. CASE ~g.inside
    <3>1. Running'
      BY <1>2, <2>2
    <3>2. \A f : HasStatus(f)' <=> HasStatus(f)
      BY SameProgram
    <3>3. ToldInv'
      BY <1>2, <1>4, <1>8, <3>1, <3>2 DEF IInv, ToldInv
    <3>4. ModeInv'
      BY <1>2, <1>3, <1>4, <1>5, <1>6, <1>7, <3>1, <3>2 DEF IInv, ModeInv
    <3>5. QED
      BY <3>3, <3>4
  <2>3. QED
    BY <2>1, <2>2
<1>10. VarsOK' /\ TargetInv'
  BY DEF IInv, VarsOK, TargetInv
<1>11. QED
  BY <1>2, <1>9, <1>10 DEF IInv

LEMMA PassedFrame ==
  ASSUME NEW f \in Frames, f.code # <<>>
  PROVE  /\ Passed(f) \in Frames /\ Passed(f).s = f.s /\ Passed(f).code = Tail(f.code)
         /\ Passed(f).fs = f.fs /\ Passed(f).was = f.was /\ Passed(f).use = f.use
         /\ Passed(f).ran = f.ran /\ Passed(f).page = f.page /\ Passed(f).inside = f.inside
<1>1. f.code \in Seq(Steps)
  BY DEF Frames
<1>2. Tail(f.code) \in Seq(Steps)
  BY <1>1
<1>3. QED
  BY <1>2 DEF Passed, Frames

(* The statement passes a step and is otherwise as it was. *)
LEMMA PassStep ==
  ASSUME IInv, Running, Top.code # <<>>, ~target,
         UNCHANGED <<program, openMode, fileMode, statusItem, answered, target>>, Pass(Top),
         Head(Top.code).step \notin {"call", "noReel", "tell"},
         Head(Top.code).step \in {"setMode", "clearMode", "atEnd", "invalidKey"}
           => Top.fs \notin Head(Top.code).when,
         Head(Top.code).step = "use" /\ HasStatus(Top.s.file)
             /\ ~(Top.s.op = "write" /\ "invalidKey" \in Top.s.phrases)
           => DueDeclarative(Top) = 0
  PROVE  IInv'
<1> DEFINE g == Passed(Top)
<1>1. /\ Top \in Frames /\ Top.s \in ProgramStatements /\ StatementInv(Top) /\ program \in Programs
      /\ Top.ran \subseteq Phrases \cup {"store"} /\ ~Top.inside
  BY TopStatement DEF IInv, VarsOK
<1>2. /\ g \in Frames /\ g.s = Top.s /\ g.code = Tail(Top.code) /\ g.fs = Top.fs /\ g.was = Top.was
      /\ g.use = Top.use /\ g.ran = Top.ran /\ g.inside = Top.inside
  BY <1>1, PassedFrame
<1>3. stack' = Replaced(g)
  BY DEF Pass
<1> HIDE DEF g
<1>4. Head(Top.code).step = "use" => Top.use = 0
  BY <1>1, HeadIsFirst DEF StatementInv, Ahead
<1>5. StatementInv(g)
  BY <1>1, <1>2, <1>4, StatementGoesOn
<1>6. QED
  BY <1>1, <1>2, <1>3, <1>5, SilentStep

LEMMA StepFacts ==
  ASSUME IInv, Running, Top.code # <<>>
  PROVE  /\ NextStep \in Steps /\ HasStep(Top.s, NextStep) /\ NextStep = Head(Top.code)
         /\ NextStep.when \subseteq All
         /\ Fires("jump") \/ ~target
<1>1. /\ Top.s \in ProgramStatements /\ StatementInv(Top) /\ program \in Programs
  BY TopStatement DEF IInv, VarsOK
<1>2. Head(Top.code) \in Steps /\ Head(Top.code) \in Range(Code(Top.s))
  BY <1>1, HeadIsFirst DEF StatementInv, Rest
<1>3. target => Fires("jump")
  BY JumpWaits DEF IInv
<1>4. QED
  BY <1>1, <1>2, <1>3, CodeSteps DEF NextStep, Steps

LEMMA SkipStep ==
  ASSUME IInv, Skip
  PROVE  IInv'
<1>1. /\ Running /\ Top.code # <<>> /\ Top.fs \notin NextStep.when /\ Pass(Top)
      /\ UNCHANGED <<program, openMode, fileMode, statusItem, answered, target>>
  BY DEF Skip
<1>2. /\ HasStep(Top.s, NextStep) /\ NextStep = Head(Top.code) /\ ~target
  BY <1>1, StepFacts DEF Fires
<1>3. /\ Top.fs \in All /\ Top.s \in ProgramStatements /\ Top.fs \in Possible(Top.s.op)
      /\ program \in Programs
  BY <1>1, TopStatement DEF IInv, VarsOK
<1>4. NextStep.step \notin {"call", "noReel", "tell"}
  BY <1>1, <1>2, <1>3 DEF HasStep, Do
<1>5. NextStep.step = "use" /\ ~(Top.s.op = "write" /\ "invalidKey" \in Top.s.phrases)
        => DueDeclarative(Top) = 0
  BY <1>1, <1>2, <1>3, DeclarativeOfStatement
<1>6. QED
  BY <1>1, <1>2, <1>4, <1>5, PassStep

LEMMA NumberFitsStep ==
  ASSUME IInv, NumberFits
  PROVE  IInv'
<1>1. /\ Running /\ Top.code # <<>> /\ NextStep.step = "checkNumber" /\ Pass(Top)
      /\ UNCHANGED <<program, openMode, fileMode, statusItem, answered, target>>
  BY DEF NumberFits, Fires, AtStep
<1>2. NextStep = Head(Top.code) /\ ~target
  BY <1>1, StepFacts DEF Fires, AtStep
<1>3. QED
  BY <1>1, <1>2, PassStep

LEMMA NoJumpStep ==
  ASSUME IInv, NoJump
  PROVE  IInv'
<1>1. /\ Running /\ Top.code # <<>> /\ NextStep.step = "jump" /\ Pass(Top) /\ ~target
      /\ UNCHANGED <<program, openMode, fileMode, statusItem, answered, target>>
  BY DEF NoJump, Fires, AtStep
<1>2. NextStep = Head(Top.code)
  BY DEF NextStep
<1>3. QED
  BY <1>1, <1>2, PassStep

LEMMA StoreRecordStep ==
  ASSUME IInv, StoreRecord
  PROVE  IInv'
<1> DEFINE f == [Top EXCEPT !.ran = @ \cup {"store"}]
           g == Passed(f)
<1>1. /\ Running /\ Top.code # <<>> /\ NextStep.step = "store" /\ Top.fs \in NextStep.when /\ Pass(f)
      /\ UNCHANGED <<program, openMode, fileMode, statusItem, answered, target>>
  BY DEF StoreRecord, Fires, AtStep
<1>2. NextStep = Head(Top.code) /\ ~target
  BY <1>1, StepFacts DEF Fires, AtStep
<1>3. /\ Top \in Frames /\ Top.s \in ProgramStatements /\ StatementInv(Top) /\ program \in Programs
      /\ Top.ran \subseteq Phrases \cup {"store"} /\ ~Top.inside
  BY <1>1, TopStatement DEF IInv, VarsOK
<1>4. /\ f \in Frames /\ f.s = Top.s /\ f.code = Top.code /\ f.fs = Top.fs /\ f.was = Top.was
      /\ f.use = Top.use /\ f.ran = Top.ran \cup {"store"} /\ f.inside = Top.inside
  BY <1>3 DEF Frames
<1> HIDE DEF f
<1>5. /\ g \in Frames /\ g.s = Top.s /\ g.code = Tail(Top.code) /\ g.fs = Top.fs /\ g.was = Top.was
      /\ g.use = Top.use /\ g.ran = Top.ran \cup {"store"} /\ g.inside = Top.inside
  BY <1>1, <1>4, PassedFrame
<1>6. stack' = Replaced(g)
  BY <1>1 DEF Pass
<1> HIDE DEF g
<1>7. StatementInv(g)
  BY <1>1, <1>2, <1>3, <1>5, StatementGoesOn
<1>8. QED
  BY <1>1, <1>2, <1>3, <1>5, <1>6, <1>7, SilentStep

LEMMA TurnPageStep ==
  ASSUME IInv, TurnPage
  PROVE  IInv'
<1>1. PICK page \in BOOLEAN : Pass([Top EXCEPT !.page = page])
  BY DEF TurnPage
<1> DEFINE f == [Top EXCEPT !.page = page]
           g == Passed(f)
<1>2. /\ Running /\ Top.code # <<>> /\ NextStep.step = "linage" /\ Pass(f)
      /\ UNCHANGED <<program, openMode, fileMode, statusItem, answered, target>>
  BY <1>1 DEF TurnPage, Fires, AtStep
<1>3. NextStep = Head(Top.code) /\ ~target
  BY <1>2, StepFacts DEF Fires, AtStep
<1>4. /\ Top \in Frames /\ Top.s \in ProgramStatements /\ StatementInv(Top) /\ program \in Programs
      /\ Top.ran \subseteq Phrases \cup {"store"} /\ ~Top.inside
  BY <1>2, TopStatement DEF IInv, VarsOK
<1>5. /\ f \in Frames /\ f.s = Top.s /\ f.code = Top.code /\ f.fs = Top.fs /\ f.was = Top.was
      /\ f.use = Top.use /\ f.ran = Top.ran /\ f.inside = Top.inside
  BY <1>4 DEF Frames
<1> HIDE DEF f
<1>6. /\ g \in Frames /\ g.s = Top.s /\ g.code = Tail(Top.code) /\ g.fs = Top.fs /\ g.was = Top.was
      /\ g.use = Top.use /\ g.ran = Top.ran /\ g.inside = Top.inside
  BY <1>2, <1>5, PassedFrame
<1>7. stack' = Replaced(g)
  BY <1>2 DEF Pass
<1> HIDE DEF g
<1>8. StatementInv(g)
  BY <1>2, <1>3, <1>4, <1>6, StatementGoesOn
<1>9. QED
  BY <1>2, <1>3, <1>4, <1>6, <1>7, <1>8, SilentStep

LEMMA EnterPhraseStep ==
  ASSUME IInv, EnterPhrase
  PROVE  IInv'
<1>1. PICK name \in Phrases :
        /\ Fires(name)
        /\ IF OfPage(name)[Top.page]
             THEN Pass([Top EXCEPT !.ran = @ \cup {name}, !.inside = TRUE])
             ELSE Pass(Top)
  BY DEF EnterPhrase
<1>2. /\ Running /\ Top.code # <<>> /\ NextStep.step = name /\ Top.fs \in NextStep.when
      /\ UNCHANGED <<program, openMode, fileMode, statusItem, answered, target>>
  BY <1>1 DEF EnterPhrase, Fires, AtStep
<1>3. name \notin {"call", "noReel", "tell", "use", "setMode", "clearMode", "jump"}
  BY DEF Phrases
<1>4. NextStep = Head(Top.code) /\ ~target
  BY <1>2, <1>3, StepFacts DEF Fires, AtStep
<1>5. /\ Top \in Frames /\ Top.s \in ProgramStatements /\ StatementInv(Top) /\ program \in Programs
      /\ Top.ran \subseteq Phrases \cup {"store"} /\ ~Top.inside
  BY <1>2, TopStatement DEF IInv, VarsOK
<1>6. CASE OfPage(name)[Top.page]
  <2> DEFINE f == [Top EXCEPT !.ran = @ \cup {name}, !.inside = TRUE]
             g == Passed(f)
  <2>1. /\ f \in Frames /\ f.s = Top.s /\ f.code = Top.code /\ f.fs = Top.fs /\ f.was = Top.was
        /\ f.use = Top.use /\ f.ran = Top.ran \cup {name} /\ f.inside
    BY <1>5 DEF Frames
  <2>2. Pass(f)
    BY <1>1, <1>6
  <2> HIDE DEF f
  <2>3. /\ g \in Frames /\ g.s = Top.s /\ g.code = Tail(Top.code) /\ g.fs = Top.fs /\ g.was = Top.was
        /\ g.use = Top.use /\ g.ran = Top.ran \cup {name} /\ g.inside
    BY <1>2, <2>1, PassedFrame
  <2>4. stack' = Replaced(g)
    BY <2>2 DEF Pass
  <2> HIDE DEF g
  <2>5. StatementInv(g)
    <3>1. g.ran \cap Phrases # {}
      BY <2>3
    <3>2. QED
      BY <1>2, <1>3, <1>4, <1>5, <2>3, <3>1, StatementGoesOn
  <2>6. QED
    BY <1>2, <1>3, <1>4, <1>5, <2>3, <2>4, <2>5, SilentStep
<1>7. CASE ~OfPage(name)[Top.page]
  <2>1. name \notin {"atEnd", "invalidKey"}
    <3>1. Top.page \in BOOLEAN
      BY <1>5 DEF Frames
    <3>2. OfPage(name)[Top.page] = (name \notin (IF Top.page THEN {"notAtEop"} ELSE {"atEop"}))
      BY <3>1 DEF OfPage
    <3>3. QED
      BY <1>7, <3>2
  <2>2. Pass(Top)
    BY <1>1, <1>7
  <2>3. QED
    BY <1>2, <1>3, <1>4, <2>1, <2>2, PassStep
<1>8. QED
  BY <1>6, <1>7

(***************************************************************************)
(* The dispatcher                                                          *)
(***************************************************************************)

(* The declarative the dispatcher finds, 0 for none *)
Found == IF Top.fs \in Silent THEN 0 ELSE Chosen(Top.s.file, ToldMode)

LEMMA ChosenType ==
  ASSUME program \in Programs, NEW f, NEW m
  PROVE  Chosen(f, m) \in 0..Len(program.uses)
<1> DEFINE fits == {i \in DOMAIN program.uses :
                      m \in program.uses[i].modes \/ f \in program.uses[i].files}
<1>1. Len(program.uses) \in Nat /\ DOMAIN program.uses = 1..Len(program.uses)
  BY ProgramsAssumption
<1>2. fits \subseteq 1..Len(program.uses)
  BY <1>1
<1>3. Chosen(f, m) = IF fits = {} THEN 0 ELSE Min(fits)
  BY DEF Chosen
<1> HIDE DEF fits
<1>4. fits \in SUBSET Nat
  BY <1>1, <1>2
<1>5. fits # {} => Min(fits) \in fits
  BY <1>4, MinIsLeast
<1>6. CASE fits = {}
  BY <1>1, <1>3, <1>6
<1>7. CASE fits # {}
  <2>1. Min(fits) \in 1..Len(program.uses)
    BY <1>2, <1>5, <1>7
  <2>2. QED
    BY <1>1, <1>3, <1>7, <2>1
<1>8. QED
  BY <1>6, <1>7

(* The dispatcher finds the declarative COBOL has for the exception. *)
LEMMA FoundIsDue ==
  ASSUME IInv, Fires("use")
  PROVE  /\ HasStatus(Top.s.file) /\ ~(Top.s.op = "write" /\ "invalidKey" \in Top.s.phrases)
              => Found = DueDeclarative(Top)
         /\ Found \in 0..Len(program.uses)
         /\ Quiet
<1>1. /\ Running /\ Top.code # <<>> /\ NextStep.step = "use" /\ Top.fs \in NextStep.when
  BY DEF Fires, AtStep
<1>2. /\ NextStep = Head(Top.code) /\ HasStep(Top.s, NextStep) /\ NextStep \in Steps
  BY <1>1, StepFacts
<1>3. /\ Top \in Frames /\ Top.s \in ProgramStatements /\ StatementInv(Top) /\ program \in Programs
      /\ Top.s.file \in Files /\ Top.fs \in Possible(Top.s.op)
  BY <1>1, TopStatement DEF IInv, VarsOK
<1>4. Quiet
  BY <1>1, <1>2, <1>3, NothingOwed, QuietUnlessOwed DEF IInv
<1>5. Asked(Top) /\ Ahead(Top, "use")
  <2>1. \A y \in Range(Top.code) : Rank(y.step) >= 6
    BY <1>1, <1>2, <1>3, HeadIsFirst, RankValues DEF StatementInv
  <2>2. Head(Top.code) \in Range(Top.code)
    BY <1>1, <1>3, HeadIsFirst DEF StatementInv
  <2>3. QED
    BY <1>1, <1>2, <2>1, <2>2, RankValues DEF Asked, Ahead
<1>6. ~(Top.s.op = "close" /\ Top.fs = FsOk)
  <2>1. NextStep.when = UseWhen(Top.s)
    BY <1>1, <1>2 DEF HasStep, Do
  <2>2. QED
    BY <1>1, <2>1 DEF UseWhen
<1>7. HasStatus(Top.s.file) /\ Top.s.op # "open" => fileMode[Top.s.file] = Top.was
  BY <1>1, <1>3, <1>4, <1>5, <1>6 DEF IInv, ModeInv, Quiet
<1>8. HasStatus(Top.s.file) => ToldMode = IF Top.s.op = "open" THEN Top.s.mode ELSE Top.was
  BY <1>7 DEF ToldMode
<1>9. HasStatus(Top.s.file) /\ ~(Top.s.op = "write" /\ "invalidKey" \in Top.s.phrases)
        => Found = DueDeclarative(Top)
  BY <1>1, <1>2, <1>3, <1>8, DeclarativeOfStatement DEF Found
<1>10. Found \in 0..Len(program.uses)
  <2>1. Len(program.uses) \in Nat
    BY <1>3, ProgramsAssumption
  <2>2. QED
    BY <1>3, <2>1, ChosenType DEF Found
<1>11. QED
  BY <1>4, <1>9, <1>10

(* The jump follows the dispatch, under the same guard. *)
LEMMA JumpFollows ==
  ASSUME program \in Programs, NEW f \in Frames, f.s \in ProgramStatements, StatementInv(f),
         f.code # <<>>, Head(f.code).step = "use", NEW g, g.s = f.s, g.code = Tail(f.code)
  PROVE  /\ g.code # <<>> /\ Head(g.code).step = "jump" /\ Head(g.code).when = Head(f.code).when
<1> DEFINE h == Head(f.code)
<1>1. /\ HasStep(f.s, h) /\ Rest(g)
      /\ \A y \in Range(g.code) : Rank(h.step) < Rank(y.step)
      /\ \A x : HasStep(f.s, x) /\ Rank(x.step) > Rank(h.step) => x \in Range(g.code)
  BY Advance DEF StatementInv
<1> HIDE DEF h
<1>2. h.step = "use"
  BY DEF h
<1> DEFINE j == Do("jump", UseWhen(f.s))
<1>3. h.when = UseWhen(f.s) /\ HasStep(f.s, j) /\ j.step = "jump" /\ j.when = UseWhen(f.s)
  BY <1>1, <1>2 DEF HasStep, Do
<1>4. j \in Range(g.code)
  BY <1>1, <1>2, <1>3, RankValues
<1>5. g.code # <<>>
  <2>1. Range(<<>>) = {}
    BY DEF Range
  <2>2. QED
    BY <1>4, <2>1
<1>6. /\ Head(g.code) \in Steps /\ Head(g.code) \in Range(g.code)
      /\ Rank(Head(g.code).step) <= Rank(j.step)
  BY <1>1, <1>4, <1>5, HeadIsFirst
<1> DEFINE k == Head(g.code)
<1> HIDE DEF k
<1>7. k.step \in StepNames /\ "jump" \in StepNames /\ Rank(k.step) \in 1..16
  BY <1>6, RankType DEF Steps, StepNames, k
<1>8. Rank(k.step) > 6 /\ Rank(k.step) <= 7
  BY <1>1, <1>2, <1>3, <1>6, RankValues DEF k
<1>9. Rank(k.step) = Rank("jump")
  BY <1>7, <1>8, RankValues
<1>10. k.step = "jump"
  BY <1>7, <1>9, RankType
<1>11. HasStep(f.s, k)
  BY <1>1, <1>6, CodeSteps DEF Rest, k
<1>12. k.when = UseWhen(f.s)
  BY <1>10, <1>11 DEF HasStep, Do
<1>13. QED
  BY <1>3, <1>5, <1>10, <1>12 DEF h, k

LEMMA UseStep ==
  ASSUME IInv, Use
  PROVE  IInv'
<1>1. /\ Running /\ Top.code # <<>> /\ NextStep.step = "use" /\ Top.fs \in NextStep.when
      /\ UNCHANGED <<program, openMode, fileMode, statusItem, answered, target>>
      /\ Fires("use")
  BY DEF Use, Fires, AtStep
<1>2. \/ Found = 0 /\ Pass(Top)
      \/ /\ Found # 0
         /\ stack' = Append(Replaced(Passed([Top EXCEPT !.use = Found])), Declarative)
  BY DEF Use, Found
<1>3. NextStep = Head(Top.code) /\ ~target
  BY <1>1, StepFacts DEF Fires, AtStep
<1>4. /\ Top \in Frames /\ Top.s \in ProgramStatements /\ StatementInv(Top) /\ program \in Programs
      /\ Top.ran \subseteq Phrases \cup {"store"} /\ ~Top.inside /\ stack # <<>>
      /\ ~IsDeclarative(Top) /\ GoodStack(stack)
  BY <1>1, TopStatement DEF IInv, VarsOK, StackInv
<1>5. CASE Found = 0 /\ Pass(Top)
  <2>1. HasStatus(Top.s.file) /\ ~(Top.s.op = "write" /\ "invalidKey" \in Top.s.phrases)
          => DueDeclarative(Top) = 0
    BY <1>1, <1>5, FoundIsDue
  <2>2. QED
    BY <1>1, <1>3, <1>5, <2>1, PassStep
<1>6. CASE /\ Found # 0
           /\ stack' = Append(Replaced(Passed([Top EXCEPT !.use = Found])), Declarative)
  <2> DEFINE f == [Top EXCEPT !.use = Found]
             g == Passed(f)
             st == Replaced(g)
  <2>1. Found \in 0..Len(program.uses)
    BY <1>1, FoundIsDue
  <2>2. /\ f \in Frames /\ f.s = Top.s /\ f.code = Top.code /\ f.fs = Top.fs /\ f.was = Top.was
        /\ f.use = Found /\ f.ran = Top.ran /\ f.inside = Top.inside
    BY <1>4, <2>1 DEF Frames
  <2> HIDE DEF f
  <2>3. /\ g \in Frames /\ g.s = Top.s /\ g.code = Tail(Top.code) /\ g.fs = Top.fs /\ g.was = Top.was
        /\ g.use = Found /\ g.ran = Top.ran /\ g.inside = Top.inside
    BY <1>1, <2>2, PassedFrame
  <2>4. stack' = Append(st, Declarative)
    BY <1>6 DEF f
  <2> HIDE DEF g
  <2>5. StatementInv(g)
    <3>1. HasStatus(Top.s.file) /\ ~(Top.s.op = "write" /\ "invalidKey" \in Top.s.phrases)
            => g.use = DueDeclarative(Top)
      BY <1>1, <2>3, FoundIsDue
    <3>2. QED
      BY <1>1, <1>3, <1>4, <2>3, <3>1, StatementGoesOn
  <2>6. FrameInv(g) /\ ~IsDeclarative(g)
    BY <1>4, <2>3, <2>5 DEF FrameInv, IsDeclarative
  <2>7. GoodStack(st) /\ st # <<>> /\ Last(st) = g
    BY <1>4, <2>3, <2>6, StackReplaced DEF Replaced, Top
  <2>8. AtJump(g)
    <3>1. g.code # <<>> /\ Head(g.code).step = "jump" /\ Head(g.code).when = Head(Top.code).when
      BY <1>1, <1>3, <1>4, <2>3, JumpFollows
    <3>2. QED
      BY <1>1, <1>3, <1>4, <2>3, <2>6, <3>1 DEF AtJump
  <2> HIDE DEF st
  <2>9. /\ Declarative \in Frames /\ FrameInv(Declarative) /\ IsDeclarative(Declarative)
        /\ Declarative.inside
    BY <1>4, DeclarativeFrame
  <2>10. GoodStack(stack') /\ stack' # <<>> /\ Last(stack') = Declarative
    BY <2>4, <2>7, <2>8, <2>9, StackPushed DEF Links
  <2>11. StackInv'
    BY <1>1, <2>10, SameStack DEF StackInv
  <2>12. ~Running'
    BY <2>9, <2>10 DEF Running, Top
  <2>13. ToldInv' /\ ModeInv'
    BY <1>1, <2>12, FoundIsDue, QuietIsEnough
  <2>14. VarsOK' /\ TargetInv'
    BY <1>1, <1>3 DEF IInv, VarsOK, TargetInv
  <2>15. QED
    BY <2>11, <2>13, <2>14 DEF IInv
<1>7. QED
  BY <1>2, <1>5, <1>6

(***************************************************************************)
(* The call of the runtime and what is told of it                          *)
(***************************************************************************)

LEMMA AnswersPossible ==
  ASSUME NEW s, s.op \in Operations, s.op # "closeUnit", NEW mode
  PROVE  Answers(s.op, mode) \cup LocalAnswers(s) \subseteq Possible(s.op)
<1>1. LocalAnswers(s) \subseteq Possible(s.op)
  BY DEF LocalAnswers, Possible, All, Statuses, FsRecordLengthMismatch, FsDuplicateAltSuccess,
         FsOptionalCreated, FsNoReel, FsAtEnd
<1>2. Answers(s.op, mode) \subseteq Possible(s.op)
  <2>1. CASE s.op = "open"
    <3>1. Answers(s.op, mode) = OpenAnswers(mode) /\ Possible(s.op)
              = {FsOk, FsOptionalCreated, FsIoError, FsNotFound, FsLocked, FsAlreadyOpen}
      BY <2>1 DEF Answers, Possible
    <3>2. QED
      BY <3>1 DEF OpenAnswers
  <2>2. CASE s.op = "close"
    <3>1. Answers(s.op, mode) = CloseAnswers(mode) /\ Possible(s.op) = {FsOk, FsNotOpen}
      BY <2>2 DEF Answers, Possible
    <3>2. QED
      BY <3>1 DEF CloseAnswers
  <2>3. CASE s.op = "read"
    <3>1. Answers(s.op, mode) = ReadAnswers(mode) /\ Possible(s.op)
              = {FsOk, FsDuplicateAltSuccess, FsAtEnd, FsRecNotFound, FsIoError,
                 FsNoValidNextRecord, FsReadNotPermitted, FsKeyOverflow}
      BY <2>3 DEF Answers, Possible
    <3>2. QED
      BY <3>1 DEF ReadAnswers
  <2>4. CASE s.op \in {"write", "rewrite", "delete", "start"}
    <3>1. Possible(s.op) = All \ {FsDuplicateAltSuccess, FsOptionalCreated, FsNoReel, FsAtEnd}
      BY <2>4 DEF Possible
    <3>2. {FsOk, FsSequenceError, FsDuplicateKey, FsRecNotFound, FsIoError, FsNotOpen,
           FsRewriteWithoutRead, FsRecordLengthMismatch, FsWriteNotPermitted, FsIoModeRequired}
            \subseteq Possible(s.op)
      BY <3>1 DEF All, Statuses, FsOk, FsDuplicateAltSuccess, FsOptionalCreated, FsNoReel, FsAtEnd,
           FsSequenceError, FsDuplicateKey, FsRecNotFound, FsIoError, FsNotOpen,
           FsRewriteWithoutRead, FsRecordLengthMismatch, FsWriteNotPermitted, FsIoModeRequired
    <3>3. Answers(s.op, mode)
            \in {WriteAnswers(mode), RewriteAnswers(mode), DeleteAnswers(mode), StartAnswers(mode)}
      BY <2>4 DEF Answers
    <3>4. QED
      BY <3>2, <3>3 DEF WriteAnswers, RewriteAnswers, DeleteAnswers, StartAnswers
  <2>5. QED
    BY <2>1, <2>2, <2>3, <2>4 DEF Operations
<1>3. QED
  BY <1>1, <1>2

LEMMA CallStep ==
  ASSUME IInv, Call
  PROVE  IInv'
<1> DEFINE s == Top.s
<1>1. PICK fs \in ((Answers(s.op, openMode[s.file]) \cap Outcomes) \cup LocalAnswers(s)) :
        /\ Pass([Top EXCEPT !.fs = fs, !.was = openMode[s.file]])
        /\ openMode' = TableAfter(s, fs)
        /\ Answered(s, fs)
  BY DEF Call
<1>2. /\ Running /\ Top.code # <<>> /\ NextStep.step = "call"
      /\ UNCHANGED <<program, fileMode, statusItem, target>>
  BY DEF Call, AtStep
<1>3. /\ NextStep = Head(Top.code) /\ HasStep(s, NextStep) /\ ~target /\ NextStep \in Steps
  BY <1>2, StepFacts DEF Fires, AtStep
<1>4. /\ Top \in Frames /\ s \in ProgramStatements /\ StatementInv(Top) /\ program \in Programs
      /\ Top.ran \subseteq Phrases \cup {"store"} /\ ~Top.inside /\ s.file \in Files
      /\ VarsOK /\ s.mode \in Modes \cup {"Closed"}
  BY <1>2, TopStatement DEF IInv, VarsOK
<1>5. s.op \in Operations /\ s.op # "closeUnit"
  <2>1. s.op # "closeUnit"
    BY <1>2, <1>3 DEF HasStep, Do
  <2>2. QED
    BY <1>4, <2>1, StatementParts
<1>6. fs \in Possible(s.op)
  BY <1>1, <1>5, AnswersPossible
<1> DEFINE f == [Top EXCEPT !.fs = fs, !.was = openMode[s.file]]
           g == Passed(f)
<1>7. fs \in All
  <2>1. Possible(s.op) \subseteq All
    BY <1>5 DEF Possible, Operations, All, Statuses
  <2>2. QED
    BY <1>6, <2>1
<1>8. openMode[s.file] \in Modes \cup {"Closed"}
  BY <1>4 DEF VarsOK
<1>9. /\ f \in Frames /\ f.s = s /\ f.code = Top.code /\ f.fs = fs /\ f.was = openMode[s.file]
      /\ f.use = Top.use /\ f.ran = Top.ran /\ f.inside = Top.inside
  BY <1>4, <1>7, <1>8 DEF Frames
<1>10. stack' = Replaced(g)
  BY <1>1 DEF Pass
<1> HIDE DEF f
<1>11. /\ g \in Frames /\ g.s = s /\ g.code = Tail(Top.code) /\ g.fs = fs /\ g.was = openMode[s.file]
       /\ g.use = Top.use /\ g.ran = Top.ran /\ g.inside = Top.inside
  BY <1>2, <1>9, PassedFrame
<1> HIDE DEF g
<1>12. StatementInv(g) /\ Asked(g)
  BY <1>2, <1>3, <1>4, <1>6, <1>11, StatementAnswered
<1>13. /\ StackInv' /\ stack' # <<>> /\ Top' = g /\ Running'
  BY <1>2, <1>4, <1>10, <1>11, <1>12, TopReplaced
<1>14. /\ \A n : Ahead(g, n) <=> Ahead(Top, n) /\ n # "call"
       /\ \A x : HasStep(s, x) /\ Rank(x.step) > 1 => x \in Range(g.code)
       /\ Ahead(Top, "call")
  BY <1>2, <1>3, <1>4, <1>11, Advance, RankValues DEF StatementInv
<1>15. Quiet
  BY <1>14, QuietUnlessOwed DEF IInv, Asked
<1>16. /\ answered' = [answered EXCEPT ![s.file] = [status |-> fs, untold |-> TellsNobody(s)]]
       /\ answered'[s.file] = [status |-> fs, untold |-> TellsNobody(s)]
       /\ \A file \in Files : file # s.file => answered'[file] = answered[file]
       /\ answered' \in [Files -> [status : All, untold : BOOLEAN]]
  <2>1. TellsNobody(s) \in BOOLEAN
    BY DEF TellsNobody
  <2>2. [status |-> fs, untold |-> TellsNobody(s)] \in [status : All, untold : BOOLEAN]
    BY <1>7, <2>1
  <2>3. answered \in [Files -> [status : All, untold : BOOLEAN]]
    BY <1>4 DEF VarsOK
  <2>4. QED
    BY <1>1, <1>4, <2>2, <2>3 DEF Answered
<1>17. /\ openMode' \in [Files -> Modes \cup {"Closed"}]
       /\ \A file \in Files : file # s.file => openMode'[file] = openMode[file]
       /\ openMode'[s.file] = IF s.op = "open" /\ fs \in Opened THEN s.mode
                              ELSE IF s.op = "close" /\ fs = FsOk THEN "Closed"
                              ELSE openMode[s.file]
  <2>1. openMode \in [Files -> Modes \cup {"Closed"}]
    BY <1>4 DEF VarsOK
  <2>2. QED
    BY <1>1, <1>4, <2>1 DEF TableAfter
<1>18. HasStatus(s.file) /\ ~TellsNobody(s) => Ahead(g, "tell")
  <2>1. Do("tell", All).step = "tell" /\ Rank("tell") = 5
    BY RankValues DEF Do
  <2>2. HasStatus(s.file) /\ ~TellsNobody(s) => HasStep(s, Do("tell", All))
    BY DEF HasStep
  <2>3. QED
    BY <1>14, <2>1, <2>2 DEF Ahead
<1>19. HasStatus(s.file) /\ s.op = "open" => Ahead(g, "setMode")
  <2>1. Do("setMode", Opened).step = "setMode" /\ Rank("setMode") = 4
    BY RankValues DEF Do
  <2>2. HasStatus(s.file) /\ s.op = "open" => HasStep(s, Do("setMode", Opened))
    BY DEF HasStep
  <2>3. QED
    BY <1>14, <2>1, <2>2 DEF Ahead
<1>20. HasStatus(s.file) /\ s.op = "close" => Ahead(g, "clearMode")
  <2>1. Do("clearMode", {FsOk}).step = "clearMode" /\ Rank("clearMode") = 8
    BY RankValues DEF Do
  <2>2. HasStatus(s.file) /\ s.op = "close" => HasStep(s, Do("clearMode", {FsOk}))
    BY DEF HasStep
  <2>3. QED
    BY <1>14, <2>1, <2>2 DEF Ahead
<1>21. \A file : HasStatus(file)' <=> HasStatus(file)
  BY <1>2, SameProgram
<1>22. ToldInv'
  <2>1. answered'[g.s.file].status = g.fs
    BY <1>11, <1>16
  <2>2. ASSUME NEW file \in Files, HasStatus(file), ~answered'[file].untold,
               statusItem'[file] # answered'[file].status
        PROVE  file = s.file /\ Ahead(g, "tell")
    <3>1. file = s.file
      BY <1>2, <1>15, <1>16, <2>2 DEF Quiet
    <3>2. ~TellsNobody(s)
      BY <1>16, <2>2, <3>1
    <3>3. QED
      BY <1>18, <2>2, <3>1, <3>2
  <2>3. QED
    BY <1>11, <1>12, <1>13, <1>21, <2>1, <2>2 DEF ToldInv
<1>23. ModeInv'
  <2>1. /\ Setting(g) => openMode'[s.file] = s.mode
        /\ Clearing(g) => openMode'[s.file] = "Closed"
        /\ s.op # "open" /\ ~(s.op = "close" /\ g.fs = FsOk) => openMode'[s.file] = g.was
    BY <1>11, <1>17 DEF Setting, Clearing
  <2>2. ASSUME NEW file \in Files, HasStatus(file), fileMode'[file] # openMode'[file]
        PROVE  file = s.file /\ (Setting(g) \/ Clearing(g))
    <3>1. file = s.file
      BY <1>2, <1>15, <1>17, <2>2 DEF Quiet
    <3>2. (s.op = "open" /\ fs \in Opened) \/ (s.op = "close" /\ fs = FsOk)
      BY <1>2, <1>4, <1>15, <1>17, <2>2, <3>1 DEF Quiet
    <3>3. QED
      BY <1>11, <1>19, <1>20, <2>2, <3>1, <3>2 DEF Setting, Clearing
  <2>3. QED
    BY <1>11, <1>12, <1>13, <1>21, <2>1, <2>2 DEF ModeInv
<1>24. VarsOK' /\ TargetInv'
  BY <1>2, <1>3, <1>4, <1>16, <1>17 DEF VarsOK, TargetInv
<1>25. QED
  BY <1>13, <1>22, <1>23, <1>24 DEF IInv

(* The generated code makes up a status of its own. *)
LEMMA OverruleStep ==
  ASSUME IInv, NEW step \in {"checkNumber", "noReel"}, NEW fs \in All, Overrule(step, fs),
         step = "checkNumber" => fs = FsKeyOverflow, step = "noReel" => fs = FsNoReel
  PROVE  IInv'
<1> DEFINE s == Top.s
<1>1. /\ Running /\ Top.code # <<>> /\ NextStep.step = step /\ Top.fs \in NextStep.when
      /\ UNCHANGED <<program, openMode, fileMode, statusItem, target>>
      /\ Pass([Top EXCEPT !.fs = fs]) /\ Answered(s, fs)
  BY DEF Overrule, Fires, AtStep
<1>2. /\ NextStep = Head(Top.code) /\ HasStep(s, NextStep) /\ ~target /\ NextStep \in Steps
  BY <1>1, StepFacts DEF Fires, AtStep
<1>3. /\ Top \in Frames /\ s \in ProgramStatements /\ StatementInv(Top) /\ program \in Programs
      /\ Top.ran \subseteq Phrases \cup {"store"} /\ ~Top.inside /\ s.file \in Files
      /\ VarsOK
  BY <1>1, TopStatement DEF IInv, VarsOK
<1>4. /\ step = "checkNumber" => s.op = "read"
      /\ step = "noReel" => s.op = "closeUnit"
  BY <1>1, <1>2 DEF HasStep, Do
<1>5. fs \in Possible(s.op)
  BY <1>4 DEF Possible
<1> DEFINE f == [Top EXCEPT !.fs = fs]
           g == Passed(f)
<1>6. /\ f \in Frames /\ f.s = s /\ f.code = Top.code /\ f.fs = fs /\ f.was = Top.was
      /\ f.use = Top.use /\ f.ran = Top.ran /\ f.inside = Top.inside
  BY <1>3 DEF Frames
<1>7. stack' = Replaced(g)
  BY <1>1 DEF Pass
<1> HIDE DEF f
<1>8. /\ g \in Frames /\ g.s = s /\ g.code = Tail(Top.code) /\ g.fs = fs /\ g.was = Top.was
      /\ g.use = Top.use /\ g.ran = Top.ran /\ g.inside = Top.inside
  BY <1>1, <1>6, PassedFrame
<1> HIDE DEF g
<1>9. StatementInv(g) /\ Asked(g)
  BY <1>1, <1>2, <1>3, <1>5, <1>8, StatementAnswered
<1>10. /\ StackInv' /\ stack' # <<>> /\ Top' = g /\ Running'
  BY <1>1, <1>3, <1>7, <1>8, <1>9, TopReplaced
<1>11. /\ \A n : Ahead(g, n) <=> Ahead(Top, n) /\ n # step
       /\ \A x : HasStep(s, x) /\ Rank(x.step) > Rank(step) => x \in Range(g.code)
       /\ Ahead(Top, step)
  BY <1>1, <1>2, <1>3, <1>8, Advance DEF StatementInv
<1>12. \A file \in Files : HasStatus(file) =>
         /\ fileMode[file] = openMode[file]
         /\ file # s.file /\ ~answered[file].untold => statusItem[file] = answered[file].status
  BY <1>4 DEF IInv, ToldInv, ModeInv, Setting, Clearing
<1>13. step = "checkNumber" => Asked(Top)
  <2>1. ASSUME step = "checkNumber"  PROVE Asked(Top)
    <3>1. \A y \in Range(Top.code) : Rank(y.step) >= 3
      BY <1>1, <1>2, <1>3, <2>1, HeadIsFirst, RankValues DEF StatementInv
    <3>2. QED
      BY <3>1, RankValues DEF Asked, Ahead
  <2>2. QED
    BY <2>1
<1>14. /\ answered'[s.file] = [status |-> fs, untold |-> TellsNobody(s)]
       /\ \A file \in Files : file # s.file => answered'[file] = answered[file]
       /\ answered' \in [Files -> [status : All, untold : BOOLEAN]]
  <2>1. TellsNobody(s) \in BOOLEAN
    BY DEF TellsNobody
  <2>2. [status |-> fs, untold |-> TellsNobody(s)] \in [status : All, untold : BOOLEAN]
    BY <2>1
  <2>3. answered \in [Files -> [status : All, untold : BOOLEAN]]
    BY <1>3 DEF VarsOK
  <2>4. QED
    BY <1>1, <1>3, <2>2, <2>3 DEF Answered
<1>15. HasStatus(s.file) /\ ~TellsNobody(s) => Ahead(g, "tell")
  <2>1. Do("tell", All).step = "tell" /\ Rank("tell") > Rank(step)
    BY RankValues DEF Do
  <2>2. HasStatus(s.file) /\ ~TellsNobody(s) => HasStep(s, Do("tell", All))
    BY DEF HasStep
  <2>3. QED
    BY <1>11, <2>1, <2>2 DEF Ahead
<1>16. \A file : HasStatus(file)' <=> HasStatus(file)
  BY <1>1, SameProgram
<1>17. ToldInv'
  <2>1. answered'[g.s.file].status = g.fs
    BY <1>8, <1>14
  <2>2. ASSUME NEW file \in Files, HasStatus(file), ~answered'[file].untold,
               statusItem'[file] # answered'[file].status
        PROVE  file = s.file /\ Ahead(g, "tell")
    <3>1. file = s.file
      BY <1>1, <1>12, <1>14, <2>2
    <3>2. ~TellsNobody(s)
      BY <1>14, <2>2, <3>1
    <3>3. QED
      BY <1>15, <2>2, <3>1, <3>2
  <2>3. QED
    BY <1>8, <1>9, <1>10, <1>16, <2>1, <2>2 DEF ToldInv
<1>18. ModeInv'
  <2>1. ~Setting(g) /\ ~Clearing(g)
    BY <1>4, <1>8 DEF Setting, Clearing
  <2>2. Ahead(g, "use") => openMode'[s.file] = g.was
    <3>1. CASE step = "checkNumber"
      BY <1>1, <1>4, <1>8, <1>11, <1>13, <3>1 DEF IInv, ModeInv
    <3>2. CASE step = "noReel"
      <4>1. \A x : HasStep(s, x) => x.step # "use"
        BY <1>4, <3>2 DEF HasStep, Do, Dispatches
      <4>2. \A y \in Range(g.code) : HasStep(s, y)
        BY <1>3, <1>8, <1>9, CodeSteps DEF StatementInv, Rest
      <4>3. QED
        BY <4>1, <4>2 DEF Ahead
    <3>3. QED
      BY <3>1, <3>2
  <2>3. QED
    BY <1>1, <1>8, <1>9, <1>10, <1>12, <1>16, <2>1, <2>2 DEF ModeInv
<1>19. VarsOK' /\ TargetInv'
  BY <1>1, <1>2, <1>3, <1>14 DEF VarsOK, TargetInv
<1>20. QED
  BY <1>10, <1>17, <1>18, <1>19 DEF IInv

(* The FILE STATUS item or FILE_MODE is set: the statement passes a step   *)
(* that comes after the call and before the phrases.                       *)
LEMMA TellingStep ==
  ASSUME IInv, Running, Top.code # <<>>, ~target, Pass(Top), UNCHANGED <<program, target>>,
         Head(Top.code).step \in {"setMode", "clearMode", "tell"}
  PROVE  /\ StackInv' /\ TargetInv' /\ Running' /\ Asked(Top) /\ Asked(Top')
         /\ Top'.s = Top.s /\ Top'.fs = Top.fs /\ Top'.was = Top.was
         /\ \A n : Ahead(Top', n) <=> Ahead(Top, n) /\ n # Head(Top.code).step
         /\ Ahead(Top, Head(Top.code).step)
<1> DEFINE g == Passed(Top)
           h == Head(Top.code)
<1>1. /\ Top \in Frames /\ Top.s \in ProgramStatements /\ StatementInv(Top) /\ program \in Programs
      /\ Top.ran \subseteq Phrases \cup {"store"} /\ ~Top.inside
  BY TopStatement DEF IInv, VarsOK
<1>2. /\ g \in Frames /\ g.s = Top.s /\ g.code = Tail(Top.code) /\ g.fs = Top.fs /\ g.was = Top.was
      /\ g.use = Top.use /\ g.ran = Top.ran /\ g.inside = Top.inside
  BY <1>1, PassedFrame
<1>3. stack' = Replaced(g)
  BY DEF Pass
<1> HIDE DEF g
<1>4. StatementInv(g)
  BY <1>1, <1>2, StatementGoesOn
<1>5. /\ StackInv' /\ stack' # <<>> /\ Top' = g /\ Running'
  BY <1>1, <1>2, <1>3, <1>4, TopReplaced
<1>6. /\ \A n : Ahead(g, n) <=> Ahead(Top, n) /\ n # h.step
      /\ Ahead(Top, h.step)
  BY <1>1, <1>2, Advance DEF StatementInv
<1>7. Asked(Top)
  <2>1. Rank(h.step) >= 4 /\ h.step \notin {"call", "noReel"}
    BY RankValues
  <2>2. \A y \in Range(Top.code) : Rank(h.step) <= Rank(y.step) /\ Rank(y.step) \in 1..16
    BY <1>1, HeadIsFirst, RankType DEF StatementInv, Steps
  <2>3. Rank(h.step) \in 1..16
    BY RankValues
  <2>4. \A y \in Range(Top.code) : Rank(y.step) >= 4
    BY <2>1, <2>2, <2>3
  <2>5. QED
    BY <2>4, RankValues DEF Asked, Ahead
<1>8. Asked(g)
  BY <1>6, <1>7 DEF Asked
<1>9. TargetInv'
  BY DEF TargetInv
<1>10. QED
  BY <1>2, <1>5, <1>6, <1>7, <1>8, <1>9

LEMMA SetModeStep ==
  ASSUME IInv, SetMode("setMode", Top.s.mode)
  PROVE  IInv'
<1>1. /\ Running /\ Top.code # <<>> /\ NextStep.step = "setMode" /\ Top.fs \in NextStep.when
      /\ Pass(Top) /\ fileMode' = [fileMode EXCEPT ![Top.s.file] = Top.s.mode]
      /\ UNCHANGED <<program, openMode, statusItem, answered, target>>
  BY DEF SetMode, Fires, AtStep
<1>2. NextStep = Head(Top.code) /\ HasStep(Top.s, NextStep) /\ ~target
  BY <1>1, StepFacts DEF Fires, AtStep
<1>3. /\ Top.s.file \in Files /\ VarsOK /\ Top.s \in ProgramStatements /\ program \in Programs
      /\ Top.s.mode \in Modes \cup {"Closed"}
  BY <1>1, TopStatement DEF IInv, VarsOK
<1>4. /\ StackInv' /\ TargetInv' /\ Running' /\ Asked(Top) /\ Asked(Top')
      /\ Top'.s = Top.s /\ Top'.fs = Top.fs /\ Top'.was = Top.was
      /\ \A n : Ahead(Top', n) <=> Ahead(Top, n) /\ n # "setMode"
      /\ Ahead(Top, "setMode")
  BY <1>1, <1>2, TellingStep
<1>5. Top.s.op = "open" /\ NextStep.when = Opened
  BY <1>1, <1>2 DEF HasStep, Do
<1>6. openMode[Top.s.file] = Top.s.mode
  BY <1>1, <1>4, <1>5 DEF IInv, ModeInv, Setting
<1>7. /\ fileMode' \in [Files -> Modes \cup {"Closed"}]
      /\ fileMode'[Top.s.file] = openMode[Top.s.file]
      /\ \A f \in Files : f # Top.s.file => fileMode'[f] = fileMode[f]
  BY <1>1, <1>3, <1>6 DEF VarsOK
<1>8. \A f : HasStatus(f)' <=> HasStatus(f)
  BY <1>1, SameProgram
<1>9. ToldInv'
  BY <1>1, <1>4, <1>8 DEF IInv, ToldInv
<1>10. ModeInv'
  <2>1. \A f \in Files : HasStatus(f) => fileMode'[f] = openMode'[f]
    BY <1>1, <1>7 DEF IInv, ModeInv
  <2>2. ~Setting(Top') /\ ~Clearing(Top')
    BY <1>4, <1>5 DEF Setting, Clearing
  <2>3. QED
    BY <1>4, <1>5, <1>8, <2>1, <2>2 DEF ModeInv
<1>11. VarsOK'
  BY <1>1, <1>3, <1>7 DEF VarsOK
<1>12. QED
  BY <1>4, <1>9, <1>10, <1>11 DEF IInv

LEMMA ClearModeStep ==
  ASSUME IInv, SetMode("clearMode", "Closed")
  PROVE  IInv'
<1>1. /\ Running /\ Top.code # <<>> /\ NextStep.step = "clearMode" /\ Top.fs \in NextStep.when
      /\ Pass(Top) /\ fileMode' = [fileMode EXCEPT ![Top.s.file] = "Closed"]
      /\ UNCHANGED <<program, openMode, statusItem, answered, target>>
  BY DEF SetMode, Fires, AtStep
<1>2. NextStep = Head(Top.code) /\ HasStep(Top.s, NextStep) /\ ~target
  BY <1>1, StepFacts DEF Fires, AtStep
<1>3. /\ Top.s.file \in Files /\ VarsOK
  BY <1>1, TopStatement DEF IInv
<1>4. /\ StackInv' /\ TargetInv' /\ Running' /\ Asked(Top) /\ Asked(Top')
      /\ Top'.s = Top.s /\ Top'.fs = Top.fs /\ Top'.was = Top.was
      /\ \A n : Ahead(Top', n) <=> Ahead(Top, n) /\ n # "clearMode"
      /\ Ahead(Top, "clearMode")
  BY <1>1, <1>2, TellingStep
<1>5. Top.s.op = "close" /\ NextStep.when = {FsOk}
  BY <1>1, <1>2 DEF HasStep, Do
<1>6. openMode[Top.s.file] = "Closed"
  BY <1>1, <1>4, <1>5 DEF IInv, ModeInv, Clearing
<1>7. /\ fileMode' \in [Files -> Modes \cup {"Closed"}]
      /\ fileMode'[Top.s.file] = openMode[Top.s.file]
      /\ \A f \in Files : f # Top.s.file => fileMode'[f] = fileMode[f]
  BY <1>1, <1>3, <1>6 DEF VarsOK
<1>8. \A f : HasStatus(f)' <=> HasStatus(f)
  BY <1>1, SameProgram
<1>9. ToldInv'
  BY <1>1, <1>4, <1>8 DEF IInv, ToldInv
<1>10. ModeInv'
  <2>1. \A f \in Files : HasStatus(f) => fileMode'[f] = openMode'[f]
    BY <1>1, <1>7 DEF IInv, ModeInv
  <2>2. ~Setting(Top') /\ ~Clearing(Top')
    BY <1>4, <1>5 DEF Setting, Clearing
  <2>3. Top'.s.op = "close" /\ Top'.fs = FsOk
    BY <1>1, <1>4, <1>5
  <2>4. QED
    BY <1>8, <2>1, <2>2, <2>3 DEF ModeInv
<1>11. VarsOK'
  BY <1>1, <1>3, <1>7 DEF VarsOK
<1>12. QED
  BY <1>4, <1>9, <1>10, <1>11 DEF IInv

LEMMA TellStatusStep ==
  ASSUME IInv, TellStatus
  PROVE  IInv'
<1>1. /\ Running /\ Top.code # <<>> /\ NextStep.step = "tell"
      /\ Pass(Top) /\ statusItem' = [statusItem EXCEPT ![Top.s.file] = Top.fs]
      /\ UNCHANGED <<program, openMode, fileMode, answered, target>>
  BY DEF TellStatus, Fires, AtStep
<1>2. NextStep = Head(Top.code) /\ HasStep(Top.s, NextStep) /\ ~target
  BY <1>1, StepFacts DEF Fires, AtStep
<1>3. /\ Top.s.file \in Files /\ VarsOK /\ Top.fs \in All
  BY <1>1, TopStatement DEF IInv
<1>4. /\ StackInv' /\ TargetInv' /\ Running' /\ Asked(Top) /\ Asked(Top')
      /\ Top'.s = Top.s /\ Top'.fs = Top.fs /\ Top'.was = Top.was
      /\ \A n : Ahead(Top', n) <=> Ahead(Top, n) /\ n # "tell"
      /\ Ahead(Top, "tell")
  BY <1>1, <1>2, TellingStep
<1>5. answered[Top.s.file].status = Top.fs
  BY <1>1, <1>4 DEF IInv, ToldInv
<1>6. /\ statusItem' \in [Files -> All]
      /\ statusItem'[Top.s.file] = answered[Top.s.file].status
      /\ \A f \in Files : f # Top.s.file => statusItem'[f] = statusItem[f]
  BY <1>1, <1>3, <1>5 DEF VarsOK
<1>7. \A f : HasStatus(f)' <=> HasStatus(f)
  BY <1>1, SameProgram
<1>8. ToldInv'
  <2>1. \A f \in Files : HasStatus(f) /\ ~answered'[f].untold
                          => statusItem'[f] = answered'[f].status
    BY <1>1, <1>6 DEF IInv, ToldInv
  <2>2. QED
    BY <1>4, <1>7, <2>1 DEF ToldInv
<1>9. ModeInv'
  <2>1. (Setting(Top') <=> Setting(Top)) /\ (Clearing(Top') <=> Clearing(Top))
    BY <1>4 DEF Setting, Clearing
  <2>2. QED
    BY <1>1, <1>4, <1>7, <2>1 DEF IInv, ModeInv
<1>10. VarsOK'
  BY <1>1, <1>3, <1>6 DEF VarsOK
<1>11. QED
  BY <1>4, <1>8, <1>9, <1>10 DEF IInv

(***************************************************************************)
(* User code begins statements, ends, and leaves by a GO TO                *)
(***************************************************************************)

LEMMA QuietInUserCode ==
  ASSUME IInv, InUserCode
  PROVE  Quiet
<1>1. ~Running
  BY DEF InUserCode, Running
<1>2. QED
  BY <1>1, QuietUnlessOwed DEF IInv

LEMMA BeginStep ==
  ASSUME IInv, NEW s \in ProgramStatements, Begin(s)
  PROVE  IInv'
<1> DEFINE g == Frame(s, Code(s))
<1>1. /\ InUserCode /\ Cardinality(UnderWay) < MaxDepth /\ stack' = Append(stack, g)
      /\ UNCHANGED <<program, openMode, fileMode, statusItem, answered, target>>
  BY DEF Begin
<1>2. program \in Programs /\ GoodStack(stack)
  BY DEF IInv, VarsOK, StackInv
<1>3. StatementInv(g) /\ g \in Frames
  BY <1>2, StatementStarts
<1>4. g.s = s /\ ~g.inside
  BY DEF Frame
<1>5. Asked(g) => Free(g)
  BY <1>2, NothingOwedBefore
<1> HIDE DEF g
<1>6. FrameInv(g) /\ ~IsDeclarative(g)
  <2>1. ~IsDeclarative(g)
    BY <1>2, <1>3, <1>4, StatementFrame
  <2>2. QED
    BY <1>3, <2>1 DEF FrameInv
<1>7. stack # <<>> => Links(Last(stack), g)
  BY <1>1, <1>6 DEF InUserCode, Links, Top
<1>8. GoodStack(stack') /\ stack' # <<>> /\ Last(stack') = g
  BY <1>1, <1>2, <1>3, <1>6, <1>7, StackPushed DEF UnderWay
<1>9. StackInv'
  BY <1>1, <1>8, SameStack DEF StackInv
<1>10. Top' = g
  BY <1>8 DEF Top
<1>11. ToldInv' /\ ModeInv'
  BY <1>1, <1>5, <1>10, QuietInUserCode, QuietIsEnough
<1>12. VarsOK' /\ TargetInv'
  BY <1>1 DEF IInv, VarsOK, TargetInv, InUserCode
<1>13. QED
  BY <1>9, <1>11, <1>12 DEF IInv

(* The frames that are left lose only frames from the top. *)
LEMMA CutStep ==
  ASSUME IInv, Quiet, NEW n \in 0..Len(stack), stack' = SubSeq(stack, 1, n),
         n = 0 \/ stack[n].inside \/ AtJump(stack[n]),
         UNCHANGED <<program, openMode, fileMode, statusItem, answered>>,
         target' \in BOOLEAN, target' => n # 0 /\ AtJump(stack[n])
  PROVE  IInv'
<1>1. program \in Programs /\ GoodStack(stack)
  BY DEF IInv, VarsOK, StackInv
<1>2. stack \in Seq(Frames) /\ Len(stack) \in Nat /\ DOMAIN stack = 1..Len(stack)
  BY <1>1 DEF GoodStack
<1>3. GoodStack(stack')
  BY <1>1, StackPrefix
<1>4. /\ stack' \in Seq(Frames) /\ Len(stack') = n
      /\ \A i \in 1..n : stack'[i] = stack[i]
  BY <1>2, PrefixProperties
<1>5. StackInv'
  BY <1>3, SameStack DEF StackInv
<1>6. n # 0 => stack' # <<>> /\ Top' = stack[n] /\ n \in 1..Len(stack)
  <2>1. ASSUME n # 0  PROVE stack' # <<>> /\ Top' = stack[n] /\ n \in 1..Len(stack)
    <3>1. n \in 1..n /\ n \in 1..Len(stack)
      BY <1>2, <2>1
    <3>2. Len(stack') # 0
      BY <1>4, <2>1
    <3>3. stack' # <<>>
      BY <3>2, EmptySeq
    <3>4. Top' = stack'[Len(stack')]
      BY DEF Top, Last
    <3>5. QED
      BY <1>4, <3>1, <3>3, <3>4
  <2>2. QED
    BY <2>1
<1>7. n = 0 => stack' = <<>>
  BY <1>4
<1>8. ~Running' \/ Free(Top')
  <2>1. CASE n = 0
    BY <1>7, <2>1 DEF Running
  <2>2. CASE n # 0 /\ stack[n].inside
    BY <1>6, <2>2 DEF Running
  <2>3. CASE n # 0 /\ AtJump(stack[n])
    <3>1. stack[n] \in Frames /\ FrameInv(stack[n]) /\ ~IsDeclarative(stack[n])
      BY <1>1, <1>2, <1>6, <2>3 DEF GoodStack, AtJump
    <3>2. stack[n].s \in ProgramStatements /\ StatementInv(stack[n])
      BY <1>1, <3>1, StatementFrame
    <3>3. QED
      BY <1>1, <1>6, <2>3, <3>2, NothingOwed
  <2>4. QED
    BY <2>1, <2>2, <2>3
<1>9. ToldInv' /\ ModeInv'
  BY <1>8, QuietIsEnough
<1>10. VarsOK'
  BY DEF IInv, VarsOK
<1>11. TargetInv'
  BY <1>6 DEF TargetInv
<1>12. QED
  BY <1>5, <1>9, <1>10, <1>11 DEF IInv

LEMMA LeaveStep ==
  ASSUME IInv, Quiet, Leave
  PROVE  IInv'
<1> DEFINE declaratives == {i \in DOMAIN stack : IsDeclarative(stack[i])}
<1>1. program \in Programs /\ GoodStack(stack)
  BY DEF IInv, VarsOK, StackInv
<1>2. stack \in Seq(Frames) /\ Len(stack) \in Nat /\ DOMAIN stack = 1..Len(stack)
  BY <1>1 DEF GoodStack
<1>3. declaratives \in SUBSET Nat /\ declaratives \subseteq 1..Len(stack)
      /\ \A i \in declaratives : i <= Len(stack)
  BY <1>2
<1>4. Unwound = IF declaratives = {} THEN <<>> ELSE SubSeq(stack, 1, Max(declaratives) - 1)
  BY DEF Unwound
<1>5. \A i \in declaratives : i > 1 /\ AtJump(stack[i - 1])
  <2>1. SUFFICES ASSUME NEW i \in declaratives  PROVE i > 1 /\ AtJump(stack[i - 1])
    OBVIOUS
  <2>2. i \in 1..Len(stack) /\ IsDeclarative(stack[i])
    BY <1>2
  <2>3. i # 1
    <3>1. stack # <<>>
      BY <2>2, <1>2
    <3>2. ~IsDeclarative(stack[1])
      BY <1>1, <3>1 DEF GoodStack
    <3>3. QED
      BY <2>2, <3>2
  <2>4. Links(stack[i - 1], stack[i])
    BY <1>1, <1>2, <2>2, <2>3 DEF GoodStack
  <2>5. QED
    BY <2>2, <2>3, <2>4 DEF Links
<1> HIDE DEF declaratives
<1>6. /\ stack' = Unwound /\ target' = (Unwound # <<>>)
      /\ UNCHANGED <<program, openMode, fileMode, statusItem, answered>>
  BY DEF Leave
<1>7. CASE declaratives = {}
  <2>1. stack' = SubSeq(stack, 1, 0) /\ 0 \in 0..Len(stack)
    <3>1. 0 \in 0..Len(stack)
      BY <1>2
    <3>2. Len(SubSeq(stack, 1, 0)) = 0 /\ SubSeq(stack, 1, 0) \in Seq(Frames)
      BY <1>2, <3>1, PrefixProperties
    <3>3. SubSeq(stack, 1, 0) = <<>>
      BY <3>2, EmptySeq
    <3>4. QED
      BY <1>4, <1>6, <1>7, <3>1, <3>3
  <2>2. target' = FALSE
    BY <1>4, <1>6, <1>7
  <2>3. QED
    BY <1>6, <2>1, <2>2, CutStep
<1>8. CASE declaratives # {}
  <2> DEFINE m == Max(declaratives)
  <2>1. m \in declaratives
    BY <1>2, <1>3, <1>8, MaxIsGreatest
  <2>2. m \in 1..Len(stack) /\ m > 1 /\ AtJump(stack[m - 1])
    BY <1>3, <1>5, <2>1
  <2>3. stack' = SubSeq(stack, 1, m - 1)
    BY <1>4, <1>6, <1>8
  <2> HIDE DEF m
  <2>4. m - 1 \in 0..Len(stack) /\ m - 1 # 0
    BY <1>2, <2>2
  <2>5. target' \in BOOLEAN
    BY <1>6
  <2>6. QED
    BY <1>6, <2>2, <2>3, <2>4, <2>5, CutStep
<1>9. QED
  BY <1>7, <1>8

LEMMA GoToStep ==
  ASSUME IInv, GoTo
  PROVE  IInv'
BY QuietInUserCode, LeaveStep DEF GoTo

LEMMA JumpStep ==
  ASSUME IInv, Jump
  PROVE  IInv'
<1>1. /\ Running /\ Top.code # <<>> /\ NextStep.step = "jump" /\ Top.fs \in NextStep.when /\ Leave
  BY DEF Jump, Fires, AtStep
<1>2. Top.s \in ProgramStatements /\ StatementInv(Top) /\ program \in Programs
  BY <1>1, TopStatement DEF IInv, VarsOK
<1>3. ~Owes(Top)
  BY <1>1, <1>2, NothingOwed DEF NextStep
<1>4. Quiet
  BY <1>3, QuietUnlessOwed DEF IInv
<1>5. QED
  BY <1>1, <1>4, LeaveStep

(* What is below the top of the stack waits for it. *)
LEMMA BelowTop ==
  ASSUME IInv, stack # <<>>
  PROVE  /\ Front(stack) = SubSeq(stack, 1, Len(stack) - 1) /\ Len(stack) - 1 \in 0..Len(stack)
         /\ Len(stack) - 1 # 0 => IF IsDeclarative(Top) THEN AtJump(stack[Len(stack) - 1])
                                  ELSE stack[Len(stack) - 1].inside
<1>1. GoodStack(stack)
  BY DEF IInv, StackInv
<1>2. /\ Len(stack) \in Nat \ {0} /\ Front(stack) = SubSeq(stack, 1, Len(stack) - 1)
      /\ Len(stack) > 1 => Links(stack[Len(stack) - 1], Top)
  BY <1>1, StackFacts DEF Top
<1>3. Len(stack) - 1 \in 0..Len(stack) /\ (Len(stack) - 1 # 0 => Len(stack) > 1)
  <2>1. \A n \in Nat \ {0} : n - 1 \in 0..n /\ (n - 1 # 0 => n > 1)
    OBVIOUS
  <2>2. Len(stack) \in Nat \ {0}
    BY <1>2
  <2>3. QED
    BY <2>1, <2>2
<1>4. QED
  BY <1>2, <1>3 DEF Links

LEMMA EndOfUserCodeStep ==
  ASSUME IInv, EndOfUserCode
  PROVE  IInv'
<1>1. /\ stack # <<>> /\ InUserCode /\ Top.inside /\ ~target
      /\ stack' = IF IsDeclarative(Top) THEN Front(stack) ELSE Replaced([Top EXCEPT !.inside = FALSE])
      /\ UNCHANGED <<program, openMode, fileMode, statusItem, answered, target>>
  BY DEF EndOfUserCode, InUserCode
<1>2. Quiet
  BY <1>1, QuietInUserCode
<1>3. CASE IsDeclarative(Top)
  <2>1. stack' = SubSeq(stack, 1, Len(stack) - 1)
    BY <1>1, <1>3, BelowTop
  <2>2. target' = FALSE
    BY <1>1 DEF IInv, VarsOK
  <2>3. QED
    BY <1>1, <1>2, <1>3, <2>1, <2>2, BelowTop, CutStep
<1>4. CASE ~IsDeclarative(Top)
  <2> DEFINE g == [Top EXCEPT !.inside = FALSE]
  <2>1. program \in Programs /\ GoodStack(stack)
    BY DEF IInv, VarsOK, StackInv
  <2>2. Top \in Frames /\ FrameInv(Top)
    BY <1>1, <2>1, StackFacts DEF Top
  <2>3. Top.s \in ProgramStatements /\ StatementInv(Top)
    BY <1>4, <2>1, <2>2, StatementFrame
  <2>4. /\ g \in Frames /\ g.s = Top.s /\ g.code = Top.code /\ g.fs = Top.fs /\ g.was = Top.was
        /\ g.use = Top.use /\ g.ran = Top.ran /\ ~g.inside
    BY <2>2 DEF Frames
  <2> HIDE DEF g
  <2>5. StatementInv(g)
    BY <2>3, <2>4 DEF StatementInv, Rest, Ahead, Asked, OwnHandlers, DueDeclarative
  <2>6. Free(g)
    <3>1. Free(Top)
      BY <1>1, <2>1, <2>3, NothingOwed
    <3>2. QED
      BY <2>4, <3>1 DEF Free, Owes, Ahead, Setting, Clearing
  <2>7. FrameInv(g) /\ ~IsDeclarative(g)
    BY <1>4, <2>4, <2>5 DEF FrameInv, IsDeclarative
  <2>8. GoodStack(stack') /\ stack' # <<>> /\ Last(stack') = g
    <3>1. stack' = Append(Front(stack), g)
      BY <1>1, <1>4 DEF Replaced, g
    <3>2. QED
      BY <1>1, <1>4, <2>1, <2>4, <2>7, <3>1, StackReplaced DEF Top
  <2>9. StackInv' /\ Top' = g
    BY <1>1, <2>8, SameStack DEF StackInv, Top
  <2>10. ToldInv' /\ ModeInv'
    BY <1>1, <1>2, <2>6, <2>9, QuietIsEnough
  <2>11. VarsOK' /\ TargetInv'
    BY <1>1 DEF IInv, VarsOK, TargetInv
  <2>12. QED
    BY <2>9, <2>10, <2>11 DEF IInv
<1>5. QED
  BY <1>3, <1>4

LEMMA EndOfStatementStep ==
  ASSUME IInv, EndOfStatement
  PROVE  IInv'
<1>1. /\ Running /\ Top.code = <<>> /\ stack # <<>> /\ stack' = Front(stack)
      /\ UNCHANGED <<program, openMode, fileMode, statusItem, answered, target>>
  BY DEF EndOfStatement, Done, Running
<1>2. /\ Top.s \in ProgramStatements /\ StatementInv(Top) /\ program \in Programs
      /\ ~IsDeclarative(Top)
  BY <1>1, TopStatement DEF IInv, VarsOK
<1>3. Quiet
  BY <1>1, <1>2, NothingOwed, QuietUnlessOwed DEF IInv, Free
<1>4. ~target
  BY <1>1, JumpWaits DEF IInv
<1>5. stack' = SubSeq(stack, 1, Len(stack) - 1)
  BY <1>1, BelowTop
<1>6. target' = FALSE
  BY <1>1, <1>4 DEF IInv, VarsOK
<1>7. QED
  BY <1>1, <1>2, <1>3, <1>5, <1>6, BelowTop, CutStep

-----------------------------------------------------------------------------
(***************************************************************************)
(* The theorems                                                            *)
(***************************************************************************)

LEMMA InitEstablishes == Init => IInv
<1> SUFFICES ASSUME Init  PROVE IInv
  OBVIOUS
<1>1. /\ program \in Programs /\ stack = <<>> /\ target = FALSE
      /\ openMode = [f \in Files |-> "Closed"] /\ fileMode = [f \in Files |-> "Closed"]
      /\ statusItem = [f \in Files |-> FsOk]
      /\ answered = [f \in Files |-> [status |-> FsOk, untold |-> FALSE]]
  BY DEF Init
<1>2. VarsOK
  <2>1. FsOk \in All
    BY DEF All, Statuses
  <2>2. QED
    BY <1>1, <2>1 DEF VarsOK
<1>3. StackInv
  <2>1. {i \in DOMAIN <<>> : ~IsDeclarative((<<>>)[i])} = {}
    OBVIOUS
  <2>2. Cardinality({}) = 0
    BY FS_EmptySet
  <2>3. QED
    BY <1>1, <2>1, <2>2, DepthAssumption DEF StackInv, GoodStack
<1>4. TargetInv /\ ToldInv /\ ModeInv
  BY <1>1 DEF TargetInv, ToldInv, ModeInv, Running
<1>5. QED
  BY <1>2, <1>3, <1>4 DEF IInv

LEMMA StutterKeeps ==
  ASSUME IInv, UNCHANGED vars
  PROVE  IInv'
<1>1. UNCHANGED <<program, openMode, fileMode, statusItem, answered, stack, target>>
  BY DEF vars
<1>2. StackInv'
  BY <1>1, SameStack DEF IInv, StackInv
<1>3. Top' = Top /\ (Running' <=> Running)
  BY <1>1 DEF Top, Running
<1>4. \A f : HasStatus(f)' <=> HasStatus(f)
  BY <1>1, SameProgram
<1>5. QED
  BY <1>1, <1>2, <1>3, <1>4 DEF IInv, VarsOK, TargetInv, ToldInv, ModeInv

LEMMA NextKeeps ==
  ASSUME IInv, [Next]_vars
  PROVE  IInv'
<1>1. CASE \E s \in ProgramStatements : Begin(s)
  BY <1>1, BeginStep
<1>2. CASE Skip
  BY <1>2, SkipStep
<1>3. CASE Call
  BY <1>3, CallStep
<1>4. CASE NumberTooLarge
  BY <1>4, OverruleStep DEF NumberTooLarge, All
<1>5. CASE NumberFits
  BY <1>5, NumberFitsStep
<1>6. CASE NoReel
  BY <1>6, OverruleStep DEF NoReel, All
<1>7. CASE SetMode("setMode", Top.s.mode)
  BY <1>7, SetModeStep
<1>8. CASE SetMode("clearMode", "Closed")
  BY <1>8, ClearModeStep
<1>9. CASE TellStatus
  BY <1>9, TellStatusStep
<1>10. CASE Use
  BY <1>10, UseStep
<1>11. CASE GoTo
  BY <1>11, GoToStep
<1>12. CASE Jump
  BY <1>12, JumpStep
<1>13. CASE NoJump
  BY <1>13, NoJumpStep
<1>14. CASE StoreRecord
  BY <1>14, StoreRecordStep
<1>15. CASE TurnPage
  BY <1>15, TurnPageStep
<1>16. CASE EnterPhrase
  BY <1>16, EnterPhraseStep
<1>17. CASE EndOfUserCode
  BY <1>17, EndOfUserCodeStep
<1>18. CASE EndOfStatement
  BY <1>18, EndOfStatementStep
<1>19. CASE UNCHANGED vars
  BY <1>19, StutterKeeps
<1>20. QED
  BY <1>1, <1>2, <1>3, <1>4, <1>5, <1>6, <1>7, <1>8, <1>9, <1>10, <1>11, <1>12, <1>13, <1>14,
     <1>15, <1>16, <1>17, <1>18, <1>19 DEF Next

(* The invariant of the file statements: every statement under way is at a *)
(* place of its code where what it has told the program, and whom it has   *)
(* called, is what its status calls for (the C code that stmt.rs and       *)
(* expr.rs of cobol-codegen emit).                                         *)
THEOREM Invariant == Spec => []IInv
<1>1. Init => IInv
  BY InitEstablishes
<1>2. IInv /\ [Next]_vars => IInv'
  BY NextKeeps
<1>3. QED
  BY <1>1, <1>2, PTL DEF Spec

(* Statements that are under way call for at most one declarative each, so *)
(* at most twice as many frames as statements may be nested.               *)
LEMMA StackIsShallow ==
  ASSUME NEW st, GoodStack(st)
  PROVE  Len(st) <= 2 * MaxDepth
<1> DEFINE U == {i \in DOMAIN st : ~IsDeclarative(st[i])}
           D == {i \in DOMAIN st : IsDeclarative(st[i])}
<1>1. st \in Seq(Frames) /\ Len(st) \in Nat /\ DOMAIN st = 1..Len(st)
  BY DEF GoodStack
<1>2. IsFiniteSet(U) /\ IsFiniteSet(D) /\ Cardinality(U) \in Nat /\ Cardinality(D) \in Nat
  <2>1. U \subseteq 1..Len(st) /\ D \subseteq 1..Len(st) /\ IsFiniteSet(1..Len(st))
    BY <1>1, FS_Interval
  <2>2. QED
    BY <2>1, FS_Subset, FS_CardinalityType
<1>3. \A i \in D : i - 1 \in U
  <2>1. SUFFICES ASSUME NEW i \in D  PROVE i - 1 \in U
    OBVIOUS
  <2>2. i \in 1..Len(st) /\ IsDeclarative(st[i])
    BY <1>1
  <2>3. i # 1
    <3>1. st # <<>>
      BY <1>1, <2>2
    <3>2. ~IsDeclarative(st[1])
      BY <3>1 DEF GoodStack
    <3>3. QED
      BY <2>2, <3>2
  <2>4. i - 1 \in 1..Len(st) /\ Links(st[i - 1], st[i])
    BY <1>1, <2>2, <2>3 DEF GoodStack
  <2>5. ~IsDeclarative(st[i - 1])
    BY <2>2, <2>4 DEF Links, AtJump
  <2>6. QED
    BY <1>1, <2>4, <2>5
<1>4. D \subseteq Int
  BY <1>1
<1>5. Cardinality(D) <= Cardinality(U)
  <2> DEFINE below == [i \in D |-> i - 1]
  <2>1. below \in Injection(D, U)
    BY <1>3, <1>4 DEF Injection, IsInjective
  <2>2. QED
    BY <1>2, <2>1, FS_Injection
<1>6. Len(st) = Cardinality(U) + Cardinality(D)
  <2>1. U \cup D = 1..Len(st) /\ U \cap D = {}
    BY <1>1
  <2>2. Cardinality(1..Len(st)) = Len(st)
    BY <1>1, FS_Interval
  <2>3. Cardinality(U \cap D) = 0
    BY <2>1, FS_EmptySet
  <2>4. Cardinality(U \cup D) = Cardinality(U) + Cardinality(D) - Cardinality(U \cap D)
    BY <1>2, FS_Union
  <2>5. Cardinality(U \cup D) = Len(st)
    BY <2>1, <2>2
  <2> HIDE DEF U, D
  <2>6. QED
    BY <1>2, <2>3, <2>4, <2>5
<1>7. Cardinality(U) <= MaxDepth
  BY DEF GoodStack
<1> HIDE DEF U, D
<1>8. QED
  BY <1>1, <1>2, <1>5, <1>6, <1>7, DepthAssumption

(* The generated code tells the program the truth of its files: whenever   *)
(* user code runs, a declarative's too, the FILE STATUS item is the status *)
(* of the last statement for the file and FILE_MODE the mode the file is   *)
(* open in (emit_file_status_update and the assignments to FILE_MODE).     *)
THEOREM FilesAlwaysTold == Spec => []FilesTold
<1>1. IInv => FilesTold
  <2> SUFFICES ASSUME IInv  PROVE FilesTold
    OBVIOUS
  <2>1. InUserCode => Quiet
    BY QuietInUserCode
  <2>2. StatusTold
    BY <2>1 DEF StatusTold, Quiet
  <2>3. ModeTold
    BY <2>1 DEF ModeTold, Quiet
  <2>4. GoodStack(stack)
    BY DEF IInv, StackInv
  <2>5. Len(stack) <= 2 * MaxDepth
    BY <2>4, StackIsShallow
  <2>6. \A i \in DOMAIN stack : stack[i] \in Frames
    BY <2>4 DEF GoodStack
  <2>7. TypeOK
    BY <2>5, <2>6 DEF IInv, VarsOK, TypeOK, Frames
  <2>8. QED
    BY <2>2, <2>3, <2>7 DEF FilesTold
<1>2. QED
  BY <1>1, Invariant, PTL

(* A statement that ends has run, of its phrases and of the declaratives,  *)
(* the one handler that is due for its status and no other.                *)
THEOREM OneHandlerRuns == Spec => []OneHandler
<1>1. IInv => OneHandler
  <2> SUFFICES ASSUME IInv, Done, HasStatus(Top.s.file),
                      ~(Top.s.op = "write" /\ "invalidKey" \in Top.s.phrases)
               PROVE  /\ Top.ran \cap {"atEnd", "invalidKey"} = OwnHandlers(Top)
                      /\ Top.use = DueDeclarative(Top)
    BY DEF OneHandler
  <2>1. Running /\ Top.code = <<>>
    BY DEF Done
  <2>2. /\ StatementInv(Top) /\ Top.s \in ProgramStatements /\ Top.fs \in Possible(Top.s.op)
        /\ program \in Programs
    BY <2>1, TopStatement DEF IInv, VarsOK
  <2>3. \A n : ~Ahead(Top, n)
    <3>1. Range(<<>>) = {}
      BY DEF Range
    <3>2. QED
      BY <2>1, <3>1 DEF Ahead
  <2>4. OwnHandlers(Top) \subseteq {"atEnd", "invalidKey"}
    BY <2>2, HandlersOfStatement
  <2>5. QED
    BY <2>2, <2>3, <2>4 DEF StatementInv
<1>2. QED
  BY <1>1, Invariant, PTL

(* What a statement does only when it succeeded, it never does after an    *)
(* exception: INTO and RELATIVE KEY are not stored, NOT INVALID KEY does   *)
(* not run, the page does not turn.                                        *)
THEOREM SuccessBeforeEffects == Spec => []OnlyAfterSuccess
<1>1. IInv => OnlyAfterSuccess
  <2> SUFFICES ASSUME IInv, NEW i \in DOMAIN stack, stack[i].fs \notin Successful
               PROVE  /\ stack[i].ran \cap {"store", "notInvalidKey"} = {}
                      /\ HasStatus(stack[i].s.file) \/ HasDeclaratives
                           => stack[i].ran \cap {"atEop", "notAtEop"} = {}
    BY DEF OnlyAfterSuccess
  <2>1. stack[i] \in Frames /\ FrameInv(stack[i]) /\ program \in Programs
    BY DEF IInv, StackInv, GoodStack, VarsOK
  <2>2. CASE IsDeclarative(stack[i])
    <3>1. stack[i].fs = FsOk
      BY <2>1, <2>2 DEF FrameInv, Declarative, Frame
    <3>2. QED
      BY <3>1 DEF Successful
  <2>3. CASE ~IsDeclarative(stack[i])
    BY <2>1, <2>3 DEF FrameInv, StatementInv
  <2>4. QED
    BY <2>2, <2>3
<1>2. QED
  BY <1>1, Invariant, PTL

(* A GO TO out of a declarative is taken up by the statement that called   *)
(* it: nothing but the jump follows the dispatch.                          *)
THEOREM JumpsAlwaysTaken == Spec => []PendingJumpTaken
<1>1. IInv => PendingJumpTaken
  BY JumpWaits DEF IInv, PendingJumpTaken
<1>2. QED
  BY <1>1, Invariant, PTL
=============================================================================
