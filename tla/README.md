# Verification of rust-cobol

TLA+ models of `rust-cobol`, a COBOL compiler that generates C and a Rust runtime with
a C ABI. TLC checks the models on small instances; TLAPS proves, for every value of the
constants, what is claimed of the files, the file statements and the communication queues
(section 4). All paths below are under `src/crates`.

## 1. The system

`cobol-driver` compiles one program at a time through a pipeline: `cobol-preprocessor`
(COPY, REPLACE, source format) → `cobol-lexer` → `cobol-parser` (a tree of `cobol-ast`) →
`cobol-sema` → `cobol-hir` → `cobol-codegen` (one C file) → the C compiler, which links
`cobol-runtime`. The stages run in order and share nothing. What is hard is, at compile
time, to read a language without reserved ends of statements, and to choose among many
similar C sequences; at run time, the state that the runtime and the generated C keep
between statements.

| Component | State it keeps | Operations | What is hard | What makes it correct |
|---|---|---|---|---|
| **Indexed files** (`file_io.rs`) | the file, per handle: indexes, cursor, buffered writer, access mode, flags | OPEN, CLOSE, READ, READ NEXT, START, WRITE, REWRITE, DELETE | every update rebuilds the indexes and must move the cursor with them; OPEN OUTPUT buffers, a crash keeps a prefix | indexes match the disk, keys are unique, a scan neither skips nor repeats |
| **Relative, sequential and line-sequential files** (`file_io.rs`) | bytes, one position, a record counter, flags | the same | the position serves reading and rewriting; frames of varying length; zeroed slots; torn ends after a crash | the bytes behave as a sequence of slots |
| **File table and lock registry** (`file_io.rs`) | handles, names closed WITH LOCK, each behind a mutex | OPEN, CLOSE, CLOSE WITH LOCK | two mutexes one after the other | a locked file is not reopened |
| **File statements, declaratives** (`stmt.rs`, `codegen.rs`) | FILE STATUS items, FILE_MODE, `_goto_target`, nested statements | the eight statements with their phrases, USE procedures | which handler runs for which status, what it finds, how it is left | one handler for each exception |
| **SORT, MERGE** (`stmt.rs`, `sort_merge.rs`) | sort area, slots of buffers, merge cursors | USING, GIVING, RELEASE, RETURN | growth, slot reuse, stability, keys compared as bytes | the output is the input in stable order |
| **Communication section** (`communication.rs`) | queues, a message being sent, two being received per queue | ENABLE, DISABLE, SEND, RECEIVE, PURGE, count | messages arrive in pieces while others are routed to the same queue | nothing lost, repeated or joined |
| **PERFORM, GO TO, ALTER** (`stmt.rs`, `codegen.rs`) | the C stack, `_goto_target`, locals of each PERFORM THRU | the statements, fall-through, dispatch loops | one global carries every jump out of a C function; two numberings of labels; each section paragraph is compiled twice | the C runs the statement COBOL says comes next; nothing spins |
| **Parser** (`cobol-parser`) | a cursor, the errors so far | one function per construct | no statement has a reserved end; recovery after errors | the tree is what was written, an error costs one sentence |
| **MOVE, STRING, UNSTRING, INSPECT** (`stmt.rs`, `expr.rs`, `string_ops.rs`) | items, POINTER, TALLYING | the statements | a score of conversions by category; two implementations of INSPECT | each field holds what the rules of the statement say |
| **Arithmetic statements** (`stmt.rs`, `expr.rs`, `decimal.rs`) | items, `_size_error` | ADD to COMPUTE | another C sequence for every pair of verb and storage | the exact result, cut or rounded, or the old value |
| **COPY and REPLACE** (`cobol-preprocessor`) | stack of open copybooks | resolve, replace, reflow | nesting, cycles, literals over the margin | expansion ends and is what the statements describe |
| **CALL, GOBACK, STOP RUN** (`program.rs`) | stack of jump buffers | enter, leave, goback | longjmp past frames | control returns to the caller |
| Threads (`threading.rs`), exception handlers (`exception.rs`) | tables, a bounded stack | create, lock; push, raise | declared, but not reached from generated code | |
| Lexer, sema, symbol table, HIR, data layout, intrinsic functions, XML/JSON, display, driver, diagnostics, NIST runner | tables of one run | functions of their input | breadth, not state | end-to-end tests |

Interactions: generated code calls the runtime through C functions; every runtime
component is a set of globals behind mutexes. The file statements read the status the
runtime returns and choose the next statement, so they meet the control flow; SORT with
an INPUT or OUTPUT PROCEDURE is a PERFORM THRU; STOP RUN closes the files.

## 2. The modules

### 2.1 Indexed files

| Module | Models |
|---|---|
| `FileAnswers` | the status values; which of them each call may answer in which open mode |
| `SortedEntries` | an index: a sequence of (key, offset) in order, search, insertion, removal |
| `KeyedStore` | abstract: a set of records, a key of reference, statuses |
| `IndexedFile` | every call on an indexed file of fixed-length records, and a crash; at its end the refinement mapping by which it implements `KeyedStore` |
| `IndexedFile_proof` | section 4 |

The state is that of `CobolFileHandle`: `disk` is the sequence of slots (a record or a
zeroed slot; the position is the offset), `indices` one sorted sequence per key, plus
`currentIndex`, the key of reference, the flags `lastReadValid` and `atEndSeen`, the open
mode, and the records a `BufWriter` still holds. One action per C entry point, from its
first early return to its last assignment; `Crash` loses the handle and what was
buffered. The rebuild of the indexes that follows each update is part of the action.

`KeyedStore` promises what a program may rely on: a record is found under its key, the
status tells success, duplicate, absence and out-of-sequence, a scan delivers records that
are there, and after a crash the store is a prefix of what was written. It keeps the key of
reference but no place: its `Scan` may deliver any record present, and what updates do to
the place of a scan is the business of `ScanKeepsPlace` instead. `AnswersAsPromised`
compares the status of every call with `FileAnswers`, which is also what `FileStatements`
assumes of the runtime: it is the contract between the two.

### 2.2 Sequential, line-sequential and relative files

`RecordFile` keeps the bytes (`bytes`, in units of the length field, or single bytes for
lines), how many of them are out of the `BufWriter` (`safe`), the `position`, the counter
`current_record` and the flags, as the handle does; one action per branch of an entry
point and organization. A record exists only as what the code makes of the bytes: a slot
of zeros, a line up to a newline with its blanks trimmed, a frame behind its length.
`RecordSequence` has no bytes: a sequence of slots, each empty or a record, and `place`.
The mapping at the end of `RecordFile` parses the bytes back: the one implements the
other, over CLOSE, STOP RUN, a crash that loses the last of the unflushed records, and the
next OPEN. A crash tears the file between two records or behind a length field, where the
`BufWriter` may be flushed between two writes; not inside a record.

### 2.3 File statements

`FileStatements` is the C around the call. `Code` of a statement is a list of guarded
steps (dispatch to a declarative, store the status, run a phrase, store the record
number), in the order the generator emits them, with the set of statuses each is guarded
by. `stack` holds the statements and declaratives under way, since a phrase or a USE
procedure may contain another file statement; `fileMode` is the copy of the open mode from
which the declarative is chosen; `target` stands for `_goto_target`.

### 2.4 SORT and MERGE

`SortKeys` stores a record as bytes (COMP with its sign, DISPLAY with a separate sign) and
compares two as the runtime does, byte by byte. `SortMerge` is the C of the statement,
phase by phase, around the runtime: the growing area of USING, the slots of
`SORT_BUFFERS` that RELEASE and RETURN use through `_sort_buf_id`, the k-way merge with a
record in hand per input, the files of GIVING. What an INPUT or OUTPUT PROCEDURE does is
up to the program. `taken` and `returned` are history.

### 2.5 Communication

`queues` holds a `CommunicationState` per CD. `Send` collects segments until an end
indicator and delivers to the routed queues; RECEIVE MESSAGE flattens a message, RECEIVE
SEGMENT takes a segment at a time, each with its own message in progress, as
`write_receive_bytes` and the two `Option`s do. The checks of a configured CD may fail
with each status the code can return. What was sent, taken, lost, and where messages
ended, are histories.

### 2.6 Control flow

`Procedures` is the list of paragraphs that `lower_procedure_division` produces (a section
header is an empty paragraph; paragraph 0 is what precedes the first one) and the COBOL
machine: a place and a stack of PERFORMs in progress. `GeneratedControl` is the C:
`frames` is the C stack, `target` is `_goto_target`. Functions are main, one per paragraph
and one merged function per section with paragraphs. A frame that waits for a call says
which code takes over: a PERFORM of one procedure, of a range (with its locals
`_perform_external_flow`, `_suppress_segment_resume`, `_suppress_segment_preserved`), of a
paragraph outside the range, or main's loop. The dispatch tables are the comparisons they
are, with both label numberings.

The COBOL machine runs in step, in `expected`: both execute the same kind of statement,
and `FollowsCobol` compares them when a statement is about to run. Where COBOL defines
nothing (two PERFORMs that end at the same paragraph) or a shape leaves a case out
(section 3.4), `lawful` becomes FALSE and the comparison ends; the C goes on, so that
`FramesCorrect` and `Progress` are about all programs. A paragraph's body is chosen when
control first reaches it, so a run covers every program that can be built from the bodies.

### 2.7 Parser

`ParserCursor` is the token stream, the shared lookahead tests, and a small notation for
parsing functions (take, expect, optional, repeat, alternatives); in it
`StatementGrammar`, `ProgramGrammar` and `DataGrammar` write down one definition for each
parsing function of `proc_div.rs`, `ident_div.rs`, `env_div.rs` and `data_div.rs`, and
`Expressions` those of `expr.rs` as recursive operators. `Parser` gives the notation its
meaning and holds statements, sentences, paragraphs and the recovery after an error.
`Hierarchy`, in `DataEntries`, is `build_data_hierarchy`.

Against them stand writers, which produce text together with what it means, one token or
one construct a step: `DataEntries` (entries and the tree of their levels),
`ConditionText` (abbreviated conditions and their truth table), `ProcedureText` (nested
statements and their tree, possibly with one damaged token; and the parts of
whole programs). The writers know nothing of the parser's lookahead tests.

### 2.8 Text, arithmetic, preprocessing

`TextOperations` are the entry points of `string_ops.rs` and the scans written out in C;
`Moves` the conversions of `emit_move_to`; `TextStatements` a program that builds a line
by STRING, takes it apart by UNSTRING or inspects it, and moves it on from item to item.
The definitions they are compared with (`InspectedAsDefined`, `MovedAsDefined`) count
matches and align digits from the rules of the statement, not by scanning.

`Arithmetic` works a statement off one target at a time, in the way the generator chooses
for the storage of the operands and of the target; `TargetsAsDefined` computes the exact
result as a rational number and cuts or rounds it once.

`CopyText` is the scanner and the replacer, `FixedLines` the fixed format, `Preprocessor`
the recursion of `expand_copy` as a stack of frames with `include_stack` beside it.

`MCIndexedFile`, `MCRecordFile`, `MCFileStatements`, `MCSortMerge`, `MCCommunication`,
`MCControl`, `MCParser`, `MCTextStatements`, `MCArithmetic`, `MCPreprocessor` hold the
constants of the runs.

## 3. The runs

### 3.1 What each shows

| Run | Shows |
|---|---|
| `indexed_dynamic` | over all calls with DYNAMIC access and a WITH DUPLICATES key, and a crash: indexes, disk and cursor agree (`TypeOK`, `IndexesMatchDisk`, `CursorConsistent`); `ScanKeepsPlace`: REWRITE never moves a scan, DELETE of any record puts it behind the deleted one, WRITE of a lower key leaves it; `ImplementsKeyedStore` |
| `indexed_sequential` | with ACCESS SEQUENTIAL and unique keys: `KeysUnique`; `LoadedInKeyOrder`: the whole file ascends, over OUTPUT and I-O sessions; `AnswersAsPromised` |
| `indexed_equal_keys` | a violation: `EqualsKeepOrder`, that equal alternate keys stay in the order in which records got them (3.4) |
| `records` | six kinds of file refine `RecordSequence`; `AnswersAsPromised` |
| `sort` | `GivingInOrder`, `ReturnsInOrder`: the stable order of the values; `AreasCorrect`: room for every READ, buffers given back; `Finishes` |
| `statements` | `FilesTold`: FILE STATUS and FILE_MODE are true when user code looks; `OneHandler` for each exception; `OnlyAfterSuccess`: INTO, NOT phrases; `PendingJumpTaken`: a GO TO that leaves a declarative is carried out |
| `comm` | `DeliveredInOrder`, `EndKeyIsSenders`, `DeliveredOnce` (also where both modes of RECEIVE are mixed), `QueuesCorrect`, `NoDataOnlyWhenDrained` |
| `control` | `FollowsCobol`: the statement COBOL says comes next, inside the same PERFORMs; `FramesCorrect`: calls stay linked, no transfer pending when a statement runs; `Progress` |
| `parser` | `EntriesByLevel`, `ConditionsMeant`, `ParsedAsWritten`, `ProgramParsedAsWritten`: the tree is what was written; `DamageContained`: one damaged token costs no other sentence |
| `text` | `LineIsWhatWasSent`, `TakenApart`, `InspectedAsDefined`, `MovedAsDefined` |
| `arithmetic` | `TargetsAsDefined`, `SizeErrorTold` |
| `copy` | `TextAsDefined`: the text is what COPY and REPLACE describe, every copybook left out reported once; `LinesKept`: text over the margin is whole again |

### 3.2 Bounds

* Indexed: two or three keys of each kind, probes by a full and by a generic key, three
  slots. Each operation touches the cursor, one record and a neighbour; each comparison
  looks at two adjacent entries. Under DYNAMIC access the alternate key has duplicates, so
  the move of an entry behind its equals happens, and the file is OPTIONAL. Neither passing
  run opens EXTEND, of which what they check does not all hold (3.4).
* Records: `Width` 2 units, so that a record can be torn inside; `MaxRecords` 3. REWRITE
  of varying records and of lines is left out (3.4). The view hides the last answer, which
  no call reads.
* Statements: seven programs, two statements nested (`MaxDepth`), the statuses `Outcomes`:
  each class the code tells apart, and each boundary of its range tests.
* SORT: seven statements; records {-256, 1} × {65, 66}: negative keys whose bytes are above
  those of positive ones, and two records equal in the key; up to two and one input records,
  `InitialCapacity` 1 so that the area grows, `MaxReleased` 2; absent and locked files.
* Communication: `MaxSent` 2 bytes, buffers of 1 and 2: a buffer may end inside a segment,
  at its end and at the end of the message, with a second message behind.
* Control: two shapes of six and eight paragraphs. Ranges nest three deep, overlap and
  hold a section on each side of a boundary. `MaxFrames` 6 cuts recursive programs, whose
  C stack is unbounded. `leftOut` names the cases of 3.4 a shape does not compare.
* Parser: five data entries, three relations, three statements of which two open, two
  sentences, three optional parts of a program beyond the minimum. Damage is a stray END-IF
  or NOT. The recursion of the parser repeats itself at the second level.
* Text: a line of 5 characters; operands, delimiters (also overlapping ones) and
  INSPECT items from lists; eighteen literals moved to twelve items, and on.
* Arithmetic: six items of one to three digits and two literals, one or two operands and
  targets; `DoubleScale` 4 for the 9 decimals kept of a double, `LongestSize` 9 for 18
  digits: TLC's integers have 32 bits. `Agreed` lists the statements left out (3.4).
* COPY: programs of one to three of eleven pieces over three libraries, `MaxCopyDepth` 2
  for 64, `ContentWidth` 6 for the 65 columns of a line.

### 3.3 Fairness

`GeneratedControl` has weak fairness of the whole next-state relation: generated code is
one C thread, which goes on as long as it can. `SortMerge` has weak fairness of the steps
of the C code of a statement for the same reason; an INPUT or OUTPUT PROCEDURE need not
end, so `Finishes` is about the code outside it. Nothing else checks liveness: runtime calls are functions
that return, and the program decides whether to call. `Parser.cfg` and `Arithmetic.cfg`
allow deadlock: the text is written, the statement executed, and nothing follows.

### 3.4 Where the code differs from COBOL or from its own words

The models follow the code. What follows is behaviour met on the way that a comment, a
test or the language says should be otherwise; unless noted, it is modelled as the code
has it, and the properties are stated so that they are about the rest.

*Indexed files.* OPEN EXTEND starts with an empty index, so a WRITE of a key already in
the file is accepted (`file_io.rs:407`; status 22 promised at :10), and under ACCESS
SEQUENTIAL one of a lower key than the last is not answered 21 (:482); `KeysUnique`,
`LoadedInKeyOrder` and the refinement are about programs without EXTEND. START leaves `at_end_seen` set, so a later end is 46 and not 10
(:94). REWRITE without a READ is 43 in every access mode (:17 says sequential). REWRITE of
the record about to be read, under a new alternate key, drags the scan past records not
yet read (:1589; the test at 3313 says it must not advance). A DELETE of any record, not
only of the one just read, moves the scan to behind that record (:1759, as the change note
`docs/plans/2026-05-03-nist-100-percent-tasks.md:1910` wants it), so the next READ NEXT repeats
records or leaves some out; a WRITE in I-O mode whose key is that of the next record
or a later one steps over the next record when it counts up the position (:574).
`ScanKeepsPlace` states both as they are.
Equal alternate keys should be read in the order in which they got the key (the same
document, :1918), but every REWRITE and DELETE rebuilds the index in the order of the file and
restores the place of the rewritten record alone (:1566), as does the next OPEN (:447): this
is the violation of `indexed_equal_keys`. A scan by such a key may then repeat or leave out
records equal to the next one.

*Other files.* READ and START by RELATIVE KEY that find nothing have moved the position
but not the record number (:1191). A second REWRITE without READ is accepted; DELETE of an
absent relative record answers 00; WRITE in I-O mode to a relative file of sequential access
overwrites the next slot (to a sequential file it answers 48); a record of binary zeros is a deleted one; EXTEND after a torn
varying record appends behind the torn frame. Not modelled: line-sequential READ in I-O
mode (:817), DELETE over varying records (:1735).

*File statements.* WRITE with INVALID KEY runs both the phrase and the declarative if the
file has a FILE STATUS (`stmt.rs:2996`); with NOT INVALID KEY alone it dispatches nowhere;
CLOSE without FILE STATUS neither dispatches nor resets FILE_MODE; NOT AT END runs on every
error but 10; START without phrases and declaratives does not store the status (:5268);
a READ on a file never opened looks for the mode "". The first declarative in the program
wins, also over one that names the file.

*SORT.* A sign in the last digit of a zoned key is skipped (`sort_merge.rs:153`, comment
:62). SORT with INPUT PROCEDURE and several GIVING leaves the later files empty
(`stmt.rs:4812`); MERGE stops if its first GIVING file is locked; any status but 00 ends
the input; COMP keys of nine digits or more are compared in the wrong byte order
(`expr.rs:6155`); NOT AT END of RETURN runs before INTO (`stmt.rs:5325`); a nested SORT
overwrites `_sort_buf_id`.

*Control.* A paragraph number in `_goto_target` is taken for a local label, so GO TO may
reach another paragraph of the section (`stmt.rs:9219`); the last section of a program that
does not STOP has its own first paragraph as successor (`codegen.rs:1612`); EXIT PARAGRAPH is
`return`, which in a merged function leaves the section (`stmt.rs:5034`;
`tests/e2e/language_operations.rs:2213`); a PERFORM of one procedure in main's prefix drops
a GO TO that leaves it, while one in a paragraph abandons itself for the target; a PERFORM
from a section THRU a paragraph inside a section runs that section to its end
(`stmt.rs:10899`). `leftOut` of a shape keeps these programs out of `FollowsCobol`: the first
and the fourth by "leave the range" (a GO TO out of the range in progress; the other shape
compares it where neither applies), the second by "run off a section", the third by "exit in
a section", the last by "part of a section".

*Parser.* Not written by the writers: CALL takes any NOT that follows (`proc_div.rs:2097`)
and its USING swallows verbs (:1992); `NOT SIZE ERROR` without ON does not end an operand
list (:4663); bodies of READ AT END do not stop at an outer ELSE, END-IF or WHEN; ALPHABET
without a period; statements `at_statement_start` does not know (SEARCH, XML, JSON); END
PROGRAM inside DECLARATIVES never ends (:196); `**` groups to the right; INSPECT TALLYING
TRAILING becomes LEADING (:3205); an error in one data entry fails its division; a 66 or 88
without a record is dropped (`data_div.rs:1287`); two abbreviations (`ConditionText`).

*MOVE.* Not `Movable`: an integer literal to text or a group loses its zeros or gets more
(`stmt.rs:8228`); a number to a JUSTIFIED item is set left; text to a zoned item with
decimals is stored raw (:8221); zoned items with decimals to zoned, text or integer items do
not compile; a string to a `CobolDecimal` replaces its scale; ALL literals to numbers store
a character code (:8404); HIGH-VALUE to a text member of a group loses its last byte (:8350);
COMP-3 integers are not cut to the PICTURE; a group is moved to an integer by NUMVAL;
reference-modified targets are not padded (:8740).

*STRING, UNSTRING, INSPECT.* POINTER 0 is taken as 1; ON OVERFLOW of UNSTRING also for a
field longer than its target; COUNT IN of targets not reached becomes 0; ALL is taken from
the first delimiter for all (:3819); REPLACING with several items and no marker is done one
item after the other (`expr.rs:4050`); TALLYING LEADING counts only as the first item
(:3985), and also behind a match of another item that reaches into its part from ahead of
it; TRAILING counts as ALL. Not modelled: numeric and JUSTIFIED receiving fields of UNSTRING,
which are filled by conversions of their own (`string_ops.rs:829`). A character that CONVERTING is given twice becomes what stands
for it last. `InspectsPlain` leaves out what is said here of LEADING and of CONVERTING, and a
second BEFORE or AFTER of one item, which COBOL does not know.

*Arithmetic.* Not `Agreed`: after a GIVING target that is too small the rest is skipped
(`stmt.rs:444`); an operand that is also a target is read again for the next one; several
operands are stored one at a time (:700); decimals of operands of an integer sum are cut one
by one (`expr.rs:1575`); ROUNDED of ADD GIVING is ignored (:3130); no limit is known of COMP-3
items (:2712); decimals of zoned operands of DIVIDE are overlooked; REMAINDER counts its
digits from the rounded quotient (`stmt.rs:11823`); an integer DIVIDE to a zoned item cuts
before it looks for overflow (:1947); DIVIDE INTO an integer by a `CobolDecimal` ignores
ROUNDED and limit (:2033); COMPUTE with a phrase is integer arithmetic (`expr.rs:2751`), divides
by zero, and rounds doubles without ROUNDED; SUBTRACT GIVING of integers and COMPUTE with a
phrase leave a `CobolDecimal` with scale 0 (`stmt.rs:944`, `expr.rs:2764`; the model keeps the
item's scale, the number is the same); MULTIPLY GIVING clamps its product to the digits
of the longer factor (`decimal.rs:248`).

*Preprocessor.* Not in the instances: lines that REPLACE lets grow inside a literal
(`lib.rs:187`–265, 346), quotes continued with three quotes, one-blank indents and comment
lines before a continuation; REPLACE inside literals and comments (`replacer.rs:102`);
multi-word pseudo-text that matches a part of a word (:220); a comma between pairs
(`scanner.rs:254`); an asterisk in column 7 of free format as a comment.

## 4. The proofs

Each theorem holds for every value of the constants that satisfies the ASSUMEs of the
module it is about; a further hypothesis is named in the table.

| Module | Theorem | States |
|---|---|---|
| `IndexedFile_proof` | `SortedEnumerates` | sorting a finite set of entries lists each of them once, in key order |
| | `TypeCorrect` | the type invariant, for all keys, sizes and open modes |
| | `IndexesAlwaysMatch` | each index lists exactly the live records of the disk, in order |
| | `CursorAlwaysConsistent` | the flags agree with the cursor, and the offset DELETE would erase is a live record's |
| | `KeysAlwaysUnique` | no two live records share the primary key or a unique alternate key (no OPEN EXTEND) |
| | `AlwaysLoadedInKeyOrder` | with ACCESS SEQUENTIAL all records of the file ascend, in every session and after a crash (no OPEN EXTEND) |
| | `AnswersAlwaysAsPromised` | each call answers with a status `FileAnswers` promises |
| | `ScanAlwaysKeepsPlace` | REWRITE never moves a scan, DELETE of any record puts it behind that record, WRITE of a lower key than the next leaves it: for every program, with DUPLICATES and EXTEND or without |
| | `IndexedFileIsKeyedStore` | `IndexedFile` implements `KeyedStore` (no OPEN EXTEND) |
| `RecordFile_proof` | `FileTypeCorrect`, `FileAnswersAsPromised` | types and answers for the other organizations |
| | `FileIsRecordSequence` | `RecordFile` implements `RecordSequence`, where `KindsKeepRecords` |
| `FileStatements_proof` | `FilesAlwaysTold`, `OneHandlerRuns`, `SuccessBeforeEffects`, `JumpsAlwaysTaken` | the four properties of `statements`, for every program and depth of nesting |
| `SortMerge_proof` | `ComparisonIsAnOrder` | `compare_records` is a strict weak order of the records |
| | `SortedIsStable` | `cobol_sort` returns what it got, in that order, equal records as they came |
| | `AreasAlwaysCorrect` | `AreasCorrect`: types, room for every READ, buffers given back, RETURN within its buffer |
| | `ReturnsAlwaysInOrder` | `ReturnsInOrder`, where `KeysCompareAsValues` |
| | `GivingAlwaysInOrder` | `GivingInOrder`, where `KeysCompareAsValues` and `FilesApart` |
| `GeneratedControl_proof` | `FramesAlwaysCorrect` | `FramesCorrect`, for every program of every shape, lawful COBOL or not, and any depth of the C stack |
| `Communication_proof` | `QueuesAlwaysCorrect`, `AlwaysDeliveredOnce`, `AlwaysDeliveredInOrder`, `EndKeyAlwaysSenders`, `NoDataAlwaysWhenDrained` | the five properties of `comm`, for all routes, texts and areas |
| `TextStatements_proof` | `StringsSendTheirOperands` | `LineIsWhatWasSent`, for all operands and delimiters and any width of the line |
| | `UnstringsTakeTheLineApart` | `TakenApart`, for all delimiters, with and without ALL, and all receiving fields |
| | `InspectsAsDefined` | `InspectedAsDefined`, for all lines, items, words and markers, where `InspectsPlain` |

`SequenceLemmas` has the facts the proofs share about minima, folds, and the flattening,
cutting and gathering of sequences.

*Indexed files.* `IInv` = `TypeOK` ∧ `IndexesSorted` ∧ `IndexesMatchDisk` ∧
`CursorConsistent` ∧ `ClosedIsFlushed`. None of the parts is inductive alone: uniqueness
is checked by the code against the in-memory index only, so it needs the index to be
complete, which needs it sorted (the insertion point is found by binary search), and a
handle that is closed must have flushed, or reopening would rebuild from less than was
written. `KeysAlwaysUnique` needs its hypothesis: see EXTEND in 3.4. The load order is kept
by each step (`KeyOrderStep`): the last entry of the index has the greatest key, a REWRITE
keeps the key of its slot, a DELETE and a crash only take records. For the scan it is not
needed that the rebuild keeps the order of equal keys, which it does not (3.4). After a
REWRITE the record that was next is looked up by its offset, which occurs once in the index
(`RewriteKeepsPlace`). After a DELETE the rebuilt index has the keys of the old one without
one, whatever stands in for an equal key (`SameKeys`), so at the place of the deleted entry
stands the key that stood behind it (`DeleteResumesBehind`). Which of several records with
that key READ NEXT then delivers the theorem leaves open. A record inserted ahead moves the
place and the entries behind it by one alike (`WriteBeforeKeepsPlace`).

*The refinement.* The mapping reads the store off the slots, and the reference off the
cursor or off the index itself. `StoreInv` adds to `IInv` that keys are unique (so that a
key names one record), `NoneErased` (while a file is written nothing in it is erased), and
`BufferInv`: only a file open for output has records
a crash can lose, and they are the last. Each call maps to the action of the same name
that has the same answer; a refused one to a refusal. EXTEND is excluded because under its
empty index WRITE answers 00 where the store answers 22.

*Other files.* `IInv` of `RecordFile_proof`: a file that is open exists, all its bytes are
out of the `BufWriter` unless it is open for writing, and a record that REWRITE may replace
has a number. That a READ can be answered only within `FileAnswers` needs the last one.

*Other files as sequences of records.* The abstract records are what READ NEXT would make of
the bytes, so the mapping is recursive over them; that it exists, and what it is a step
further on, is proved by the least counterexample (`ReadingExists`, `FromSteps`). `StateOK`
adds to `IInv` what the bytes are. Of a file that is read from its start they are a chain of
units, one for each text written (`Holds`): a line and its end, a length and a text, or a
text of the record width. A chain is read back as its texts from each of its units on
(`RecordsRead`), so the record number is the place of the file, AT END is met at its end
only, and what a crash leaves, at the end of a unit or behind a length, is the chain of the
first texts (`HoldsPrefix`); appending a unit and replacing one of the same length keep it a
chain. Of a relative file they are whole slots, the position at one of them
(`RelativeOK`); a write over slot n changes slot n and empties those of a gap
(`SlotWritten`), so WRITE, REWRITE and DELETE put one record and START searches the slots it
should. `KindsKeepRecords` leaves out what bytes cannot give back: I-O mode on lines and on
records of varying length, where a REWRITE breaks the chain (3.4), a line with a line end in
it, and a relative record of binary zeros, which is a deleted one. The kinds of the run
satisfy it, by an ASSUME of `MCRecordFile`.

*File statements.* All statements emit their steps in one order (`Rank`), so what a frame
has still to do is known from the step it stands at (`Rest`), and what it has done from
what is no longer ahead. The invariant says of each frame which handlers its status owes
and which have run, of all but the top one that it stands behind the step that called, and of
the files that FILE STATUS and FILE_MODE are true unless a frame on top has just been
answered and has the telling ahead of it. A pending jump has the `jump` step of the top
frame next. The argument makes no use of which statements a program nests, or how deep.

*Control.* `FramesCorrect` is not inductive: that a frame waits for the one above it
(`CallsLinked`) is of use only if it still stands at its PERFORM when control is back, and
a PERFORM THRU reads its range and its dispatch table again after each return. `IInv` adds
`FrameOK` of every frame (it is at a label of its own function; one that is at work on a
PERFORM stands at it; main is never at a `_goto_dispatch`, so never returns), `TransferOK`
(`_goto_target` names a paragraph, is 0 where statements run and is not 0 where a PERFORM
THRU dispatches) and, of the COBOL machine, only that it is in the program. Three stack
lemmas say what a step does (`MovedStack`, `ReturnedStack`, `CalledStack`), and each action
has to show of the frames it leaves behind that they are right. What the actions need of
the tables are facts about sections: control falls through to a paragraph of the same
section (`GroupGoesOn`), the paragraph a range is re-entered at is one of the range
(`ReEntriesInRange`), a range is never empty, and the label a re-entered section goes on
from is one of its own (`PreservedLabelIn`). The ASSUMEs of `Procedures` are what the
instance also satisfies: no range is written backwards, and no EXIT PARAGRAPH stands before
the first paragraph.

*Communication.* `IInv` = `ReplyOK` ∧ `QueuesOK` ∧ `HistoryOK` ∧ `WayOK`. A byte is
in one of five places: taken, in the message or the segments a RECEIVE has begun, in the queue
(these four are `Got` of the target), or still in the CD that sends (`Waiting`). A RECEIVE
moves bytes within `Got`, and in one mode leaves it unchanged; SEND makes `Waiting` longer
or moves it behind the `Got` of every target. So for each CD and target, what got there
followed by what waits is what was sent and not purged: in that order where one mode is
used, each byte exactly once otherwise. Each segment keeps the end indicator of its last byte, from which
END KEY follows. A script that links the same two CDs twice would have
everything delivered twice; the ASSUME on `Routes` leaves it out.

*SORT and MERGE.* `KeyLess` compares numbers or bytes, and both are strict weak orders; the
keys one after another make one again, whichever are descending. The fold of `Sorted` keeps
`StablySorted`: there is a permutation of the records read so far under which no record
stands behind one it precedes, and equal ones keep their places. `IInv` of the areas says
what each phase has on hand and that the one taken slot is `_sort_buf_id`'s. `DInv` adds
what it holds: the input so far, the sorted area, the buffer with its read index, and in
the middle of the k-way merge (`Halfway`) a file that is the stable order of the records
read, none of the heads belonging before one of them. `MergeOne` says that `Best` keeps
this, because the inputs are in order and their records lie one input behind the other
in `taken` (`PlacedIn`); at the end it is the stable order of all. There is only one
(`StableIsInOrder`), the one of the reference `InOrder`, provided the bytes of the keys
compare as the values they stand for: `KeysCompareAsValues`, a hypothesis on the
statements. It is false of COMP items of nine digits and more, of items with an overpunched
sign (3.4) and of nothing in the instance of `sort`; that digits read back as the number
they were written from is induction over data. `FilesApart` leaves out what 3.4 says of a
second GIVING file, and a MERGE into one of its own inputs.

*Text.* While a line is built, `TextInv` is the property itself, of one pair of field and
history: the field is `MoveString` of what was sent, and a STRING that starts behind it
makes it `MoveString` of that and the operands. While a line is taken apart it is a chain of
cuts (`Apart`): each field given stands between two of them. The fold over the receiving
fields adds one cut for each field it fills, so a statement extends the chain from where
its pointer was, however many statements came before (`UnstringTakesApart`). What one step
cuts off (`FieldTaken`) has three cases. The nearest delimiter, of several at
one place the one written first, ends the field: ahead of it none begins (`FirstMatchIs`). With ALL the cut is
behind its repetitions, which `PastRepeats` looks up from the right, so that what lies
between is copies of one word is shown by induction downwards (`PastIsBehindRepeats`).
Where nothing matches, the field goes to the end of the text, or without a delimiter list as
far as it has places. The ASSUME of `TextStatements` says that operands and delimiters
are characters and that no field is of length zero; such a field, with no delimiter list,
would take nothing and leave the pointer where it is.

INSPECT is proved in three steps. The fold over the BEFORE and AFTER phrases yields an
interval, and it is the set of characters the definition says the item is about
(`PartIsConcerned`): the first place of the AFTER marker bounds it from the left, and of the
BEFORE marker only places behind that count. `AreMatches` is the definition of the matches,
a fixed point: a match depends on the ones further left. The scan for several items keeps
`Scanned`, which is that fixed point up to the place reached, with the next place tried
behind the last match and the LEADING items whose run is over (`ScanTries`, `ScanSkips`), so
the matches of `Series` are the ones defined (`SeriesMatches`). The scans for one item are
recursive functions of the place: that they count and replace what lies ahead of them is
shown from the right end backwards (`TallyingCounts`, `ReplacingReplaces`), for ALL, LEADING
and FIRST at once; CONVERTING has a single candidate at each place (`ConvertingReplaces`).
`InspectsPlain` is a hypothesis on the statements, without which the property is false; the
module of the run assumes it of its instance, so TLC evaluates it there for every text.

Where a constant ranges over numbers, induction is done by the least counterexample in a
set (`SetInduction`), not by a library theorem over operators.

Only model-checked:

* `FollowsCobol`: it is a simulation, and holds only where 3.4 does not say otherwise, which
  the shapes' `leftOut` describes case by case and no predicate of all shapes does.
* `MovedAsDefined`, `TargetsAsDefined` and `SizeErrorTold`: they hold of the items and
  statements of their instances, which leave out what 3.4 lists, again case by case; and what digits or decimal places make of a number is induction over data.
* Everything about the parser and the preprocessor, which are recursive operators:
  `EntriesByLevel`, `ConditionsMeant`, `ParsedAsWritten`, `ProgramParsedAsWritten`,
  `DamageContained`, `TextAsDefined`, `LinesKept`.
* `Finishes` and `Progress`: liveness and ENABLED are out of the prover's reach.

## 5. What is not modelled

* Files: I/O errors; indexed records of varying length, more than one alternate key;
  several threads on the file table (the generator emits none).
* File statements: report files, LINAGE apart from whether the page ends, what ADVANCING
  prints.
* SORT: COMP-3 keys, collating sequences, varying records, nested SORT.
* Communication: messages preloaded by a script, the padding of the receive area.
* Control: ALTER, independent segments, the debugging module, a THRU range written
  backwards, PERFORM inside IF or with TIMES, UNTIL, VARYING, nested programs.
* Parser: texts and spans of errors, report groups and screen items
  (`data_div.rs` 1330–1436, 1439–1780, 1782–1916), warnings.
* MOVE and arithmetic: edited and national items, PICTURE P, tables, reference
  modification, unsigned items, CORRESPONDING, overflow of 64 and 128 bits, COMPUTE of more
  than one operator.
* Preprocessor: the wrapping of copybook lines, debugging lines, the stripping of columns.
* Threads and exception handlers: generated code neither starts a thread nor pushes a
  handler, so no program reaches them.
* CALL and GOBACK; lexer, name resolution, semantic analysis, lowering of statements, data
  layout, intrinsic functions, XML, JSON, display, driver: functions of their input, or
  state of their own that is in the plan.

## 6. Plan

1. `CallStack` (CALL, GOBACK, CANCEL) composed with `GeneratedControl`; ALTER and segments.
2. Qualification and REDEFINES in name resolution; the layout of data items.
3. I/O errors in `IndexedFile` and `RecordFile`.
