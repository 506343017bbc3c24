---------------------------- MODULE FileAnswers ----------------------------
(***************************************************************************)
(* The FILE STATUS values the runtime returns, and what a file statement   *)
(* may be answered by the runtime (cobol-runtime/src/file_io.rs), given    *)
(* the mode its file is open in: the contract the generated code relies on *)
(* when it decides which status is an end of file, an invalid key or an    *)
(* error.                                                                  *)
(***************************************************************************)

FsOk == 0
FsDuplicateAltSuccess == 2
FsOptionalCreated == 5
FsAtEnd == 10
FsSequenceError == 21
FsDuplicateKey == 22
FsRecNotFound == 23
FsIoError == 30
FsNotFound == 35
FsLocked == 38
FsAlreadyOpen == 41
FsNotOpen == 42
FsRewriteWithoutRead == 43
FsRecordLengthMismatch == 44
FsNoValidNextRecord == 46
FsReadNotPermitted == 47
FsWriteNotPermitted == 48
FsIoModeRequired == 49

Statuses == {FsOk, FsDuplicateAltSuccess, FsOptionalCreated, FsAtEnd, FsSequenceError,
             FsDuplicateKey, FsRecNotFound, FsIoError, FsNotFound, FsLocked, FsAlreadyOpen,
             FsNotOpen, FsRewriteWithoutRead, FsRecordLengthMismatch, FsNoValidNextRecord,
             FsReadNotPermitted, FsWriteNotPermitted, FsIoModeRequired}

Modes == {"Input", "Output", "IoMode", "Extend"}

OpenAnswers(mode) ==
  IF mode = "Closed" THEN {FsOk, FsOptionalCreated, FsIoError, FsNotFound, FsLocked}
  ELSE {FsAlreadyOpen, FsLocked}

CloseAnswers(mode) == IF mode = "Closed" THEN {FsNotOpen} ELSE {FsOk}

ReadAnswers(mode) ==
  IF mode \in {"Input", "IoMode"}
    THEN {FsOk, FsDuplicateAltSuccess, FsAtEnd, FsRecNotFound, FsIoError, FsNoValidNextRecord}
    ELSE {FsReadNotPermitted}

WriteAnswers(mode) ==
  IF mode \in {"Output", "IoMode", "Extend"}
    THEN {FsOk, FsSequenceError, FsDuplicateKey, FsRecNotFound, FsIoError, FsWriteNotPermitted}
    ELSE {FsWriteNotPermitted}

RewriteAnswers(mode) ==
  IF mode = "IoMode"
    THEN {FsOk, FsDuplicateKey, FsRecNotFound, FsIoError, FsRewriteWithoutRead, FsRecordLengthMismatch}
    ELSE {FsIoModeRequired}

DeleteAnswers(mode) ==
  IF mode = "IoMode" THEN {FsOk, FsRecNotFound, FsIoError} ELSE {FsIoModeRequired}

StartAnswers(mode) ==
  IF mode = "Closed" THEN {FsNotOpen} ELSE {FsOk, FsRecNotFound, FsIoError}

Answers(op, mode) ==
  CASE op = "open" -> OpenAnswers(mode)
    [] op = "close" -> CloseAnswers(mode)
    [] op = "read" -> ReadAnswers(mode)
    [] op = "write" -> WriteAnswers(mode)
    [] op = "rewrite" -> RewriteAnswers(mode)
    [] op = "delete" -> DeleteAnswers(mode)
    [] op = "start" -> StartAnswers(mode)
=============================================================================
