---- MODULE StatementGrammar ----
(* The PROCEDURE DIVISION statements as cobol-parser proc_div.rs parses them,
   one definition for each parsing function.  Warnings are left out. *)
EXTENDS ParserCursor

AtLiteral == On(Numbers \cup {"ZERO"}) \cup {<<Signs, Numbers>>}

-----------------------------------------------------------------------------
(* Conditional phrases shared by the statements. *)

(* Where the statements in a phrase of a statement ending with end stop. *)
PhraseEnd(end) == On({end, ".", "ELSE"})
FirstPhraseEnd(end) == On({"NOT", end, ".", "ELSE"})

SizeErrorPhrases(end) ==
    <<Phrase(On({"ON", "SIZE"}), <<{"ON"}, {"SIZE"}, {"ERROR"}>>, "error", FirstPhraseEnd(end)),
      Phrase({<<{"NOT"}, {"SIZE"}>>, <<{"NOT"}, {"ON"}, {"SIZE"}>>},
             <<{"NOT"}, {"ON"}, {"SIZE"}, {"ERROR"}>>, "not-error", PhraseEnd(end)),
      May({end})>>

(* AT END, the END of END PROGRAM apart. *)
AtEnd == {<<{"AT"}>>, <<{"END"}, AllTokens \ {"PROGRAM"}>>, <<{"END"}, {"eof"}>>}
NotAtEnd == {<<{"NOT"}, {"AT", "END"}>>}

AtEndPhrases(end) ==
    <<Phrase(AtEnd, <<{"AT"}, {"END"}>>, "end", FirstPhraseEnd(end)),
      Phrase(NotAtEnd, <<{"NOT"}, {"AT"}, {"END"}>>, "not-end", PhraseEnd(end)),
      May({end})>>

(* AllTokens NOT is taken for the second phrase. *)
InvalidKeyPhrases(end) ==
    <<Phrase(On({"INVALID"}), <<{"INVALID"}, {"KEY"}>>, "invalid", FirstPhraseEnd(end)),
      Phrase(On({"NOT"}), <<{"NOT"}, {"INVALID"}, {"KEY"}>>, "not-invalid", PhraseEnd(end)),
      May({end})>>

OverflowPhrases(end) ==
    <<Phrase(On({"ON", "OVERFLOW"}), <<{"ON"}, {"OVERFLOW"}>>, "overflow", FirstPhraseEnd(end)),
      Phrase(On({"NOT"}), <<{"NOT"}, {"ON"}, {"OVERFLOW"}>>, "not-overflow", PhraseEnd(end)),
      May({end})>>

AdvancingIgnored ==
    When(On({"BEFORE", "AFTER"}),
         <<May({"BEFORE", "AFTER"}), May({"ADVANCING"}),
           First(<<Alt(On({"PAGE"}), <<Need({"PAGE"})>>),
                   Alt(Terminator \cup AtStart, <<May({"LINE"}), May({"LINES"})>>),
                   Alt(Always, <<Ignoring(<<Expression>>), May({"LINE"}), May({"LINES"})>>)>>)>>)

-----------------------------------------------------------------------------
(* Arithmetic and MOVE. *)

Move ==
    <<Need({"MOVE"}), Skip({",", ";"}), Flag({"CORRESPONDING"}), Expression,
      Skip({",", ";"}), Take({"TO"}),
      Repeat(<<Skip({",", ";"}), Ref, Skip({",", ";"})>>,
             {<<(AllTokens \cup {"eof"}) \ Identifiers>>} \cup Terminator)>>

(* Receiving fields, ROUNDED or not, up to one of the words or a terminator. *)
Receivers(words, end) ==
    Repeat(<<Ref, Flag({"ROUNDED"}), May({","})>>,
           Terminator \cup AtStart \cup On(words \cup {"ON", "SIZE", "NOT", end}))

Giving(words, end) == When(On({"GIVING"}), <<Take({"GIVING"}), Receivers(words, end)>>)

Compute ==
    <<Need({"COMPUTE"}), Repeat(<<Ref, Flag({"ROUNDED"}), May({","})>>, On({"="})),
      Need({"="}), Expression>> \o SizeErrorPhrases("END-COMPUTE")

Add ==
    <<Need({"ADD"}), Flag({"CORRESPONDING"}),
      While(Always, On({"TO", "GIVING"}), <<Expression, May({","})>>),
      When(On({"TO"}), <<Take({"TO"}), Receivers({"GIVING"}, "END-ADD")>>),
      Giving({}, "END-ADD")>> \o SizeErrorPhrases("END-ADD")

Subtract ==
    <<Need({"SUBTRACT"}), Flag({"CORRESPONDING"}),
      While(Always, On({"FROM"}), <<Expression, May({","})>>),
      Take({"FROM"}),
      First(<<Alt(AtLiteral \cup On({"SPACE"}), <<Expression>>),
              Alt(Always, <<Receivers({"GIVING"}, "END-SUBTRACT")>>)>>),
      Giving({}, "END-SUBTRACT")>> \o SizeErrorPhrases("END-SUBTRACT")

Multiply ==
    <<Need({"MULTIPLY"}), Expression, Take({"BY"}),
      First(<<Alt(AtLiteral, <<Expression>>),
              Alt(Always, <<Receivers({"GIVING"}, "END-MULTIPLY")>>)>>),
      Giving({}, "END-MULTIPLY")>> \o SizeErrorPhrases("END-MULTIPLY")

Remainder == When(On({"REMAINDER"}), <<Take({"REMAINDER"}), Ref>>)

Divide ==
    <<Need({"DIVIDE"}), Expression,
      First(<<Alt(On({"BY"}), <<Take({"BY"}), Expression>>),
              Alt(Always,
                  <<Take({"INTO"}),
                    First(<<Alt(AtLiteral, <<Expression>>),
                            Alt(Always, <<Receivers({"GIVING", "REMAINDER"}, "END-DIVIDE")>>)>>)>>)>>),
      Giving({"REMAINDER"}, "END-DIVIDE"), Remainder>> \o SizeErrorPhrases("END-DIVIDE")

-----------------------------------------------------------------------------
(* DISPLAY, ACCEPT and the communication statements. *)

(* END-DISPLAY is a terminator: the loop ends before it, and leaves it. *)
Display ==
    <<Need({"DISPLAY"}),
      While(Always, Terminator \cup AtStart,
        <<First(<<
            Alt(On({"UPON"}), <<Take({"UPON"}), OneName>>),
            Alt(On({"WITH"}), <<May({"WITH"}),
                                When(On({"NO"}), <<Take({"NO"}), May({"ADVANCING"})>>)>>),
            Alt(On({"BEFORE", "AFTER"}), <<AdvancingIgnored>>),
            Alt(On({"END-DISPLAY"}), <<May({"END-DISPLAY"}), Break>>),
            Alt(On({"WHEN", "OTHER"}), <<Break>>),
            Alt(Always, <<Expression, May({","})>>)>>)>>)>>

Accept ==
    <<Need({"ACCEPT"}), Ref,
      First(<<
        Alt(On({"MESSAGE"}), <<Need({"MESSAGE"}), Take({"COUNT"})>>),
        Alt(On({"COUNT"}), <<Take({"COUNT"})>>),
        Alt(On({"FROM"}),
            <<Need({"FROM"}),
              First(<<Alt(On({"DATE"}), <<Take({"DATE"}), Flag({"YYYYMMDD"})>>),
                      Alt(Always, <<Flag({"DAY-OF-WEEK", "DAY", "TIME", "CONSOLE"})>>)>>)>>)>>),
      May({"END-ACCEPT"})>>

CommunicationMode == Take({"INPUT", "OUTPUT", "I-O"})
EnablePart == <<CommunicationMode, Flag({"TERMINAL"}), Ref, May({"WITH"}), Need({"KEY"}), Expression>>
Enable == <<Need({"ENABLE"})>> \o EnablePart
Disable == <<Need({"DISABLE"})>> \o EnablePart

Send ==
    <<Need({"SEND"}), Ref, When(On({"FROM"}), <<Take({"FROM"}), Expression>>),
      When(On({"WITH"}),
           <<Take({"WITH"}), First(<<Alt(On({"EMI", "EGI", "ESI"}), <<Take({"EMI", "EGI", "ESI"})>>),
                                     Alt(Always, <<Expression>>)>>)>>),
      When(On({"REPLACING"}), <<Take({"REPLACING"}), May({"LINE"})>>),
      AdvancingIgnored>>

(* NOT DATA is taken for NO DATA. *)
Receive ==
    <<Need({"RECEIVE"}), Ref, Take({"MESSAGE", "SEGMENT"}), Need({"INTO"}), Ref,
      When(On({"NO", "NOT"}), <<May({"NO", "NOT"}), Need({"DATA"}), Mark("no-data")>> \o Body(Terminator))>>

Purge == <<Need({"PURGE"}), Ref>>

-----------------------------------------------------------------------------
(* IF and EVALUATE. *)

(* Variant for a mutant: ELSE ends no statement. *)
IfEndWithoutElse == On({"END-IF", "."})

IfEnd == On({"ELSE", "END-IF", "."})
If ==
    <<Need({"IF"}), Conditional, May({"THEN"})>> \o Body(IfEnd) \o
    <<When(On({"ELSE"}), <<Take({"ELSE"})>> \o Body(IfEnd)), May({"END-IF"})>>

ClassOf(not) ==
    <<May({"IS"}), When(not, <<Take({"NOT"})>>), Flag({"NUMERIC", "ALPHABETIC"})>>

EvaluateSubject ==
    First(<<Alt(On({"TRUE", "FALSE"}), <<Take({"TRUE", "FALSE"})>>),
            Alt(Always, <<Expression>> \o ClassOf(On({"NOT"})))>>)

Comparing == {"=", ">", "<", ">=", "<=", "<>", "GREATER", "LESS", "EQUAL"}
WhenObject ==
    <<First(<<
        Alt(On({"ANY", "TRUE", "FALSE"}), <<Take({"ANY", "TRUE", "FALSE"})>>),
        Alt(On({"NOT"}), <<Take({"NOT"}), Call("when-object")>>),
        Alt(Always,
            <<Expression>> \o
            <<May({"IS"}),
              When({<<{"NOT"}, {"NUMERIC", "ALPHABETIC", "ALPHABETIC-LOWER", "ALPHABETIC-UPPER"}>>},
                   <<Take({"NOT"})>>),
              First(<<
                Alt(On({"NUMERIC", "ALPHABETIC"}), <<Take({"NUMERIC", "ALPHABETIC"})>>),
                Alt(On(Comparing), <<Comparison, Expression>>),
                Alt(On({"THRU"}), <<Take({"THRU"}), Expression>>)>>)>>)>>)>>

(* WHEN OTHER ends the loop, whatever follows. *)
Evaluate ==
    <<Need({"EVALUATE"}), EvaluateSubject,
      While(On({"ALSO"}), Never, <<Take({"ALSO"}), EvaluateSubject>>),
      While(On({"WHEN"}), Never,
        <<Take({"WHEN"}),
          First(<<
            Alt(On({"OTHER"}),
                <<Take({"OTHER"})>> \o Body(On({"END-EVALUATE", "."})) \o <<Break>>),
            Alt(Always,
                <<Call("when-object"),
                  While(On({"ALSO"}), Never, <<Take({"ALSO"}), Call("when-object")>>)>>
                \o Body(On({"WHEN", "END-EVALUATE", "."})))>>)>>),
      May({"END-EVALUATE"})>>

-----------------------------------------------------------------------------
(* PERFORM, GO TO, ALTER, EXIT, STOP. *)

(* The option is read; BEFORE is the default. *)
PerformTest ==
    When({<<{"WITH"}, {"TEST"}>>, <<{"TEST"}>>},
         <<May({"WITH"}), Need({"TEST"}),
           First(<<Alt(On({"AFTER"}), <<Mark("test-after"), Need({"AFTER"})>>),
                   Alt(Always, <<May({"BEFORE"})>>)>>)>>)

VaryingClause ==
    <<Ref, Need({"FROM"}), Expression, Need({"BY"}), Expression, Need({"UNTIL"}), Conditional>>
VaryingClauses ==
    <<Take({"VARYING"})>> \o VaryingClause \o
    <<While(On({"AFTER"}), Never, <<Take({"AFTER"})>> \o VaryingClause)>>

InlineBody == Body(On({"END-PERFORM", "."})) \o <<May({"END-PERFORM"})>>

Qualified == <<ProcedureName, When(On({"OF", "IN"}), <<Take({"OF", "IN"}), ProcedureName>>)>>
QualifiedIfName ==
    <<ProcedureName,
      When(On({"OF", "IN"}),
           <<Take({"OF", "IN"}), When(On(ProcedureNames), <<ProcedureName>>)>>)>>

(* What may follow a procedure name: otherwise PERFORM is in line. *)
AfterProcedure ==
    {"THRU", ".", "VARYING", "UNTIL", "TIMES", "WITH", "WHEN", "OTHER", "OF", "IN",
     ",", ";", "NOT", "INVALID", "AT", "eof"} \cup Integers_ \cup EndKeywords \cup StatementStarts

OutOfLine ==
    LET names == ProcedureNames \ StatementStarts
    IN  {<<names, AfterProcedure>>, <<names, Identifiers, {"TIMES", "("}>>, <<names, {"TEST"}>>}

PerformProcedure ==
    <<Mark("procedure"), ProcedureName, May({","}), May({";"}),
      When(On({"OF", "IN"}), <<Take({"OF", "IN"}), ProcedureName>>),
      When(On({"THRU"}), <<Take({"THRU"}), ProcedureName>>),
      PerformTest,
      First(<<
        Alt(On(Integers_) \cup {<<Identifiers, {"TIMES", "("}>>}, <<Expression, Take({"TIMES"})>>),
        Alt(On({"UNTIL"}), <<Take({"UNTIL"}), Conditional>>),
        Alt(On({"VARYING"}), VaryingClauses)>>)>>

PerformVarying == VaryingClauses \o InlineBody
PerformUntil == <<Take({"UNTIL"}), Conditional>> \o InlineBody

Perform ==
    <<Need({"PERFORM"}), PerformTest,
      First(<<
        Alt(On({"VARYING"}), PerformVarying),
        Alt(On({"UNTIL"}), PerformUntil),
        Alt({<<Integers_ \cup Identifiers, {"TIMES"}>>},
            <<Expression, Take({"TIMES"})>> \o InlineBody),
        Alt(OutOfLine, PerformProcedure),
        Alt(Always, InlineBody)>>)>>

GoTo ==
    <<First(<<Alt(On({"GO"}), <<Need({"GO"}), May({"TO"})>>), Alt(Always, <<Need({"GO-TO"})>>)>>),
      While(On(ProcedureNames),
            Terminator \cup On({"DEPENDING"} \cup StatementStarts \cup EndKeywords),
            QualifiedIfName),
      When(On({"DEPENDING"}), <<Take({"DEPENDING"}), May({"ON"}), Ref>>)>>

AlterPair ==
    QualifiedIfName \o
    <<Need({"TO"}), When(On({"PROCEED"}), <<Need({"PROCEED"}), Need({"TO"})>>)>> \o QualifiedIfName

(* alter_lookahead_has_to: a name, qualified or not, and TO. *)
AlterPairAhead ==
    {<<Identifiers \cup Integers_, {"TO"}>>,
     <<Identifiers \cup Integers_, {"IN", "OF"}, AllTokens, {"TO"}>>}

Alter ==
    <<Need({"ALTER"})>> \o AlterPair \o
    <<May({","}), While(AlterPairAhead, Never, AlterPair \o <<May({","})>>)>>

Stop ==
    <<Need({"STOP"}), First(<<Alt(On({"RUN"}), <<Take({"RUN"})>>), Alt(Always, <<Expression>>)>>)>>

Exit == <<Need({"EXIT"}), Flag({"PROGRAM", "PARAGRAPH", "SECTION"})>>

-----------------------------------------------------------------------------
(* CALL. *)

PassingMode == {"REFERENCE", "CONTENT", "VALUE"}
AtPassingMode == On({"BY"} \cup PassingMode)

OnException(word, name) ==
    Phrase({<<{"ON"}, {word}>>, <<{word}>>}, <<{"ON"}, {word}>>, name,
           On({"NOT", "END-CALL", "."}))

CallUsing(stop) ==
    When(On({"USING"}),
      <<Take({"USING"}),
        While(Always, Terminator \cup On(stop),
          <<First(<<Alt(On({"BY"}), <<May({"BY"}), Flag(PassingMode)>>),
                    Alt(Always, <<Expression, May({","}), May({";"})>>)>>)>>)>>)

CallStatement ==
    <<Need({"CALL"}), Expression,
      When(On({"USING"}),
        <<Take({"USING"}),
          While(Always,
            Terminator \cup On({"RETURNING", "END-CALL", "ON", "EXCEPTION", "OVERFLOW", "NOT"}),
            <<First(<<Alt(AtPassingMode, <<May({"BY"}), Flag(PassingMode)>>),
                      Alt(Always, <<Expression, May({","}), May({";"})>>)>>)>>)>>),
      When(On({"RETURNING"}), <<Take({"RETURNING"}), Ref>>),
      First(<<Alt({<<{"ON"}, {"OVERFLOW"}>>, <<{"OVERFLOW"}>>}, <<OnException("OVERFLOW", "overflow")>>),
              Alt({<<{"ON"}, {"EXCEPTION"}>>, <<{"EXCEPTION"}>>}, <<OnException("EXCEPTION", "exception")>>)>>),
      Phrase(On({"NOT"}), <<{"NOT"}, {"ON"}, {"EXCEPTION"}>>, "not-exception", On({"END-CALL", "."})),
      May({"END-CALL"})>>

-----------------------------------------------------------------------------
(* Files. *)

OpenModes == {"INPUT", "OUTPUT", "I-O", "EXTEND"}

(* AllTokens keyword but a mode, the verbs of statements included, is a file name. *)
Open ==
    <<Need({"OPEN"}),
      While(On(OpenModes), Terminator,
        <<Take(OpenModes),
          While(On(NameTokens), Terminator \cup On(OpenModes),
            <<First(<<
                Alt({<<{"WITH"}, {"NO"}>>}, <<Need({"WITH"}), Need({"NO"}), May({"REWIND"})>>),
                Alt(On({"WITH"}),
                    <<Need({"WITH"}),
                      First(<<Alt(On({"REVERSED"}), <<Need({"REVERSED"})>>),
                              Alt(Always, <<Take(AllTokens), May({","})>>)>>)>>),
                Alt(On({"REVERSED"}), <<Need({"REVERSED"})>>),
                Alt(Always, <<OneName, May({","})>>)>>)>>)>>)>>

CloseOption ==
    First(<<
      Alt(On({"REEL", "UNIT"}),
          <<Take({"REEL", "UNIT"}), When(On({"FOR"}), <<Need({"FOR"}), May({"REMOVAL"})>>)>>),
      Alt(On({"WITH"}),
          <<Need({"WITH"}),
            First(<<Alt(On({"NO"}), <<Take({"NO"}), May({"REWIND"})>>),
                    Alt(Always, <<Flag({"LOCK"})>>)>>)>>)>>)
Close ==
    <<Need({"CLOSE"}),
      While(On(NameTokens), Terminator \cup AtStart, <<OneName, CloseOption, May({","})>>)>>

(* READ and WRITE do not stop a phrase at ELSE alike: the phrases of READ's AT
   END run to the end of READ, the others to any END- word. *)
Read ==
    <<Need({"READ"}), OneName, Flag({"NEXT"}), May({"RECORD"}),
      When(On({"INTO"}), <<Take({"INTO"}), Ref>>),
      When(On({"KEY"}), <<Take({"KEY"}), May({"IS"}), Ref>>),
      Phrase(AtEnd, <<{"AT"}, {"END"}>>, "end", On({"NOT", "INVALID", "END-READ", "."})),
      Phrase(NotAtEnd, <<{"NOT"}, {"AT"}, {"END"}>>, "not-end", On({"INVALID", "END-READ", "."})),
      Phrase(On({"INVALID"}), <<{"INVALID"}, {"KEY"}>>, "invalid", On({"NOT", "."} \cup EndKeywords)),
      Phrase(On({"NOT"}), <<{"NOT"}, {"INVALID"}, {"KEY"}>>, "not-invalid", On({"."} \cup EndKeywords)),
      May({"END-READ"})>>

Advancing ==
    When(On({"BEFORE", "AFTER", "ADVANCING"}),
      <<First(<<Alt(On({"ADVANCING"}), <<Take({"ADVANCING"})>>),
                Alt(Always, <<Take({"BEFORE", "AFTER"}), May({"ADVANCING"})>>)>>),
        First(<<Alt(On({"PAGE"}), <<Take({"PAGE"})>>),
                Alt(Always, <<Expression, May({"LINE"}), May({"LINES"})>>)>>)>>)

From == When(On({"FROM"}), <<Take({"FROM"}), Expression>>)

Write ==
    <<Need({"WRITE"}), Ref, From, Advancing,
      Phrase({<<{"AT"}, {"EOP"}>>, <<{"EOP"}>>}, <<{"AT"}, {"EOP"}>>, "eop",
             On({"NOT", "INVALID", "."} \cup EndKeywords)),
      Phrase({<<{"NOT"}, {"AT", "EOP"}>>}, <<{"NOT"}, {"AT"}, {"EOP"}>>, "not-eop",
             On({"INVALID", "."} \cup EndKeywords)),
      Phrase(On({"INVALID"}), <<{"INVALID"}, {"KEY"}>>, "invalid", On({"NOT", "."} \cup EndKeywords)),
      Phrase(On({"NOT"}), <<{"NOT"}, {"INVALID"}, {"KEY"}>>, "not-invalid", On({"."} \cup EndKeywords)),
      May({"END-WRITE"})>>

Rewrite == <<Need({"REWRITE"}), Ref, From>> \o InvalidKeyPhrases("END-REWRITE")
Delete == <<Need({"DELETE"}), OneName, May({"RECORD"})>> \o InvalidKeyPhrases("END-DELETE")

StartRelation ==
    First(<<
      Alt(On({"=", "EQUAL"}), <<Take({"=", "EQUAL"}), May({"TO"})>>),
      Alt(On({">", ">="}), <<Take({">", ">="})>>),
      Alt(On({"GREATER"}),
          <<Take({"GREATER"}), May({"THAN"}),
            When(On({"OR"}), <<Take({"OR"}), May({"EQUAL"}), May({"TO"})>>)>>),
      Alt(On({"NOT"}),
          <<Take({"NOT"}), First(<<Alt(On({"<"}), <<May({"<"})>>),
                                   Alt(Always, <<May({"LESS"}), May({"THAN"})>>)>>)>>)>>)

StartStatement ==
    <<Need({"START"}), OneName,
      When(On({"KEY"}), <<Take({"KEY"}), May({"IS"}), StartRelation, Ref>>)>>
    \o InvalidKeyPhrases("END-START")

Return ==
    <<Need({"RETURN"}), OneName, May({"RECORD"}), When(On({"INTO"}), <<Take({"INTO"}), Ref>>)>>
    \o AtEndPhrases("END-RETURN")

-----------------------------------------------------------------------------
(* SEARCH, SORT, MERGE, RELEASE. *)

SearchEnd == On({"WHEN", "END-SEARCH", "."})
Search ==
    <<Need({"SEARCH"}),
      First(<<Alt(On({"ALL"}), <<Take({"ALL"}), Ref>>),
              Alt(Always, <<Ref, When(On({"VARYING"}), <<Take({"VARYING"}), Ref>>)>>)>>),
      Phrase(AtEnd, <<{"AT"}, {"END"}>>, "end", SearchEnd),
      While(On({"WHEN"}), Never, <<Take({"WHEN"}), Conditional>> \o Body(SearchEnd)),
      May({"END-SEARCH"})>>

(* The keys, each with the fields up to one of the words. *)
Orders == {"ASCENDING", "DESCENDING"}
SortKeys(words) ==
    While(On({"ON"} \cup Orders), Never,
      <<May({"ON"}),
        First(<<Alt(On(Orders),
                    <<Take(Orders), May({"KEY"}),
                      While(On(NameTokens),
                            Terminator \cup On({"ON", "USING", "GIVING", "OUTPUT", "COLLATING",
                                                "SEQUENCE"} \cup Orders \cup words),
                            <<Ref>>)>>),
                Alt(Always, <<Break>>)>>)>>)

Collating ==
    When(On({"COLLATING", "SEQUENCE"}),
         <<May({"COLLATING"}), May({"SEQUENCE"}), May({"IS"}), May(Identifiers)>>)

Files(stop) ==
    While(On(NameTokens \cup {","}), Terminator \cup On(stop),
          <<First(<<Alt(On({","}), <<May({","})>>), Alt(Always, <<OneName>>)>>)>>)

ProcedureRange(word) ==
    <<Take({word}), May({"PROCEDURE"}), May({"IS"}), OneName,
      When(On({"THRU"}), <<Take({"THRU"}), OneName>>)>>

(* AllTokens keyword but a terminator is a file name after GIVING. *)
SortOutput ==
    First(<<Alt(On({"GIVING"}), <<Take({"GIVING"}), Files({})>>),
            Alt(On({"OUTPUT"}), ProcedureRange("OUTPUT"))>>)

Sort ==
    <<Need({"SORT"}), OneName, SortKeys({"INPUT", "DUPLICATES", "WITH"}),
      When(On({"WITH", "DUPLICATES"}),
           <<Mark("duplicates"), May({"WITH"}), May({"DUPLICATES"}), May({"IN"}), May({"ORDER"})>>),
      Collating,
      First(<<Alt(On({"USING"}), <<Take({"USING"}), Files({"GIVING", "OUTPUT"})>>),
              Alt(On({"INPUT"}), ProcedureRange("INPUT"))>>),
      SortOutput>>

Merge ==
    <<Need({"MERGE"}), OneName, SortKeys({}), Collating,
      When(On({"USING"}), <<Take({"USING"}), Files({"GIVING", "OUTPUT"})>>),
      SortOutput>>

Release == <<Need({"RELEASE"}), Ref, From>>

-----------------------------------------------------------------------------
(* INITIALIZE, SET, STRING, UNSTRING, INSPECT, CANCEL. *)

Categories == {"ALPHABETIC", "ALPHANUMERIC-EDITED", "ALPHANUMERIC", "NUMERIC-EDITED",
               "NUMERIC", "NATIONAL", "NATIONAL-EDITED"}

(* AllTokens keyword but a terminator or REPLACING is a field to initialize. *)
Initialize ==
    <<Need({"INITIALIZE"}),
      While(On(NameTokens), Terminator \cup On({"REPLACING"}), <<Ref>>),
      When(On({"REPLACING"}),
        <<Take({"REPLACING"}),
          Repeat(<<May({"ALL"}),
                   First(<<Alt(On(Categories), <<Take(Categories)>>), Alt(Always, <<Break>>)>>),
                   May({"DATA"}), Need({"BY"}), Expression>>,
                 Terminator \cup AtStart)>>)>>

(* Switches TO ON or OFF, several groups of them; when one of the groups is
   something else, the statement is parsed again as the other formats. *)
SetSwitches ==
    <<Repeat(<<First(<<Alt(On({"TO"}), <<GiveUp>>), Alt(Terminator, <<GiveUp>>)>>),
               While(Always, Terminator \cup On({"TO"}),
                     <<First(<<Alt(On(NameTokens), <<Ref, May({","})>>), Alt(Always, <<GiveUp>>)>>)>>),
               First(<<Alt(On({"TO"}), <<Need({"TO"})>>), Alt(Always, <<GiveUp>>)>>),
               First(<<Alt(On({"ON", "OFF"}), <<Take({"ON", "OFF"})>>), Alt(Always, <<GiveUp>>)>>)>>,
             Terminator)>>

SetFields ==
    <<While(Always, Terminator \cup On({"TO", "UP", "DOWN"}), <<Ref, May({","})>>),
      First(<<
        Alt(On({"TO"}),
            <<Take({"TO"}), First(<<Alt(On({"TRUE", "FALSE"}), <<Take({"TRUE", "FALSE"})>>),
                                    Alt(Always, <<Expression>>)>>)>>),
        Alt(On({"UP", "DOWN"}), <<Take({"UP", "DOWN"}), Need({"BY"}), Expression>>),
        Alt(Always, <<Fail>>)>>)>>

Set ==
    <<Need({"SET"}),
      First(<<Alt(On(NameTokens), <<Attempt(SetSwitches, SetFields)>>), Alt(Always, SetFields)>>)>>

PointerPhrase == <<Take({"POINTER"}), Ref>>

String ==
    <<Need({"STRING"}),
      While(Always, Terminator \cup On({"INTO"}),
        <<First(<<
            Alt(On({"DELIMITED"}),
                <<Take({"DELIMITED"}), May({"BY"}),
                  First(<<Alt(On({"SIZE"}), <<Take({"SIZE"})>>), Alt(Always, <<Expression>>)>>)>>),
            Alt(Always, <<Expression>>)>>)>>),
      Take({"INTO"}), Ref, May({"WITH"}), When(On({"POINTER"}), PointerPhrase)>>
    \o OverflowPhrases("END-STRING")

DelimitedBy == <<Flag({"ALL"}), Expression>>
InField(word) == When(On({word}), <<Take({word}), May({"IN"}), Ref>>)

(* AllTokens keyword but the phrases of UNSTRING and the terminators is a field. *)
Unstring ==
    <<Need({"UNSTRING"}), Ref,
      When(On({"DELIMITED"}),
           <<Take({"DELIMITED"}), May({"BY"})>> \o DelimitedBy \o
           <<While(On({"OR"}), Never, <<Take({"OR"})>> \o DelimitedBy)>>),
      When(On({"INTO"}),
        <<Take({"INTO"}),
          While(On(NameTokens),
                Terminator \cup On({"POINTER", "WITH", "TALLYING", "ON", "OVERFLOW", "NOT"}),
                <<Ref, InField("DELIMITER"), InField("COUNT")>>)>>),
      When({<<{"WITH"}, {"POINTER"}>>}, <<Need({"WITH"})>>),
      When(On({"POINTER"}), PointerPhrase), InField("TALLYING")>>
    \o OverflowPhrases("END-UNSTRING")

BeforeAfter ==
    While(On({"BEFORE", "AFTER"}), Never,
          <<Take({"BEFORE", "AFTER"}), May({"INITIAL"}), Expression>>)

TallyingKinds == {"ALL", "LEADING", "TRAILING"}
TallyingItems ==
    While(Always, Terminator \cup AtStart \cup On({"REPLACING"}),
      <<Ref, Need({"FOR"}),
        While(On(TallyingKinds \cup {"CHARACTERS"}), Never,
          <<First(<<
              Alt(On({"CHARACTERS"}), <<Take({"CHARACTERS"}), BeforeAfter>>),
              Alt(Always,
                  <<Take(TallyingKinds), Expression, BeforeAfter,
                    While(On(Strings) \cup {<<Identifiers, {"BEFORE", "AFTER"}>>}, Never,
                          <<Expression, BeforeAfter>>)>>)>>)>>)>>)

(* TRAILING is recorded as LEADING. *)
ReplacingItems ==
    While(On({"CHARACTERS", "ALL", "LEADING", "FIRST", "TRAILING"}), Terminator \cup AtStart,
      <<First(<<
          Alt(On({"CHARACTERS"}), <<Take({"CHARACTERS"})>>),
          Alt(On({"TRAILING"}), <<Mark("LEADING"), Need({"TRAILING"}), Expression>>),
          Alt(Always, <<Take({"ALL", "LEADING", "FIRST"}), Expression>>)>>),
        Take({"BY"}), Expression, BeforeAfter>>)

Inspect ==
    <<Need({"INSPECT"}), Ref,
      First(<<
        Alt(On({"TALLYING"}),
            <<Take({"TALLYING"}), TallyingItems,
              When(On({"REPLACING"}), <<Take({"REPLACING"}), ReplacingItems>>)>>),
        Alt(On({"REPLACING"}), <<Take({"REPLACING"}), ReplacingItems>>),
        Alt(On({"CONVERTING"}),
            <<Take({"CONVERTING"}), Expression, Take({"TO"}), Expression, BeforeAfter>>),
        Alt(Always, <<Fail>>)>>)>>

Cancel == <<Need({"CANCEL"}), While(Always, Terminator, <<Expression>>)>>

-----------------------------------------------------------------------------
(* The statements of later standards, of XML and JSON, and of the report
   writer. *)

Raise ==
    <<Need({"RAISE"}),
      First(<<Alt({<<{"EXCEPTION"}, Strings>>}, <<Take({"EXCEPTION"}), Take(Strings)>>),
              Alt(On({"EXCEPTION"}), <<Take({"EXCEPTION"}), Ref>>),
              Alt(Always, <<Ref>>)>>)>>

Resume ==
    <<Need({"RESUME"}),
      First(<<Alt(Terminator, <<>>), Alt(Always, <<May({"AT"}), Flag(Identifiers)>>)>>)>>

Invoke ==
    <<Need({"INVOKE"}), Expression, Expression, CallUsing({"RETURNING"}),
      When(On({"RETURNING"}), <<Take({"RETURNING"}), Ref>>)>>

Allocate ==
    <<Need({"ALLOCATE"}),
      First(<<Alt(On(Integers_), <<Expression, May({"CHARACTERS"})>>), Alt(Always, <<Ref>>)>>),
      When(On({"RETURNING"}), <<Take({"RETURNING"}), Ref>>), Flag({"INITIALIZED"})>>

Free == <<Need({"FREE"}), While(Always, Terminator, <<Ref>>)>>
Validate == <<Need({"VALIDATE"}), Ref>>

Generating == {"COUNT", "ENCODING", "XML-DECLARATION", "ATTRIBUTES", "NAMESPACE", "NAME", "SUPPRESS"}

(* The exception phrases at the end of an XML or JSON statement; their bodies
   stop where first and second say.  ON without EXCEPTION ends the statement. *)
Exceptions(first, second, end) ==
    <<Alt({<<{"ON"}, {"EXCEPTION"}>>, <<{"EXCEPTION"}>>},
          <<May({"ON"}), Need({"EXCEPTION"}), Mark("exception")>> \o Body(first)),
      Alt(On({"ON"}), <<Need({"ON"}), Break>>),
      Alt(On({"NOT"}), second),
      Alt(On({end}), <<Need({end}), Break>>),
      Alt(Always, <<Break>>)>>

XmlExceptions ==
    Exceptions(On({"NOT", "END-XML", "."}),
      <<Need({"NOT"}), May({"ON"}), May({"EXCEPTION"}), Mark("not-exception")>>
      \o Body(On({"END-XML", "."})), "END-XML")

JsonExceptions ==
    Exceptions(Terminator \cup On({"NOT", "END-JSON"}),
      <<Need({"NOT"}), May({"ON"}),
        When(On({"EXCEPTION"}), <<Need({"EXCEPTION"}), Mark("not-exception")>>
                                \o Body(Terminator \cup On({"END-JSON"})))>>, "END-JSON")

NameMapping(extra) == <<Ref, May({"IS"}), Flag(Strings \cup extra)>>
Suppressed(stop) ==
    <<Take({"SUPPRESS"}), While(Always, Terminator \cup On({"NAME", "ON", "NOT"} \cup stop), <<Ref>>)>>

XmlGenerate ==
    <<Take({"GENERATE"}), Ref, May({"FROM"}), Ref,
      While(Always, Terminator,
        <<First(<<
            Alt(On({"COUNT"}), <<Take({"COUNT"}), May({"IN"}), Ref>>),
            Alt(On({"ENCODING"}), <<Take({"ENCODING"}), Expression>>),
            Alt(On({"XML-DECLARATION", "ATTRIBUTES"}), <<Take({"XML-DECLARATION", "ATTRIBUTES"})>>),
            Alt(On({"NAMESPACE"}),
                <<Take({"NAMESPACE"}), May({"IS"}), Expression,
                  When(On({"NAMESPACE-PREFIX"}), <<Take({"NAMESPACE-PREFIX"}), May({"IS"}), Expression>>)>>),
            Alt(On({"NAME"}), <<Take({"NAME"}), May({"OF"})>> \o NameMapping({})),
            Alt(On({"SUPPRESS"}),
                Suppressed({"END-XML", "ENCODING", "XML-DECLARATION", "ATTRIBUTES", "NAMESPACE"}))>>
          \o XmlExceptions)>>)>>

XmlParse ==
    <<Take({"PARSE"}), Ref, May({"PROCESSING"}), May({"PROCEDURE"}), May({"IS"}), Take(Identifiers),
      When(On({"THRU"}), <<Take({"THRU"}), Flag(Identifiers)>>),
      While(Always, Terminator, <<First(XmlExceptions)>>)>>

Xml == <<Need({"XML"}), First(<<Alt(On({"GENERATE"}), XmlGenerate), Alt(Always, XmlParse)>>)>>

JsonGenerate ==
    <<Take({"GENERATE"}), Ref, May({"FROM"}), Ref,
      While(Always, Terminator,
        <<First(<<
            Alt(On({"COUNT"}), <<Take({"COUNT"}), May({"IN"}), Ref>>),
            Alt(On({"NAME"}), <<Take({"NAME"}), May({"OF"})>> \o NameMapping({"OMITTED"})),
            Alt(On({"SUPPRESS"}), Suppressed({"END-JSON"}))>> \o JsonExceptions)>>)>>

JsonParse ==
    <<Take({"PARSE"}), Ref, May({"INTO"}), Ref,
      While(Always, Terminator,
        <<First(<<Alt(On({"NAME", "WITH"}),
                      <<May({"WITH"}), May({"NAME"}), May({"OF"})>> \o NameMapping({}))>>
                \o JsonExceptions)>>)>>

Json == <<Need({"JSON"}), First(<<Alt(On({"GENERATE"}), JsonGenerate), Alt(Always, JsonParse)>>)>>

ReportNames == While(On(Identifiers), Terminator, <<Take(Identifiers)>>)
Initiate == <<Need({"INITIATE"}), ReportNames>>
Generate == <<Need({"GENERATE"}), Take(Identifiers)>>
Terminate == <<Need({"TERMINATE"}), ReportNames>>

NextSentence == <<Need({"NEXT"}), May({"SENTENCE"})>>

-----------------------------------------------------------------------------
(* parse_statement: the parsing function of each verb. *)
Verbs ==
    [v \in StatementStarts \cup {"SEARCH", "VALIDATE", "XML", "JSON", "INITIATE", "GENERATE",
                                 "TERMINATE", "NEXT"} |->
        CASE v = "MOVE" -> Move [] v = "COMPUTE" -> Compute [] v = "ADD" -> Add
          [] v = "SUBTRACT" -> Subtract [] v = "MULTIPLY" -> Multiply [] v = "DIVIDE" -> Divide
          [] v = "DISPLAY" -> Display [] v = "ACCEPT" -> Accept [] v = "ENABLE" -> Enable
          [] v = "DISABLE" -> Disable [] v = "SEND" -> Send [] v = "RECEIVE" -> Receive
          [] v = "PURGE" -> Purge [] v = "IF" -> If [] v = "EVALUATE" -> Evaluate
          [] v = "PERFORM" -> Perform [] v \in {"GO", "GO-TO"} -> GoTo
          [] v = "CALL" -> CallStatement [] v = "STOP" -> Stop [] v = "ALTER" -> Alter
          [] v \in {"GOBACK", "CONTINUE"} -> <<Need({v})>> [] v = "EXIT" -> Exit
          [] v = "OPEN" -> Open [] v = "CLOSE" -> Close [] v = "READ" -> Read
          [] v = "WRITE" -> Write [] v = "INITIALIZE" -> Initialize [] v = "SET" -> Set
          [] v = "STRING" -> String [] v = "UNSTRING" -> Unstring [] v = "INSPECT" -> Inspect
          [] v = "SEARCH" -> Search [] v = "SORT" -> Sort [] v = "MERGE" -> Merge
          [] v = "RELEASE" -> Release [] v = "CANCEL" -> Cancel [] v = "REWRITE" -> Rewrite
          [] v = "DELETE" -> Delete [] v = "START" -> StartStatement [] v = "RETURN" -> Return
          [] v = "RAISE" -> Raise [] v = "RESUME" -> Resume [] v = "INVOKE" -> Invoke
          [] v = "ALLOCATE" -> Allocate [] v = "FREE" -> Free [] v = "VALIDATE" -> Validate
          [] v = "XML" -> Xml [] v = "JSON" -> Json [] v = "INITIATE" -> Initiate
          [] v = "GENERATE" -> Generate [] v = "TERMINATE" -> Terminate
          [] v = "NEXT" -> NextSentence]
====
