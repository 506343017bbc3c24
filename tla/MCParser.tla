------------------------------ MODULE MCParser ------------------------------
(* The writers of data entries, of conditions, of procedure text and of whole
   programs, one of them at a time. *)
EXTENDS DataEntries, ConditionText, ProcedureText

allVars == <<dataVars, conditionVars, textVars, programVars>>

Init == DataInit /\ ConditionInit /\ TextInit /\ ProgramInit

WriteData ==
    /\ condition = <<>> /\ text = <<>> /\ program = <<>>
    /\ \E level \in EntryLevels : WriteEntry(level)
    /\ UNCHANGED <<conditionVars, textVars, programVars>>

WriteCondition ==
    /\ entries = <<>> /\ text = <<>> /\ program = <<>>
    /\ \E connective \in {"first", "AND", "OR"} :
        \/ \E negated \in BOOLEAN : WriteWhole(connective, negated)
        \/ WriteOperator(connective)
        \/ WriteOperand(connective)
    /\ UNCHANGED <<dataVars, textVars, programVars>>

WriteProcedure ==
    /\ entries = <<>> /\ condition = <<>> /\ program = <<>>
    /\ \/ WriteSimple
       \/ BeginCompound
       \/ BeginPhrase
       \/ EndCompound
       \/ WriteWholeSentence
       \/ EndSentence
    /\ UNCHANGED <<dataVars, conditionVars, programVars>>

WriteProgram ==
    /\ entries = <<>> /\ condition = <<>> /\ text = <<>>
    /\ \E n \in DOMAIN Parts : WritePart(n)
    /\ UNCHANGED <<dataVars, conditionVars, textVars>>

Next == WriteData \/ WriteCondition \/ WriteProcedure \/ WriteProgram
Spec == Init /\ [][Next]_allVars

-----------------------------------------------------------------------------
MCNames == {"A", "B", "C", "F", "P", "X", "Y", "Z"}
MCLevels == {"01", "05", "10", "66", "77", "88"}
MCSubjects == <<"A", "B", "C">>
MCObjects == <<"X", "Y", "Z">>

Same(words) == [text |-> words, tree |-> words]
MCSimple == {Same(<<"MOVE", "A", "TO", "B">>), Same(<<"DISPLAY", "A">>)}
Made(words, marks) == [text |-> words, tree |-> marks]
MCAlone ==
    {Same(words) : words \in
        {<<"GOBACK">>, <<"STOP", "RUN">>, <<"GO-TO", "P">>, <<"SET", "A", "TO", "1">>,
         <<"MULTIPLY", "2", "BY", "A">>,
         <<"DIVIDE", "A", "BY", "B", "GIVING", "C">>, <<"CLOSE", "F">>,
         <<"WRITE", "A", "FROM", "B">>, <<"DELETE", "F">>,
         <<"START", "F", "KEY", "=", "A">>}}
    \cup
    {Made(<<"PERFORM", "P">>, <<"PERFORM", "procedure", "P">>),
     Made(<<"COMPUTE", "A", "=", "B">>, <<"COMPUTE", "A", "B">>),
     Made(<<"STRING", "A", "DELIMITED", "BY", "SIZE", "INTO", "B">>,
          <<"STRING", "A", "DELIMITED", "SIZE", "INTO", "B">>),
     Made(<<"INSPECT", "A", "TALLYING", "B", "FOR", "ALL", "'s'">>,
          <<"INSPECT", "A", "TALLYING", "B", "ALL", "'s'">>)}

MCWhole ==
    {[text |-> <<"P", ".">>, tree |-> <<"paragraph", "P">>],
     [text |-> <<"P", "SECTION", ".">>, tree |-> <<"section", "P">>]}
      \cup {[text |-> Append(words, "."), tree |-> <<"sentence", "[">> \o words \o <<"]">>] :
               words \in {<<"OPEN", "INPUT", "F">>, <<"CALL", "'s'", "USING", "A">>}}

OnePhrase(words, name) ==
    [text |-> words, tree |-> name, again |-> FALSE, needed |-> FALSE]
Needed(phrase) == [phrase EXCEPT !.needed = TRUE]
Again_(phrase) == [phrase EXCEPT !.again = TRUE]
Statement_(words, marks, phrases, end) ==
    [text |-> words, tree |-> marks, phrases |-> phrases, end |-> end]

MCIf == Statement_(<<"IF", "A", ">", "B">>, <<"IF", "A", ">", "B">>,
        <<Needed(OnePhrase(<<>>, <<>>)), OnePhrase(<<"ELSE">>, <<"ELSE">>)>>, "END-IF")
MCReadFile == Statement_(<<"READ", "F">>, <<"READ", "F">>,
          <<OnePhrase(<<"AT", "END">>, <<"end">>),
            OnePhrase(<<"NOT", "AT", "END">>, <<"not-end">>)>>, "END-READ")
MCAdd == Statement_(<<"ADD", "1", "TO", "A">>, <<"ADD", "1", "TO", "A">>,
         <<OnePhrase(<<"ON", "SIZE", "ERROR">>, <<"error">>),
           OnePhrase(<<"NOT", "ON", "SIZE", "ERROR">>, <<"not-error">>)>>, "END-ADD")
MCEvaluate == Statement_(<<"EVALUATE", "A">>, <<"EVALUATE", "A">>,
              <<Needed(Again_(OnePhrase(<<"WHEN", "1">>, <<"WHEN", "1">>))),
                OnePhrase(<<"WHEN", "OTHER">>, <<"WHEN", "OTHER">>)>>, "END-EVALUATE")
MCPerform == Statement_(<<"PERFORM", "UNTIL", "A", ">", "B">>, <<"PERFORM", "UNTIL", "A", ">", "B">>,
           <<Needed(OnePhrase(<<>>, <<>>))>>, "END-PERFORM")
MCCompound == {MCIf, MCReadFile, MCAdd, MCEvaluate, MCPerform}

MCDamage == {"END-IF", "NOT"}

(* The parts of a program. *)
Part(words, marks) == [text |-> words, tree |-> marks, broken |-> FALSE]
Broken(words) == [text |-> words, tree |-> <<>>, broken |-> TRUE]

MCIdentification ==
    <<{Part(<<"IDENTIFICATION", "DIVISION", ".", "PROGRAM-ID", ".", "P", "INITIAL", ".">>,
            <<"program", "P", "INITIAL">>)},
      {Part(<<"AUTHOR", ".", "A", "B", ".">>, <<"AUTHOR">>)}>>

MCEnvironment ==
    <<{Part(<<"ENVIRONMENT", "DIVISION", ".">>, <<>>)},
      {Part(<<"CONFIGURATION", "SECTION", ".", "SOURCE-COMPUTER", ".", "A", ".">>, <<>>),
       Part(<<"CONFIGURATION", "SECTION", ".", "SPECIAL-NAMES", ".", "A", "IS", "B", "ON", "STATUS",
              "IS", "C", "CLASS", "X", "IS", "'s'", "THRU", "'s'", "DECIMAL-POINT", "IS", "COMMA", ".">>,
            <<"special-name", "IS", "B", "ON", "C", "class", "X", "'s'", "'s'", "decimal-point", "COMMA">>),
       Part(<<"CONFIGURATION", "SECTION", ".", "SPECIAL-NAMES", ".", "ALPHABET", "A", "IS", "'s'", "THRU",
              "'s'", "'s'", "ALSO", "'s'", "CLASS", "X", "IS", "'s'", ".">>,
            <<"alphabet", "A", "'s'", "THRU", "'s'", "'s'", "ALSO", "'s'", "class", "X", "'s'">>)},
      {Part(<<"INPUT-OUTPUT", "SECTION", ".", "FILE-CONTROL", ".">>, <<>>)},
      {Part(<<"SELECT", "F", "ASSIGN", "TO", "'s'", "ORGANIZATION", "IS", "INDEXED", "RECORD", "KEY", "IS",
              "A", "ALTERNATE", "RECORD", "KEY", "B", "WITH", "DUPLICATES", "FILE", "STATUS", "IS", "C", ".">>,
            <<"SELECT", "F", "ASSIGN", "'s'", "ORGANIZATION", "INDEXED", "record-key", "A",
              "alternate-key", "B", "duplicates", "status", "C">>),
       Part(<<"SELECT", "OPTIONAL", "F", "RELATIVE", "KEY", "A", "ACCESS", "MODE", "RANDOM", "ASSIGN", "A", ".">>,
            <<"SELECT", "OPTIONAL", "F", "relative-key", "A", "ACCESS", "RANDOM", "ASSIGN", "A">>),
       Broken(<<"SELECT", "F", "ORGANIZATION", "IS", "ASSIGN", "TO", "'s'", ".">>)},
      {Part(<<"I-O-CONTROL", ".", "SAME", "RECORD", "AREA", "F", "A", ".">>, <<"same-area", "F", "A">>)}>>

MCData ==
    <<{Part(<<"DATA", "DIVISION", ".", "FILE", "SECTION", ".">>, <<"FILE">>)},
      {Part(<<"FD", "F", "BLOCK", "CONTAINS", "1", "RECORDS", "RECORD", "CONTAINS", "1", "TO", "2",
              "LABEL", "RECORDS", "STANDARD", ".", "01", "A", "PIC", "p", ".">>,
            <<"FD", "F", "BLOCK", "1", "RECORDS", "RECORD", "CONTAINS", "1", "TO", "2",
              "LABEL", "STANDARD", "item", "01", "A", "p">>),
       Part(<<"SD", "F", "RECORD", "VARYING", "FROM", "1", "TO", "2", "DEPENDING", "ON", "A", ".">>,
            <<"SD", "F", "RECORD", "varying", "1", "TO", "2", "DEPENDING", "A">>)},
      {Part(<<"WORKING-STORAGE", "SECTION", ".", "01", "A", "USAGE", "IS", "COMP", ".", "05", "B", "OCCURS",
              "2", "TIMES", "INDEXED", "BY", "X", "PIC", "p", "VALUE", "1", ".", "88", "Y", "VALUES",
              "ARE", "1", "THRU", "2", ".">>,
            <<"WORKING-STORAGE", "item", "01", "A", "usage", "COMP", "item", "05", "B", "OCCURS", "2",
              "INDEXED", "X", "p", "value", "1", "item", "88", "Y", "value", "1", "THRU", "2">>)},
      {Part(<<"COMMUNICATION", "SECTION", ".", "CD", "C", "FOR", "INPUT", "SYMBOLIC", "QUEUE", "IS", "A",
              "MESSAGE", "COUNT", "IS", "B", ".">>,
            <<"COMMUNICATION", "CD", "C", "INPUT", "QUEUE", "A", "COUNT", "B">>)}>>

MCProcedure ==
    <<{Part(<<"PROCEDURE", "DIVISION", ".">>, <<>>),
       Part(<<"PROCEDURE", "DIVISION", "USING", "A", "RETURNING", "B", ".">>,
            <<"USING", "A", "RETURNING", "B">>)},
      {Part(<<"DECLARATIVES", ".", "A", "SECTION", ".", "USE", "AFTER", "ERROR", "PROCEDURE", "ON", "F", ".",
              "P", ".", "MOVE", "A", "TO", "B", ".", "END", "DECLARATIVES", ".">>,
            <<"declarative", "A", "USE", "F", "paragraph", "P", "sentence", "[", "MOVE", "A", "TO", "B", "]">>)},
      {Part(<<"P", "SECTION", ".", "P", ".", "STOP", "RUN", ".">>,
            <<"section", "P", "paragraph", "P", "sentence", "[", "STOP", "RUN", "]">>),
       Part(<<"STOP", "RUN", ".">>, <<"sentence", "[", "STOP", "RUN", "]">>)},
      {Part(<<"IDENTIFICATION", "DIVISION", ".", "PROGRAM-ID", ".", "X", ".", "PROCEDURE", "DIVISION", ".",
              "GOBACK", ".", "END", "PROGRAM", "X", ".">>,
            <<"program", "X", "sentence", "[", "GOBACK", "]", "end-program">>)},
      {Part(<<"END", "PROGRAM", "P", ".">>, <<"end-program">>)}>>

MCParts == MCIdentification \o MCEnvironment \o MCData \o MCProcedure
MCOptional == {2, 4, 6, 7, 9, 10, 11, 13, 14, 15}
MCSeveral == {6, 9, 14, 15}
=============================================================================
