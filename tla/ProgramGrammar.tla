---- MODULE ProgramGrammar ----
(* Whole programs as cobol-parser parses them: the IDENTIFICATION DIVISION
   (ident_div.rs), the ENVIRONMENT DIVISION (env_div.rs), the frame of the
   PROCEDURE DIVISION (proc_div.rs) and the programs of a compilation unit
   (parser.rs).  The warnings, SEGMENT-LIMIT and the expansion of the ranges of
   an alphabet are left out. *)
EXTENDS ParserCursor

(* expect_identifier_or_literal. *)
NameOrLiteral == Take(NameTokens \cup Strings)
ToPeriod == While(Always, On({"."}), <<AnyToken>>)

-----------------------------------------------------------------------------
(* IDENTIFICATION DIVISION. *)

CommentText == While(Always, AtDivision \cup On({"."}), <<AnyToken>>)
Remarks == {"AUTHOR", "INSTALLATION", "DATE-WRITTEN", "DATE-COMPILED", "SECURITY"}

IdentificationDivision ==
    <<Need({"IDENTIFICATION"}), Need({"DIVISION"}), Need({"."}),
      Need({"PROGRAM-ID"}), Need({"."}), NameOrLiteral, May({"IS"}),
      While(On({"INITIAL", "RECURSIVE", "COMMON"}), Never,
            <<Take({"INITIAL", "RECURSIVE", "COMMON"})>>),
      Need({"."}),
      While(Always, AtDivision,
        <<First(<<Alt(On(Remarks), <<Take(Remarks), Need({"."}), CommentText, May({"."})>>),
                  Alt(Always, <<AnyToken>>)>>)>>)>>

-----------------------------------------------------------------------------
(* ENVIRONMENT DIVISION: the CONFIGURATION SECTION. *)

ConfigurationParagraphs ==
    {"SOURCE-COMPUTER", "OBJECT-COMPUTER", "SPECIAL-NAMES", "REPOSITORY"}
ConfigurationEnd ==
    AtDivision \cup AtDataSection
      \cup On(ConfigurationParagraphs \cup {"INPUT-OUTPUT", "FILE-CONTROL", "I-O-CONTROL"})

(* parse_paragraph_text and skip_to_next_paragraph. *)
ParagraphText == <<ToPeriod, May({"."})>>
ToParagraph == While(Always, ConfigurationEnd, <<AnyToken>>)

SpecialClauses ==
    On({"CLASS", "DECIMAL-POINT", "CURRENCY", "CURSOR", "CRT", "SYMBOLIC", "ALPHABET"})
ClauseText == <<While(Always, SpecialClauses \cup On({"."}), <<AnyToken>>), May({"."})>>

Values == NameTokens \cup Strings
SpecialClass ==
    <<Mark("class"), AnyToken,
      When(On(NameTokens),
        <<OneName, May({"IS"}),
          While(Always, SpecialClauses \cup On({"."}),
            <<First(<<
                Alt(On(Values), <<Take(Values), When(On({"THRU"}), <<AnyToken, Flag(Values)>>)>>),
                Alt(Always, <<AnyToken>>)>>)>>),
          May({"."})>>)>>

(* A value, alone, in a range, or with ALSO others; not a range and others. *)
AlphabetRange == When(On({"THRU"}), <<Take({"THRU"}), Flag(Values)>>)
AlphabetValue ==
    <<Take(Values),
      First(<<Alt(On({"THRU"}), <<AlphabetRange>>),
              Alt(Always,
                  <<May({","}),
                    While(On({"ALSO"}), Never,
                      <<Take({"ALSO"}),
                        When(On(Values), <<Take(Values), AlphabetRange>>), May({","})>>)>>)>>)>>

(* Variant for a mutant: CLASS does not end it. *)
AlphabetEndsLate == {"DECIMAL-POINT", "CURRENCY", "CURSOR", "CRT", "SYMBOLIC", "."}

(* The clause ends at the next one; the first value may be spelled ALPHABET. *)
AlphabetEnds == {"CLASS", "DECIMAL-POINT", "CURRENCY", "CURSOR", "CRT", "SYMBOLIC", "."}
SpecialAlphabet ==
    <<Mark("alphabet"), AnyToken,
      When(On(NameTokens),
        <<OneName, May({"IS"}),
          While(Always, On(AlphabetEnds \cup Values), <<AnyToken>>),
          When(On(Values \ AlphabetEnds), AlphabetValue),
          While(Always, On(AlphabetEnds \cup {"ALPHABET"}),
            <<First(<<Alt(On(Values), AlphabetValue), Alt(Always, <<AnyToken>>)>>)>>),
          May({"."})>>)>>

SwitchStatus == <<May({"STATUS"}), May({"IS"}), Flag(NameTokens)>>
SystemName ==
    <<Mark("special-name"), AnyToken,
      When(On({"IS"}), <<Take({"IS"}), Flag(NameTokens)>>),
      While(On({"ON", "OFF"}), Never, <<Take({"ON", "OFF"})>> \o SwitchStatus),
      May({"."})>>

SpecialNames ==
    While(Always, ConfigurationEnd,
      <<First(<<
          Alt(On({"CLASS"}), SpecialClass),
          Alt(On({"DECIMAL-POINT"}),
              <<Mark("decimal-point"), AnyToken, May({"IS"}), Flag({",", "COMMA"}), ToPeriod, May({"."})>>),
          Alt(On({"ALPHABET"}), SpecialAlphabet),
          Alt(On({"SYMBOLIC", "CURRENCY", "CURSOR", "CRT"}), <<AnyToken>> \o ClauseText),
          Alt(On(Values \cup Integers_), SystemName),
          Alt(Always, <<AnyToken>>)>>)>>)

ConfigurationSection ==
    <<Need({"CONFIGURATION"}), Need({"SECTION"}), Need({"."}),
      While(Always, AtDivision \cup On({"INPUT-OUTPUT"}),
        <<First(<<
            Alt(On({"SOURCE-COMPUTER", "OBJECT-COMPUTER"}), <<AnyToken, Need({"."})>> \o ParagraphText),
            Alt(On({"SPECIAL-NAMES"}), <<AnyToken, Need({"."}), SpecialNames>>),
            Alt(On({"REPOSITORY"}), <<AnyToken, Need({"."}), ToParagraph>>),
            Alt(Always, <<AnyToken>>)>>)>>)>>

-----------------------------------------------------------------------------
(* ENVIRONMENT DIVISION: the INPUT-OUTPUT SECTION. *)

Organization ==
    First(<<Alt(On({"LINE"}), <<Take({"LINE"}), May({"SEQUENTIAL"})>>),
            Alt(Always, <<Take({"SEQUENTIAL", "INDEXED", "RELATIVE"})>>)>>)
AccessMode == Take({"SEQUENTIAL", "RANDOM", "DYNAMIC"})
KeyClause(word) == <<Mark(word), May({"IS"}), Ref>>

(* The clauses in any order, to the period.  What is none of them is skipped, so
   that an entry without its period takes the next one for its own clauses. *)
SelectClause ==
    First(<<
      Alt(On({"ASSIGN"}), <<Take({"ASSIGN"}), May({"TO"}), NameOrLiteral>>),
      Alt(On({"ORGANIZATION"}), <<Take({"ORGANIZATION"}), May({"IS"}), Organization>>),
      Alt(On({"ACCESS"}), <<Take({"ACCESS"}), May({"MODE"}), May({"IS"}), AccessMode>>),
      Alt(On({"RECORD-KEY"}), <<AnyToken>> \o KeyClause("record-key")),
      Alt({<<{"RECORD"}, {"KEY"}>>}, <<AnyToken, AnyToken>> \o KeyClause("record-key")),
      Alt({<<{"RECORD"}, Identifiers>>}, <<AnyToken, Mark("record-key"), Ref>>),
      Alt({<<{"RELATIVE"}, {"KEY"}>>}, <<AnyToken, AnyToken>> \o KeyClause("relative-key")),
      Alt({<<{"RELATIVE"}, Identifiers>>}, <<AnyToken, Mark("relative-key"), Ref>>),
      Alt(On({"ALTERNATE"}),
          <<AnyToken, May({"RECORD"}), May({"KEY"})>> \o KeyClause("alternate-key") \o
          <<When(On({"WITH", "DUPLICATES"}),
                 <<Mark("duplicates"), May({"WITH"}), May({"DUPLICATES"})>>)>>),
      Alt(On({"FILE-STATUS", "STATUS"}), <<AnyToken>> \o KeyClause("status")),
      Alt({<<{"FILE"}, {"STATUS"}>>}, <<AnyToken, AnyToken>> \o KeyClause("status")),
      Alt(On({"RESERVE"}), <<AnyToken, May(Integers_), May({"AREA", "AREAS"})>>),
      Alt(On({"PADDING"}), <<AnyToken, May({"CHARACTER"}), May({"IS"}), May(Strings \cup Identifiers)>>),
      Alt({<<{"RECORD"}, {"DELIMITER"}>>}, <<AnyToken, AnyToken, May({"IS"}), May(NameTokens)>>),
      Alt(On({"MODE"}), <<AnyToken, Mark("ACCESS"), May({"IS"}), AccessMode>>),
      Alt(Always, <<AnyToken>>)>>)

FileControlEntry ==
    <<Take({"SELECT"}), Flag({"OPTIONAL"}), OneName,
      While(Always, On({"."}), <<SelectClause>>), Need({"."})>>

SameArea ==
    <<Mark("same-area"), AnyToken, May({"RECORD"}), May({"AREA", "AREAS"}),
      While(Always, AtDivision \cup AtDataSection \cup On({"."}),
        <<First(<<Alt(On({","}), <<AnyToken>>), Alt(On(NameTokens), <<OneName>>),
                  Alt(Always, <<Ignoring(<<Fail>>), AnyToken>>)>>)>>),
      May({"."})>>

IoControl ==
    While(Always, AtDivision \cup AtDataSection \cup On({"FILE-CONTROL", "I-O-CONTROL"}),
      <<First(<<Alt({<<{"SAME"}, {"SORT-MERGE"}>>}, ParagraphText),
                Alt(On({"SAME"}), SameArea),
                Alt(Always, ParagraphText)>>)>>)

InputOutputSection ==
    <<Need({"INPUT-OUTPUT"}), Need({"SECTION"}), Need({"."}),
      When(On({"FILE-CONTROL"}),
        <<AnyToken, Need({"."}), While(On({"SELECT"}), Never, <<OrRecover(FileControlEntry)>>)>>),
      When(On({"I-O-CONTROL"}), <<AnyToken, Need({"."}), IoControl>>)>>

EnvironmentDivision ==
    <<Need({"ENVIRONMENT"}), Need({"DIVISION"}), Need({"."}),
      When(On({"CONFIGURATION"}), ConfigurationSection),
      When(On({"INPUT-OUTPUT"}), InputOutputSection)>>

-----------------------------------------------------------------------------
(* PROCEDURE DIVISION: parameters, declaratives, sections and paragraphs. *)

ProcParams ==
    While(Always, On({".", "RETURNING"}),
      <<First(<<Alt(On({"BY"}), <<Need({"BY"}), Flag({"REFERENCE", "CONTENT", "VALUE"})>>),
                Alt(Always, <<OneName, May({","})>>)>>)>>)

SectionHead == {<<ProcedureNames, {"SECTION"}>>}
(* The name of a section is no verb, unless the section before is still open. *)
SectionStart == {<<ProcedureNames \ StatementStarts, {"SECTION"}>>}
ParagraphStart == {<<ProcedureNames \ StatementStarts, {"."}>>}
SegmentNumber == Flag(Integers_)

Paragraph == <<Mark("paragraph"), ProcedureName, Need({"."})>>
Paragraphs(stop, sentence) ==
    While(Always, stop, <<First(<<Alt(ParagraphStart, Paragraph), Alt(Always, <<sentence>>)>>)>>)

AtEnds == AtEndProgram \cup AtIdentification
Section ==
    <<Mark("section"), ProcedureName, Need({"SECTION"}), SegmentNumber, Need({"."}),
      Paragraphs(AtEnds \cup SectionHead, NextSentenceOrLeave)>>

ProcedureBody ==
    While(Always, AtEnds,
      <<First(<<Alt(SectionStart, Section), Alt(ParagraphStart, Paragraph),
                Alt(Always, <<NextSentenceOrLeave>>)>>)>>)

UseProcedure ==
    <<Flag({"GLOBAL"}), Need({"AFTER"}), May({"STANDARD"}), May({"EXCEPTION", "ERROR"}),
      May({"PROCEDURE"}), May({"ON"}), While(Always, On({"."}), <<OneName, May({","})>>)>>
Use ==
    <<Take({"USE"}),
      First(<<
        Alt(On({"AFTER", "GLOBAL"}), UseProcedure),
        Alt(On({"BEFORE"}), <<Take({"BEFORE"}), May({"REPORT"}), OneName>>),
        Alt(On({"FOR"}),
            <<Need({"FOR"}), May({"DEBUGGING"}), May({"ON"}),
              While(Always, On({"."}), <<OneName>>)>>),
        Alt(Always, <<Fail>>)>>),
      Need({"."})>>

EndDeclaratives == {<<{"END"}, {"DECLARATIVES"}>>}
Declaratives ==
    <<Need({"DECLARATIVES"}), Need({"."}),
      While(Always, Never,
        <<First(<<
            Alt(EndDeclaratives, <<AnyToken, AnyToken, Need({"."}), Break>>),
            Alt(Always,
                <<Mark("declarative"), ProcedureName, Need({"SECTION"}), SegmentNumber, Need({"."})>>
                \o Use \o <<Paragraphs(EndDeclaratives \cup SectionHead, AnySentence)>>)>>)>>)>>

ProcedureDivision ==
    <<Need({"PROCEDURE"}), Need({"DIVISION"}),
      When(On({"USING"}), <<Take({"USING"}), ProcParams>>),
      When(On({"RETURNING"}), <<Take({"RETURNING"}), OneName>>),
      Need({"."}), When(On({"DECLARATIVES"}), Declaratives), ProcedureBody>>

-----------------------------------------------------------------------------
(* parse_program, with the programs nested in it, and parse_compilation_unit. *)

Program ==
    <<Mark("program")>> \o IdentificationDivision \o
    <<When(On({"ENVIRONMENT"}), EnvironmentDivision),
      When(On({"DATA"}), <<Call("data-division")>>),
      When(On({"PROCEDURE"}), ProcedureDivision),
      While(On({"IDENTIFICATION"}), Never, <<Call("program")>>),
      When(AtEndProgram,
           <<Need({"END"}), Need({"PROGRAM"}), May(AllTokens \ {"."}), May({"."})>>),
      Mark("end-program")>>

CompilationUnit == <<While(Always, Never, Program)>>
====
