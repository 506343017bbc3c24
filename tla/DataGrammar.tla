---- MODULE DataGrammar ----
(* The DATA DIVISION as cobol-parser data_div.rs parses it.  The entries come
   one after another: Hierarchy arranges them by level number.  The numbers
   of the report writer's page and the warnings are left out. *)
EXTENDS ParserCursor

IntegerLiteral == Take(Integers_)
IdentifierIs == <<May({"IS"}), OneName>>

(* at_data_item_start: any integer where an entry may begin is a level. *)
LevelTokens == Levels \cup Integers_
AtItem == On(LevelTokens)

-----------------------------------------------------------------------------
(* Data description entries. *)

UsageWords ==
    {"COMPUTATIONAL", "COMP", "COMP-1", "COMP-2", "COMP-3", "COMP-4", "COMP-5",
     "BINARY", "PACKED-DECIMAL", "INDEX", "POINTER", "FUNCTION-POINTER"}
Usages == UsageWords \cup {"DISPLAY", "NATIONAL", "FLOAT-SHORT", "FLOAT-LONG", "FLOAT-EXTENDED"}

LiteralStart == On(Literals \cup {"ALL"}) \cup {<<Signs, Numbers>>}
LiteralOrRange ==
    <<Literal, When(On({"THRU"}), <<Take({"THRU"}), Literal>>), May({","})>>
(* A sign that no number follows ends the values, and is lost. *)
ConditionValues == <<While(LiteralStart, Never, LiteralOrRange), May(Signs)>>

Keys == <<May({"KEY"}), May({"IS"}), Repeat(<<Ref>>, {<<AllTokens \ Identifiers>>, <<{"eof"}>>})>>
Occurs ==
    <<Take({"OCCURS"}), IntegerLiteral, When(On({"TO"}), <<Take({"TO"}), IntegerLiteral>>),
      May({"TIMES"}),
      While(On({"DEPENDING", "ASCENDING", "DESCENDING", "INDEXED"}), Never,
        <<First(<<
            Alt(On({"DEPENDING"}), <<Take({"DEPENDING"}), May({"ON"}), Ref>>),
            Alt(On({"ASCENDING", "DESCENDING"}), <<Take({"ASCENDING", "DESCENDING"})>> \o Keys),
            Alt(Always,
                <<Take({"INDEXED"}), May({"BY"}),
                  Repeat(<<OneName, May({","})>>,
                         {<<AllTokens \ Identifiers>>, <<{"eof"}>>})>>)>>)>>)>>

Renames == <<Take({"RENAMES"}), Ref, When(On({"THRU"}), <<Take({"THRU"}), Ref>>)>>
SignClause ==
    <<Mark("sign"), AnyToken, May({"IS"}), Take({"LEADING", "TRAILING"}),
      When(On({"SEPARATE"}), <<Take({"SEPARATE"}), May({"CHARACTER"})>>)>>
BlankClause ==
    <<Need({"BLANK"}),
      First(<<Alt(On({"SCREEN", "LINE"}), <<Mark("blank"), Take({"SCREEN", "LINE"})>>),
              Alt(Always, <<May({"WHEN"}), May({"ZERO"}), Mark("blank-when-zero")>>)>>)>>
PositionClause == <<AnyToken, May({"NUMBER"}), May({"IS"}), Flag(Integers_)>>

(* VALUE of a condition-name, or of any other entry. *)
ValueClause(condition) ==
    <<Mark("value"), First(<<Alt(On({"VALUES"}), <<AnyToken, May({"IS"}), May({"ARE"})>>),
                             Alt(Always, <<AnyToken, May({"IS"})>>)>>)>>
    \o (IF condition THEN ConditionValues ELSE <<Literal>>)

UsageClause ==
    <<May({"USAGE"}), May({"IS"}), Mark("usage"), Take(Usages)>>
UsageStart == On(UsageWords \cup {"USAGE"})

Clause(condition, using) ==
    First(<<
      Alt(On({"PIC"}), <<Need({"PIC"}), Take(Pictures)>>),
      Alt(UsageStart, UsageClause),
      Alt(On({"VALUE", "VALUES"}), ValueClause(condition)),
      Alt(On({"OCCURS"}), Occurs),
      Alt(On({"REDEFINES"}), <<Take({"REDEFINES"}), OneName>>),
      Alt(On({"RENAMES"}), Renames),
      Alt(On({"SIGN"}), SignClause),
      Alt(On({"JUSTIFIED"}), <<Take({"JUSTIFIED"}), May({"RIGHT"})>>),
      Alt(On({"BLANK"}), BlankClause),
      Alt(On({"LINE", "COLUMN"}), PositionClause),
      Alt(On({"SOURCE"}), <<Take({"SOURCE"}), May({"IS"}), Ref>>),
      Alt({<<{"USING"}, NameTokens>>}, using),
      Alt(On({"HIGHLIGHT", "REVERSE-VIDEO", "EXTERNAL", "GLOBAL"}),
          <<Take({"HIGHLIGHT", "REVERSE-VIDEO", "EXTERNAL", "GLOBAL"})>>),
      Alt(Always, <<AnyToken>>)>>)

(* The clauses of an entry, in any order, to its period; others are skipped.
   USING is the screen's before a USAGE is given, and skipped after. *)
UsingField == <<Take({"USING"}), May({"IS"}), Ref>>
ItemClauses(condition) ==
    <<While(Always, UsageStart \cup On({"."}), <<Clause(condition, UsingField)>>),
      While(Always, On({"."}), <<Clause(condition, <<AnyToken>>)>>)>>

EntryName ==
    First(<<Alt(On({"FILLER"}), <<Need({"FILLER"})>>), Alt(On({"PIC"}), <<>>),
            Alt(On(NameTokens), <<OneName>>)>>)

(* The level 88 is that of a condition-name. *)
DataItem ==
    <<Mark("item"),
      First(<<Alt(On({"88"}), <<Take({"88"}), EntryName>> \o ItemClauses(TRUE)),
              Alt(Always, <<Take(LevelTokens), EntryName>> \o ItemClauses(FALSE))>>),
      Need({"."})>>

DataItems == While(AtItem, Never, DataItem)

-----------------------------------------------------------------------------
(* File descriptions. *)

IntegerRange == <<IntegerLiteral, When(On({"TO"}), <<Take({"TO"}), IntegerLiteral>>)>>
LinageValue == Take(Integers_ \cup Identifiers)

BlockClause ==
    <<Take({"BLOCK"}), May({"CONTAINS"})>> \o IntegerRange \o
    <<First(<<Alt(On({"RECORDS"}), <<Take({"RECORDS"})>>), Alt(Always, <<May({"CHARACTERS"})>>)>>)>>

RecordClause ==
    <<Take({"RECORD"}),
      First(<<
        Alt(On({"CONTAINS"}), <<Take({"CONTAINS"})>> \o IntegerRange \o <<May({"CHARACTERS"})>>),
        Alt(Always,
            <<Mark("varying"), May({"IS"}), May({"VARYING"}), May({"IN"}), May({"SIZE"}),
              First(<<Alt(On({"FROM"}), <<Need({"FROM"}), IntegerLiteral>>),
                      Alt(Always, <<Flag(Integers_)>>)>>),
              When(On({"TO"}), <<Take({"TO"}), IntegerLiteral>>), May({"CHARACTERS"}),
              When(On({"DEPENDING"}), <<Take({"DEPENDING"}), May({"ON"}), OneName>>)>>)>>)>>

LinageClause ==
    <<Take({"LINAGE"}), May({"IS"}), LinageValue, May({"LINES"}),
      While(On({"WITH", "FOOTING", "LINES"}), Never,
        <<First(<<
            Alt(On({"WITH", "FOOTING"}),
                <<May({"WITH"}), May({"FOOTING"}), May({"AT"}), Mark("footing"), LinageValue>>),
            Alt(Always,
                <<Need({"LINES"}), May({"AT"}),
                  First(<<Alt(On({"TOP", "BOTTOM"}), <<Take({"TOP", "BOTTOM"}), LinageValue>>),
                          Alt(Always, <<Break>>)>>)>>)>>)>>)>>

FileClause ==
    First(<<
      Alt(On({"BLOCK"}), BlockClause), Alt(On({"RECORD"}), RecordClause),
      Alt(On({"LABEL"}),
          <<Take({"LABEL"}), May({"RECORDS"}), May({"RECORD"}), May({"IS"}),
            Flag({"STANDARD", "OMITTED"})>>),
      Alt(On({"RECORDING"}), <<Take({"RECORDING"}), May({"MODE"}), May({"IS"}), OneName>>),
      Alt(On({"REPORT"}), <<AnyToken, May({"IS"}), May(Identifiers)>>),
      Alt(On({"LINAGE"}), LinageClause),
      Alt(On({"EXTERNAL"}), <<Take({"EXTERNAL"})>>),
      Alt(On({"DATA"}),
          <<AnyToken, May({"RECORD"}), May({"RECORDS"}), May({"IS"}), May({"ARE"}),
            While(On(Identifiers), Never, <<AnyToken, May({","})>>)>>),
      Alt(On({"VALUE"}),
          <<AnyToken, May({"OF"}),
            While(Always, On({".", "DATA", "BLOCK", "RECORD", "LABEL", "RECORDING", "LINAGE"}),
                  <<AnyToken>>)>>),
      Alt(Always, <<AnyToken>>)>>)

FileDescription ==
    <<Take({"FD", "SD"}), OneName, While(Always, On({"."}), <<FileClause>>), Need({"."}),
      DataItems>>

-----------------------------------------------------------------------------
(* Communication descriptions. *)

SymbolicNames ==
    {"QUEUE", "SUB-QUEUE-1", "SUB-QUEUE-2", "SUB-QUEUE-3", "SOURCE", "DESTINATION"}
KeyedName(word, mark) ==
    Alt(On({word}), <<Mark(mark), AnyToken, May({"KEY"})>> \o IdentifierIs)

DestinationTable ==
    <<Need({"TABLE"}), Need({"OCCURS"}), Mark("table"), IntegerLiteral, May({"TIMES"}),
      When(On({"INDEX", "INDEXED"}), <<AnyToken, May({"BY"}), OneName>>)>>

CommunicationClause ==
    First(<<
      Alt({<<{"SYMBOLIC"}, SymbolicNames>>}, <<Need({"SYMBOLIC"}), Take(SymbolicNames)>> \o IdentifierIs),
      Alt({<<{"MESSAGE"}, {"DATE", "TIME", "COUNT"}>>},
          <<Need({"MESSAGE"}), Take({"DATE", "TIME", "COUNT"})>> \o IdentifierIs),
      Alt(On({"SYMBOLIC", "MESSAGE"}), <<AnyToken, AnyToken>>),
      Alt(On({"TEXT"}), <<Take({"TEXT"}), May({"LENGTH"})>> \o IdentifierIs),
      Alt(On({"END-KEY"}), <<Take({"END-KEY"})>> \o IdentifierIs),
      KeyedName("END", "END-KEY"),
      Alt(On({"STATUS-KEY"}), <<Take({"STATUS-KEY"})>> \o IdentifierIs),
      Alt(On({"COUNT"}), <<Take({"COUNT"})>> \o IdentifierIs),
      KeyedName("STATUS", "STATUS-KEY"),
      Alt(On({"DESTINATION"}),
          <<Take({"DESTINATION"}),
            First(<<Alt(On({"COUNT"}), <<Take({"COUNT"})>> \o IdentifierIs),
                    Alt(On({"TABLE"}), DestinationTable),
                    Alt(Always, <<OneName>>)>>)>>),
      Alt(On({"ERROR-KEY"}), <<Take({"ERROR-KEY"})>> \o IdentifierIs),
      KeyedName("ERROR", "ERROR-KEY"),
      Alt(On(Identifiers), <<Mark("field"), Take(Identifiers)>>),
      Alt(Always, <<AnyToken>>)>>)

CommunicationDescription ==
    <<Take({"CD"}), OneName, May({"FOR"}),
      First(<<Alt(On({"INITIAL"}), <<Take({"INITIAL"}), Take({"INPUT"})>>),
              Alt(Always, <<Take({"INPUT", "OUTPUT", "I-O"})>>)>>),
      While(Always, On({"."}), <<CommunicationClause>>), Need({"."}), DataItems>>

-----------------------------------------------------------------------------
(* The DATA DIVISION: the sections in any order; what belongs to none of them
   is skipped. *)

AtRd == On({"RD"})
ReportItems ==
    While(Always, AtDivision \cup AtDataSection,
      <<First(<<
          Alt(AtRd, <<While(Always, AtDivision \cup AtDataSection \cup AtItem, <<AnyToken>>)>>),
          Alt(AtItem, <<DataItems>>),
          Alt(Always, <<AnyToken>>)>>)>>)

DataSections == {"WORKING-STORAGE", "LOCAL-STORAGE", "LINKAGE", "SCREEN"}
Header == <<Need({"SECTION"}), Need({"."})>>

DataDivision ==
    <<Need({"DATA"}), Need({"DIVISION"}), Need({"."}),
      While(Always, AtDivision,
        <<First(<<
            Alt({<<{"FILE"}, {"SECTION"}>>},
                <<Take({"FILE"})>> \o Header \o <<While(On({"FD", "SD"}), Never, FileDescription)>>),
            Alt(On(DataSections), <<Take(DataSections)>> \o Header \o <<DataItems>>),
            Alt(On({"COMMUNICATION"}),
                <<Take({"COMMUNICATION"})>> \o Header \o
                <<While(On({"CD"}), Never, CommunicationDescription)>>),
            Alt(On({"REPORT"}), <<Take({"REPORT"})>> \o Header \o <<ReportItems>>),
            Alt(Always, <<AnyToken>>)>>)>>)>>
====
