---- MODULE ParserCursor ----
(* The parser's view of the token stream (cobol-lexer token.rs, cobol-parser
   parser.rs): what kinds of token there are, the cursor over them, and the
   tests of the tokens ahead that the statement parsers share.  A token is
   the spelling of its kind: a keyword is itself, and one spelling stands for
   all the synonyms of a keyword.  Names, numbers and literals are members of
   small sets.  Diagnostics are a flag, err: the texts and the warnings are
   left out. *)
EXTENDS Naturals, Sequences

CONSTANTS Names,      \* data, file and procedure names
          Integers_,  \* integer literals
          Decimals,   \* decimal literals
          Strings,    \* string literals
          Levels,     \* level numbers
          Pictures    \* picture strings

(* Identifiers the parsers look at by their text: not keywords of the lexer. *)
Words ==
    {"NEXT", "SENTENCE", "NO", "REWIND", "UPON", "TEST", "IS", "ARE", "PROCEED",
     "PARAGRAPH", "REEL", "UNIT", "REMOVAL", "REVERSED", "YYYYMMDD", "DAY",
     "DAY-OF-WEEK", "CONSOLE", "SEGMENT", "COLLATING", "SEQUENCE", "ORDER",
     "ALPHANUMERIC", "ALPHANUMERIC-EDITED", "NUMERIC-EDITED", "NATIONAL-EDITED",
     "ENCODING", "XML-DECLARATION", "ATTRIBUTES", "NAMESPACE",
     "NAMESPACE-PREFIX", "NAME", "SUPPRESS", "PROCESSING", "END-XML",
     "END-JSON", "INITIALIZED", "USE", "DECLARATIVES", "STANDARD", "DEBUGGING",
     "ANY", "RIGHT", "CD", "STATUS", "NAMED-BELOW", "OPTIONAL", "RD", "AUTHOR",
     "INSTALLATION", "DATE-WRITTEN", "DATE-COMPILED", "SECURITY", "COMMON",
     "RECURSIVE", "AREA", "AREAS", "SAME", "SORT-MERGE", "MULTIPLE", "RESERVE",
     "PADDING", "CHARACTER", "ALPHABET", "CURRENCY", "CURSOR", "CRT", "COMMA",
     "DECIMAL-POINT", "NUMBER", "TYPE", "DETAIL", "LIMIT", "LAST"}

(* from_keyword: words the parser takes as keywords of their own. *)
DivisionKeywords ==
    {"IDENTIFICATION", "ENVIRONMENT", "DATA", "PROCEDURE", "DIVISION", "SECTION",
     "PROGRAM-ID", "CONFIGURATION", "INPUT-OUTPUT", "FILE-CONTROL",
     "I-O-CONTROL", "SELECT", "ASSIGN", "ORGANIZATION", "SEQUENTIAL", "INDEXED",
     "RELATIVE", "ACCESS", "DYNAMIC", "RANDOM", "RECORD-KEY", "ALTERNATE",
     "FILE-STATUS", "FILE", "WORKING-STORAGE", "LOCAL-STORAGE", "LINKAGE",
     "COMMUNICATION", "REPORT", "SCREEN", "FD", "SD", "PIC", "VALUE", "VALUES",
     "REDEFINES", "RENAMES", "OCCURS", "TIMES", "DEPENDING", "ASCENDING",
     "DESCENDING", "KEY", "USAGE", "COMP", "COMP-3", "BINARY", "INDEX",
     "POINTER", "SIGN", "LEADING", "TRAILING", "SEPARATE", "JUSTIFIED", "BLANK",
     "WHEN", "ZERO", "SPACE", "HIGH-VALUE", "LOW-VALUE", "QUOTE", "ALL",
     "FILLER", "EXTERNAL", "GLOBAL", "NATIONAL", "DISPLAY", "SOURCE-COMPUTER",
     "OBJECT-COMPUTER", "SPECIAL-NAMES", "REPOSITORY", "CLASS", "COMPUTATIONAL",
     "COMP-1", "COMP-2", "COMP-4", "COMP-5", "PACKED-DECIMAL",
     "FUNCTION-POINTER", "FLOAT-SHORT", "FLOAT-LONG", "FLOAT-EXTENDED",
     "SUB-QUEUE-1", "SUB-QUEUE-2", "SUB-QUEUE-3"}

StatementKeywords ==
    {"MOVE", "TO", "ADD", "SUBTRACT", "MULTIPLY", "DIVIDE", "COMPUTE", "GIVING",
     "REMAINDER", "ROUNDED", "CORRESPONDING", "IF", "THEN", "ELSE", "END-IF",
     "EVALUATE", "ALSO", "TRUE", "FALSE", "OTHER", "END-EVALUATE", "PERFORM",
     "THRU", "VARYING", "UNTIL", "AFTER", "END-PERFORM", "GO", "GO-TO", "CALL",
     "USING", "BY", "REFERENCE", "CONTENT", "RETURNING", "END-CALL", "CANCEL",
     "ALTER", "STOP", "RUN", "ACCEPT", "FROM", "END-ACCEPT", "END-DISPLAY",
     "OPEN", "CLOSE", "READ", "WRITE", "REWRITE", "DELETE", "START", "RETURN",
     "END-READ", "END-WRITE", "END-REWRITE", "END-DELETE", "END-START",
     "END-RETURN", "INPUT", "OUTPUT", "ENABLE", "DISABLE", "SEND", "RECEIVE",
     "PURGE", "I-O", "EXTEND", "INTO", "AT", "END", "INVALID", "SIZE", "ERROR",
     "FOR", "FIRST", "EXCEPTION", "DUPLICATES", "EOP", "END-COMPUTE", "END-ADD",
     "END-SUBTRACT", "END-MULTIPLY", "END-DIVIDE", "END-SEARCH", "END-SORT",
     "END-MERGE", "WITH", "LOCK", "STRING", "UNSTRING", "DELIMITED",
     "DELIMITER", "COUNT", "OVERFLOW", "END-STRING", "END-UNSTRING", "INSPECT",
     "TALLYING", "REPLACING", "CONVERTING", "BEFORE", "INITIAL", "MERGE",
     "SEARCH", "SORT", "ON", "RELEASE", "SET", "UP", "DOWN", "CONTINUE", "EXIT",
     "PROGRAM", "GOBACK", "INITIALIZE", "INITIATE", "TERMINATE", "GENERATE",
     "RAISE", "RESUME", "ALLOCATE", "FREE", "VALIDATE", "INVOKE", "NULL"}

PhraseKeywords ==
    {"FUNCTION", "NOT", "AND", "OR", "GREATER", "LESS", "EQUAL", "THAN",
     "NUMERIC", "ALPHABETIC", "ALPHABETIC-LOWER", "ALPHABETIC-UPPER",
     "POSITIVE", "NEGATIVE", "LINE", "LINES", "PAGE", "ADVANCING", "RECORDING",
     "MODE", "BLOCK", "CONTAINS", "RECORDS", "RECORD", "CHARACTERS", "LABEL",
     "OMITTED", "LINAGE", "FOOTING", "TOP", "BOTTOM", "OFF", "IN", "OF",
     "MESSAGE", "TERMINAL", "SYMBOLIC", "QUEUE", "DESTINATION", "TABLE", "TEXT",
     "LENGTH", "DATE", "TIME", "EMI", "EGI", "ESI", "COLUMN", "HIGHLIGHT",
     "REVERSE-VIDEO", "SOURCE", "JSON", "XML", "PARSE", "END-KEY", "STATUS-KEY",
     "ERROR-KEY"}

Keywords == DivisionKeywords \cup StatementKeywords \cup PhraseKeywords

Identifiers == Names \cup Words
Numbers == Integers_ \cup Decimals

(* is_keyword together with the kinds that are not keywords. *)
NameTokens == Identifiers \cup Keywords
Punctuation == {".", ",", ";", "(", ")", ":", "+", "-", "*", "/", "**",
                "=", ">", "<", ">=", "<=", "<>"}

(* try_parse_literal: the kinds a literal begins with, the sign apart. *)
Figuratives == {"ZERO", "SPACE", "HIGH-VALUE", "LOW-VALUE", "QUOTE", "NULL"}
Literals == Numbers \cup Strings \cup Figuratives
Signs == {"+", "-"}

-----------------------------------------------------------------------------
(* The parser: tokens, position, whether the last parse succeeded, whether an
   error was reported, the parse so far (a flat sequence of marks), and
   control of the combinators below. *)

Start(ts) == [ts |-> ts, at |-> 1, ok |-> TRUE, err |-> FALSE, out |-> <<>>,
              val |-> <<>>, left |-> FALSE, retry |-> FALSE, stuck |-> FALSE]

(* peek: past the end there is the last token, Eof. *)
Peek(s, n) == IF s.at + n <= Len(s.ts) THEN s.ts[s.at + n] ELSE s.ts[Len(s.ts)]
Current(s) == Peek(s, 0)
AtEof(s) == Current(s) = "eof"

(* advance: one token, then the semicolons; never past the last token. *)
SkipSemicolons(s) ==
    LET next == {i \in s.at..Len(s.ts) : i = Len(s.ts) \/ s.ts[i] # ";"}
    IN  [s EXCEPT !.at = CHOOSE i \in next : \A j \in next : i <= j]

Advance(s) ==
    SkipSemicolons([s EXCEPT !.at = IF @ < Len(s.ts) THEN @ + 1 ELSE @])

Put(s, x) == [s EXCEPT !.out = Append(@, x)]
Err(s) == [s EXCEPT !.ok = FALSE, !.err = TRUE]
Expect(s, k) == IF Current(s) \in k THEN Advance(s) ELSE Err(s)
Eat(s, k) == IF Current(s) \in k THEN Advance(s) ELSE s

(* Tests of the tokens ahead: a test is a set of sequences of token sets, and
   holds when the tokens ahead match one of them. *)
Holds(test, s) == \E p \in test : \A i \in DOMAIN p : Peek(s, i - 1) \in p[i]
On(k) == {<<k>>}
Always == {<<>>}
Never == {}

StatementStarts ==
    {"MOVE", "COMPUTE", "ADD", "SUBTRACT", "MULTIPLY", "DIVIDE", "DISPLAY",
     "ACCEPT", "ENABLE", "DISABLE", "SEND", "RECEIVE", "PURGE", "IF",
     "EVALUATE", "PERFORM", "GO", "GO-TO", "CALL", "STOP", "GOBACK", "CONTINUE",
     "EXIT", "OPEN", "CLOSE", "READ", "WRITE", "REWRITE", "DELETE", "START",
     "RETURN", "STRING", "UNSTRING", "INSPECT", "INITIALIZE", "SET", "SORT",
     "MERGE", "RELEASE", "CANCEL", "ALTER", "RAISE", "RESUME", "ALLOCATE",
     "FREE", "INVOKE"}

EndKeywords ==
    {"END-IF", "END-EVALUATE", "END-PERFORM", "END-CALL", "END-READ",
     "END-WRITE", "END-REWRITE", "END-DELETE", "END-START", "END-RETURN",
     "END-STRING", "END-UNSTRING", "END-ACCEPT", "END-DISPLAY", "END-COMPUTE",
     "END-ADD", "END-SUBTRACT", "END-MULTIPLY", "END-DIVIDE", "END-SEARCH",
     "END-SORT", "END-MERGE", "ELSE"}

AtStart == On(StatementStarts)

Terminator ==
    On({".", "eof", "WHEN"} \cup EndKeywords)
      \cup {<<{"NOT"}, {"ON", "AT", "INVALID", "END"}>>}

AtEndProgram == {<<{"END"}, {"PROGRAM"}>>}
AtIdentification == {<<{"IDENTIFICATION"}, {"DIVISION"}>>}
AtDivision == {<<{"IDENTIFICATION", "ENVIRONMENT", "DATA", "PROCEDURE"}, {"DIVISION"}>>}
AtDataSection ==
    {<<{"WORKING-STORAGE", "LOCAL-STORAGE", "LINKAGE", "SCREEN",
        "COMMUNICATION", "REPORT", "FILE"}, {"SECTION"}>>}

(* Variant for a mutant: the token in error is skipped, a period too. *)
RecoverPastNext(s) ==
    LET ends == {i \in (s.at + 1)..Len(s.ts) : s.ts[i] \in {".", "eof"}} \cup {Len(s.ts)}
        i == CHOOSE e \in ends : \A f \in ends : e <= f
    IN  Eat([s EXCEPT !.at = i, !.ok = TRUE], {"."})

(* recover_to_period: to just after the period, or to the end. *)
RecoverToPeriod(s) ==
    LET ends == {i \in s.at..Len(s.ts) : s.ts[i] \in {".", "eof"}}
        i == CHOOSE e \in ends : \A f \in ends : e <= f
    IN  Eat([s EXCEPT !.at = i, !.ok = TRUE], {"."})

-----------------------------------------------------------------------------
(* How the parsing functions of cobol-parser are written down: a function is a
   sequence of items, each one step of its body.  An item is a tuple whose first
   member names the kind; Parser says what each kind does. *)

Need(k) == <<"need", k>>            \* expect one of k
May(k) == <<"may", k>>              \* eat one of k
Flag(k) == <<"flag", k>>            \* eat one of k and record which
Take(k) == <<"take", k>>            \* expect one of k and record which
Mark(x) == <<"mark", x>>            \* record x
Ref == <<"ref">>                    \* parse_qualified_name
Expression == <<"expr">>            \* parse_expr
Literal == <<"literal">>            \* try_parse_literal, an error without one
Conditional == <<"cond">>           \* parse_condition
Comparison == <<"compare">>         \* parse_comparison_op
Inner == <<"statement">>            \* parse_statement
NextSentenceOrLeave == <<"sentence">> \* parse_sentence; without one, leave the loop
AnySentence == <<"any-sentence">>   \* parse_sentence; without one, go on
AnyToken == <<"next">>                  \* advance, whatever the token
Break == <<"break">>                \* leave the loop
Fail == <<"fail">>                  \* report an error and give up
Call(rule) == <<"call", rule>>      \* a function that calls itself

(* The first alternative whose test holds, or none. *)
Alt(test, items) == [test |-> test, items |-> items]
First(alts) == <<"first", alts>>
When(test, items) == First(<<Alt(test, items)>>)

(* While go and not stop, never at the end of the tokens. *)
While(go, stop, items) == <<"while", go, stop, items>>
Skip(k) == While(On(k), Never, <<May(k)>>)
(* Once, and again until the test holds. *)
Repeat(items, until) == <<"repeat", items, until>>

(* Statements up to one of the tokens, to stop, or to the end of the tokens. *)
Body(stop) == <<Mark("{"), While(Always, stop, <<Inner>>), Mark("}")>>

(* Try items; when they give up, start again with the others. *)
Attempt(items, others) == <<"attempt", items, others>>
GiveUp == <<"give-up">>
(* Try items; when they fail, drop them and go on after the next period. *)
OrRecover(items) == <<"or-recover", items>>
(* The result of the items is dropped, an error they report is not. *)
Ignoring(items) == <<"ignoring", items>>

(* A phrase: its words, each of them optional, and the statements in it. *)
Phrase(test, words, name, stop) ==
    When(test, [i \in DOMAIN words |-> May(words[i])] \o <<Mark(name)>> \o Body(stop))

ProcedureNames == NameTokens \cup Integers_ \cup Levels
AllTokens == ProcedureNames \cup Numbers \cup Strings \cup Pictures \cup Punctuation
OneName == Take(NameTokens)
ProcedureName == Take(ProcedureNames)
====
