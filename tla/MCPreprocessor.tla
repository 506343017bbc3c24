--------------------------- MODULE MCPreprocessor ---------------------------
EXTENDS Preprocessor

LOCAL SX == INSTANCE SequencesExt

MCSearchPaths == <<"here", "copy">>

(* Pieces of a program's text, each ending in white space. *)
Name(n) == <<n>>
CopyA == <<"COPY", " ", "A", ".", "NL">>
CopyOf == <<"COPY", " ", "B", " ", "OF", " ", "L", " ", "REPLACING", "NL",
            "==", ":", "T", ":", "==", " ", "BY", " ", "==", "X", "==", ".", " ">>
CopyWords == <<"COPY", " ", "C", " ", "REPLACING", " ", "P", " ", "BY", " ", "R", " ", "OF", " ", "S", " ",
               "Q", "NL", "BY", " ", "P", " ", "'", "T", "'", " ", "BY", " ", "1", "2", ".", " ">>
CopyMissing == <<"COPY", " ", "Z", ".", " ">>
ReplaceTwo == <<"REPLACE", " ", "==", "P", " ", "Q", "==", " ", "BY", "NL*", "COPY", " ", "A", "NL", "==", "Q", "==", " ",
                "==", "S", "==", " ", "BY", " ", "==", "==", ".", " ">>
ReplaceWords == <<"REPLACE", " ", "==", "S", "==", " ", "BY", " ", "R", " ", "OF", " ", "P", " ",
                  "==", "T", "==", " ", "BY", " ", "==", "'", "T", "'", "==", ".", " ">>
ReplaceOff == <<"REPLACE", " ", "OFF", ".", " ">>
Plain == <<"P", "NL", "Q", " ", "R", "Q", " ", "(", "S", ")", ".", " ">>
PlainWords == <<"P", " ", " ", "Q", ".", " ">>
Literal == <<"'", "COPY", " ", "Z", ".", "'", " ", "NL">>
Comment == <<"NL*", "COPY", " ", "A", ".", "NL", "*>", " ", "REPLACE", " ", "OFF", ".", "NL", "Q", "NL">>
MCPieces == {CopyA, CopyOf, CopyWords, CopyMissing, ReplaceTwo, ReplaceWords, ReplaceOff, Plain, PlainWords, Literal, Comment}

Here(n) == <<"here", <<>>, Name(n)>>
There(n) == <<"copy", <<>>, Name(n)>>
Of(n) == <<"copy", Name("L"), Name(n)>>
Leaf == <<"P", " ", "Q", "NL", "S", " ", ".", "NL">>
Tagged == <<":", "T", ":", "-", "P", " ", "T", "NL">>
(* Libraries: copybooks side by side, one within another, shadowing one      *)
(* another, in circles, with a REPLACE of their own.                         *)
Empty == [f \in {} |-> <<>>]
MCLibraries ==
  {[f \in {Here("A"), There("A"), Of("B"), There("C")} |->
      IF f = Here("A") THEN Leaf ELSE IF f = There("A") THEN PlainWords
      ELSE IF f = Of("B") THEN Tagged \o CopyA \o Tagged ELSE <<"P", " ">> \o CopyA \o <<"NL", "Q", "-", "P", " ", "'", "T", "'", "NL">>],
   [f \in {Here("A"), There("B"), Here("C")} |->
      IF f = Here("A") THEN <<"S", " ">> \o CopyOf \o <<"P", " ", "Q", "NL">>
      ELSE IF f = There("B") THEN Tagged \o CopyA \o CopyWords ELSE <<"Q", " ", "COPY", " ", "C", ".", " ", "P", " ">>],
   [f \in {Here("A"), Of("B"), There("B"), Here("C")} |->
      IF f = Here("A") THEN ReplaceTwo \o Leaf ELSE IF f = Here("C") THEN CopyA \o ReplaceOff ELSE Tagged]}

Texts(n) == UNION {[1..k -> MCPieces] : k \in 1..n}
MCSources ==
  {[text |-> SX!FlattenSeq(pieces), files |-> files, unreadable |-> unreadable] :
     pieces \in Texts(3), files \in MCLibraries, unreadable \in {{}}} \cup
  {[text |-> SX!FlattenSeq(pieces), files |-> files, unreadable |-> {Here("A")}] :
     pieces \in Texts(1), files \in MCLibraries}

(* Texts without three quotes in a row, cut at the margin the way the fixed  *)
(* format lets an author cut them, and texts without literals left too long. *)
Chars == {"A", " ", "'"}
Line(indicator, content) == [indicator |-> indicator, content |-> content]
Spelling == UNION {[1..n -> Chars] : n \in 1..8}
Fit(t) ==
  /\ t[1] # " " /\ OpenQuote(t) = "none"
  /\ \A i \in 1..(Len(t) - 2) : ~(t[i] = "'" /\ t[i + 1] = "'" /\ t[i + 2] = "'")
Blanks(n) == [i \in 1..n |-> " "]
Rejoined(t, indent) ==
  LET quote == QuoteCharAtSplit(t, ContentWidth)
      mark == IF quote = "none" THEN <<>> ELSE <<quote>>
  IN  [lines |-> <<Line(" ", Prefix(t, ContentWidth)), Line("D", <<"A">>), Line("U", <<>>),
                   Line("-", Blanks(indent) \o mark \o From(t, ContentWidth)), Line("*", <<"'">>)>>,
       debugging |-> FALSE,
       text |-> <<Line(" ", t), Line("*", <<"'">>)>>]
CutInside(t) ==
  \/ QuoteCharAtSplit(t, ContentWidth) # "none"
  \/ /\ t[ContentWidth] \notin {" ", "'"} /\ t[ContentWidth + 1] \notin {" ", "'"}
Unquoted(t) == \A i \in DOMAIN t : t[i] # "'" /\ (i > 1 => ~(t[i] = " " /\ t[i - 1] = " "))
MCLineSources ==
  {Rejoined(t, indent) : t \in {t \in Spelling : Fit(t) /\ Len(t) > ContentWidth /\ CutInside(t)}, indent \in {2}} \cup
  {[lines |-> <<Line("D", t)>>, debugging |-> TRUE, text |-> <<Line(" ", t)>>] :
     t \in {t \in Spelling : t[1] # " " /\ Unquoted(t) /\ t[Len(t)] # " "}}
=============================================================================
