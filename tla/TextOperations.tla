-------------------------- MODULE TextOperations ---------------------------
(***************************************************************************)
(* What STRING, UNSTRING, INSPECT and the alphanumeric MOVE do to text:    *)
(* the entry points of string_ops.rs, and the scans that the code          *)
(* generator writes out in C when an INSPECT has several items or a BEFORE *)
(* or AFTER phrase.  A text is a sequence of characters; positions count   *)
(* from 1, as the POINTER of the program does.                             *)
(***************************************************************************)
EXTENDS Integers, Sequences, FiniteSets, SequencesExt, FiniteSetsExt

Space == " "

Rest(text, i) == SubSeq(text, i, Len(text))

(* The places of a word in the positions first..last of a text; an empty   *)
(* word is nowhere.                                                        *)
Places(text, word, first, last) ==
  {i \in first..(last - Len(word) + 1) :
     word # <<>> /\ SubSeq(text, i, i + Len(word) - 1) = word}

----------------------------------------------------------------------------
(* MOVE: the text at the left of the field, spaces in the rest.            *)
MoveString(text, width) == [i \in 1..width |-> IF i <= Len(text) THEN text[i] ELSE Space]

(* What a field has after a shorter text was put over its first characters.*)
Over(field, text) == [i \in 1..Len(field) |-> IF i <= Len(text) THEN text[i] ELSE field[i]]

----------------------------------------------------------------------------
(* STRING: the operands up to their delimiters, one after the other, from  *)
(* the pointer on, as far as the receiving field goes.                     *)
FindDelimiter(text, word) == Min(Places(text, word, 1, Len(text)) \cup {Len(text) + 1}) - 1

Effective(operand) == SubSeq(operand.text, 1, FindDelimiter(operand.text, operand.delimiter))

(* Variant for a mutant: on overflow the pointer stays at the last          *)
(* character written.                                                      *)
StringConcatShort(operands, field, pointer) ==
  LET joined == FlattenSeq([k \in 1..Len(operands) |-> Effective(operands[k])])
      before == Max({0, pointer - 1})
      put == Min({Len(joined), Max({0, Len(field) - before})})
  IN [field |-> [i \in 1..Len(field) |->
                   IF i > before /\ i <= before + put THEN joined[i - before] ELSE field[i]],
      pointer |-> IF put < Len(joined) THEN before + put ELSE before + put + 1,
      overflow |-> put < Len(joined)]

StringConcat(operands, field, pointer) ==
  LET joined == FlattenSeq([k \in 1..Len(operands) |-> Effective(operands[k])])
      before == Max({0, pointer - 1})
      put == Min({Len(joined), Max({0, Len(field) - before})})
  IN [field |-> [i \in 1..Len(field) |->
                   IF i > before /\ i <= before + put THEN joined[i - before] ELSE field[i]],
      pointer |-> before + put + 1,
      overflow |-> put < Len(joined)]

----------------------------------------------------------------------------
(* Variant for a mutant: the first delimiter written that is found at all. *)
FindUnstringDelimiterWritten(text, delimiters) ==
  LET found == {k \in 1..Len(delimiters) : Places(text, delimiters[k], 1, Len(text)) # {}}
      at(k) == FindDelimiter(text, delimiters[k])
  IN IF found = {} THEN [at |-> Len(text), word |-> <<>>]
     ELSE [at |-> at(Min(found)), word |-> delimiters[Min(found)]]

(* UNSTRING: the delimiter found first; of two at the same place, the one  *)
(* written first.                                                          *)
FindUnstringDelimiter(text, delimiters) ==
  LET found == {k \in 1..Len(delimiters) : Places(text, delimiters[k], 1, Len(text)) # {}}
      at(k) == FindDelimiter(text, delimiters[k])
      earliest == {k \in found : \A j \in found : at(k) <= at(j)}
  IN IF found = {} THEN [at |-> Len(text), word |-> <<>>]
     ELSE [at |-> at(Min(earliest)), word |-> delimiters[Min(earliest)]]

(* The place behind the repetitions of a delimiter, for ALL.               *)
PastRepeats(text, word, from) ==
  LET past[i \in from..(Len(text) + 1)] ==
        IF i \in Places(text, word, i, Len(text)) THEN past[i + Len(word)] ELSE i
  IN past[from]

(* One receiving field takes the characters before the next delimiter, or, *)
(* without DELIMITED BY, as many as it holds.                              *)
UnstringInto(text, delimiters, all, done, target) ==
  IF done.next > Len(text) THEN done
  ELSE LET remaining == Rest(text, done.next)
           match == FindUnstringDelimiter(remaining, delimiters)
           size == IF delimiters = <<>> THEN Min({target, Len(remaining)}) ELSE match.at
           field == SubSeq(remaining, 1, size)
           behind == done.next + size + Len(match.word)
       IN [next |-> IF all THEN PastRepeats(text, match.word, behind) ELSE behind,
           given |-> Append(done.given,
                            [field |-> MoveString(field, target),
                             delimiter |-> match.word, count |-> size]),
           overflow |-> done.overflow \/ size > target]

Unstring(text, delimiters, all, targets, pointer) ==
  LET start == Max({1, pointer})
      done == FoldLeft(LAMBDA d, t : UnstringInto(text, delimiters, all, d, t),
                       [next |-> start, given |-> <<>>, overflow |-> FALSE], targets)
  IN IF start > Len(text) THEN [pointer |-> pointer, given |-> <<>>, overflow |-> TRUE]
     ELSE [pointer |-> done.next, given |-> done.given,
           overflow |-> done.overflow \/ done.next <= Len(text)]

----------------------------------------------------------------------------
(* INSPECT: an item is what to look for, the phrase it stands under, and   *)
(* its BEFORE and AFTER phrases.  The part of the text an item is about    *)
(* begins behind its AFTER marker (it is empty when there is none) and     *)
(* ends before the BEFORE marker found in it.                              *)
(* Variant for a mutant: BEFORE without its marker leaves nothing.         *)
NarrowAlways(text, part, mark) ==
  LET at == Places(text, mark.word, part.first, part.last)
  IN IF at = {} THEN [part EXCEPT !.first = part.last + 1]
     ELSE IF mark.before THEN [part EXCEPT !.last = Min(at) - 1]
     ELSE [part EXCEPT !.first = Min(at) + Len(mark.word)]

Narrow(text, part, mark) ==
  LET at == Places(text, mark.word, part.first, part.last)
  IN IF mark.before THEN IF at = {} THEN part ELSE [part EXCEPT !.last = Min(at) - 1]
     ELSE [part EXCEPT !.first = IF at = {} THEN part.last + 1 ELSE Min(at) + Len(mark.word)]

Narrowed(text, part, marks, before) ==
  FoldLeft(LAMBDA p, m : IF m.before = before THEN Narrow(text, p, m) ELSE p, part, marks)

Part(text, marks) ==
  Narrowed(text, Narrowed(text, [first |-> 1, last |-> Len(text)], marks, FALSE), marks, TRUE)

InPart(text, part, new) == SubSeq(text, 1, part.first - 1) \o new \o Rest(text, part.last + 1)

(* cobol_inspect_tallying: one item, on its part of the text.              *)
InspectTallying(text, item) ==
  LET part == Part(text, item.marks)
      step == Len(item.word)
      here(i) == i + step - 1 <= part.last /\ SubSeq(text, i, i + step - 1) = item.word
      count[i \in part.first..(part.last + 1)] ==
        IF here(i) THEN 1 + count[i + step]
        ELSE IF item.phrase = "leading" \/ i + step - 1 > part.last THEN 0
        ELSE count[i + 1]
  IN IF item.phrase = "characters" THEN part.last - part.first + 1
     ELSE IF step = 0 \/ part.first > part.last THEN 0
     ELSE count[part.first]

(* cobol_inspect_replacing: one item, on its part of the text.             *)
InspectReplacing(text, item) ==
  LET part == Part(text, item.marks)
      field == SubSeq(text, part.first, part.last)
      step == Len(item.word)
      here(i) == i + step - 1 <= Len(field) /\ SubSeq(field, i, i + step - 1) = item.word
      new[i \in 1..(Len(field) + 1)] ==
        IF here(i)
        THEN Over(item.word, item.by)
               \o (IF item.phrase = "first" THEN Rest(field, i + step) ELSE new[i + step])
        ELSE IF item.phrase = "leading" \/ i + step - 1 > Len(field) THEN Rest(field, i)
        ELSE <<field[i]>> \o new[i + 1]
  IN IF item.phrase = "characters"
     THEN IF item.by = <<>> THEN text
          ELSE InPart(text, part, [i \in 1..Len(field) |-> item.by[1]])
     ELSE IF step = 0 THEN text
     ELSE InPart(text, part, new[1])

(* The scan written out for several items: at each place the items are     *)
(* tried in the order they are written, the first that matches takes its   *)
(* characters, and a LEADING item tried without success is out.            *)
SeriesStep(text, items, parts, scan, p) ==
  LET tryable == {k \in 1..Len(items) : parts[k].first <= p /\ p <= parts[k].last}
      here(k) == p \in Places(text, items[k].word, p, parts[k].last)
      matching == {k \in tryable :
        CASE items[k].phrase = "characters" -> TRUE
          [] items[k].phrase = "all" -> here(k)
          [] items[k].phrase = "leading" -> k \notin scan.out /\ here(k)
          [] items[k].phrase = "first" -> here(k) /\ \A m \in scan.matches : m[2] # k
          [] OTHER -> FALSE}
      taker == Min(matching \cup {Len(items) + 1})
  IN IF p < scan.next THEN scan
     ELSE [matches |-> scan.matches \cup {<<p, k>> : k \in matching \cap {taker}},
           out |-> scan.out \cup {k \in tryable : k < taker},
           next |-> IF matching = {} \/ items[taker].phrase = "characters" THEN p + 1
                    ELSE p + Len(items[taker].word)]

(* The places and items that match, as <<place, item>>.                    *)
Series(text, items) ==
  LET parts == [k \in 1..Len(items) |-> Part(text, items[k].marks)]
  IN FoldLeft(LAMBDA scan, p : SeriesStep(text, items, parts, scan, p),
              [matches |-> {}, out |-> {}, next |-> 1], [p \in 1..Len(text) |-> p]).matches

TallyingSeries(text, items, counter) ==
  Cardinality({m \in Series(text, items) : items[m[2]].counter = counter})

Replaced(text, items, matches) ==
  LET taken(k) == IF items[k].phrase = "characters" THEN 1 ELSE Len(items[k].word)
      at(i) == {m \in matches : m[1] <= i /\ i < m[1] + taken(m[2])}
      new(i, m) == IF i - m[1] < Len(items[m[2]].by) THEN items[m[2]].by[i - m[1] + 1] ELSE text[i]
  IN [i \in 1..Len(text) |-> IF at(i) = {} THEN text[i] ELSE new(i, CHOOSE m \in at(i) : TRUE)]

ReplacingSeries(text, items) == Replaced(text, items, Series(text, items))

(* CONVERTING: a table from characters to characters; a character written  *)
(* twice is converted as it is written last.                               *)
InspectConverting(text, from, to, marks) ==
  LET part == Part(text, marks)
      pairs == 1..Min({Len(from), Len(to)})
      converted(c) == LET ks == {k \in pairs : from[k] = c}
                      IN IF ks = {} THEN c ELSE to[Max(ks)]
  IN [i \in 1..Len(text) |->
        IF part.first <= i /\ i <= part.last THEN converted(text[i]) ELSE text[i]]
=============================================================================
