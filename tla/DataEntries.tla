---- MODULE DataEntries ----
(* Data description entries as a programmer writes them, one after another:
   records with entries of level 05 and 10 in any order, condition-names after
   the entry they belong to, RENAMES after a whole record, and 77 items.  What
   cobol-parser makes of them is compared with what the levels mean. *)
EXTENDS Parser, SequencesExt

(* build_data_hierarchy of cobol-parser data_div.rs: the entries of a section,
   flat and in order, become records by their level numbers.  An entry is its
   place in the section; a forest is the entries of each entry, in order, with
   those of 0 the records. *)

(* consume_data_level_number: what does not read as a number is 1. *)
LevelOf(token) ==
    CASE token = "02" -> 2 [] token = "05" -> 5 [] token = "10" -> 10
      [] token = "66" -> 66 [] token = "77" -> 77 [] token = "88" -> 88
      [] OTHER -> 1

Top(h) == h.stack[Len(h.stack)]
Under(h) == IF Len(h.stack) = 1 THEN 0 ELSE h.stack[Len(h.stack) - 1]
AttachTo(h, parent, i) == [h EXCEPT !.children[parent] = Append(@, i)]
LastRecord(h) == h.children[0][Len(h.children[0])]

(* The open entry is complete. *)
Pop(h) ==
    [AttachTo(h, Under(h), Top(h)) EXCEPT !.stack = SubSeq(@, 1, Len(@) - 1)]

RECURSIVE PopTo(_, _), PopAbove(_, _, _), PopFrom(_, _, _)
PopTo(h, n) == IF Len(h.stack) <= n THEN h ELSE PopTo(Pop(h), n)
(* Variant for a mutant: an entry of the same level stays open. *)
PopAbove(h, levels, level) ==
    IF h.stack # <<>> /\ levels[Top(h)] > level THEN PopAbove(Pop(h), levels, level) ELSE h

PopFrom(h, levels, level) ==
    IF h.stack # <<>> /\ levels[Top(h)] >= level THEN PopFrom(Pop(h), levels, level) ELSE h

(* To the open entry, or else to the last record, or nowhere. *)
Attach(h, i) ==
    IF h.stack # <<>> THEN AttachTo(h, Top(h), i)
    ELSE IF h.children[0] # <<>> THEN AttachTo(h, LastRecord(h), i)
    ELSE h

Place(h, levels, i) ==
    LET opened == PopFrom(h, levels, levels[i])
    IN  CASE levels[i] = 77 -> AttachTo(PopTo(h, 0), 0, i)
          [] levels[i] = 66 -> Attach(PopTo(h, 1), i)
          [] levels[i] = 88 -> Attach(h, i)
          [] OTHER -> [opened EXCEPT !.stack = Append(@, i)]

RECURSIVE PlaceFrom(_, _, _)
PlaceFrom(h, levels, i) ==
    IF i > Len(levels) THEN PopTo(h, 0) ELSE PlaceFrom(Place(h, levels, i), levels, i + 1)

Hierarchy(levels) ==
    PlaceFrom([stack |-> <<>>, children |-> [p \in 0..Len(levels) |-> <<>>]], levels, 1).children

-----------------------------------------------------------------------------

CONSTANTS EntryLevels,  \* the levels written
          MaxEntries,   \* entries in a section
          EntryName_    \* the name of every entry

VARIABLE entries        \* the levels of the entries written
dataVars == <<entries>>

(* The entry that the next condition-name belongs to. *)
Owner == entries[Max({i \in DOMAIN entries : entries[i] # "88"})]

MayFollow(level) ==
    /\ entries = <<>> => level \in {"01", "77"}
    /\ level = "88" => Owner # "66"
    /\ level \in {"05", "10"} => Owner \notin {"66", "77"}
    /\ level = "66" => Owner # "77"

DataInit == entries = <<>>

WriteEntry(level) ==
    /\ Len(entries) < MaxEntries
    /\ MayFollow(level)
    /\ entries' = Append(entries, level)

-----------------------------------------------------------------------------
(* The entry each entry belongs to, 0 for a record. *)
ParentOf(i) ==
    LET level(j) == LevelOf(entries[j])
        ordinary(j) == level(j) \notin {66, 88}
        before == CASE level(i) \in {1, 77} -> {}
                    [] level(i) = 88 -> {j \in 1..(i - 1) : level(j) # 88}
                    [] level(i) = 66 -> {j \in 1..(i - 1) : level(j) = 1}
                    [] OTHER -> {j \in 1..(i - 1) : ordinary(j) /\ level(j) < level(i)}
    IN  Max(before \cup {0})

DataText ==
    FlattenSeq([i \in DOMAIN entries |-> <<entries[i], EntryName_, ".">>]) \o <<"eof">>

UnderParents(children) ==
    \A p \in 0..Len(entries) :
        children[p] = SetToSortSeq({i \in DOMAIN entries : ParentOf(i) = p}, <)
ReadByLevel(t) ==
    /\ SelectSeq(t.out, LAMBDA x : x \in EntryLevels) = entries
    /\ ~t.err

(* Every entry is read, and each one comes, in order, under the entry its level
   number makes it part of: a condition-name under its variable, RENAMES under
   its record, others under the last entry with a lower level
   (parse_data_items and build_data_hierarchy). *)
EntriesByLevel ==
    /\ ReadByLevel(Parse(<<DataItems>>, DataText))
    /\ UnderParents(Hierarchy([i \in DOMAIN entries |-> LevelOf(entries[i])]))
====
