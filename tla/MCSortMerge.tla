---------------------------- MODULE MCSortMerge -----------------------------
EXTENDS SortMerge

MCFiles == {"in1", "in2", "out1", "out2"}

(* The first field is the key, the second tells equal ones apart.          *)
MCRecords == {-256, 1} \X {65, 66}

Key(usage, digits, ascending) ==
  <<[field |-> 1, usage |-> usage, digits |-> digits, ascending |-> ascending]>>
Tag == <<[field |-> 2, usage |-> "X", digits |-> 1, ascending |-> FALSE]>>

Statement(verb, keys, using, giving) ==
  [verb |-> verb, keys |-> keys, using |-> using, giving |-> giving]

MCStatements ==
  {Statement("Sort", Key("Comp", 4, TRUE), <<"in1", "in2">>, <<"out1", "out2">>),
   Statement("Sort", Key("LeadingSeparate", 3, TRUE) \o Tag, <<"in1">>, <<"in1">>),
   Statement("Sort", Key("TrailingSeparate", 3, FALSE), <<"in1", "in2">>, <<>>),
   Statement("Sort", Key("TrailingSeparate", 3, TRUE), <<>>, <<>>),
   Statement("Sort", Key("Comp", 4, FALSE), <<>>, <<"out1", "out2">>),
   Statement("Merge", Key("Comp", 8, TRUE), <<"in1", "in2">>, <<"out1", "out2">>),
   Statement("Merge", Key("LeadingSeparate", 3, FALSE), <<"in1", "in2">>, <<>>)}

(* Up to two records in the one, one in the other.                         *)
Few(n) == UNION {[1..m -> MCRecords] : m \in 0..n}
MCDisks == {[f \in MCFiles |-> CASE f = "in1" -> one [] f = "in2" -> two [] OTHER -> Absent] :
              one \in Few(2), two \in Few(1) \cup {Absent}}
MCLocked == {{}, {"out1"}}

(* What the proof about GIVING asks of the statements holds of these.      *)
ASSUME MCAssumption == FilesApart
=============================================================================
