---------------------------- MODULE MCRecordFile ----------------------------
(* The kinds of file TLC runs through RecordFile. *)
EXTENDS RecordFile

Plain(organization, modes, texts) ==
  [organization |-> organization, access |-> "Sequential", keyed |-> FALSE,
   varying |-> FALSE, locking |-> FALSE, optional |-> FALSE,
   modes |-> modes, texts |-> texts]

Full == {<<1, 1>>, <<2, 2>>}
Lines == {<<1, 2>>, <<1, Space>>, <<Space, Space>>}

Dynamic ==
  [Plain(Relative, {"Output", "IoMode"}, Full) EXCEPT !.access = "Dynamic", !.keyed = TRUE]

(* In I-O mode a REWRITE is made for records of one length: it is left out *)
(* for records of varying length and for lines (README, 3.4).              *)
MCKinds ==
  {[Plain(Sequential, {"Input", "Output", "IoMode", "Extend"}, Full)
      EXCEPT !.locking = TRUE, !.optional = TRUE],
   [Plain(Sequential, {"Input", "Output", "Extend"}, {<<1>>, <<1, 2>>})
      EXCEPT !.varying = TRUE],
   Plain(LineSequential, {"Input", "Output", "Extend"}, Lines),
   Plain(Relative, {"Input", "Output", "IoMode"}, Full),
   [Plain(Relative, {"Output", "IoMode", "Extend"}, {<<1, 1>>}) EXCEPT !.keyed = TRUE],
   Dynamic}

ASSUME MCKindsKeepRecords == KindsKeepRecords

(* No call reads what the last one was answered. *)
MCView == <<kind, store, locked, mode, cursor>>
=============================================================================
