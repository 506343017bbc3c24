-------------------------- MODULE MCFileStatements --------------------------
(* Instances of FileStatements for TLC. *)
EXTENDS FileStatements

Use1(modes, files) == [modes |-> modes, files |-> files]
Some(statused, uses, numbered, varying, ops) ==
  [statused |-> statused, uses |-> uses, numbered |-> numbered, varying |-> varying, ops |-> ops]

(* Programs with and without FILE STATUS, with declaratives for a mode, for *)
(* a file, and for both.                                                    *)
MCPrograms ==
  {Some({"a"}, <<Use1({"Input", "IoMode"}, {})>>, {}, {}, {"open", "close", "read"}),
   Some({"a"}, <<Use1({}, {"a"})>>, {"a"}, {}, {"open", "closeUnit", "read"}),
   Some({"a"}, <<Use1({"Output"}, {}), Use1({}, {"a"})>>, {}, {"a"}, {"open", "close", "write"}),
   Some({"a"}, <<Use1({"IoMode"}, {})>>, {}, {}, {"open", "rewrite", "start"}),
   Some({"a"}, <<>>, {}, {"a"}, {"open", "write", "start", "close"}),
   Some({}, <<Use1({"Output", "Extend"}, {})>>, {}, {}, {"open", "close", "delete"}),
   Some({}, <<>>, {"a"}, {}, {"open", "read", "write", "closeUnit", "start"})}
=============================================================================
