--------------------------- MODULE MCIndexedFile ---------------------------
(* The probes of the instances for TLC: a full key and a generic key. *)
EXTENDS IndexedFile

MCFewProbes == {<<2, 2>>, <<1, 2>>}
MCGenericProbe == {<<1, 2>>}
=============================================================================
