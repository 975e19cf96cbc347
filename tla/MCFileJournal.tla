---------------------------- MODULE MCFileJournal ----------------------------
(* A store with a few mutations, one of which raises the store format.       *)
EXTENDS FileJournal

CONSTANTS o1, o2, o3

MCNeed == [o \in Ops |-> IF o = o2 THEN 2 ELSE 1]
=============================================================================
