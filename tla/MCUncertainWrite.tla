-------------------------- MODULE MCUncertainWrite --------------------------
(* Instances of UncertainWrite: an update a -> b and a delete of b, the      *)
(* update alone or both under one mistakenly reused key.                     *)
EXTENDS UncertainWrite

CONSTANTS update, remove, a, b, k1

MCBase == [w \in Writes |-> IF w = update THEN a ELSE b]
MCLocal == [w \in Writes |-> IF w = update THEN b ELSE Absent]
OneKey == [w \in Writes |-> k1]
=============================================================================
