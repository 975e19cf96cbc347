--------------------------- MODULE MCWorkingCopy ---------------------------
\* Small instances of WorkingCopy for TLC.
EXTENDS WorkingCopy, TLC

CONSTANTS a, s

\* The authority adds managed fields to a: it stores a as s.
Managed == (a :> s) @@ [c \in Contents |-> c]

RealmSymmetry == Permutations(Realms)

\* Behaviours in which no write was overtaken and nothing was released: beyond
\* them the properties of this run promise nothing.
Sound == ~overtaken /\ ~released
=============================================================================
