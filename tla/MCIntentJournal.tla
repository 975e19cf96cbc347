-------------------------- MODULE MCIntentJournal --------------------------
\* Small instances of IntentJournal for TLC.
EXTENDS IntentJournal, TLC

CONSTANTS a, s, MaxMishaps

\* The authority adds managed fields to a: it stores a as s.
Managed == (a :> s) @@ [c \in Contents |-> c]

TaskSymmetry == Permutations(Tasks)

Mishaps == faults + foreign + flips

\* Every task is in the middle of a local operation.
Concurrent == \A t \in Tasks : task[t].pc # "idle"

\* Behaviours in which no write was overtaken, beyond which most properties
\* promise nothing, with at most MaxMishaps faults, changes by others and changes of
\* access in all.  Two more bounds on size: two local operations are under way at
\* once only before the first fault or change of access; and at most two identities
\* are minted where they meet a change by others or a second mishap strikes.
Sound ==
    /\ ~overtaken
    /\ Mishaps <= MaxMishaps
    /\ Concurrent => faults + flips = 0
    /\ (Mishaps >= 2 \/ (Concurrent /\ foreign > 0)) => minted <= 2
=============================================================================
