------------------------------- MODULE Mutex -------------------------------
(* What a caller of withFilesystemMutationLock is promised, without files:   *)
(* a claim waits, holds the lock alone, and is done; a claim may also be     *)
(* done without ever holding (a timeout, a fault), and a crash ends several  *)
(* claims of one process at once.                                            *)
CONSTANT Claims

VARIABLE phase

Init == phase = [c \in Claims |-> "waiting"]

Acquire(c) ==
    /\ phase[c] = "waiting"
    /\ \A d \in Claims : phase[d] # "holding"
    /\ phase' = [phase EXCEPT ![c] = "holding"]

Finish(S) == phase' = [c \in Claims |-> IF c \in S THEN "done" ELSE phase[c]]

Next ==
    \/ \E c \in Claims : Acquire(c)
    \/ \E S \in SUBSET Claims : Finish(S)

Spec == Init /\ [][Next]_phase
=============================================================================
