------------------------------ MODULE MCFsLock ------------------------------
(* Small instances of FsLock: three process incarnations, the first two with *)
(* the same pid (a restarted container entry point, or a reused pid), and    *)
(* three claims: one each, or two of them by one process.                    *)
EXTENDS FsLock

CONSTANTS c1, c2, c3, p1, p2, p3

MCProc == [c \in Claims |-> IF c = c1 THEN p1 ELSE IF c = c2 THEN p2 ELSE p3]
OneProc == [c \in Claims |-> IF c = c1 THEN p1 ELSE p3]
ReusedPid == [p \in Procs |-> IF p \in {p1, p2} THEN 1 ELSE 2]
OneHost == [p \in Procs |-> "host"]
TwoHosts == [p \in Procs |-> IF p = p1 THEN "before rename" ELSE "host"]
=============================================================================
