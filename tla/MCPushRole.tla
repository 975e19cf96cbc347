----------------------------- MODULE MCPushRole -----------------------------
(* Three requests: by a process, by another one that may start under the     *)
(* same pid after the first one's death, and by a third.                     *)
EXTENDS PushRole

CONSTANTS c1, c2, c3, p1, p2, p3

MCProc == [c \in Claims |-> CASE c = c1 -> p1 [] c = c2 -> p2 [] c = c3 -> p3]
MCPid == [p \in Procs |-> IF p = p3 THEN 2 ELSE 1]
MCHost == [p \in Procs |-> "host"]
MCIfAvailable == [c \in Claims |-> c # c1]
=============================================================================
