---------------------------- MODULE MCBoardSync ----------------------------
(* m1 and t1 change the same region of d1, so Git cannot merge them; m1 and  *)
(* t2 change different regions of d1 and merge into a document whose         *)
(* frontmatter is broken until f repairs it.  Where f is not one of Fixes it *)
(* is an ordinary edit of a region of its own.  The second document, where a *)
(* run has it, takes edits that never conflict.                              *)
EXTENDS BoardSync

CONSTANTS d1, d2, m1, m2, m3, f, t1, t2

MCDocOf  == [e \in Edits |-> IF e \in {m2, m3} THEN d2 ELSE d1]
MCRegion == (m1 :> 1) @@ (t1 :> 1) @@ (t2 :> 2) @@ (f :> 3) @@ (m2 :> 4) @@ (m3 :> 5)
MCClash  == IF {m1, t2} \subseteq Edits THEN {{m1, t2}} ELSE {}
=============================================================================
