---------------------------- MODULE DurableStore ----------------------------
(* What a journaled store promises its caller, without files: an open handle *)
(* shows a sequence of mutations, a mutation that resolves is appended to    *)
(* it, and whatever happens to the process or the host, a later handle shows *)
(* everything up to the last mutation that resolved.  Mutations without an   *)
(* answer may come after that, or not.                                       *)
EXTENDS Sequences, SequencesExt

CONSTANTS Ops, Down

VARIABLES
    committed,   \* what the store showed when the last mutation resolved
    shown        \* what the open handle shows; Down without one

Init == committed = <<>> /\ shown = Down

Reveal ==
    /\ shown = Down
    /\ shown' \in Seq(Ops) /\ IsPrefix(committed, shown')
    /\ UNCHANGED committed

Resolve ==
    /\ shown # Down
    /\ \E o \in Ops : shown' = Append(shown, o)
    /\ committed' = shown'

Stop == shown' = Down /\ UNCHANGED committed

Next == Reveal \/ Resolve \/ Stop

Spec == Init /\ [][Next]_<<committed, shown>>
=============================================================================
