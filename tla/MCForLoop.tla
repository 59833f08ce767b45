----------------------------- MODULE MCForLoop -----------------------------
(* two bits of either kind *)
EXTENDS ForLoop

MCTypes == {[signed |-> TRUE, lo |-> -2, hi |-> 1, ends |-> {-2, 0}],
            [signed |-> FALSE, lo |-> 0, hi |-> 3, ends |-> {2, 3}]}
=============================================================================
