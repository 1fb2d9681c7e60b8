--------------------------- MODULE MCReviewHandoff ---------------------------
(* Five tool calls, two of them in one message, two captures.              *)
EXTENDS ReviewHandoff, TLC
Symmetry == Permutations(Calls)
=============================================================================
