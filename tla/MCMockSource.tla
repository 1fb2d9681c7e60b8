---------------------------- MODULE MCMockSource ----------------------------
(* One collection of two pages, walked by two interchangeable calls.       *)
EXTENDS MockSource, TLC

CONSTANTS p1, fast, slow

\* One collection of two pages.
OneParent == p1 :> 2
\* Calls differ in nothing but their name.
Symmetry == Permutations(Calls)
=============================================================================
