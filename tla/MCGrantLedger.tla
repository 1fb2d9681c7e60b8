---------------------------- MODULE MCGrantLedger ----------------------------
(* Two runs of one thread or two, two grants of one call and of two.       *)
EXTENDS GrantLedger, TLC
Symmetry == Permutations(Runs) \cup Permutations(Threads)
Ceilings == <<1, 2>>
=============================================================================
