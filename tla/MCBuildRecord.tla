---------------------------- MODULE MCBuildRecord ----------------------------
(* Two plans and two processes over the record, interchangeable; one stage *)
(* of the self-check and one of the run that record append is called for;  *)
(* one concession code.                                                    *)
EXTENDS BuildRecord, TLC
Symmetry == Permutations(Plans) \cup Permutations(Writers)
=============================================================================
