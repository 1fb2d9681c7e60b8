-------------------------- MODULE MCEvidenceLedger --------------------------
(* EvidenceLedger with the constants of the runs in MCEvidenceLedger*.cfg. *)
EXTENDS EvidenceLedger, TLC
=============================================================================
