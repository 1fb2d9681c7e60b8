------------------------- MODULE MCCheckpointStore -------------------------
(* CheckpointStore with the constants of the runs in MCCheckpointStore*.cfg. *)
EXTENDS CheckpointStore, TLC
=============================================================================
