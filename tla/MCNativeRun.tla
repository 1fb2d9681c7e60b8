---------------------------- MODULE MCNativeRun ----------------------------
(* Instances of NativeRun for TLC. *)
EXTENDS NativeRun
=============================================================================
