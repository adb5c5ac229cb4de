-------------------------- MODULE MCManualSignals --------------------------
(* Instances of ManualSignals for TLC. *)
EXTENDS ManualSignals
============================================================================
