-------------------------- MODULE MCSetupLifecycle --------------------------
(* TLC instances of SetupLifecycle: setups of one thesis and their handlers. *)
EXTENDS SetupLifecycle
=============================================================================
