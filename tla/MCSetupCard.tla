----------------------------- MODULE MCSetupCard -----------------------------
(* One setup, its five tasks, three roots. *)
EXTENDS SetupCard
=============================================================================
