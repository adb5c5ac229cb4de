-------------------------- MODULE MCCandidateExecutor --------------------------
(* TLC instance of CandidateExecutor: two executors of one candidate and      *)
(* requests enough for a duplicate order.                                     *)
EXTENDS CandidateExecutor, TLC

CONSTANTS e1, w1, w2, o1, o2

MCEvents  == {e1}
MCWorkers == {w1, w2}
MCOrders  == {o1, o2}

MCGate     == {"reread"}
MCRecovery == {"reread", "look", "absent", "freeing"}
MCNone     == {}

Symmetric == Permutations(MCWorkers) \cup Permutations(MCOrders)
=============================================================================
