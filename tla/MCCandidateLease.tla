--------------------------- MODULE MCCandidateLease ---------------------------
(* TLC instance of CandidateLease: two events of one candidate, three lease  *)
(* tokens, so that an owner, a superseded holder and a fresh claim coexist.  *)
EXTENDS CandidateLease

CONSTANTS e1, e2, t1, t2, t3

MCEvents == {e1, e2}
MCTokens == {t1, t2, t3}
=============================================================================
