------------------------------ MODULE MCFlipClose ------------------------------
(* TLC instance of FlipClose: one executor, and short times.                   *)
EXTENDS FlipClose

CONSTANTS t1, e1

MCTokens == {t1}
MCEvents == {e1}
=============================================================================
