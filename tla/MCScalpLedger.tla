--------------------------- MODULE MCScalpLedger ---------------------------
EXTENDS ScalpLedger

=============================================================================
