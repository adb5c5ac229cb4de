----------------------------- MODULE MCZoneWatch -----------------------------
(* TLC instance of ZoneWatch: one zone, its match and both tasks.           *)
EXTENDS ZoneWatch

CONSTANTS z1, m1

MCZones   == {z1}
MCMatches == {m1}
=============================================================================
