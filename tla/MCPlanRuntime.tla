----------------------------- MODULE MCPlanRuntime -----------------------------
(* TLC instance of PlanRuntime: a two-leg ladder whose first leg may turn out  *)
(* marketable, and a market_watch plan behind it.                              *)
EXTENDS PlanRuntime

MCOrderTypes == <<<<{"market", "limit"}, {"limit"}>>, <<{"market"}>>>>
MCWatched == {2}
=============================================================================
