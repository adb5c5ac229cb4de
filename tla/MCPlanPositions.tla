-------------------------- MODULE MCPlanPositions --------------------------
(* Two legs of four steps, three targets.                                  *)
EXTENDS PlanPositions

MCVolumes == <<4, 4>>
MCRatios  == <<50, 30, 20>>
MCFills   == {1}
MCChased  == {1, 3}
=============================================================================
