--------------------------- MODULE MCPlannerEpisode ---------------------------
(* Small instances of PlannerEpisode for TLC. *)
EXTENDS PlannerEpisode

===============================================================================
