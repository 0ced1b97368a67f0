--------------------------- MODULE MCMissionLoop ---------------------------
(* MissionLoop needs no more than a capacity for its channel. *)
EXTENDS MissionLoop
============================================================================
