--------------------------- MODULE MCCommandQueue ---------------------------
(***************************************************************************)
(* Instances of CommandQueue for TLC.                                      *)
(***************************************************************************)
EXTENDS LaneRefinement

CONSTANTS main, probe

MCLanes       == {main, probe}
OneLane       == {main}
MCProbeLanes  == {probe} \cap Lanes
MCPriorities  == {-1, 0, 1}
MCConcurrency == {-1, 0, 2}
TwoPriorities == {0, 1}
MCTimeouts    == BOOLEAN

=============================================================================
