--------------------------- MODULE MCHeartbeatWake ---------------------------
(***************************************************************************)
(* An instance of HeartbeatWake for TLC.                                   *)
(***************************************************************************)
EXTENDS HeartbeatWake

CONSTANTS agent, session

MCTargets    == {agent, session}
MCPriorities == {1, 3}
MCDelays     == {-1, 0, 1}

=============================================================================
