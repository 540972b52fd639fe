--------------------------- MODULE MCGatewayRestart ---------------------------
(***************************************************************************)
(* The instance of GatewayRestart for TLC.                                 *)
(***************************************************************************)
EXTENDS GatewayRestart

=============================================================================
