---------------------------- MODULE MCNestedLanes ----------------------------
(***************************************************************************)
(* The instance of NestedLanes for TLC.                                    *)
(***************************************************************************)
EXTENDS NestedLanes

CONSTANT session

MCLanes == {session, Cron, Main, CronNested}

=============================================================================
