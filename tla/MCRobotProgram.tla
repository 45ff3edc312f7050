--------------------------- MODULE MCRobotProgram ---------------------------
(***************************************************************************)
(* Instances of RobotProgram: what the gamepad's analog triggers do.       *)
(***************************************************************************)
EXTENDS RobotProgram

NoTriggerAmount == {0}
AllTriggerAmounts == {-1, 0, 1}
==============================================================================
