------------------------------ MODULE MCRobot ------------------------------
(***************************************************************************)
(* Small instances of Robot: commands to go and to stop.                   *)
(***************************************************************************)
EXTENDS Robot

MCForward == {0, 1}
MCCounts == -2 * MaxTurn..2 * MaxTurn
=============================================================================
