---------------------------- MODULE MCLidarDriver ----------------------------
(***************************************************************************)
(* A small instance of LidarDriver: three sessions and two faults.         *)
(***************************************************************************)
EXTENDS LidarDriver
=============================================================================
