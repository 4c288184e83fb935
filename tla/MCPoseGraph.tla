---------------------------- MODULE MCPoseGraph ----------------------------
(***************************************************************************)
(* A small instance of PoseGraph: two trajectories, one of them in         *)
(* localization mode, whose submaps are full after two nodes.              *)
(***************************************************************************)
EXTENDS PoseGraph
=============================================================================
