------------------------ MODULE MCHardwareInterface ------------------------
(***************************************************************************)
(* Small instances of HardwareInterface: counts that grow, fall and jump.  *)
(***************************************************************************)
EXTENDS HardwareInterface

MCCounts == {-2, 0, 1, 5}
=============================================================================
