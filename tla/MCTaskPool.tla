----------------------------- MODULE MCTaskPool -----------------------------
(***************************************************************************)
(* A small instance of TaskPool: three tasks, enough for a chain, a fork   *)
(* and a join, and two workers.                                            *)
(***************************************************************************)
EXTENDS TaskPool
=============================================================================
