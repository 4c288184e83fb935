--------------------------- MODULE MCCommandLink ---------------------------
(***************************************************************************)
(* A small instance of CommandLink: packets of three bytes.  The model     *)
(* values s, e and p stand for START_BYTE, END_BYTE and any other byte.    *)
(***************************************************************************)
EXTENDS CommandLink

CONSTANTS s, e, p
=============================================================================
