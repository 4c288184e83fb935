--------------------------- MODULE MCFeedbackLink ---------------------------
(***************************************************************************)
(* A small instance of FeedbackLink: packets of three bytes, with the     *)
(* model values of MCCommandLink.                                          *)
(***************************************************************************)
EXTENDS FeedbackLink

CONSTANTS s, e, p
=============================================================================
