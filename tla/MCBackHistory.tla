---------------------------- MODULE MCBackHistory ----------------------------
(***************************************************************************)
(* A small instance of BackHistory: a list, and two overlays, of which one *)
(* may not close at once.                                                  *)
(***************************************************************************)
EXTENDS BackHistory

CONSTANTS sheet, modal
=============================================================================
