---------------------------- MODULE MCInitScript ----------------------------
(* InitScript for TLC; the bounds are in the configuration. *)
EXTENDS InitScript
=============================================================================
