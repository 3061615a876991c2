----------------------------- MODULE MCGateway -----------------------------
(* Gateway for TLC; the bounds are in the configurations. *)
EXTENDS Gateway
=============================================================================
