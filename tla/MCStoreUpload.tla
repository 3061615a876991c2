--------------------------- MODULE MCStoreUpload ---------------------------
(* StoreUpload for TLC; the bounds are in the configurations. *)
EXTENDS StoreUpload
=============================================================================
