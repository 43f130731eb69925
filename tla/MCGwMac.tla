------------------------------- MODULE MCGwMac -------------------------------
(* Model-checking instances of GwMac. *)
EXTENDS GwMac
=============================================================================
