------------------------------ MODULE MCBridge ------------------------------
(* Model-checking instances of Bridge. *)
EXTENDS Bridge
=============================================================================
