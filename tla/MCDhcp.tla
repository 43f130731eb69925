------------------------------- MODULE MCDhcp -------------------------------
(* Model-checking instances of Dhcp. *)
EXTENDS Dhcp
=============================================================================
