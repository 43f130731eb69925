------------------------------ MODULE MCTether ------------------------------
(* Model-checking instances of Tether. *)
EXTENDS Tether

\* <<--watch, --no-route, --no-dns>>
Watch     == {<<1, 0, 0>>}
BothBare  == {<<1, 1, 1>>, <<0, 1, 1>>}
BothModes == {<<1, 0, 0>>, <<0, 1, 0>>}
=============================================================================
