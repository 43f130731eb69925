------------------------------ MODULE Session -------------------------------
(***************************************************************************)
(* What the packet bridge promises the rest of run_session (src/main.c):   *)
(* running is set when it starts and cleared for good by whichever thread  *)
(* stops it; disconnected, once set, tells that the phone is gone; the     *)
(* bridge is over only when it was stopped, and from then on no thread of  *)
(* it touches either flag.                                                 *)
(***************************************************************************)
EXTENDS Naturals

VARIABLES running, disconnected, over

Init == running = 1 /\ disconnected = 0 /\ over = 0

Stop ==
  /\ over = 0
  /\ running' = 0 /\ disconnected' \in {disconnected, 1}
  /\ UNCHANGED over

Over ==
  /\ over = 0 /\ running = 0
  /\ over' = 1
  /\ UNCHANGED <<running, disconnected>>

Next == Stop \/ Over

Spec == Init /\ [][Next]_<<running, disconnected, over>>
=============================================================================
