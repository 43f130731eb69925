-------------------------------- MODULE Held --------------------------------
(***************************************************************************)
(* What run_session (src/main.c) and usb_find_rndis_device promise about   *)
(* the resources of a session: they are acquired in one order and released *)
(* in the reverse one, each exactly once, on every path.                   *)
(***************************************************************************)
EXTENDS Naturals

CONSTANT N              \* number of resources, 1 the first acquired

VARIABLE held           \* held[i]: how often resource i is held

Init == held = [i \in 1 .. N |-> 0]

\* Exactly the resources before i are held.
Below(i) == \A j \in 1 .. N : held[j] = IF j < i THEN 1 ELSE 0

Acquire(i) == Below(i) /\ held' = [held EXCEPT ![i] = 1]

Release(i) == Below(i + 1) /\ held' = [held EXCEPT ![i] = 0]

Next == \E i \in 1 .. N : Acquire(i) \/ Release(i)

Spec == Init /\ [][Next]_held
=============================================================================
