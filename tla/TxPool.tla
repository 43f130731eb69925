------------------------------- MODULE TxPool -------------------------------
(***************************************************************************)
(* What the pool of asynchronous USB transmit transfers promises           *)
(* (tx_pool of bridge_ctx, src/main.c:136-139): every transfer buffer has  *)
(* one owner at a time.  The TX thread may write into a buffer only while  *)
(* it is "filling"; libusb owns it from submission until the completion    *)
(* callback; only the completion callback, or the TX thread after a failed *)
(* submission, makes it available again.                                   *)
(***************************************************************************)
EXTENDS Naturals

CONSTANT Slots          \* the transfers of the pool (NUM_TX_XFERS of them)

VARIABLE owner          \* owner[s]: who may touch the buffer of transfer s

Owners == {"free", "filling", "usb", "returning"}

Init == owner = [s \in Slots |-> "free"]

Move(s, from, to) ==
  /\ owner[s] = from
  /\ owner' = [owner EXCEPT ![s] = to]

\* The TX thread is a single thread: it fills one buffer at a time.
Take(s) ==
  /\ \A r \in Slots : owner[r] # "filling"
  /\ Move(s, "free", "filling")

Submit(s) == Move(s, "filling", "usb")

Reject(s) == Move(s, "filling", "free")

\* libusb runs one completion callback at a time.
Return(s) ==
  /\ \A r \in Slots : owner[r] # "returning"
  /\ Move(s, "usb", "returning")

Release(s) == Move(s, "returning", "free")

Next ==
  \E s \in Slots :
    Take(s) \/ Submit(s) \/ Reject(s) \/ Return(s) \/ Release(s)

Spec == Init /\ [][Next]_owner
=============================================================================
