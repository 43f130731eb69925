-------------------------------- MODULE GwMac --------------------------------
(***************************************************************************)
(* The gateway's hardware address (gw_mac of bridge_ctx, src/main.c):      *)
(* learned by process_rx_frame from the first frame the phone sends, and   *)
(* used by tun_to_usb, in another thread and without a lock, as the        *)
(* destination of every outgoing frame.  Both sides copy it byte by byte.  *)
(* libusb runs one receive callback at a time.                             *)
(***************************************************************************)
EXTENDS Integers

CONSTANTS
  MAC_LEN,        \* bytes of an address (6)
  Sources,        \* values of a byte in the phone's addresses
  FF              \* the byte 0xFF

ASSUME MacAssumption == MAC_LEN \in Nat \ {0} /\ FF \notin Sources

Bytes     == 1 .. MAC_LEN
Addresses == [Bytes -> Sources \cup {FF}]
Broadcast == [b \in Bytes |-> FF]

VARIABLES
  gw_mac,
  gw_mac_learned,
  rxpc, rxByte,   \* process_rx_frame: control state and byte being copied
  eth,            \* source address of the frame it looks at
  txpc, txByte,   \* frame_ip_to_eth: control state and byte being copied
  dst,            \* destination of the frame under construction
  since,          \* ghost: was the address learned when that was begun?
  sent            \* ghost: <<destination, since>> of the last frame built

rxVars == <<gw_mac, gw_mac_learned, rxpc, rxByte, eth>>
txVars == <<txpc, txByte, dst, since, sent>>
vars   == <<rxVars, txVars>>

\* run_session sets gw_mac to the broadcast address.
Init ==
  /\ gw_mac = Broadcast /\ gw_mac_learned = 0
  /\ rxpc = "idle" /\ rxByte = 1 /\ eth = Broadcast
  /\ txpc = "idle" /\ txByte = 1 /\ dst = Broadcast
  /\ since = 0 /\ sent = <<Broadcast, 0>>

-----------------------------------------------------------------------------
(* process_rx_frame *)

\* Any other frame, and one too short for a header, leaves gw_mac alone.
Learns(src) == gw_mac_learned = 0 /\ src[1] # FF

\* Mutant: the flag is set before the bytes are copied.
RxFrameFlagFirst(src) ==
  /\ rxpc = "idle" /\ Learns(src)
  /\ rxpc' = "copy" /\ rxByte' = 1 /\ eth' = src
  /\ gw_mac_learned' = 1
  /\ UNCHANGED <<gw_mac, txVars>>

RxFrame(src) ==
  /\ rxpc = "idle" /\ Learns(src)
  /\ rxpc' = "copy" /\ rxByte' = 1 /\ eth' = src
  /\ UNCHANGED <<gw_mac, gw_mac_learned, txVars>>

RxCopy ==
  /\ rxpc = "copy"
  /\ gw_mac' = [gw_mac EXCEPT ![rxByte] = eth[rxByte]]
  /\ rxByte' = rxByte + 1
  /\ rxpc' = IF rxByte = MAC_LEN THEN "store" ELSE "copy"
  /\ UNCHANGED <<gw_mac_learned, eth, txVars>>

RxStore ==
  /\ rxpc = "store"
  /\ gw_mac_learned' = 1
  /\ rxpc' = "idle"
  /\ UNCHANGED <<gw_mac, rxByte, eth, txVars>>

-----------------------------------------------------------------------------
(* tun_to_usb, frame_ip_to_eth *)

\* gw_mac_learned is not looked at.
TxFrame ==
  /\ txpc = "idle"
  /\ txpc' = "copy" /\ txByte' = 1
  /\ since' = gw_mac_learned
  /\ UNCHANGED <<dst, sent, rxVars>>

TxCopy ==
  /\ txpc = "copy" /\ txByte < MAC_LEN
  /\ dst' = [dst EXCEPT ![txByte] = gw_mac[txByte]]
  /\ txByte' = txByte + 1
  /\ UNCHANGED <<txpc, since, sent, rxVars>>

\* The last byte; the frame goes to the transmit pool.
TxCopyLast ==
  /\ txpc = "copy" /\ txByte = MAC_LEN
  /\ dst' = [dst EXCEPT ![txByte] = gw_mac[txByte]]
  /\ sent' = <<dst', since>>
  /\ txpc' = "idle"
  /\ UNCHANGED <<txByte, since, rxVars>>

-----------------------------------------------------------------------------

Next ==
  \/ \E src \in Addresses : RxFrame(src)
  \/ RxCopy \/ RxStore
  \/ TxFrame \/ TxCopy \/ TxCopyLast

Spec == Init /\ [][Next]_vars

-----------------------------------------------------------------------------

\* Type correctness; both copies stay within the address.
TypeOK ==
  /\ gw_mac \in Addresses /\ eth \in Addresses /\ dst \in Addresses
  /\ gw_mac_learned \in {0, 1} /\ since \in {0, 1}
  /\ rxpc \in {"idle", "copy", "store"} /\ rxByte \in 1 .. MAC_LEN + 1
  /\ rxpc = "copy" => rxByte \in Bytes
  /\ txpc \in {"idle", "copy"} /\ txByte \in Bytes
  /\ sent \in Addresses \X {0, 1}

\* Once learned, gw_mac is the whole address of the one frame it was learned
\* from: no later frame changes it, in whichever thread its callback runs.
LearnedWhole == gw_mac_learned = 1 => gw_mac = eth

\* A frame whose construction begins after the address was learned goes to
\* that address: the release store of gw_mac_learned comes after the copy.
FrameAfterLearning == sent[2] = 1 => gw_mac_learned = 1 /\ sent[1] = gw_mac
=============================================================================
