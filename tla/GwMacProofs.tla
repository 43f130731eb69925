----------------------------- MODULE GwMacProofs -----------------------------
(***************************************************************************)
(* Proofs, for addresses of any length, of the safety properties of GwMac. *)
(***************************************************************************)
EXTENDS GwMac, TLAPS

USE MacAssumption DEF rxVars, txVars, Bytes, Addresses, Broadcast

\* Every step of the two copies keeps their indices within the address.
LEMMA TypeStep == TypeOK /\ [Next]_vars => TypeOK'
<1> SUFFICES ASSUME TypeOK, [Next]_vars PROVE TypeOK'
  OBVIOUS
<1> USE DEF TypeOK
<1>1. ASSUME NEW src \in Addresses, RxFrame(src) PROVE TypeOK'
  BY <1>1 DEF RxFrame
<1>2. CASE RxCopy
  BY <1>2 DEF RxCopy
<1>3. CASE RxStore
  BY <1>3 DEF RxStore
<1>4. CASE TxFrame
  BY <1>4 DEF TxFrame
<1>5. CASE TxCopy
  BY <1>5 DEF TxCopy
<1>6. CASE TxCopyLast
  BY <1>6 DEF TxCopyLast
<1>7. CASE UNCHANGED vars
  BY <1>7 DEF vars
<1> QED BY <1>1, <1>2, <1>3, <1>4, <1>5, <1>6, <1>7 DEF Next

\* While process_rx_frame copies, the flag is not set and the bytes behind the
\* index are those of the frame.
Copied ==
  /\ rxpc # "idle" => gw_mac_learned = 0
  /\ rxpc = "copy" => \A b \in Bytes : b < rxByte => gw_mac[b] = eth[b]
  /\ rxpc = "store" => gw_mac = eth

\* A frame begun after the learning has the gateway's bytes behind the index.
Addressed ==
  txpc = "copy" /\ since = 1 =>
    gw_mac_learned = 1 /\ \A b \in Bytes : b < txByte => dst[b] = gw_mac[b]

\* The inductive invariant.
IInv == TypeOK /\ Copied /\ LearnedWhole /\ Addressed /\ FrameAfterLearning

\* Every step of process_rx_frame and of frame_ip_to_eth keeps it.
LEMMA Step == IInv /\ [Next]_vars => IInv'
<1> SUFFICES ASSUME IInv, [Next]_vars PROVE IInv'
  OBVIOUS
<1>0. TypeOK /\ TypeOK'
  BY TypeStep DEF IInv
<1> USE <1>0 DEF IInv, Copied, LearnedWhole, Addressed, FrameAfterLearning
<1>1. ASSUME NEW src \in Addresses, RxFrame(src) PROVE IInv'
  BY <1>1 DEF RxFrame, Learns, TypeOK
<1>2. CASE RxCopy
  <2>1. gw_mac_learned = 0 /\ gw_mac_learned' = 0 /\ sent[2] # 1 /\ sent'[2] # 1
    BY <1>2 DEF RxCopy, TypeOK
  <2>2. \A b \in Bytes : b < rxByte' => gw_mac'[b] = eth'[b]
    BY <1>2 DEF RxCopy, TypeOK
  <2>3. rxpc' = "store" => gw_mac' = eth'
    BY <1>2, <2>2 DEF RxCopy, TypeOK
  <2>4. Copied'
    BY <1>2, <2>1, <2>2, <2>3 DEF RxCopy
  <2>5. Addressed'
    BY <1>2, <2>1 DEF RxCopy
  <2> QED BY <2>1, <2>4, <2>5
<1>3. CASE RxStore
  BY <1>3 DEF RxStore, TypeOK
<1>4. CASE TxFrame
  BY <1>4 DEF TxFrame, TypeOK
<1>5. CASE TxCopy
  BY <1>5 DEF TxCopy, TypeOK
<1>6. CASE TxCopyLast
  <2>1. since = 1 => dst' = gw_mac
    BY <1>6 DEF TxCopyLast, TypeOK
  <2>2. sent'[1] = dst' /\ sent'[2] = since
    BY <1>6 DEF TxCopyLast
  <2> QED BY <1>6, <2>1, <2>2 DEF TxCopyLast, TypeOK
<1>7. CASE UNCHANGED vars
  BY <1>7 DEF vars
<1> QED BY <1>1, <1>2, <1>3, <1>4, <1>5, <1>6, <1>7 DEF Next

\* The address is learned whole and once, and every frame begun after that
\* goes to it, for addresses of any length and any frames of the phone.
THEOREM LearningHolds == Spec => [](LearnedWhole /\ FrameAfterLearning)
<1>1. Init => IInv
  BY DEF Init, IInv, TypeOK, Copied, LearnedWhole, Addressed, FrameAfterLearning
<1>2. IInv => LearnedWhole /\ FrameAfterLearning
  BY DEF IInv
<1> QED BY <1>1, <1>2, Step, PTL DEF Spec
=============================================================================
