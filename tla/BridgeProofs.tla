---------------------------- MODULE BridgeProofs ----------------------------
(***************************************************************************)
(* Proofs, for any number of transfers, of the safety properties of Bridge.*)
(***************************************************************************)
EXTENDS Bridge, FiniteSetTheorems, TLAPS

USE DEF flags, rxVars, txThr, txPool, cbVars, mVars

\* Every step of the threads, the callbacks and the environment keeps the
\* state well typed; in particular the batch counter of tun_to_usb and the
\* submission index of usb_to_tun stay within their loops.
LEMMA TypeStep == TypeOK /\ [Next]_vars => TypeOK'
<1> SUFFICES ASSUME TypeOK, [Next]_vars PROVE TypeOK'
  OBVIOUS
<1> USE SizeAssumption DEF TypeOK, Flag, RxSlots, TxSlots, Threads, RxCallback, TxCallback
<1>1. CASE Unplug
  BY <1>1 DEF Unplug
<1>2. CASE Signal
  BY <1>2 DEF Signal
<1>3. CASE RxPrepareFail
  BY <1>3 DEF RxPrepareFail, RxAdvance
<1>4. CASE RxPrepareSubmit
  BY <1>4 DEF RxPrepareSubmit
<1>5. CASE RxCount
  BY <1>5 DEF RxCount, RxAdvance
<1>6. CASE RxEventError
  BY <1>6 DEF RxEventError
<1>7. CASE RxLoopExit
  BY <1>7 DEF RxLoopExit
<1>8. CASE RxCancelRx
  BY <1>8 DEF RxCancelRx
<1>9. CASE RxCancelTx
  BY <1>9 DEF RxCancelTx
<1>10. CASE RxDrained
  BY <1>10 DEF RxDrained
<1>11. CASE RxDrainTimeout
  BY <1>11 DEF RxDrainTimeout
<1>12. CASE RxFree
  BY <1>12 DEF RxFree
<1>13. CASE RxCheckOn
  BY <1>13 DEF RxCheckOn
<1>14. CASE RxCheckOff
  BY <1>14 DEF RxCheckOff
<1>15. CASE RxResubmit
  <2>1. cbSlot \in RxSlots
    BY <1>15 DEF RxResubmit
  <2>2. /\ rxFlight' \in SUBSET RxSlots
        /\ rxCancelled' \in SUBSET rxFlight'
    BY <1>15, <2>1 DEF RxResubmit
  <2> QED BY <1>15, <2>2 DEF RxResubmit
<1>16. CASE RxResubmitFail
  BY <1>16 DEF RxResubmitFail
<1>17. CASE TxRelease
  <2>1. txpc' \in {"poll", "read", "acquire", "wait", "submit", "count", "done"}
    BY <1>17 DEF TxRelease, Wake
  <2>2. txpc' \notin {"poll", "done"} => txBatch' < BATCH
    BY <1>17 DEF TxRelease, Wake
  <2>3. txBusy' \in SUBSET TxSlots
    BY <1>17 DEF TxRelease
  <2> QED BY <1>17, <2>1, <2>2, <2>3 DEF TxRelease
<1>18. CASE Completion
  <2>1. ASSUME NEW t \in Threads, NEW s \in RxSlots, RxComplete(t, s)
       PROVE  TypeOK'
    BY <2>1 DEF RxComplete, TakeRx
  <2>2. ASSUME NEW t \in Threads, NEW s \in RxSlots, RxCompleteNoDevice(t, s)
       PROVE  TypeOK'
    BY <2>2 DEF RxCompleteNoDevice, TakeRx
  <2>3. ASSUME NEW t \in Threads, NEW s \in RxSlots, RxCompleteCancelled(t, s)
       PROVE  TypeOK'
    BY <2>3 DEF RxCompleteCancelled, TakeRx
  <2>4. ASSUME NEW t \in Threads, NEW s \in TxSlots, TxComplete(t, s)
       PROVE  TypeOK'
    BY <2>4 DEF TxComplete
  <2>5. ASSUME NEW t \in Threads, ArpComplete(t)
       PROVE  TypeOK'
    BY <2>5 DEF ArpComplete
  <2> QED BY <1>18, <2>1, <2>2, <2>3, <2>4, <2>5 DEF Completion
<1>19. CASE TxLoopExit
  BY <1>19 DEF TxLoopExit
<1>20. CASE TxPacketReady
  BY <1>20 DEF TxPacketReady
<1>21. CASE TxBreak
  BY <1>21 DEF TxBreak
<1>22. CASE TxDrop
  BY <1>22 DEF TxDrop, TxNextPacket
<1>23. CASE TxFrame
  BY <1>23 DEF TxFrame
<1>24. CASE TxAcquire
  BY <1>24 DEF TxAcquire
<1>25. CASE TxWait
  BY <1>25 DEF TxWait
<1>26. CASE TxWaitTimeout
  BY <1>26 DEF TxWaitTimeout
<1>27. CASE TxGiveUp
  BY <1>27 DEF TxGiveUp
<1>28. CASE TxSubmit
  BY <1>28 DEF TxSubmit
<1>29. CASE TxSubmitFail
  BY <1>29 DEF TxSubmitFail, TxNextPacket
<1>30. CASE TxCount
  BY <1>30 DEF TxCount, TxNextPacket
<1>31. CASE MainKeepaliveEnd
  BY <1>31 DEF MainKeepaliveEnd
<1>32. CASE MainNoRequest
  BY <1>32 DEF MainNoRequest
<1>33. CASE MainLoopExit
  BY <1>33 DEF MainLoopExit
<1>34. CASE MainSignalTx
  BY <1>34 DEF MainSignalTx, Wake
<1>35. CASE MainJoinTx
  BY <1>35 DEF MainJoinTx
<1>36. CASE MainJoinRx
  BY <1>36 DEF MainJoinRx
<1>37. CASE MainClose
  BY <1>37 DEF MainClose
<1>38. CASE MainKeepalive
  BY <1>38 DEF MainKeepalive
<1>39. CASE MainNoKeepalive
  BY <1>39 DEF MainNoKeepalive
<1>40. CASE MainStopSession
  BY <1>40 DEF MainStopSession
<1>41. CASE MainStopDaemon
  BY <1>41 DEF MainStopDaemon
<1>42. CASE Finished
  BY <1>42 DEF Finished, vars
<1>43. CASE UNCHANGED vars
  BY <1>43 DEF vars
<1> QED
  BY <1>1, <1>2, <1>3, <1>4, <1>5, <1>6, <1>7, <1>8, <1>9, <1>10, <1>11, <1>12, <1>13, <1>14, <1>15, <1>16, <1>17, <1>18, <1>19, <1>20, <1>21, <1>22, <1>23, <1>24, <1>25, <1>26, <1>27, <1>28, <1>29, <1>30, <1>31, <1>32, <1>33, <1>34, <1>35, <1>36, <1>37, <1>38, <1>39, <1>40, <1>41, <1>42, <1>43
     DEF Next, RxThread, CallbackBody, TxThread, MainThread, MainStop

\* The bridge's state is well typed in every reachable state.
THEOREM TypeInvariant == Spec => []TypeOK
<1>1. Init => TypeOK
  BY SizeAssumption DEF Init, TypeOK, Flag, RxSlots, TxSlots, Threads,
     RxCallback, TxCallback
<1> QED BY <1>1, TypeStep, PTL DEF Spec

-----------------------------------------------------------------------------
(* What the steps of each actor leave alone *)

\* The cable, the signal handler and stuttering touch only plugged, g_running
\* and stopReq.
LEMMA EnvFrame ==
  ASSUME Unplug \/ Signal \/ Finished \/ UNCHANGED vars
  PROVE  UNCHANGED <<running, disconnected, rxVars, txThr, txPool, arp, cbVars, mVars>>
BY DEF Unplug, Signal, Finished, vars

\* run_session's loop and its joins touch neither the transfers nor the
\* counters nor a running callback.
LEMMA MainFrame ==
  ASSUME MainThread
  PROVE  UNCHANGED <<rxVars, txBatch, txSlot, txPool, arp, cbVars>>
BY DEF MainThread, MainStop, MainKeepaliveEnd, MainNoRequest, MainLoopExit,
   MainSignalTx, MainJoinTx, MainJoinRx, MainClose, MainKeepalive,
   MainNoKeepalive, MainStopSession, MainStopDaemon

\* pthread_cond_signal moves a waiting tun_to_usb back to its search and does
\* nothing to one that is not waiting.
LEMMA WakeType == Wake = txpc \/ (txpc = "wait" /\ Wake = "acquire")
BY DEF Wake

\* The main thread affects tun_to_usb only by that signal.
LEMMA MainTx ==
  ASSUME MainThread
  PROVE  txpc' = txpc \/ (txpc = "wait" /\ txpc' = "acquire")
<1>1. CASE MainSignalTx
  BY <1>1, WakeType DEF MainSignalTx
<1>2. CASE ~MainSignalTx
  <2>1. txpc' = txpc
    BY <1>2 DEF MainThread, MainStop, MainKeepaliveEnd, MainNoRequest,
       MainLoopExit, MainJoinTx, MainJoinRx, MainClose, MainKeepalive,
       MainNoKeepalive, MainStopSession, MainStopDaemon
  <2> QED BY <2>1
<1> QED BY <1>1, <1>2

\* The main thread never sets running again.
LEMMA MainFlags ==
  ASSUME MainThread
  PROVE  running' \in {0, running}
BY DEF MainThread, MainStop, MainKeepaliveEnd, MainNoRequest, MainLoopExit,
   MainSignalTx, MainJoinTx, MainJoinRx, MainClose, MainKeepalive,
   MainNoKeepalive, MainStopSession, MainStopDaemon

\* usb_to_tun outside callbacks leaves the transmit pool alone, except for
\* the cancellations.
LEMMA RxFrame ==
  ASSUME RxThread \/ RxEventError
  PROVE  UNCHANGED <<txThr, txBusy, txFlight, active_tx, arp, cbVars, mVars>>
BY DEF RxThread, RxPrepareFail, RxPrepareSubmit, RxCount, RxEventError,
   RxLoopExit, RxCancelRx, RxCancelTx, RxDrained, RxDrainTimeout, RxFree

\* tun_to_usb touches only its own state and the transmit pool.
LEMMA TxFrameLemma ==
  ASSUME TxThread \/ TxWaitTimeout
  PROVE  UNCHANGED <<flags, rxVars, arp, cbVars, mVars>>
BY DEF TxThread, TxLoopExit, TxPacketReady, TxBreak, TxDrop, TxFrame,
   TxAcquire, TxWait, TxGiveUp, TxSubmit, TxSubmitFail, TxCount, TxWaitTimeout

\* The rest of a callback, after its first step, changes no flag and no
\* thread's position other than a waiting tun_to_usb's.
LEMMA CallbackFrame ==
  ASSUME CallbackBody
  PROVE  UNCHANGED <<flags, rxpc, rxNext, rxCancelled, timedOut, txBatch,
                     txSlot, txFlight, txCancelled, arp, cbBy, cbSlot, mVars>>
BY DEF CallbackBody, RxCheckOn, RxCheckOff, RxResubmit, RxResubmitFail, TxRelease

\* The first step of a callback takes a transfer out of libusb's hands and
\* may clear running; in_use and active_tx wait for tx_mutex.
LEMMA CompletionFrame ==
  ASSUME Completion
  PROVE  UNCHANGED <<g_running, plugged, stopReq, rxpc, rxNext, timedOut, txThr,
                     txBusy, active_tx, mVars>>
BY DEF Completion, RxComplete, RxCompleteNoDevice, RxCompleteCancelled, TakeRx,
   TxComplete, ArpComplete

-----------------------------------------------------------------------------
(* The inductive invariant: the properties of Bridge and what they rest on *)

\* While usb_to_tun has a transfer to count, no later one has been submitted.
RxOrder ==
  rxpc = "count" => /\ \A s \in rxFlight : s <= rxNext
                    /\ RxCallback => cbSlot <= rxNext

\* Who holds which transfer: the part of the invariant about slots.
Slots == SlotsSafe /\ NoSlotLeak /\ RxOrder

\* Every step keeps the ownership of transfers: no double submission, no
\* reuse of one that libusb or a callback holds, no leaked in_use.
LEMMA SlotsStep == TypeOK /\ Slots /\ [Next]_vars => Slots'
<1> SUFFICES ASSUME TypeOK, Slots, [Next]_vars PROVE Slots'
  OBVIOUS
<1> USE SizeAssumption DEF TypeOK, Slots, SlotsSafe, NoSlotLeak, RxOrder,
      RxSlots, TxSlots, RxCallback, TxCallback
<1>1. CASE Unplug \/ Signal \/ Finished \/ UNCHANGED vars
  BY <1>1, EnvFrame
<1>2. CASE MainThread
  BY <1>2, MainFrame, MainTx
<1>3. CASE RxThread \/ RxEventError
  <2> UNCHANGED <<txThr, txBusy, txFlight, cbVars>>
    BY <1>3, RxFrame
  <2>1. CASE RxPrepareFail
    BY <2>1 DEF RxPrepareFail, RxAdvance
  <2>2. CASE RxPrepareSubmit
    BY <2>2 DEF RxPrepareSubmit
  <2>3. CASE RxCount
    BY <2>3 DEF RxCount, RxAdvance
  <2>4. CASE RxEventError
    BY <2>4 DEF RxEventError
  <2>5. CASE RxLoopExit
    BY <2>5 DEF RxLoopExit
  <2>6. CASE RxCancelRx
    BY <2>6 DEF RxCancelRx
  <2>7. CASE RxCancelTx
    BY <2>7 DEF RxCancelTx
  <2>8. CASE RxDrained
    BY <2>8 DEF RxDrained
  <2>9. CASE RxDrainTimeout
    BY <2>9 DEF RxDrainTimeout
  <2>10. CASE RxFree
    BY <2>10 DEF RxFree
  <2> QED
    BY <1>3, <2>1, <2>2, <2>3, <2>4, <2>5, <2>6, <2>7, <2>8, <2>9, <2>10
       DEF RxThread
<1>4. CASE CallbackBody
  <2> UNCHANGED <<rxpc, rxNext, txSlot, txFlight, cbSlot>>
    BY <1>4, CallbackFrame
  <2>1. CASE RxCheckOn
    BY <2>1 DEF RxCheckOn
  <2>2. CASE RxCheckOff
    BY <2>2 DEF RxCheckOff
  <2>3. CASE RxResubmit
    BY <2>3 DEF RxResubmit
  <2>4. CASE RxResubmitFail
    BY <2>4 DEF RxResubmitFail
  <2>5. CASE TxRelease
    BY <2>5, WakeType DEF TxRelease
  <2> QED BY <1>4, <2>1, <2>2, <2>3, <2>4, <2>5 DEF CallbackBody
<1>5. CASE Completion
  <2> UNCHANGED <<rxpc, rxNext, txThr, txBusy>>
    BY <1>5, CompletionFrame
  <2>1. ASSUME NEW t \in Threads, NEW s \in RxSlots, RxComplete(t, s)
        PROVE  Slots'
    BY <2>1 DEF RxComplete, TakeRx
  <2>2. ASSUME NEW t \in Threads, NEW s \in RxSlots, RxCompleteNoDevice(t, s)
        PROVE  Slots'
    BY <2>2 DEF RxCompleteNoDevice, TakeRx
  <2>3. ASSUME NEW t \in Threads, NEW s \in RxSlots, RxCompleteCancelled(t, s)
        PROVE  Slots'
    BY <2>3 DEF RxCompleteCancelled, TakeRx
  <2>4. ASSUME NEW t \in Threads, NEW s \in TxSlots, TxComplete(t, s)
        PROVE  Slots'
    BY <2>4 DEF TxComplete
  <2>5. ASSUME NEW t \in Threads, ArpComplete(t)
        PROVE  Slots'
    BY <2>5 DEF ArpComplete
  <2> QED BY <1>5, <2>1, <2>2, <2>3, <2>4, <2>5 DEF Completion
<1>6. CASE TxThread \/ TxWaitTimeout
  <2> UNCHANGED <<rxpc, rxNext, rxFlight, cbVars>>
    BY <1>6, TxFrameLemma
  <2>1. CASE TxAcquire
    BY <2>1 DEF TxAcquire, FirstFree
  <2>2. CASE TxSubmit
    BY <2>2 DEF TxSubmit
  <2>3. CASE TxSubmitFail
    BY <2>3 DEF TxSubmitFail, TxNextPacket
  <2>4. CASE TxCount
    BY <2>4 DEF TxCount, TxNextPacket
  <2>5. CASE TxLoopExit \/ TxPacketReady \/ TxBreak \/ TxDrop \/ TxFrame
             \/ TxWait \/ TxGiveUp \/ TxWaitTimeout
    <3>1. UNCHANGED txPool /\ txpc # "submit" /\ txpc' # "submit"
      BY <2>5 DEF TxLoopExit, TxPacketReady, TxBreak, TxDrop, TxFrame, TxWait,
         TxGiveUp, TxWaitTimeout, TxNextPacket
    <3> QED BY <3>1
  <2> QED BY <1>6, <2>1, <2>2, <2>3, <2>4, <2>5 DEF TxThread
<1> QED BY <1>1, <1>2, <1>3, <1>4, <1>5, <1>6 DEF Next

-----------------------------------------------------------------------------
(* The counters *)

\* Only finitely many transfers are in flight, so they can be counted.
LEMMA FlightFinite ==
  ASSUME TypeOK
  PROVE  /\ IsFiniteSet(rxFlight) /\ Cardinality(rxFlight) \in Nat
         /\ IsFiniteSet(txFlight) /\ Cardinality(txFlight) \in Nat
<1>1. IsFiniteSet(RxSlots) /\ IsFiniteSet(TxSlots)
  BY SizeAssumption, FS_Interval DEF RxSlots, TxSlots
<1>2. rxFlight \in SUBSET RxSlots /\ txFlight \in SUBSET TxSlots
  BY DEF TypeOK
<1> QED BY <1>1, <1>2, FS_Subset, FS_CardinalityType

\* Submitting one more transfer adds one to the number in flight.
LEMMA CardAdd ==
  ASSUME NEW S, IsFiniteSet(S), NEW x, x \notin S
  PROVE  Cardinality(S \cup {x}) = Cardinality(S) + 1
BY FS_AddElement

\* Completing a transfer takes one from the number in flight.
LEMMA CardRemove ==
  ASSUME NEW S, IsFiniteSet(S), NEW x, x \in S
  PROVE  Cardinality(S \ {x}) = Cardinality(S) - 1
BY FS_RemoveElement

\* Every submission, completion, cancellation and failed resubmission changes
\* active_rx by what it changes in the number of transfers held.
LEMMA RxAccountingStep ==
  TypeOK /\ Slots /\ RxAccounting /\ [Next]_vars => RxAccounting'
<1> SUFFICES ASSUME TypeOK, Slots, RxAccounting, [Next]_vars PROVE RxAccounting'
  OBVIOUS
<1>a. IsFiniteSet(rxFlight) /\ Cardinality(rxFlight) \in Nat /\ active_rx \in Int
  BY FlightFinite DEF TypeOK
<1> USE DEF RxAccounting, One, RxCallback
<1>1. CASE Unplug \/ Signal \/ Finished \/ UNCHANGED vars
  BY <1>1, EnvFrame
<1>2. CASE MainThread
  BY <1>2, MainFrame
<1>3. CASE TxThread \/ TxWaitTimeout
  BY <1>3, TxFrameLemma
<1>4. CASE RxThread \/ RxEventError
  <2> UNCHANGED cbVars
    BY <1>4, RxFrame
  <2>1. CASE RxPrepareFail
    BY <2>1 DEF RxPrepareFail, RxAdvance
  <2>2. CASE RxPrepareSubmit
    <3>1. rxNext \notin rxFlight
      BY <2>2 DEF RxPrepareSubmit, Slots, SlotsSafe, TypeOK, RxSlots
    <3>2. Cardinality(rxFlight') = Cardinality(rxFlight) + 1
      BY <2>2, <3>1, <1>a, CardAdd DEF RxPrepareSubmit
    <3> QED BY <2>2, <3>2, <1>a DEF RxPrepareSubmit
  <2>3. CASE RxCount
    BY <2>3, <1>a DEF RxCount, RxAdvance
  <2>4. CASE RxEventError \/ RxLoopExit \/ RxCancelRx \/ RxCancelTx
             \/ RxDrained \/ RxDrainTimeout \/ RxFree
    <3>1. UNCHANGED <<active_rx, rxFlight>> /\ rxpc # "count" /\ rxpc' # "count"
      BY <2>4 DEF RxEventError, RxLoopExit, RxCancelRx, RxCancelTx, RxDrained,
         RxDrainTimeout, RxFree
    <3> QED BY <3>1
  <2> QED BY <1>4, <2>1, <2>2, <2>3, <2>4 DEF RxThread
<1>5. CASE CallbackBody
  <2> UNCHANGED rxpc
    BY <1>5, CallbackFrame
  <2>1. CASE RxCheckOn
    BY <2>1 DEF RxCheckOn
  <2>2. CASE RxCheckOff
    BY <2>2, <1>a DEF RxCheckOff
  <2>3. CASE RxResubmit
    <3>1. Cardinality(rxFlight') = Cardinality(rxFlight) + 1
      BY <2>3, <1>a, CardAdd DEF RxResubmit, Slots, SlotsSafe
    <3> QED BY <2>3, <3>1, <1>a DEF RxResubmit
  <2>4. CASE RxResubmitFail
    BY <2>4, <1>a DEF RxResubmitFail
  <2>5. CASE TxRelease
    BY <2>5 DEF TxRelease
  <2> QED BY <1>5, <2>1, <2>2, <2>3, <2>4, <2>5 DEF CallbackBody
<1>6. CASE Completion
  <2> UNCHANGED rxpc
    BY <1>6, CompletionFrame
  <2>1. ASSUME NEW t \in Threads, NEW s \in RxSlots, TakeRx(t, s)
        PROVE  Cardinality(rxFlight') = Cardinality(rxFlight) - 1 /\ cbPc = "idle"
    BY <2>1, <1>a, CardRemove DEF TakeRx
  <2>2. ASSUME NEW t \in Threads, NEW s \in RxSlots, RxComplete(t, s)
        PROVE  RxAccounting'
    BY <2>1, <2>2, <1>a DEF RxComplete
  <2>3. ASSUME NEW t \in Threads, NEW s \in RxSlots, RxCompleteNoDevice(t, s)
        PROVE  RxAccounting'
    BY <2>1, <2>3, <1>a DEF RxCompleteNoDevice
  <2>4. ASSUME NEW t \in Threads, NEW s \in RxSlots, RxCompleteCancelled(t, s)
        PROVE  RxAccounting'
    BY <2>1, <2>4, <1>a DEF RxCompleteCancelled
  <2>5. ASSUME NEW t \in Threads, NEW s \in TxSlots, TxComplete(t, s)
        PROVE  RxAccounting'
    BY <2>5 DEF TxComplete
  <2>6. ASSUME NEW t \in Threads, ArpComplete(t)
        PROVE  RxAccounting'
    BY <2>6 DEF ArpComplete
  <2> QED BY <1>6, <2>2, <2>3, <2>4, <2>5, <2>6 DEF Completion
<1> QED BY <1>1, <1>2, <1>3, <1>4, <1>5, <1>6 DEF Next

\* The same for active_tx, with the count that tun_to_usb adds late.
LEMMA TxAccountingStep ==
  TypeOK /\ Slots /\ TxAccounting /\ [Next]_vars => TxAccounting'
<1> SUFFICES ASSUME TypeOK, Slots, TxAccounting, [Next]_vars PROVE TxAccounting'
  OBVIOUS
<1>a. IsFiniteSet(txFlight) /\ Cardinality(txFlight) \in Nat /\ active_tx \in Int
  BY FlightFinite DEF TypeOK
<1> USE DEF TxAccounting, One, TxCallback
<1>1. CASE Unplug \/ Signal \/ Finished \/ UNCHANGED vars
  BY <1>1, EnvFrame
<1>2. CASE MainThread
  BY <1>2, MainFrame, MainTx
<1>3. CASE RxThread \/ RxEventError
  BY <1>3, RxFrame
<1>4. CASE TxThread \/ TxWaitTimeout
  <2> UNCHANGED cbVars
    BY <1>4, TxFrameLemma
  <2>1. CASE TxAcquire
    BY <2>1 DEF TxAcquire
  <2>2. CASE TxSubmit
    <3>1. Cardinality(txFlight') = Cardinality(txFlight) + 1
      BY <2>2, <1>a, CardAdd DEF TxSubmit, Slots, SlotsSafe
    <3> QED BY <2>2, <3>1, <1>a DEF TxSubmit
  <2>3. CASE TxSubmitFail
    BY <2>3 DEF TxSubmitFail, TxNextPacket
  <2>4. CASE TxCount
    BY <2>4, <1>a DEF TxCount, TxNextPacket
  <2>5. CASE TxLoopExit \/ TxPacketReady \/ TxBreak \/ TxDrop \/ TxFrame
             \/ TxWait \/ TxGiveUp \/ TxWaitTimeout
    <3>1. UNCHANGED txPool /\ txpc # "count" /\ txpc' # "count"
      BY <2>5 DEF TxLoopExit, TxPacketReady, TxBreak, TxDrop, TxFrame, TxWait,
         TxGiveUp, TxWaitTimeout, TxNextPacket
    <3> QED BY <3>1
  <2> QED BY <1>4, <2>1, <2>2, <2>3, <2>4, <2>5 DEF TxThread
<1>5. CASE CallbackBody
  <2>1. CASE RxCheckOn \/ RxCheckOff \/ RxResubmit \/ RxResubmitFail
    <3>1. UNCHANGED <<txpc, txFlight, active_tx>> /\ ~TxCallback /\ ~TxCallback'
      BY <2>1 DEF RxCheckOn, RxCheckOff, RxResubmit, RxResubmitFail
    <3> QED BY <3>1
  <2>2. CASE TxRelease
    BY <2>2, <1>a, WakeType DEF TxRelease
  <2> QED BY <1>5, <2>1, <2>2 DEF CallbackBody
<1>6. CASE Completion
  <2> UNCHANGED <<txpc, active_tx>>
    BY <1>6, CompletionFrame
  <2>1. ASSUME NEW t \in Threads, NEW s \in TxSlots, TxComplete(t, s)
        PROVE  TxAccounting'
    <3>1. Cardinality(txFlight') = Cardinality(txFlight) - 1
      BY <2>1, <1>a, CardRemove DEF TxComplete
    <3> QED BY <2>1, <3>1, <1>a DEF TxComplete
  <2>2. ASSUME NEW t \in Threads, NEW s \in RxSlots,
               RxComplete(t, s) \/ RxCompleteNoDevice(t, s) \/ RxCompleteCancelled(t, s)
        PROVE  TxAccounting'
    <3>1. UNCHANGED txFlight /\ ~TxCallback /\ ~TxCallback'
      BY <2>2 DEF RxComplete, RxCompleteNoDevice, RxCompleteCancelled, TakeRx
    <3> QED BY <3>1
  <2>3. ASSUME NEW t \in Threads, ArpComplete(t)
        PROVE  TxAccounting'
    BY <2>3 DEF ArpComplete
  <2> QED BY <1>6, <2>1, <2>2, <2>3 DEF Completion
<1> QED BY <1>1, <1>2, <1>3, <1>4, <1>5, <1>6 DEF Next

-----------------------------------------------------------------------------
(* The control states of the threads *)

\* usb_to_tun has left its event loop.
Stopped == rxpc \in {"cancelRx", "cancelTx"} \/ Draining

\* usb_to_tun cancels and drains only after clearing running.
StopFirst == Stopped => running = 0

\* A callback is run by a thread that is handling events.
CallbackThread == cbPc # "idle" => Handling(cbBy)

\* main passes a join only when the thread has returned.
Joined ==
  /\ mpc \in {"joinRx", "close", "closed"} => txpc = "done"
  /\ mpc \in {"close", "closed"} => rxpc = "done"

\* The control part of the inductive invariant.
Control == StopFirst /\ CallbackThread /\ Joined

\* running stays cleared once usb_to_tun tears down, a callback belongs to a
\* thread handling events, and main has joined what it has passed.
LEMMA ControlStep == TypeOK /\ Control /\ [Next]_vars => Control'
<1> SUFFICES ASSUME TypeOK, Control, [Next]_vars PROVE Control'
  OBVIOUS
<1> USE DEF Control, StopFirst, CallbackThread, Joined, Stopped, Draining, Handling
<1>1. CASE Unplug \/ Signal \/ Finished \/ UNCHANGED vars
  BY <1>1, EnvFrame
<1>2. CASE MainThread
  <2> UNCHANGED <<rxpc, cbVars>> /\ running' \in {0, running}
    BY <1>2, MainFrame, MainFlags
  <2> txpc = "done" => txpc' = "done"
    BY <1>2, MainTx
  <2>1. CASE MainKeepaliveEnd
    BY <2>1 DEF MainKeepaliveEnd, InCallback, TypeOK, Threads
  <2>2. CASE MainJoinTx
    BY <2>2 DEF MainJoinTx
  <2>3. CASE MainJoinRx
    BY <2>3 DEF MainJoinRx
  <2>4. CASE MainClose
    BY <2>4 DEF MainClose
  <2>5. CASE MainNoRequest \/ MainLoopExit \/ MainSignalTx \/ MainKeepalive
             \/ MainNoKeepalive \/ MainStopSession \/ MainStopDaemon
    <3>1. /\ mpc # "keepalive"
          /\ mpc' \in {"loop", "tick", "keepalive", "signal", "joinTx"}
      BY <2>5 DEF MainNoRequest, MainLoopExit, MainSignalTx, MainKeepalive,
         MainNoKeepalive, MainStopSession, MainStopDaemon
    <3> QED BY <3>1
  <2> QED BY <1>2, <2>1, <2>2, <2>3, <2>4, <2>5 DEF MainThread, MainStop
<1>3. CASE RxThread \/ RxEventError
  <2> UNCHANGED <<txThr, cbVars, mVars>>
    BY <1>3, RxFrame
  <2>1. CASE RxPrepareFail
    BY <2>1 DEF RxPrepareFail, RxAdvance
  <2>2. CASE RxPrepareSubmit
    BY <2>2 DEF RxPrepareSubmit
  <2>3. CASE RxCount
    BY <2>3 DEF RxCount, RxAdvance
  <2>4. CASE RxEventError
    BY <2>4 DEF RxEventError, InCallback, TypeOK, Threads
  <2>5. CASE RxLoopExit
    BY <2>5 DEF RxLoopExit, InCallback, TypeOK, Threads
  <2>6. CASE RxCancelRx
    BY <2>6 DEF RxCancelRx
  <2>7. CASE RxCancelTx
    BY <2>7 DEF RxCancelTx
  <2>8. CASE RxDrained
    BY <2>8 DEF RxDrained, InCallback, TypeOK, Threads
  <2>9. CASE RxDrainTimeout
    BY <2>9 DEF RxDrainTimeout, InCallback, TypeOK, Threads
  <2>10. CASE RxFree
    BY <2>10 DEF RxFree
  <2> QED
    BY <1>3, <2>1, <2>2, <2>3, <2>4, <2>5, <2>6, <2>7, <2>8, <2>9, <2>10
       DEF RxThread
<1>4. CASE CallbackBody
  <2> UNCHANGED <<running, rxpc, mpc, cbBy>> /\ cbPc # "idle"
    BY <1>4, CallbackFrame DEF CallbackBody, RxCheckOn, RxCheckOff, RxResubmit,
       RxResubmitFail, TxRelease
  <2>1. txpc = "done" => txpc' = "done"
    BY <1>4, WakeType DEF CallbackBody, RxCheckOn, RxCheckOff, RxResubmit,
       RxResubmitFail, TxRelease
  <2> QED BY <2>1
<1>5. CASE Completion
  <2> UNCHANGED <<rxpc, txpc, mpc>>
    BY <1>5, CompletionFrame
  <2>1. running' \in {0, running} /\ (cbPc' # "idle" => UNCHANGED cbVars \/ Handling(cbBy'))
    BY <1>5 DEF Completion, RxComplete, RxCompleteNoDevice, RxCompleteCancelled,
       TakeRx, TxComplete, ArpComplete
  <2> QED BY <2>1
<1>6. CASE TxThread \/ TxWaitTimeout
  <2> UNCHANGED <<running, rxpc, mpc, cbVars>>
    BY <1>6, TxFrameLemma
  <2>1. txpc # "done"
    BY <1>6 DEF TxThread, TxLoopExit, TxPacketReady, TxBreak, TxDrop, TxFrame,
       TxAcquire, TxWait, TxGiveUp, TxSubmit, TxSubmitFail, TxCount, TxWaitTimeout
  <2> QED BY <2>1
<1> QED BY <1>1, <1>2, <1>3, <1>4, <1>5, <1>6 DEF Next

-----------------------------------------------------------------------------
(* What is left in flight *)

\* The exact count makes the exit of the drain loop safe for the receive
\* transfers.
LEMMA RxFreeSafeStep ==
  TypeOK /\ RxAccounting /\ RxFreeSafe /\ [Next]_vars => RxFreeSafe'
<1> SUFFICES ASSUME TypeOK, RxAccounting, RxFreeSafe, [Next]_vars PROVE RxFreeSafe'
  OBVIOUS
<1> USE DEF RxFreeSafe, RxFreed, RxCallback
<1>1. CASE Unplug \/ Signal \/ Finished \/ UNCHANGED vars
  BY <1>1, EnvFrame
<1>2. CASE MainThread
  BY <1>2, MainFrame
<1>3. CASE TxThread \/ TxWaitTimeout
  BY <1>3, TxFrameLemma
<1>4. CASE RxThread \/ RxEventError
  <2> UNCHANGED cbVars
    BY <1>4, RxFrame
  <2>1. CASE RxDrained
    <3>1. active_rx <= 0 /\ rxpc = "drain"
      BY <2>1 DEF RxDrained
    <3>2. Cardinality(rxFlight) = 0 /\ ~RxCallback
      BY <3>1, FlightFinite DEF RxAccounting, One, TypeOK
    <3>3. rxFlight = {}
      BY <3>2, FlightFinite, FS_EmptySet
    <3> QED BY <2>1, <3>2, <3>3 DEF RxDrained
  <2>2. CASE RxDrainTimeout
    BY <2>2 DEF RxDrainTimeout
  <2>3. CASE RxFree
    BY <2>3 DEF RxFree
  <2>4. CASE RxPrepareFail \/ RxPrepareSubmit \/ RxCount \/ RxEventError
             \/ RxLoopExit \/ RxCancelRx \/ RxCancelTx
    <3>1. ~RxFreed'
      BY <2>4 DEF RxPrepareFail, RxPrepareSubmit, RxCount, RxAdvance,
         RxEventError, RxLoopExit, RxCancelRx, RxCancelTx
    <3> QED BY <3>1
  <2> QED BY <1>4, <2>1, <2>2, <2>3, <2>4 DEF RxThread
<1>5. CASE CallbackBody
  BY <1>5 DEF CallbackBody, RxCheckOn, RxCheckOff, RxResubmit, RxResubmitFail,
     TxRelease
<1>6. CASE Completion
  BY <1>6 DEF Completion, RxComplete, RxCompleteNoDevice, RxCompleteCancelled,
     TakeRx, TxComplete, ArpComplete
<1> QED BY <1>1, <1>2, <1>3, <1>4, <1>5, <1>6 DEF Next

\* With running cleared and one callback at a time, no second receive
\* transfer can escape the cancellation.
LEMMA RxMissedBoundStep ==
  TypeOK /\ Slots /\ Control /\ RxMissedBound /\ [Next]_vars => RxMissedBound'
<1> SUFFICES ASSUME TypeOK, Slots, Control, RxMissedBound, [Next]_vars
             PROVE  RxMissedBound'
  OBVIOUS
<1> DEFINE Missed == rxFlight \ rxCancelled
<1>a. IsFiniteSet(Missed) /\ Cardinality(Missed) \in Nat
  <2>1. IsFiniteSet(rxFlight) /\ Missed \in SUBSET rxFlight
    BY FlightFinite
  <2>2. IsFiniteSet(Missed)
    BY <2>1, FS_Subset
  <2> HIDE DEF Missed
  <2> QED BY <2>2, FS_CardinalityType
<1>b. ASSUME NEW s, Missed' = Missed \ {s}
      PROVE  Cardinality(Missed') \in Nat /\ Cardinality(Missed') <= Cardinality(Missed)
  <2>1. IsFiniteSet(Missed \ {s}) /\ Cardinality(Missed \ {s}) <= Cardinality(Missed)
    <3> HIDE DEF Missed
    <3> QED BY <1>a, FS_RemoveElement
  <2> QED BY <1>b, <2>1, FS_CardinalityType
<1> USE DEF RxMissedBound, Draining, One
<1>1. CASE Unplug \/ Signal \/ Finished \/ UNCHANGED vars
  BY <1>1, EnvFrame
<1>2. CASE MainThread
  BY <1>2, MainFrame
<1>3. CASE TxThread \/ TxWaitTimeout
  BY <1>3, TxFrameLemma
<1>4. CASE RxThread \/ RxEventError
  <2> UNCHANGED cbVars
    BY <1>4, RxFrame
  <2>1. CASE RxCancelRx
    <3>1. Missed' = {}
      BY <2>1 DEF RxCancelRx
    <3> QED BY <3>1, FS_EmptySet
  <2>2. CASE RxCancelTx \/ RxDrained \/ RxDrainTimeout \/ RxFree
    <3>1. UNCHANGED <<rxFlight, rxCancelled>> /\ (rxpc = "cancelTx" \/ Draining)
      BY <2>2 DEF RxCancelTx, RxDrained, RxDrainTimeout, RxFree
    <3> QED BY <3>1
  <2>3. CASE RxPrepareFail \/ RxPrepareSubmit \/ RxCount \/ RxEventError \/ RxLoopExit
    <3>1. ~(rxpc = "cancelTx" \/ Draining)'
      BY <2>3 DEF RxPrepareFail, RxPrepareSubmit, RxCount, RxAdvance,
         RxEventError, RxLoopExit
    <3> QED BY <3>1
  <2> QED BY <1>4, <2>1, <2>2, <2>3 DEF RxThread
<1>5. CASE CallbackBody
  <2> UNCHANGED <<rxpc, rxCancelled>>
    BY <1>5, CallbackFrame
  <2>1. CASE RxCheckOn
    BY <2>1 DEF RxCheckOn, LoopOn, Control, StopFirst, Stopped
  <2>2. CASE RxCheckOff
    BY <2>2 DEF RxCheckOff
  <2>3. CASE RxResubmit
    <3>1. cbSlot \notin rxFlight /\ cbSlot \notin rxCancelled
      BY <2>3 DEF RxResubmit, Slots, SlotsSafe, RxCallback, TypeOK
    <3>2. Missed' = Missed \cup {cbSlot}
      BY <2>3, <3>1 DEF RxResubmit
    <3>3. Cardinality(Missed') = Cardinality(Missed) + 1
      BY <3>1, <3>2, <1>a, CardAdd
    <3> QED BY <2>3, <3>3, <1>a DEF RxResubmit
  <2>4. CASE RxResubmitFail
    BY <2>4, <1>a DEF RxResubmitFail
  <2>5. CASE TxRelease
    BY <2>5 DEF TxRelease
  <2> QED BY <1>5, <2>1, <2>2, <2>3, <2>4, <2>5 DEF CallbackBody
<1>6. CASE Completion
  <2> UNCHANGED rxpc
    BY <1>6, CompletionFrame
  <2>1. ASSUME NEW t \in Threads, NEW s \in RxSlots,
               RxComplete(t, s) \/ RxCompleteNoDevice(t, s) \/ RxCompleteCancelled(t, s)
        PROVE  RxMissedBound'
    <3>1. cbPc = "idle" /\ cbPc' # "rxResubmit" /\ Missed' = Missed \ {s}
      BY <2>1 DEF RxComplete, RxCompleteNoDevice, RxCompleteCancelled, TakeRx
    <3> QED BY <3>1, <1>a, <1>b
  <2>2. ASSUME NEW t \in Threads, NEW s \in TxSlots, TxComplete(t, s)
        PROVE  RxMissedBound'
    BY <2>2 DEF TxComplete
  <2>3. ASSUME NEW t \in Threads, ArpComplete(t)
        PROVE  RxMissedBound'
    BY <2>3 DEF ArpComplete
  <2> QED BY <1>6, <2>1, <2>2, <2>3 DEF Completion
<1> QED BY <1>1, <1>2, <1>3, <1>4, <1>5, <1>6 DEF Next

\* With running cleared tun_to_usb can submit at most the transfer it has
\* already taken, so at most one outlives the drain loop.
LEMMA TxStrayBoundStep ==
  TypeOK /\ Slots /\ TxAccounting /\ Control /\ TxStrayBound /\ [Next]_vars
    => TxStrayBound'
<1> SUFFICES ASSUME TypeOK, Slots, TxAccounting, Control, TxStrayBound, [Next]_vars
             PROVE  TxStrayBound'
  OBVIOUS
<1>a. IsFiniteSet(txFlight) /\ Cardinality(txFlight) \in Nat /\ active_tx \in Int
  BY FlightFinite DEF TypeOK
<1> USE DEF TxStrayBound, RxFreed, One, TxCallback
<1>1. CASE Unplug \/ Signal \/ Finished \/ UNCHANGED vars
  BY <1>1, EnvFrame
<1>2. CASE MainThread
  BY <1>2, MainFrame, MainTx
<1>3. CASE RxThread \/ RxEventError
  <2> UNCHANGED <<txpc, txFlight, cbPc>>
    BY <1>3, RxFrame
  <2>1. CASE RxDrained
    <3>1. active_tx <= 0
      BY <2>1 DEF RxDrained
    <3>2. Cardinality(txFlight) + One(TxCallback) <= One(txpc = "count")
      BY <3>1, <1>a DEF TxAccounting
    <3> QED BY <3>2, <1>a
  <2>2. CASE RxDrainTimeout
    BY <2>2 DEF RxDrainTimeout
  <2>3. CASE RxFree
    BY <2>3 DEF RxFree
  <2>4. CASE RxPrepareFail \/ RxPrepareSubmit \/ RxCount \/ RxEventError
             \/ RxLoopExit \/ RxCancelRx \/ RxCancelTx
    <3>1. ~RxFreed'
      BY <2>4 DEF RxPrepareFail, RxPrepareSubmit, RxCount, RxAdvance,
         RxEventError, RxLoopExit, RxCancelRx, RxCancelTx
    <3> QED BY <3>1
  <2> QED BY <1>3, <2>1, <2>2, <2>3, <2>4 DEF RxThread
<1>4. CASE TxThread \/ TxWaitTimeout
  <2> UNCHANGED <<rxpc, timedOut, cbPc>>
    BY <1>4, TxFrameLemma
  <2>1. CASE TxAcquire
    BY <2>1 DEF TxAcquire, LoopOn, Control, StopFirst, Stopped, Draining
  <2>2. CASE TxSubmit
    <3>1. Cardinality(txFlight') = Cardinality(txFlight) + 1
      BY <2>2, <1>a, CardAdd DEF TxSubmit, Slots, SlotsSafe
    <3> QED BY <2>2, <3>1, <1>a DEF TxSubmit
  <2>3. CASE TxSubmitFail
    BY <2>3, <1>a DEF TxSubmitFail, TxNextPacket
  <2>4. CASE TxCount \/ TxLoopExit \/ TxPacketReady \/ TxBreak \/ TxDrop
             \/ TxFrame \/ TxWait \/ TxGiveUp \/ TxWaitTimeout
    <3>1. UNCHANGED txFlight /\ txpc # "submit" /\ txpc' # "submit"
      BY <2>4 DEF TxCount, TxLoopExit, TxPacketReady, TxBreak, TxDrop, TxFrame,
         TxWait, TxGiveUp, TxWaitTimeout, TxNextPacket
    <3> QED BY <3>1
  <2> QED BY <1>4, <2>1, <2>2, <2>3, <2>4 DEF TxThread
<1>5. CASE CallbackBody
  <2> UNCHANGED <<rxpc, timedOut, txFlight>>
    BY <1>5, CallbackFrame
  <2>1. CASE RxCheckOn \/ RxCheckOff \/ RxResubmit \/ RxResubmitFail
    <3>1. UNCHANGED txpc /\ ~TxCallback /\ ~TxCallback'
      BY <2>1 DEF RxCheckOn, RxCheckOff, RxResubmit, RxResubmitFail
    <3> QED BY <3>1
  <2>2. CASE TxRelease
    BY <2>2, <1>a, WakeType DEF TxRelease
  <2> QED BY <1>5, <2>1, <2>2 DEF CallbackBody
<1>6. CASE Completion
  <2> UNCHANGED <<rxpc, timedOut, txpc>>
    BY <1>6, CompletionFrame
  <2>1. ASSUME NEW t \in Threads, NEW s \in TxSlots, TxComplete(t, s)
        PROVE  TxStrayBound'
    <3>1. Cardinality(txFlight') = Cardinality(txFlight) - 1
      BY <2>1, <1>a, CardRemove DEF TxComplete
    <3> QED BY <2>1, <3>1, <1>a DEF TxComplete
  <2>2. ASSUME NEW t \in Threads, NEW s \in RxSlots,
               RxComplete(t, s) \/ RxCompleteNoDevice(t, s) \/ RxCompleteCancelled(t, s)
        PROVE  TxStrayBound'
    <3>1. UNCHANGED txFlight /\ ~TxCallback /\ ~TxCallback'
      BY <2>2 DEF RxComplete, RxCompleteNoDevice, RxCompleteCancelled, TakeRx
    <3> QED BY <3>1
  <2>3. ASSUME NEW t \in Threads, ArpComplete(t)
        PROVE  TxStrayBound'
    BY <2>3 DEF ArpComplete
  <2> QED BY <1>6, <2>1, <2>2, <2>3 DEF Completion
<1> QED BY <1>1, <1>2, <1>3, <1>4, <1>5, <1>6 DEF Next

-----------------------------------------------------------------------------
(* The theorems *)

\* The inductive invariant.
IInv ==
  /\ TypeOK
  /\ Slots
  /\ RxAccounting
  /\ TxAccounting
  /\ Control
  /\ RxFreeSafe
  /\ RxMissedBound
  /\ TxStrayBound

\* The bridge starts in it.
LEMMA InitIInv == Init => IInv
<1> SUFFICES ASSUME Init PROVE IInv
  OBVIOUS
<1> USE DEF Init
<1>1. TypeOK
  BY SizeAssumption DEF TypeOK, Flag, RxSlots, TxSlots, Threads, RxCallback, TxCallback
<1>2. Slots
  BY DEF Slots, SlotsSafe, NoSlotLeak, RxOrder, RxCallback, TxCallback
<1>3. RxAccounting /\ TxAccounting
  BY FS_EmptySet DEF RxAccounting, TxAccounting, One, RxCallback, TxCallback
<1>4. Control
  BY DEF Control, StopFirst, Stopped, Draining, CallbackThread, Joined
<1>5. RxFreeSafe /\ RxMissedBound /\ TxStrayBound
  BY DEF RxFreeSafe, RxMissedBound, TxStrayBound, RxFreed, Draining
<1> QED BY <1>1, <1>2, <1>3, <1>4, <1>5 DEF IInv

\* Every step keeps it.
LEMMA NextIInv == IInv /\ [Next]_vars => IInv'
BY TypeStep, SlotsStep, RxAccountingStep, TxAccountingStep, ControlStep,
   RxFreeSafeStep, RxMissedBoundStep, TxStrayBoundStep DEF IInv

\* It holds in every reachable state of the bridge.
THEOREM Inductive == Spec => []IInv
BY InitIInv, NextIInv, PTL DEF Spec

\* active_rx and active_tx, on which the event loop and the drain loop of
\* usb_to_tun decide, count the transfers exactly, up to the one submitted
\* and not yet counted.
THEOREM AccountingHolds == Spec => []Accounting
<1>1. IInv => Accounting
  BY DEF IInv, Accounting
<1> QED BY <1>1, Inductive, PTL

\* No transfer is submitted twice, reused too early or lost from the pool.
THEOREM SlotsHold == Spec => [](SlotsSafe /\ NoSlotLeak)
<1>1. IInv => SlotsSafe /\ NoSlotLeak
  BY DEF IInv, Slots
<1> QED BY <1>1, Inductive, PTL

\* What usb_to_tun frees after a completed drain is not in use.
THEOREM TeardownHolds == Spec => []RxFreeSafe
<1>1. IInv => RxFreeSafe
  BY DEF IInv
<1> QED BY <1>1, Inductive, PTL

\* At most one receive transfer escapes the cancellation and at most one
\* transmit transfer outlives the drain, however many there are.
THEOREM StraysBounded == Spec => [](RxMissedBound /\ TxStrayBound)
<1>1. IInv => RxMissedBound /\ TxStrayBound
  BY DEF IInv
<1> QED BY <1>1, Inductive, PTL

\* No callback runs and no thread is left when run_session frees the pool,
\* destroys tx_mutex and closes the device.
THEOREM CloseIsQuiet == Spec => []QuietAtClose
<1>1. IInv => QuietAtClose
  BY DEF IInv, Control, CallbackThread, Joined, Handling, QuietAtClose
<1> QED BY <1>1, Inductive, PTL

-----------------------------------------------------------------------------
(* The transmit pool implements TxPool *)

\* A step that changes neither in_use nor the transfers in flight nor a
\* transmit callback changes no owner.
LEMMA OwnerSame ==
  ASSUME UNCHANGED <<txBusy, txFlight>>,
         (TxCallback \/ TxCallback') => UNCHANGED <<cbPc, cbSlot>>
  PROVE  Owner' = Owner
BY DEF Owner, TxCallback

\* The empty pool is the initial state of TxPool.
LEMMA PoolInit == Init => Pool!Init
BY DEF Init, Pool!Init, Owner, TxCallback

\* Every step of the bridge is a step of TxPool or leaves the owners alone.
LEMMA PoolStep == TypeOK /\ Slots /\ [Next]_vars => [Pool!Next]_Owner
<1> SUFFICES ASSUME TypeOK, Slots, [Next]_vars PROVE [Pool!Next]_Owner
  OBVIOUS
<1>1. CASE Unplug \/ Signal \/ Finished \/ UNCHANGED vars
  BY <1>1, EnvFrame, OwnerSame
<1>2. CASE MainThread
  BY <1>2, MainFrame, OwnerSame
<1>3. CASE RxThread \/ RxEventError
  BY <1>3, RxFrame, OwnerSame
<1>4. CASE TxThread \/ TxWaitTimeout
  <2> UNCHANGED cbVars
    BY <1>4, TxFrameLemma
  <2>1. CASE TxAcquire
    <3>1. PICK s \in TxSlots : /\ FirstFree(s)
                               /\ txSlot' = s
                               /\ txBusy' = txBusy \cup {s}
      BY <2>1 DEF TxAcquire
    <3>2. \A r \in TxSlots : Owner[r] # "filling"
      BY <2>1 DEF TxAcquire, Owner, Slots, NoSlotLeak
    <3>3. Owner[s] = "free"
      BY <3>1 DEF Owner, FirstFree, Slots, SlotsSafe
    <3>4. Owner' = [Owner EXCEPT ![s] = "filling"]
      BY <2>1, <3>1 DEF TxAcquire, Owner, FirstFree, Slots, SlotsSafe, TxCallback
    <3> QED BY <3>2, <3>3, <3>4 DEF Pool!Next, Pool!Take, Pool!Move
  <2>2. CASE TxSubmit
    <3>1. Owner[txSlot] = "filling"
      BY <2>2 DEF TxSubmit, Owner, Slots, SlotsSafe, TypeOK
    <3>2. Owner' = [Owner EXCEPT ![txSlot] = "usb"]
      BY <2>2 DEF TxSubmit, Owner, TxCallback, TypeOK
    <3> QED BY <3>1, <3>2 DEF Pool!Next, Pool!Submit, Pool!Move, TypeOK
  <2>3. CASE TxSubmitFail
    <3>1. Owner[txSlot] = "filling"
      BY <2>3 DEF TxSubmitFail, Owner, Slots, SlotsSafe, TypeOK
    <3>2. Owner' = [Owner EXCEPT ![txSlot] = "free"]
      BY <2>3 DEF TxSubmitFail, Owner, TxCallback, TypeOK, Slots, SlotsSafe
    <3> QED BY <3>1, <3>2 DEF Pool!Next, Pool!Reject, Pool!Move, TypeOK
  <2>4. CASE TxCount \/ TxLoopExit \/ TxPacketReady \/ TxBreak \/ TxDrop
             \/ TxFrame \/ TxWait \/ TxGiveUp \/ TxWaitTimeout
    <3>1. UNCHANGED <<txBusy, txFlight>>
      BY <2>4 DEF TxCount, TxLoopExit, TxPacketReady, TxBreak, TxDrop, TxFrame,
         TxWait, TxGiveUp, TxWaitTimeout
    <3> QED BY <3>1, OwnerSame
  <2> QED BY <1>4, <2>1, <2>2, <2>3, <2>4 DEF TxThread
<1>5. CASE CallbackBody
  <2>1. CASE RxCheckOn \/ RxCheckOff \/ RxResubmit \/ RxResubmitFail
    <3>1. UNCHANGED <<txBusy, txFlight>> /\ ~TxCallback /\ ~TxCallback'
      BY <2>1 DEF RxCheckOn, RxCheckOff, RxResubmit, RxResubmitFail, TxCallback
    <3> QED BY <3>1, OwnerSame
  <2>2. CASE TxRelease
    <3>1. Owner[cbSlot] = "returning"
      BY <2>2 DEF TxRelease, Owner, Slots, SlotsSafe, TxCallback, TypeOK
    <3>2. Owner' = [Owner EXCEPT ![cbSlot] = "free"]
      BY <2>2 DEF TxRelease, Owner, TxCallback, TypeOK, Slots, SlotsSafe
    <3> QED BY <2>2, <3>1, <3>2 DEF TxRelease, Pool!Next, Pool!Release, Pool!Move,
               TypeOK, TxCallback
  <2> QED BY <1>5, <2>1, <2>2 DEF CallbackBody
<1>6. CASE Completion
  <2> UNCHANGED txBusy
    BY <1>6, CompletionFrame
  <2>1. ASSUME NEW t \in Threads, NEW s \in TxSlots, TxComplete(t, s)
        PROVE  [Pool!Next]_Owner
    <3>1. Owner[s] = "usb" /\ \A r \in TxSlots : Owner[r] # "returning"
      BY <2>1 DEF TxComplete, Owner, TxCallback
    <3>2. Owner' = [Owner EXCEPT ![s] = "returning"]
      BY <2>1 DEF TxComplete, Owner, TxCallback, Slots, SlotsSafe
    <3> QED BY <3>1, <3>2 DEF Pool!Next, Pool!Return, Pool!Move
  <2>2. ASSUME NEW t \in Threads, NEW s \in RxSlots,
               RxComplete(t, s) \/ RxCompleteNoDevice(t, s) \/ RxCompleteCancelled(t, s)
        PROVE  [Pool!Next]_Owner
    <3>1. UNCHANGED txFlight /\ ~TxCallback /\ ~TxCallback'
      BY <2>2 DEF RxComplete, RxCompleteNoDevice, RxCompleteCancelled, TakeRx, TxCallback
    <3> QED BY <3>1, OwnerSame
  <2>3. ASSUME NEW t \in Threads, ArpComplete(t)
        PROVE  [Pool!Next]_Owner
    BY <2>3, OwnerSame DEF ArpComplete
  <2> QED BY <1>6, <2>1, <2>2, <2>3 DEF Completion
<1> QED BY <1>1, <1>2, <1>3, <1>4, <1>5, <1>6 DEF Next

\* The transmit pool of the bridge implements the ownership discipline of
\* TxPool, for every size of the pool.
THEOREM PoolRefinement == Spec => PoolSpec
<1>1. IInv /\ [Next]_vars => [Pool!Next]_Owner
  BY PoolStep DEF IInv
<1> QED BY <1>1, PoolInit, Inductive, PTL DEF Spec, PoolSpec, Pool!Spec

-----------------------------------------------------------------------------
(* The bridge is a Session *)

\* run_session leaves its loop only after clearing running.
Told == mpc \in {"signal", "joinTx", "joinRx", "close", "closed"} => running = 0

\* Neither flag of the bridge changes, or the bridge is not over and running
\* is cleared, disconnected set or left alone.
FlagStep ==
  \/ UNCHANGED <<running, disconnected>>
  \/ /\ running' = 0 /\ disconnected' \in {disconnected, 1}
     /\ mpc \notin {"close", "closed"} /\ mpc' \notin {"close", "closed"}

\* Once both threads are joined nothing is left that changes the flags.
LEMMA FlagsStep == TypeOK /\ Control /\ [Next]_vars => FlagStep
<1> SUFFICES ASSUME TypeOK, Control, [Next]_vars PROVE FlagStep
  OBVIOUS
<1>1. CASE Unplug \/ Signal \/ Finished \/ UNCHANGED vars
  BY <1>1, EnvFrame DEF FlagStep
<1>2. CASE MainThread
  BY <1>2 DEF FlagStep, flags, MainThread, MainStop, MainKeepaliveEnd, MainNoRequest,
     MainLoopExit, MainSignalTx, MainJoinTx, MainJoinRx, MainClose, MainKeepalive,
     MainNoKeepalive, MainStopSession, MainStopDaemon
<1>3. CASE RxThread \/ RxEventError
  BY <1>3 DEF FlagStep, flags, mVars, Control, Joined, RxThread, RxPrepareFail,
     RxPrepareSubmit, RxCount, RxEventError, RxLoopExit, RxCancelRx, RxCancelTx,
     RxDrained, RxDrainTimeout, RxFree
<1>4. CASE TxThread \/ TxWaitTimeout \/ CallbackBody
  BY <1>4, TxFrameLemma, CallbackFrame DEF FlagStep, flags
<1>5. CASE Completion
  <2>1. PICK t \in Threads : Handling(t) /\
          (UNCHANGED <<running, disconnected>> \/ (running' = 0 /\ disconnected' = 1))
    BY <1>5 DEF flags, Completion, RxComplete, RxCompleteNoDevice, RxCompleteCancelled,
       TakeRx, TxComplete, ArpComplete
  <2>2. UNCHANGED mpc
    BY <1>5, CompletionFrame DEF mVars
  <2> QED BY <2>1, <2>2 DEF FlagStep, Control, Joined, Handling
<1> QED BY <1>1, <1>2, <1>3, <1>4, <1>5 DEF Next

\* running stays cleared once main has left its loop.
LEMMA ToldStep == Told /\ FlagStep /\ [Next]_vars => Told'
<1> SUFFICES ASSUME Told, FlagStep, [Next]_vars PROVE Told'
  OBVIOUS
<1> running = 0 => running' = 0
  BY DEF FlagStep
<1>1. CASE MainThread
  BY <1>1 DEF Told, MainThread, MainStop, MainKeepaliveEnd, MainNoRequest,
     MainLoopExit, MainSignalTx, MainJoinTx, MainJoinRx, MainClose, MainKeepalive,
     MainNoKeepalive, MainStopSession, MainStopDaemon
<1>2. CASE ~MainThread
  <2>1. UNCHANGED mpc
    BY <1>2, EnvFrame, RxFrame, TxFrameLemma, CallbackFrame, CompletionFrame
       DEF Next, mVars
  <2> QED BY <2>1 DEF Told
<1> QED BY <1>1, <1>2

\* main passes the second join only from the state before it.
LEMMA JoinStep ==
  [Next]_vars /\ mpc \notin {"close", "closed"} /\ mpc' \in {"close", "closed"}
    => mpc = "joinRx" /\ UNCHANGED <<running, disconnected>>
<1> SUFFICES ASSUME [Next]_vars, mpc \notin {"close", "closed"}, mpc' \in {"close", "closed"}
             PROVE  mpc = "joinRx" /\ UNCHANGED <<running, disconnected>>
  OBVIOUS
<1>1. MainThread
  BY EnvFrame, RxFrame, TxFrameLemma, CallbackFrame, CompletionFrame DEF Next, mVars
<1> QED
  BY <1>1 DEF flags, MainThread, MainStop, MainKeepaliveEnd, MainNoRequest,
     MainLoopExit, MainSignalTx, MainJoinTx, MainJoinRx, MainClose, MainKeepalive,
     MainNoKeepalive, MainStopSession, MainStopDaemon

\* A bridge that is over stays so.
LEMMA OverStays ==
  [Next]_vars /\ mpc \in {"close", "closed"} => mpc' \in {"close", "closed"}
<1> SUFFICES ASSUME [Next]_vars, mpc \in {"close", "closed"}
             PROVE  mpc' \in {"close", "closed"}
  OBVIOUS
<1>1. CASE MainThread
  BY <1>1 DEF MainThread, MainStop, MainKeepaliveEnd, MainNoRequest,
     MainLoopExit, MainSignalTx, MainJoinTx, MainJoinRx, MainClose, MainKeepalive,
     MainNoKeepalive, MainStopSession, MainStopDaemon
<1>2. CASE ~MainThread
  BY <1>2, EnvFrame, RxFrame, TxFrameLemma, CallbackFrame, CompletionFrame DEF Next, mVars
<1> QED BY <1>1, <1>2

\* Towards run_session the bridge is a Session, with any number of transfers:
\* stopped once, its flags final when both threads are joined.
THEOREM SessionRefinement == Spec => SessionSpec
<1> DEFINE Over == IF mpc \in {"close", "closed"} THEN 1 ELSE 0
<1>1. Init => Told
  BY DEF Init, Told
<1>2. Init => Ended!Init
  BY DEF Init, Ended!Init
<1>3. IInv /\ Told /\ [Next]_vars => Told'
  BY FlagsStep, ToldStep DEF IInv
<1>4. IInv /\ Told /\ [Next]_vars => [Ended!Next]_<<running, disconnected, Over>>
  <2> SUFFICES ASSUME IInv, Told, [Next]_vars
               PROVE  [Ended!Next]_<<running, disconnected, Over>>
    OBVIOUS
  <2>1. FlagStep
    BY FlagsStep DEF IInv
  <2>2. CASE Over' = Over
    BY <2>1, <2>2 DEF FlagStep, Ended!Next, Ended!Stop
  <2>3. CASE Over' # Over
    <3>1. Over = 0 /\ Over' = 1 /\ mpc = "joinRx" /\ UNCHANGED <<running, disconnected>>
      BY <2>3, JoinStep, OverStays
    <3> QED BY <3>1 DEF Told, Ended!Next, Ended!Over
  <2> QED BY <2>2, <2>3
<1> QED BY <1>1, <1>2, <1>3, <1>4, Inductive, PTL DEF Spec, SessionSpec, Ended!Spec
=============================================================================
