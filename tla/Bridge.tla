------------------------------- MODULE Bridge -------------------------------
(***************************************************************************)
(* The packet bridge of one tethering session (src/main.c): the thread     *)
(* usb_to_tun (here "rx"), the thread tun_to_usb ("tx"), the main thread   *)
(* of run_session ("main"), and libusb, which completes the asynchronous   *)
(* transfers the first two submit by running rx_complete, tx_complete and  *)
(* arp_tx_complete in whichever thread is handling USB events: usb_to_tun  *)
(* in its event and drain loops, or main inside the synchronous control    *)
(* transfers of drv->keepalive.                                            *)
(*                                                                         *)
(* Packets, frames and lengths are abstracted: only the ownership and the  *)
(* counting of transfers, the flags and the control flow are kept.  A step *)
(* is one access to a shared atomic, one libusb call or one critical       *)
(* section of tx_mutex; the two cancel loops are one step each, because a  *)
(* cancellation commutes with everything but the submission or completion  *)
(* of the same transfer.  Three steps take further stores with it: the     *)
(* clearing of running and the setting of disconnected in rx_complete (234 *)
(* to 236), on a failed event call (291, 292) and in tx_complete (338,     *)
(* 339).  Nobody reads disconnected before both threads are joined.        *)
(***************************************************************************)
EXTENDS Integers, FiniteSets

CONSTANTS
  NUM_RX_XFERS,   \* receive transfers (16 in the code)
  NUM_TX_XFERS,   \* transmit transfers (64)
  BATCH,          \* packets read from utun before running is looked at (64)
  MAX_ARP         \* bound of the model: ARP replies in flight at once

ASSUME SizeAssumption ==
  /\ NUM_RX_XFERS \in Nat \ {0}
  /\ NUM_TX_XFERS \in Nat \ {0}
  /\ BATCH \in Nat \ {0}
  /\ MAX_ARP \in Nat

RxSlots == 0 .. NUM_RX_XFERS - 1
TxSlots == 0 .. NUM_TX_XFERS - 1
Threads == {"rx", "main"}        \* the threads that handle USB events
Flag    == {0, 1}                \* an int used as a boolean, as in the code

VARIABLES
  running,        \* bridge_ctx.running
  disconnected,   \* bridge_ctx.disconnected
  g_running,      \* global, cleared by the signal handler and by main
  plugged,        \* is the phone still on the bus?
  stopReq,        \* ghost: somebody asked for this session to end
  rxpc,           \* control state of usb_to_tun
  rxNext,         \* index of its submission loop
  rxFlight,       \* receive transfers libusb holds
  rxCancelled,    \* those with a cancellation pending
  active_rx,      \* bridge_ctx.active_rx
  timedOut,       \* ghost: the drain loop gave up after two seconds
  txpc,           \* control state of tun_to_usb
  txBatch,        \* its batch counter
  txSlot,         \* the transfer its local variable tx points to
  txBusy,         \* { i : tx_pool[i].in_use }
  txFlight,       \* transmit transfers libusb holds
  txCancelled,    \* those with a cancellation pending
  active_tx,      \* bridge_ctx.active_tx
  arp,            \* ARP reply transfers libusb holds
  cbPc,           \* progress of the completion callback being run
  cbBy,           \* the thread running it
  cbSlot,         \* the transfer it is about
  mpc,            \* control state of run_session's main thread
  result          \* what run_session returned

flags  == <<running, disconnected, g_running, plugged, stopReq>>
rxVars == <<rxpc, rxNext, rxFlight, rxCancelled, active_rx, timedOut>>
txThr  == <<txpc, txBatch, txSlot>>
txPool == <<txBusy, txFlight, txCancelled, active_tx>>
cbVars == <<cbPc, cbBy, cbSlot>>
mVars  == <<mpc, result>>
vars   == <<flags, rxVars, txThr, txPool, arp, cbVars, mVars>>

\* bctx is zeroed, running is set, the transmit pool is allocated and both
\* threads are created.
Init ==
  /\ running = 1 /\ disconnected = 0
  /\ g_running = 1 /\ plugged = 1 /\ stopReq = 0
  /\ rxpc = "prep" /\ rxNext = 0
  /\ rxFlight = {} /\ rxCancelled = {} /\ active_rx = 0
  /\ timedOut = 0
  /\ txpc = "poll" /\ txBatch = 0 /\ txSlot = 0
  /\ txBusy = {} /\ txFlight = {} /\ txCancelled = {} /\ active_tx = 0
  /\ arp = 0
  /\ cbPc = "idle" /\ cbBy = "rx" /\ cbSlot = 0
  /\ mpc = "loop" /\ result = "none"

LoopOn == running = 1 /\ g_running = 1

\* The thread t is inside libusb_handle_events or a control transfer.
Handling(t) ==
  \/ t = "rx" /\ rxpc \in {"events", "drain"}
  \/ t = "main" /\ mpc = "keepalive"

InCallback(t) == cbPc # "idle" /\ cbBy = t

-----------------------------------------------------------------------------
(* The environment: the cable and the signal handler. *)

Unplug ==
  /\ plugged = 1
  /\ mpc # "closed"
  /\ plugged' = 0
  /\ UNCHANGED <<running, disconnected, g_running, stopReq,
                 rxVars, txThr, txPool, arp, cbVars, mVars>>

\* SIGINT or SIGTERM.
Signal ==
  /\ g_running = 1
  /\ mpc # "closed"
  /\ g_running' = 0
  /\ stopReq' = 1
  /\ UNCHANGED <<running, disconnected, plugged,
                 rxVars, txThr, txPool, arp, cbVars, mVars>>

-----------------------------------------------------------------------------
(* usb_to_tun *)

RxAdvance ==
  /\ rxNext' = rxNext + 1
  /\ rxpc' = IF rxNext + 1 = NUM_RX_XFERS THEN "events" ELSE "prep"

\* The transfer cannot be allocated, or libusb refuses it: the slot is never
\* tried again.
RxPrepareFail ==
  /\ rxpc = "prep"
  /\ RxAdvance
  /\ UNCHANGED <<flags, rxFlight, rxCancelled, active_rx, timedOut,
                 txThr, txPool, arp, cbVars, mVars>>

RxPrepareSubmit ==
  /\ rxpc = "prep"
  /\ plugged = 1
  /\ rxFlight' = rxFlight \cup {rxNext}
  /\ rxpc' = "count"
  /\ UNCHANGED <<flags, rxNext, rxCancelled, active_rx, timedOut,
                 txThr, txPool, arp, cbVars, mVars>>

\* The transfer is already in libusb's hands when it is counted.
RxCount ==
  /\ rxpc = "count"
  /\ active_rx' = active_rx + 1
  /\ RxAdvance
  /\ UNCHANGED <<flags, rxFlight, rxCancelled, timedOut,
                 txThr, txPool, arp, cbVars, mVars>>

RxEventError ==
  /\ rxpc = "events" /\ ~InCallback("rx")
  /\ plugged = 0
  /\ disconnected' = 1
  /\ running' = 0
  /\ rxpc' = "cancelRx"
  /\ UNCHANGED <<g_running, plugged, stopReq,
                 rxNext, rxFlight, rxCancelled, active_rx, timedOut,
                 txThr, txPool, arp, cbVars, mVars>>

\* Mutant: the number of live transfers is not looked at.
RxLoopExitIgnoringCount ==
  /\ rxpc = "events" /\ ~InCallback("rx")
  /\ ~LoopOn
  /\ running' = 0
  /\ rxpc' = "cancelRx"
  /\ UNCHANGED <<disconnected, g_running, plugged, stopReq,
                 rxNext, rxFlight, rxCancelled, active_rx, timedOut,
                 txThr, txPool, arp, cbVars, mVars>>

RxLoopExit ==
  /\ rxpc = "events" /\ ~InCallback("rx")
  /\ ~(LoopOn /\ active_rx > 0)
  /\ running' = 0
  /\ rxpc' = "cancelRx"
  /\ UNCHANGED <<disconnected, g_running, plugged, stopReq,
                 rxNext, rxFlight, rxCancelled, active_rx, timedOut,
                 txThr, txPool, arp, cbVars, mVars>>

\* libusb_cancel_transfer only affects a transfer that is in flight.
\* Mutant: the loop stops before the last transfer.
RxCancelRxButLast ==
  /\ rxpc = "cancelRx"
  /\ rxCancelled' = rxFlight \ {NUM_RX_XFERS - 1}
  /\ rxpc' = "cancelTx"
  /\ UNCHANGED <<flags, rxNext, rxFlight, active_rx, timedOut,
                 txThr, txPool, arp, cbVars, mVars>>

RxCancelRx ==
  /\ rxpc = "cancelRx"
  /\ rxCancelled' = rxFlight
  /\ rxpc' = "cancelTx"
  /\ UNCHANGED <<flags, rxNext, rxFlight, active_rx, timedOut,
                 txThr, txPool, arp, cbVars, mVars>>

RxCancelTx ==
  /\ rxpc = "cancelTx"
  /\ txCancelled' = txBusy \cap txFlight
  /\ rxpc' = "drain"
  /\ UNCHANGED <<flags, rxNext, rxFlight, rxCancelled, active_rx, timedOut,
                 txThr, txBusy, txFlight, active_tx, arp, cbVars, mVars>>

\* Mutant: only one of the two counters is waited for.
RxDrainedTxOnly ==
  /\ rxpc = "drain" /\ ~InCallback("rx")
  /\ active_tx <= 0
  /\ rxpc' = "free"
  /\ UNCHANGED <<flags, rxNext, rxFlight, rxCancelled, active_rx, timedOut,
                 txThr, txPool, arp, cbVars, mVars>>

RxDrained ==
  /\ rxpc = "drain" /\ ~InCallback("rx")
  /\ active_rx <= 0 /\ active_tx <= 0
  /\ rxpc' = "free"
  /\ UNCHANGED <<flags, rxNext, rxFlight, rxCancelled, active_rx, timedOut,
                 txThr, txPool, arp, cbVars, mVars>>

\* time(NULL) - drain_start reached 2.
RxDrainTimeout ==
  /\ rxpc = "drain" /\ ~InCallback("rx")
  /\ active_rx > 0 \/ active_tx > 0
  /\ timedOut' = 1
  /\ rxpc' = "free"
  /\ UNCHANGED <<flags, rxNext, rxFlight, rxCancelled, active_rx,
                 txThr, txPool, arp, cbVars, mVars>>

\* The transfers and buffers of rx_pool are freed.
RxFree ==
  /\ rxpc = "free"
  /\ rxpc' = "done"
  /\ UNCHANGED <<flags, rxNext, rxFlight, rxCancelled, active_rx, timedOut,
                 txThr, txPool, arp, cbVars, mVars>>

-----------------------------------------------------------------------------
(* Completion callbacks.  libusb runs one at a time. *)

TakeRx(t, s) ==
  /\ cbPc = "idle" /\ Handling(t)
  /\ s \in rxFlight
  /\ rxFlight' = rxFlight \ {s}
  /\ rxCancelled' = rxCancelled \ {s}

\* COMPLETED with data (an ARP request in it is answered through a transfer
\* nobody counts), STALL, TIMED_OUT, ERROR or OVERFLOW: fall through to the
\* resubmission.
RxComplete(t, s) ==
  /\ TakeRx(t, s)
  /\ cbPc' = "rxCheck" /\ cbBy' = t /\ cbSlot' = s
  /\ \/ arp' = arp
     \/ plugged = 1 /\ arp < MAX_ARP /\ arp' = arp + 1
  /\ UNCHANGED <<flags, rxpc, rxNext, active_rx, timedOut,
                 txThr, txPool, mVars>>

RxCompleteNoDevice(t, s) ==
  /\ TakeRx(t, s)
  /\ plugged = 0
  /\ disconnected' = 1
  /\ running' = 0
  /\ active_rx' = active_rx - 1
  /\ UNCHANGED <<g_running, plugged, stopReq, rxpc, rxNext, timedOut,
                 txThr, txPool, arp, cbVars, mVars>>

RxCompleteCancelled(t, s) ==
  /\ s \in rxCancelled
  /\ TakeRx(t, s)
  /\ active_rx' = active_rx - 1
  /\ UNCHANGED <<flags, rxpc, rxNext, timedOut,
                 txThr, txPool, arp, cbVars, mVars>>

RxCheckOn ==
  /\ cbPc = "rxCheck" /\ LoopOn
  /\ cbPc' = "rxResubmit"
  /\ UNCHANGED <<flags, rxVars, txThr, txPool, arp, cbBy, cbSlot, mVars>>

\* Mutant: the callback returns without giving up its count.
RxCheckOffUncounted ==
  /\ cbPc = "rxCheck" /\ ~LoopOn
  /\ cbPc' = "idle"
  /\ UNCHANGED <<flags, rxVars, txThr, txPool, arp, cbBy, cbSlot, mVars>>

RxCheckOff ==
  /\ cbPc = "rxCheck" /\ ~LoopOn
  /\ active_rx' = active_rx - 1
  /\ cbPc' = "idle"
  /\ UNCHANGED <<flags, rxpc, rxNext, rxFlight, rxCancelled, timedOut,
                 txThr, txPool, arp, cbBy, cbSlot, mVars>>

RxResubmit ==
  /\ cbPc = "rxResubmit"
  /\ plugged = 1
  /\ rxFlight' = rxFlight \cup {cbSlot}
  /\ cbPc' = "idle"
  /\ UNCHANGED <<flags, rxpc, rxNext, rxCancelled, active_rx, timedOut,
                 txThr, txPool, arp, cbBy, cbSlot, mVars>>

RxResubmitFail ==
  /\ cbPc = "rxResubmit"
  /\ active_rx' = active_rx - 1
  /\ cbPc' = "idle"
  /\ UNCHANGED <<flags, rxpc, rxNext, rxFlight, rxCancelled, timedOut,
                 txThr, txPool, arp, cbBy, cbSlot, mVars>>

\* Mutant: in_use is cleared at the top of the callback.
TxCompleteEarly(t, s) ==
  /\ cbPc = "idle" /\ Handling(t)
  /\ s \in txFlight
  /\ txFlight' = txFlight \ {s}
  /\ txBusy' = txBusy \ {s}
  /\ txCancelled' = txCancelled \ {s}
  /\ cbPc' = "txRelease" /\ cbBy' = t /\ cbSlot' = s
  /\ \/ UNCHANGED <<running, disconnected>>
     \/ plugged = 0 /\ running' = 0 /\ disconnected' = 1
  /\ UNCHANGED <<g_running, plugged, stopReq, rxVars, txThr,
                 active_tx, arp, mVars>>

\* tx_complete up to tx_mutex.  Every transmit transfer has a one second
\* timeout, so it completes whether or not the phone takes the data.
TxComplete(t, s) ==
  /\ cbPc = "idle" /\ Handling(t)
  /\ s \in txFlight
  /\ txFlight' = txFlight \ {s}
  /\ txCancelled' = txCancelled \ {s}
  /\ cbPc' = "txRelease" /\ cbBy' = t /\ cbSlot' = s
  /\ \/ UNCHANGED <<running, disconnected>>
     \/ plugged = 0 /\ running' = 0 /\ disconnected' = 1
  /\ UNCHANGED <<g_running, plugged, stopReq, rxVars, txThr,
                 txBusy, active_tx, arp, mVars>>

\* pthread_cond_signal(&tx_cond): a waiting tun_to_usb looks again.
Wake == IF txpc = "wait" THEN "acquire" ELSE txpc

TxRelease ==
  /\ cbPc = "txRelease"
  /\ txBusy' = txBusy \ {cbSlot}
  /\ active_tx' = active_tx - 1
  /\ txpc' = Wake
  /\ cbPc' = "idle"
  /\ UNCHANGED <<flags, rxVars, txBatch, txSlot, txFlight, txCancelled,
                 arp, cbBy, cbSlot, mVars>>

ArpComplete(t) ==
  /\ cbPc = "idle" /\ Handling(t)
  /\ arp > 0
  /\ arp' = arp - 1
  /\ UNCHANGED <<flags, rxVars, txThr, txPool, cbVars, mVars>>

-----------------------------------------------------------------------------
(* tun_to_usb *)

TxLoopExit ==
  /\ txpc = "poll" /\ ~LoopOn
  /\ txpc' = "done"
  /\ UNCHANGED <<flags, rxVars, txBatch, txSlot, txPool, arp, cbVars, mVars>>

TxPacketReady ==
  /\ txpc = "poll" /\ LoopOn
  /\ txpc' = "read" /\ txBatch' = 0
  /\ UNCHANGED <<flags, rxVars, txSlot, txPool, arp, cbVars, mVars>>

\* Mutant: the batch is one packet too long.
TxNextPacketOffByOne ==
  /\ txBatch' = txBatch + 1
  /\ txpc' = IF txBatch = BATCH THEN "poll" ELSE "read"

\* The end of one iteration of the batch loop.
TxNextPacket ==
  /\ txBatch' = txBatch + 1
  /\ txpc' = IF txBatch + 1 = BATCH THEN "poll" ELSE "read"

\* poll or utun_read has nothing (more): leave the batch.
TxBreak ==
  /\ txpc = "read"
  /\ txpc' = "poll"
  /\ UNCHANGED <<flags, rxVars, txBatch, txSlot, txPool, arp, cbVars, mVars>>

\* frame_ip_to_eth refuses the packet.
TxDrop ==
  /\ txpc = "read"
  /\ TxNextPacket
  /\ UNCHANGED <<flags, rxVars, txSlot, txPool, arp, cbVars, mVars>>

TxFrame ==
  /\ txpc = "read"
  /\ txpc' = "acquire"
  /\ UNCHANGED <<flags, rxVars, txBatch, txSlot, txPool, arp, cbVars, mVars>>

FirstFree(s) ==
  /\ s \in TxSlots \ txBusy
  /\ \A r \in TxSlots : r < s => r \in txBusy

TxAcquire ==
  /\ txpc = "acquire" /\ LoopOn
  /\ \E s \in TxSlots :
       /\ FirstFree(s)
       /\ txSlot' = s
       /\ txBusy' = txBusy \cup {s}
  /\ txpc' = "submit"
  /\ UNCHANGED <<flags, rxVars, txBatch, txFlight, txCancelled, active_tx,
                 arp, cbVars, mVars>>

\* The whole pool is in use: pthread_cond_timedwait.
TxWait ==
  /\ txpc = "acquire" /\ LoopOn
  /\ TxSlots \subseteq txBusy
  /\ txpc' = "wait"
  /\ UNCHANGED <<flags, rxVars, txBatch, txSlot, txPool, arp, cbVars, mVars>>

\* The 100 ms are over, or a spurious wakeup.
TxWaitTimeout ==
  /\ txpc = "wait"
  /\ txpc' = "acquire"
  /\ UNCHANGED <<flags, rxVars, txBatch, txSlot, txPool, arp, cbVars, mVars>>

\* tx == NULL: leave the batch.
TxGiveUp ==
  /\ txpc = "acquire" /\ ~LoopOn
  /\ txpc' = "poll"
  /\ UNCHANGED <<flags, rxVars, txBatch, txSlot, txPool, arp, cbVars, mVars>>

TxSubmit ==
  /\ txpc = "submit"
  /\ plugged = 1
  /\ txFlight' = txFlight \cup {txSlot}
  /\ txpc' = "count"
  /\ UNCHANGED <<flags, rxVars, txBatch, txSlot, txBusy, txCancelled,
                 active_tx, arp, cbVars, mVars>>

\* Mutant: the error path does not clear in_use.
TxSubmitFailLeak ==
  /\ txpc = "submit"
  /\ TxNextPacket
  /\ UNCHANGED <<flags, rxVars, txSlot, txPool, arp, cbVars, mVars>>

\* wrap_frame or libusb_submit_transfer fails: the slot goes back.
TxSubmitFail ==
  /\ txpc = "submit"
  /\ txBusy' = txBusy \ {txSlot}
  /\ TxNextPacket
  /\ UNCHANGED <<flags, rxVars, txSlot, txFlight, txCancelled, active_tx,
                 arp, cbVars, mVars>>

\* The transfer may already have completed when it is counted.
TxCount ==
  /\ txpc = "count"
  /\ active_tx' = active_tx + 1
  /\ TxNextPacket
  /\ UNCHANGED <<flags, rxVars, txSlot, txBusy, txFlight, txCancelled,
                 arp, cbVars, mVars>>

-----------------------------------------------------------------------------
(* run_session, from the creation of the threads *)

\* One round of the loop: a keepalive when one is due, then, once a second,
\* the requests to stop.
MainKeepalive ==
  /\ mpc = "loop" /\ LoopOn
  /\ mpc' = "keepalive"
  /\ UNCHANGED <<flags, rxVars, txThr, txPool, arp, cbVars, result>>

MainKeepaliveEnd ==
  /\ mpc = "keepalive" /\ ~InCallback("main")
  /\ mpc' = "tick"
  /\ UNCHANGED <<flags, rxVars, txThr, txPool, arp, cbVars, result>>

MainNoKeepalive ==
  /\ mpc = "loop" /\ LoopOn
  /\ mpc' = "tick"
  /\ UNCHANGED <<flags, rxVars, txThr, txPool, arp, cbVars, result>>

MainNoRequest ==
  /\ mpc = "tick"
  /\ mpc' = "loop"
  /\ UNCHANGED <<flags, rxVars, txThr, txPool, arp, cbVars, result>>

\* IPC stop or disable in watch mode: this session only.
MainStopSession ==
  /\ mpc = "tick"
  /\ running' = 0
  /\ stopReq' = 1
  /\ mpc' = "loop"
  /\ UNCHANGED <<disconnected, g_running, plugged,
                 rxVars, txThr, txPool, arp, cbVars, result>>

\* The UI died, the stop trigger file exists, or an IPC stop in one-shot
\* mode: the daemon ends too.
MainStopDaemon ==
  /\ mpc = "tick"
  /\ running' = 0
  /\ g_running' = 0
  /\ stopReq' = 1
  /\ mpc' = "loop"
  /\ UNCHANGED <<disconnected, plugged,
                 rxVars, txThr, txPool, arp, cbVars, result>>

MainLoopExit ==
  /\ mpc = "loop" /\ ~LoopOn
  /\ running' = 0
  /\ mpc' = "signal"
  /\ UNCHANGED <<disconnected, g_running, plugged, stopReq,
                 rxVars, txThr, txPool, arp, cbVars, result>>

\* Mutant: the condition variable is not signalled.
MainNoSignal ==
  /\ mpc = "signal"
  /\ mpc' = "joinTx"
  /\ UNCHANGED <<flags, rxVars, txThr, txPool, arp, cbVars, result>>

MainSignalTx ==
  /\ mpc = "signal"
  /\ txpc' = Wake
  /\ mpc' = "joinTx"
  /\ UNCHANGED <<flags, rxVars, txBatch, txSlot, txPool, arp, cbVars, result>>

MainJoinTx ==
  /\ mpc = "joinTx" /\ txpc = "done"
  /\ mpc' = "joinRx"
  /\ UNCHANGED <<flags, rxVars, txThr, txPool, arp, cbVars, result>>

\* Mutant: usb_to_tun is not waited for.
MainNoJoinRx ==
  /\ mpc = "joinRx"
  /\ mpc' = "close"
  /\ UNCHANGED <<flags, rxVars, txThr, txPool, arp, cbVars, result>>

MainJoinRx ==
  /\ mpc = "joinRx" /\ rxpc = "done"
  /\ mpc' = "close"
  /\ UNCHANGED <<flags, rxVars, txThr, txPool, arp, cbVars, result>>

\* The transmit pool is freed, the device closed and the result returned.
MainClose ==
  /\ mpc = "close"
  /\ mpc' = "closed"
  /\ result' = IF disconnected = 1 /\ g_running = 1 THEN "reconnect" ELSE "stop"
  /\ UNCHANGED <<flags, rxVars, txThr, txPool, arp, cbVars>>

\* The session is over.
Finished == mpc = "closed" /\ UNCHANGED vars

-----------------------------------------------------------------------------

\* What usb_to_tun does on its own; an error from the event loop is apart.
RxThread ==
  \/ RxPrepareFail \/ RxPrepareSubmit \/ RxCount
  \/ RxLoopExit \/ RxCancelRx \/ RxCancelTx
  \/ RxDrained \/ RxDrainTimeout \/ RxFree

CallbackBody ==
  RxCheckOn \/ RxCheckOff \/ RxResubmit \/ RxResubmitFail \/ TxRelease

Completion ==
  \E t \in Threads :
    \/ \E s \in RxSlots :
         RxComplete(t, s) \/ RxCompleteNoDevice(t, s) \/ RxCompleteCancelled(t, s)
    \/ \E s \in TxSlots : TxComplete(t, s)
    \/ ArpComplete(t)

\* What tun_to_usb does on its own; the timed wakeup is apart.
TxThread ==
  \/ TxLoopExit \/ TxPacketReady \/ TxBreak \/ TxDrop \/ TxFrame
  \/ TxAcquire \/ TxWait \/ TxGiveUp
  \/ TxSubmit \/ TxSubmitFail \/ TxCount

MainStop ==
  \/ MainKeepaliveEnd \/ MainNoRequest \/ MainLoopExit \/ MainSignalTx
  \/ MainJoinTx \/ MainJoinRx \/ MainClose

MainThread ==
  MainStop \/ MainKeepalive \/ MainNoKeepalive \/ MainStopSession \/ MainStopDaemon

Next ==
  \/ Unplug \/ Signal
  \/ RxThread \/ RxEventError \/ CallbackBody \/ Completion
  \/ TxThread \/ TxWaitTimeout
  \/ MainThread
  \/ Finished

Spec == Init /\ [][Next]_vars

(***************************************************************************)
(* Fairness.  The threads are scheduled and every blocking call of theirs  *)
(* is bounded by a timeout, except the wait for a free transmit transfer,  *)
(* whose 100 ms are not relied on (they are measured on a clock that can   *)
(* be set).  The main thread's loop sleeps 250 ms and looks again.  libusb *)
(* completes a transmit transfer within its timeout even when other        *)
(* callbacks keep running (strong fairness), and reports a transfer of a   *)
(* device that is gone.  Nothing is assumed of receive transfers of a      *)
(* device that is there: they complete when the phone has something to     *)
(* send.                                                                   *)
(***************************************************************************)
Fairness ==
  /\ WF_vars(RxThread)
  /\ WF_vars(CallbackBody)
  /\ WF_vars(TxThread)
  /\ WF_vars(MainStop)
  /\ \A s \in TxSlots : SF_vars(\E t \in Threads : TxComplete(t, s))
  /\ \A s \in RxSlots :
       WF_vars(plugged = 0 /\ \E t \in Threads :
                 RxComplete(t, s) \/ RxCompleteNoDevice(t, s))

FairSpec == Spec /\ Fairness

-----------------------------------------------------------------------------
(* Properties *)

One(b) == IF b THEN 1 ELSE 0

RxCallback == cbPc \in {"rxCheck", "rxResubmit"}
TxCallback == cbPc = "txRelease"

\* Type correctness of the bridge's state.
TypeOK ==
  /\ running \in Flag /\ disconnected \in Flag
  /\ g_running \in Flag /\ plugged \in Flag /\ stopReq \in Flag
  /\ rxpc \in {"prep", "count", "events", "cancelRx", "cancelTx", "drain",
               "free", "done"}
  /\ rxNext \in 0 .. NUM_RX_XFERS
  /\ rxpc \in {"prep", "count"} => rxNext < NUM_RX_XFERS
  /\ rxFlight \in SUBSET RxSlots
  /\ rxCancelled \in SUBSET rxFlight
  /\ active_rx \in Int
  /\ timedOut \in Flag
  /\ txpc \in {"poll", "read", "acquire", "wait", "submit", "count", "done"}
  /\ txBatch \in 0 .. BATCH
  /\ txpc \notin {"poll", "done"} => txBatch < BATCH
  /\ txSlot \in TxSlots
  /\ txBusy \in SUBSET TxSlots
  /\ txFlight \in SUBSET TxSlots
  /\ txCancelled \in SUBSET txFlight
  /\ active_tx \in Int
  /\ arp \in 0 .. MAX_ARP
  /\ cbPc \in {"idle", "rxCheck", "rxResubmit", "txRelease"}
  /\ cbBy \in Threads
  /\ RxCallback => cbSlot \in RxSlots
  /\ TxCallback => cbSlot \in TxSlots
  /\ mpc \in {"loop", "keepalive", "tick", "signal", "joinTx", "joinRx",
              "close", "closed"}
  /\ result \in {"none", "stop", "reconnect"}

\* active_rx counts exactly the receive transfers that libusb or a running
\* rx_complete holds; the one just submitted and not yet counted by
\* usb_to_tun is the only difference.
RxAccounting ==
  active_rx + One(rxpc = "count") = Cardinality(rxFlight) + One(RxCallback)

\* The same for active_tx, which tun_to_usb increments after the submission:
\* the counter runs one short, and can be negative, in between.
TxAccounting ==
  active_tx + One(txpc = "count") = Cardinality(txFlight) + One(TxCallback)

\* The counters that the event loop and the drain loop of usb_to_tun wait on
\* are exact, up to one transfer each between its submission and its counting.
Accounting == RxAccounting /\ TxAccounting

\* No transfer is handed to libusb twice, reused while libusb or its callback
\* holds it, or touched by the callback of another transfer.
SlotsSafe ==
  /\ txFlight \subseteq txBusy
  /\ TxCallback => cbSlot \in txBusy \ txFlight
  /\ RxCallback => cbSlot \notin rxFlight
  /\ txpc = "submit" =>
       /\ txSlot \in txBusy \ txFlight
       /\ TxCallback => cbSlot # txSlot
  /\ rxpc = "prep" => /\ \A s \in rxFlight : s < rxNext
                      /\ RxCallback => cbSlot < rxNext

\* in_use marks exactly the transfers somebody holds: no slot leaks.
NoSlotLeak ==
  \A s \in txBusy : \/ s \in txFlight
                    \/ TxCallback /\ cbSlot = s
                    \/ txpc = "submit" /\ txSlot = s

Draining == rxpc \in {"drain", "free", "done"}
RxFreed  == rxpc \in {"free", "done"}

\* When the drain loop ends by itself, libusb holds none of the receive
\* transfers usb_to_tun then frees, and no rx_complete is under way.
RxFreeSafe == RxFreed /\ timedOut = 0 => rxFlight = {} /\ ~RxCallback

\* main.c:301 cancels "all in-flight" receive transfers; at most one escapes:
\* one main's keepalive was resubmitting, having seen running before usb_to_tun
\* cleared it.
RxMissedBound ==
  rxpc = "cancelTx" \/ Draining =>
    Cardinality(rxFlight \ rxCancelled) + One(cbPc = "rxResubmit") <= 1

\* When the drain loop (main.c:315-319) ends by itself, at most one transmit
\* transfer is still in libusb's hands, in its callback, or about to be submitted.
TxStrayBound ==
  RxFreed /\ timedOut = 0 =>
    Cardinality(txFlight) + One(TxCallback) + One(txpc = "submit") <= 1

\* No callback runs while run_session frees the pool, destroys tx_mutex and
\* closes the device, and no thread is left to start one.
QuietAtClose ==
  mpc \in {"close", "closed"} =>
    cbPc = "idle" /\ ~Handling("rx") /\ ~Handling("main") /\ txpc = "done"

\* A stop request, from whichever thread, ends the session.
StopEnds == (running = 0 \/ g_running = 0) ~> (mpc = "closed")

\* An unplugged phone ends the session.
UnplugEnds == (plugged = 0) ~> (mpc = "closed")

\* A transmit transfer in use becomes available again as long as usb_to_tun
\* handles events.
TxRecycled ==
  \A s \in TxSlots : s \in txBusy ~> (s \notin txBusy \/ RxFreed)

\* The transfers of the pool follow the ownership discipline of TxPool.
Owner ==
  [s \in TxSlots |->
     IF s \in txFlight THEN "usb"
     ELSE IF s \notin txBusy THEN "free"
     ELSE IF TxCallback /\ cbSlot = s THEN "returning"
     ELSE "filling"]

Pool == INSTANCE TxPool WITH Slots <- TxSlots, owner <- Owner

PoolSpec == Pool!Spec

\* Towards run_session, the daemon's main thread, the bridge is a Session,
\* over when both threads are joined: module Daemon relies on it.
Ended == INSTANCE Session
  WITH over <- IF mpc \in {"close", "closed"} THEN 1 ELSE 0

SessionSpec == Ended!Spec

-----------------------------------------------------------------------------
(* What a comment of the code says, and the code does not guarantee *)

\* src/main.c:436 "Returns 0 if user requested stop, 1 if should reconnect."
StopWasRequested == result = "stop" => stopReq = 1
=============================================================================
