------------------------------- MODULE Setup --------------------------------
(***************************************************************************)
(* run_session (src/main.c) before and after the packet bridge: driver,    *)
(* device, handshake, address, utun interface, and their release on every  *)
(* error path and at the end.  The bridge and the network configuration of *)
(* the session are modules Bridge and Daemon; the DHCP exchange, which     *)
(* falls back to fixed values and cannot fail here, is module Dhcp.        *)
(***************************************************************************)
EXTENDS Rndis

vars == <<usbVars, rndisVars>>

Init == UsbInit /\ RndisInit /\ spc = "idle"

\* proto_rndis_create; without memory nothing happens.
CreateDriver ==
  /\ spc = "idle"
  /\ Acquire("driver")
  /\ spc' = "find"
  /\ mac' = "zero"
  /\ UNCHANGED <<busVars, devVars, todo, then, phoneVars, orderly>>

\* get_mac copies mac_addr.  A lease, or the default of a failed DHCP, is
\* formatted by the program; a static address may be one inet_pton refuses.
Address ==
  /\ spc = "address"
  /\ GoTo("tun") \/ InitFails
  /\ UNCHANGED <<busVars, devVars, rndisVars>>

\* utun_create closes its own socket when it fails.
CreateTun ==
  /\ spc = "tun"
  /\ \/ Acquire("tun") /\ spc' = "configure" /\ UNCHANGED <<todo, then>>
     \/ InitFails
  /\ UNCHANGED <<busVars, devVars, rndisVars>>

\* Mutant: the interface is left open.
TunKept == UsbClose \o <<"driver">>

CloseAllOf == <<"tun">> \o UsbClose \o <<"driver">>

ConfigureTun ==
  /\ spc = "configure"
  /\ \/ GoTo("session")
     \/ Unwind(CloseAllOf, "idle") /\ UNCHANGED held
  /\ UNCHANGED <<busVars, devVars, rndisVars>>

\* The bridge has ended.
EndSession ==
  /\ spc = "session"
  /\ Unwind(CloseAllOf, "idle") /\ UNCHANGED held
  /\ UNCHANGED <<busVars, devVars, rndisVars>>

SetupStep ==
  \/ FindStep /\ UNCHANGED rndisVars
  \/ InitSend \/ InitRecv \/ QuerySend \/ QueryRecv \/ SetSend \/ SetRecv
  \/ Address \/ CreateTun \/ ConfigureTun \/ KeepaliveRecv

Next ==
  \/ SetupStep \/ CreateDriver \/ KeepaliveSend \/ EndSession
  \/ \E d \in Devices :
       PhoneAnswers(d) \/ PhoneIndicates(d) \/ Unplug(d) \/ Replug(d)

Spec == Init /\ [][Next]_vars

\* Every call of the set-up returns within its timeout.  Nothing is assumed of
\* the phones and of when a session starts or ends.
FairSpec == Spec /\ WF_vars(SetupStep)

TypeOK ==
  /\ bus \in Buses
  /\ gone \in SUBSET Devices
  /\ detached \in SUBSET (Devices \X {"comm", "data"})
  /\ spc \in {"idle", "find", "list", "probe", "claimComm", "claimData", "scan",
              "initSend", "initRecv", "querySend", "queryRecv", "setSend", "setRecv",
              "address", "tun", "configure", "session", "keepalive", "unwind"}
  /\ held \in [Resources -> {0, 1}]
  /\ todo \in Seq(Resources \cup {"attach"}) /\ then \in {"idle", "probe"}
  /\ cur \in 1 .. Len(bus) + 1
  /\ spc \notin {"idle", "find", "list", "probe", "unwind"} => cur <= Len(bus)
  /\ kernel_detached \in {0, 1}
  /\ inbox \in [Devices -> Seq(Requests)] /\ answers \in [Devices -> Seq(Answers)]
  /\ phone \in [Devices -> {"down", "ready", "filtering", "unfiltered"}]
  /\ mac \in {"zero", "phone", "fallback"}
  /\ orderly \in SUBSET Devices /\ abandoned \in SUBSET Devices

\* Whatever devices are listed and whichever calls fail, a set-up either comes
\* to a session or gives everything back.
SetupEnds == (spc # "idle") ~> (spc \in {"idle", "session"})
=============================================================================
