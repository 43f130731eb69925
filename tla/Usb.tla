-------------------------------- MODULE Usb ---------------------------------
(***************************************************************************)
(* usb_find_rndis_device and usb_close_device (src/usb_device.c).  A       *)
(* device is its alternate settings in descriptor order, each with the     *)
(* number of its interface, its own number, its class and the directions   *)
(* of its bulk endpoints, and the interfaces ("comm", "data") a kernel     *)
(* driver holds.  Every libusb call whose result the code looks at may     *)
(* fail; attaching and detaching a kernel driver, whose results it         *)
(* ignores, succeed.  The interrupt endpoint is left out: nothing uses it. *)
(***************************************************************************)
EXTENDS Integers, Sequences

CONSTANT Buses          \* the device lists considered

\* An alternate setting of a descriptor: what the search looks at.
AltSettings ==
  [num : Nat, setting : Nat,
   class : {"wireless", "cdcAcm", "cdcVendor", "vendor", "cdcData", "other"},
   eps : SUBSET {"in", "out"}]

ASSUME BusAssumption ==
  \A b \in Buses : b \in Seq([alts : Seq(AltSettings), drivers : SUBSET {"comm", "data"}])

VARIABLES
  bus,                  \* the devices, in the order libusb lists them
  gone,                 \* those that are unplugged
  detached,             \* <<d, i>>: kernel driver detached, not attached again
  spc,                  \* control state of run_session and what it calls
  held,                 \* held[r]: acquisitions minus releases of r
  todo, then,           \* releases of the error path under way, where it leads
  cur,                  \* index of the device list
  ep_in, ep_out,        \* dev->ep_in, ep_out as <<device, setting>>, or None
  kernel_detached,      \* dev->kernel_detached
  abandoned             \* ghost: devices given up after libusb_open, since plugged in

busVars == <<bus, gone, detached>>
devVars == <<cur, ep_in, ep_out, kernel_detached, abandoned>>
pathVars == <<spc, held, todo, then>>

Order == <<"driver", "ctx", "handle", "comm", "data", "tun">>
Resources == {Order[i] : i \in 1 .. Len(Order)}

None == <<0, 0>>

Devices == DOMAIN bus

UsbInit ==
  /\ bus \in Buses /\ gone = {} /\ detached = {}
  /\ held = [r \in Resources |-> 0] /\ todo = <<>> /\ then = "idle"
  /\ cur = 1 /\ ep_in = None /\ ep_out = None
  /\ kernel_detached = 0 /\ abandoned = {}

-----------------------------------------------------------------------------
(* Reading the descriptors *)

IsRndis(alt) == alt.class \in {"wireless", "cdcAcm", "cdcVendor", "vendor"}
IsData(alt)  == alt.class = "cdcData"

LastOf(S)  == CHOOSE k \in S : \A l \in S : l <= k
FirstOf(S) == CHOOSE k \in S : \A l \in S : k <= l

RndisAlts(alts) == {k \in DOMAIN alts : IsRndis(alts[k])}

\* The last RNDIS setting names the communication interface.
CommIface(alts) ==
  IF RndisAlts(alts) = {} THEN -1 ELSE alts[LastOf(RndisAlts(alts))].num

\* The last CDC data setting after the first RNDIS one, or else the interface
\* that follows the communication interface.
DataIface(alts) ==
  LET after == {k \in DOMAIN alts :
                  IsData(alts[k]) /\ \E r \in RndisAlts(alts) : r < k}
      next  == CommIface(alts) + 1
  IN  IF after # {} THEN alts[LastOf(after)].num
      ELSE IF \E k \in DOMAIN alts : alts[k].num = next THEN next ELSE -1

Matches(alts) == RndisAlts(alts) # {} /\ DataIface(alts) >= 0

Ifaces(alts) == {CommIface(alts), DataIface(alts)}

\* Mutant: an endpoint that is already known is kept.
FindEndpointFirst(d, S, dir, old) ==
  LET with == {k \in S : dir \in bus[d].alts[k].eps}
  IN  IF with = {} \/ old # None THEN old ELSE <<d, LastOf(with)>>

\* find_endpoints over the settings S: the last endpoint of a direction wins,
\* and without one the field keeps its value.
FindEndpoint(d, S, dir, old) ==
  LET with == {k \in S : dir \in bus[d].alts[k].eps}
  IN  IF with = {} THEN old ELSE <<d, LastOf(with)>>

-----------------------------------------------------------------------------
(* Acquiring and releasing *)

Acquire(r) == held' = [held EXCEPT ![r] = @ + 1]

\* An error path, or the end of the session: the releases rs, then pc.
Unwind(rs, pc) ==
  /\ spc' = "unwind" /\ todo' = rs /\ then' = pc

\* Mutant: the context is not given back.
UsbCloseNoExit == <<"data", "comm", "attach", "handle">>

\* usb_close_device.
UsbClose == <<"data", "comm", "attach", "handle", "ctx">>

Release ==
  /\ spc = "unwind" /\ todo # <<>> /\ Head(todo) # "attach"
  /\ held' = [held EXCEPT ![Head(todo)] = @ - 1]
  /\ todo' = Tail(todo)
  /\ UNCHANGED <<busVars, devVars, spc, then>>

\* Mutant: the driver of the communication interface is not attached again.
NoAttach ==
  /\ spc = "unwind" /\ todo # <<>> /\ Head(todo) = "attach"
  /\ todo' = Tail(todo)
  /\ UNCHANGED <<busVars, devVars, spc, held, then>>

Attach ==
  /\ spc = "unwind" /\ todo # <<>> /\ Head(todo) = "attach"
  /\ detached' = IF kernel_detached = 1 THEN detached \ {<<cur, "comm">>} ELSE detached
  /\ todo' = Tail(todo)
  /\ UNCHANGED <<bus, gone, devVars, spc, held, then>>

Unwound ==
  /\ spc = "unwind" /\ todo = <<>>
  /\ spc' = then
  /\ UNCHANGED <<busVars, devVars, held, todo, then>>

-----------------------------------------------------------------------------
(* usb_find_rndis_device *)

\* memset, libusb_init.
FindStart ==
  /\ spc = "find"
  /\ cur' = 1 /\ ep_in' = None /\ ep_out' = None /\ kernel_detached' = 0
  /\ \/ Acquire("ctx") /\ spc' = "list" /\ UNCHANGED <<todo, then>>
     \/ Unwind(<<"driver">>, "idle") /\ UNCHANGED held
  /\ UNCHANGED <<busVars, abandoned>>

\* The loop begins, or there is no list; run_session destroys its driver when
\* nothing was found.
FindList ==
  /\ spc = "list"
  /\ \/ spc' = "probe" /\ UNCHANGED <<todo, then>>
     \/ Unwind(<<"ctx", "driver">>, "idle")
  /\ UNCHANGED <<busVars, devVars, held>>

FindNone ==
  /\ spc = "probe" /\ cur > Len(bus)
  /\ Unwind(<<"ctx", "driver">>, "idle")
  /\ UNCHANGED <<busVars, devVars, held>>

\* A descriptor cannot be read, it is no RNDIS device, or it cannot be opened.
Skip ==
  /\ spc = "probe" /\ cur <= Len(bus)
  /\ cur' = cur + 1
  /\ UNCHANGED <<busVars, pathVars, ep_in, ep_out, kernel_detached, abandoned>>

\* libusb_open and the detaching of kernel drivers.
Open ==
  LET active == {i \in bus[cur].drivers : <<cur, i>> \notin detached}
  IN  /\ spc = "probe" /\ cur <= Len(bus) /\ cur \notin gone
      /\ Matches(bus[cur].alts)
      /\ Acquire("handle")
      /\ detached' = detached \cup {<<cur, i>> : i \in active}
      /\ kernel_detached' = IF "comm" \in active THEN 1 ELSE kernel_detached
      /\ spc' = "claimComm"
      /\ UNCHANGED <<bus, gone, cur, ep_in, ep_out, abandoned, todo, then>>

\* Mutant: the loop does not go on to the next device.
GiveUpSame(rs) ==
  /\ Unwind(rs, "probe")
  /\ cur' = cur
  /\ abandoned' = abandoned \cup {cur}

\* continue, with the device closed again.
GiveUp(rs) ==
  /\ Unwind(rs, "probe")
  /\ cur' = cur + 1
  /\ abandoned' = abandoned \cup {cur}

ClaimComm ==
  /\ spc = "claimComm"
  /\ \/ /\ Acquire("comm") /\ spc' = "claimData"
        /\ UNCHANGED <<todo, then, cur, abandoned>>
     \/ GiveUp(<<"handle">>) /\ UNCHANGED held
  /\ UNCHANGED <<busVars, ep_in, ep_out, kernel_detached>>

ClaimData ==
  /\ spc = "claimData"
  /\ \/ /\ Acquire("data") /\ spc' = "scan"
        /\ UNCHANGED <<todo, then, cur, abandoned>>
     \/ GiveUp(<<"comm", "handle">>) /\ UNCHANGED held
  /\ UNCHANGED <<busVars, ep_in, ep_out, kernel_detached>>

\* Endpoints of every setting of both interfaces; when a direction is missing,
\* those of setting 1 of the data interface again, if it can be selected.
Scan ==
  LET alts == bus[cur].alts
      both == {k \in DOMAIN alts : alts[k].num \in Ifaces(alts)}
      alt1 == {k \in DOMAIN alts : alts[k].num = DataIface(alts) /\ alts[k].setting = 1}
      in1  == FindEndpoint(cur, both, "in", ep_in)
      out1 == FindEndpoint(cur, both, "out", ep_out)
  IN  /\ spc = "scan"
      /\ \E again \in IF None \in {in1, out1} THEN {alt1, {}} ELSE {{}} :
           /\ ep_in' = FindEndpoint(cur, again, "in", in1)
           /\ ep_out' = FindEndpoint(cur, again, "out", out1)
      /\ IF None \in {ep_in', ep_out'}
         THEN GiveUp(<<"data", "comm", "handle">>)
         ELSE spc' = "initSend" /\ UNCHANGED <<todo, then, cur, abandoned>>
      /\ UNCHANGED <<busVars, held, kernel_detached>>

FindStep ==
  \/ Release \/ Attach \/ Unwound \/ FindStart \/ FindList \/ FindNone \/ Skip \/ Open
  \/ ClaimComm \/ ClaimData \/ Scan

-----------------------------------------------------------------------------

\* The device is open, from the end of its scan to its closing.
Opened ==
  held["data"] = 1 /\ spc \notin {"scan", "unwind"}

Stack == INSTANCE Held
  WITH N <- Len(Order), held <- [i \in 1 .. Len(Order) |-> held[Order[i]]]

\* The resources of a session are released in reverse order, each once, on
\* every path of usb_find_rndis_device and run_session.
HeldSpec == Stack!Spec

\* The endpoints of a session are those of the device it has opened, unless
\* that device has none of that direction: the fields are not cleared between
\* two devices (usb_device.c:52), and what a device given up left in them must
\* not survive the scan of one that has its own.
EndpointsOwn ==
  Opened =>
    \A k \in DOMAIN bus[cur].alts :
      bus[cur].alts[k].num \in Ifaces(bus[cur].alts) =>
        /\ "in" \in bus[cur].alts[k].eps => ep_in[1] = cur
        /\ "out" \in bus[cur].alts[k].eps => ep_out[1] = cur

\* The kernel driver of the communication interface is attached again after
\* every session; it stays detached only from a device that was given up.
DriverBack ==
  spc = "idle" => \A d \in Devices : <<d, "comm">> \in detached => d \in abandoned
=============================================================================
