# A TLA+ model of android-tether

android-tether lets a Mac use an Android phone's USB tethering. A daemon, started
by launchd, talks RNDIS to the phone through libusb and moves packets between the
phone and a `utun` interface; a menu bar app shows the state and sends commands
over a Unix socket. This directory models the two programs - set-up of the phone,
packet path, threads, sessions, socket, configuration - checks them with TLC on
small instances, and proves every invariant and refinement that is checked, with
TLAPS, for every value of the constants. What is left to TLC alone is liveness.

## 1. Inventory

| Part | State | Operations | Interacts with |
|---|---|---|---|
| Packet bridge (`src/main.c:102-433`, `565-700`) | `running`, `disconnected`, `active_rx`, `active_tx`, `rx_pool`, `tx_pool[].in_use`, `tx_mutex`/`tx_cond` | threads `usb_to_tun`, `tun_to_usb`; callbacks `rx_complete`, `tx_complete`, `arp_tx_complete`; the session loop | libusb runs the callbacks in whichever thread handles events: `usb_to_tun`, and the main thread inside `drv->keepalive` |
| Gateway MAC (`main.c:150-165`, `378`, `frame.c`) | `gw_mac`, `gw_mac_learned` | learn, use | receive callback and transmit thread, no lock |
| IPC server (`ipc.c`) | listening socket, `client_fds`, `num_clients` | create, poll, send state, send statistics, destroy | main thread; kernel socket buffers |
| Daemon (`main.c:29-65`, `435-835`) | `g_running`, `g_watch_enabled`, `g_network_bound` | watch loop, one-shot loop, `run_session`, signal handler, atexit | all of the above; launchd restarts it |
| Network configuration (`utun.c`) | routes, configd service, global DNS key | set, undo | called by `run_session` and atexit |
| Menu bar app (`ui/MenuApp.swift`) | `sockFd`, `connectionState`, `autoConnect` | `tick`, `poll`, `updateState`, menu commands, quit | IPC socket, which any program of the user may connect to as well |
| DHCP client (`dhcp.c`) | offered address, server, options | `dhcp_discover` | synchronous USB transfers |
| RNDIS driver (`proto_rndis.c`, `rndis.c`) | `mac_addr`, what the phone has not answered and what nobody has read | INIT, QUERY, SET; keepalive; wrap and unwrap of frames | control transfers for requests, the bridge for frames |
| USB (`usb_device.c`) | context, handle, two claimed interfaces, endpoints, `kernel_detached` | find and claim a device, close it | libusb, kernel drivers; called by `run_session` |
| Frame conversion and ARP (`frame.c`, `arp.c`, `main.c:140-225`) | - | Ethernet to utun and back, answer to ARP requests, gratuitous ARP | receive callback and transmit thread |
| Configuration (`config.c`, start of `main`) | `tether_config_t` | defaults, default file, command line with `-c` | gives the daemon its mode |
| Stop trigger (`stats.c`) | a file | written by anyone, found and removed once a second in a session | ends the daemon |
| Statistics files, logging, installer | - | - | - |

What is hard in this code: callbacks that run in two threads and race the
teardown; counters changed after the call they count; a flag-guarded network
configuration that must be undone on every path; a byte-stream protocol without
framing on the daemon's side and without replies; process death by SIGPIPE;
DHCP and RNDIS answers that are not matched with their requests; a device structure
that is reused for the next device when one is given up; a different list of
releases on every error path; lengths that come from the phone; three sources of
configuration that overwrite one another.

What makes each part correct:

* bridge - the counters on which the teardown waits are exact; a transfer has one
  owner; nothing is freed or closed under a callback; a stop, or an unplugging,
  ends the session.
* set-up - whatever fails, what was acquired is released once and in reverse order;
  a set-up ends; the endpoints belong to the device that was opened; the link is
  reported up only if the phone was initialized; a well-behaved phone is used with
  its own address; kernel drivers come back.
* packet path - the frames delivered are exactly the whole ones and lie inside the
  transfer, and the loop ends, as long as the 32-bit sums of lengths do not wrap; a
  packet comes out as it went in; ARP requests for the host, and nothing else, are
  answered.
* gateway MAC - learned once and whole, and used whole from then on.
* IPC and app - a slot table that matches the descriptors, no forgotten
  descriptor, commands take effect, an app that runs is served and shows the truth.
* daemon - the network configuration it made is taken away outside sessions; the process ends
  when told to; it reconnects otherwise.
* configuration - each field has the last word said on it.
* DHCP - the request names an address with the server that offered it; the lease
  was acknowledged, and is the requested one; the call returns.

`PROJECT.json` lists the hazards line by line with the properties that cover them.

## 2. Modules

| Module | Models | Used by |
|---|---|---|
| `TxPool` | abstract: every transmit buffer has one owner | `Bridge` (refinement) |
| `Bridge` | one session's threads, callbacks and teardown | `MCBridge`, `BridgeProofs` |
| `GwMac` | learning and use of the gateway address | `MCGwMac`, `GwMacProofs` |
| `Session` | abstract: what the bridge promises `run_session` | `Bridge` (refinement), `Daemon` (its bridge) |
| `Ipc` | the socket, both ends | `Daemon`, `MenuApp` |
| `Daemon` | main thread, network configuration, stop trigger | `Tether` |
| `MenuApp` | the app | `Tether` |
| `Tether` | daemon, socket, app and other clients together | `MCTether`, `TetherProofs` |
| `Dhcp` | the DHCP client, the phone's servers, the session's use of the lease | `MCDhcp`, `DhcpProofs` |
| `Held` | abstract: resources acquired and released like a stack | `Usb` (refinement) |
| `Usb` | finding, claiming and closing the device | `Rndis` |
| `Rndis` | handshake and keepalive, and the phone's end of the control pipe | `Setup` |
| `Setup` | `run_session` before and after the bridge | `MCSetup`, `SetupProofs` |
| `Packets` | unwrapping a transfer, frame conversion, ARP, wrapping | `MCPackets`, `PacketsProofs` |
| `Config` | defaults, files and command line | `MCConfig`, `ConfigProofs` |
| `Lemmas` | facts about numbers, sequences and recursive functions | the proofs of `Tether`, `Dhcp`, `Setup`, `Packets` and `Config` |

The `MC*` modules extend the specification and, where a constant is a set of
devices, messages, files or modes, define its value; the `.cfg` files give the
constants their values and replace no definition.
Definitions whose comment begins with "Mutant" are deliberately wrong variants,
placed before the definition they vary; no specification uses them. Each shows
that the property it is paired with in `PROJECT.json` can fail.

### Bridge

Every variable of `bridge_ctx` that more than one thread uses is a variable. Sets
of slot numbers stand for the pools: `txBusy` for `in_use`, `rxFlight`/`txFlight`
for what libusb holds. A step is one access to a shared atomic, one libusb call or
one critical section of `tx_mutex` (three steps store `disconnected`, `running` and
a counter at once, which nobody can tell: `disconnected` is read only after the
joins), so `RxPrepareSubmit` and `RxCount`, `TxSubmit`
and `TxCount`, `RxCheckOn` and `RxResubmit` are separate steps, as in the code. A
cancel loop is a single step: cancelling a transfer commutes with every step but
the submission or completion of that transfer, and those orders are all reached
because the single step may be placed anywhere among them. libusb runs one
callback at a time (it holds the events lock), in a thread that is handling events
(`Handling`). `stopReq` and `timedOut` are ghosts.

`Bridge` implements two abstract specifications. `TxPool` says that a transmit
buffer has one owner. `Session` says what `run_session` relies on: `running` is
cleared for good, the bridge is over only after that, and from then on nobody
touches `running` or `disconnected`, so that reading `disconnected` after the joins
(`main.c:677-700`) reads its last value.

### GwMac

Two copies, byte by byte, one of them guarded by nothing. The bytes are
interleaved freely, as two unsynchronised `memcpy` calls may be.

### Ipc, Daemon, MenuApp, Tether

A connection is a number; `up` and `down` hold the lines in its two streams. One
`Poll` is one `ipc_server_poll`: it accepts at most one connection, reads all that
each client wrote, decodes each read in the order of the `strstr` tests, closes
clients at end of file and returns the last slot's command. A line that does not
fit is lost (the sockets do not block). A write to a connection the other side has
closed ends the writer (`Die`, `SendBroken`), after the slots before it were
served; neither program handles SIGPIPE.

`Daemon` has one control state per place where the process can die, be told to
stop, or change the network configuration. The steps of `run_session` before the
configuration (USB, RNDIS, MAC, DHCP, utun) change nothing another part sees and
are one step that succeeds or fails; `Setup` has them in detail. The bridge of a
session is `Br`, an instance of `Session`: its step `Stop` may happen at any time,
its step `Over` is the joins (that it comes is `StopEnds` of `Bridge`). The options
are variables that never change, with initial values from `Modes`, so that one run
covers several modes. `trigger` is the stop trigger file; `TriggerWritten` creates
it, `CheckTrigger` is the once-a-second check. `killed` is a ghost that records a death by SIGPIPE until a
later session's cleanup has removed what was left.

`MenuApp` runs on one thread. The updates a poll dispatches to the main queue
(`MenuApp.swift:208-211`) are part of the poll's step; a click that is handled after
the poll and before its updates is not explored. Two clicks within one second are
possible: they are steps between two ticks.
The ghost `told` is the last state line that went into a connection's stream.

`Tether` puts them together and adds the other clients of the socket, which anyone
may open: `OtherConnects` connects, `OtherSends` writes one of `OtherCommands`,
`OtherQuits` closes. `others` are their connections. Connection numbers stand for descriptors and
are given out in order, the smallest unused one first.

### Dhcp

The two loops of reads, with what each read may return, are kept; a frame has a
type, a server, an address and one option standing for the four that are treated
alike. Servers are external: they offer, acknowledge, refuse or stay silent. They
name themselves in option 54 and offer an address other than 0, as RFC 2131 asks of
them.

### Usb, Rndis, Setup

One control variable, `spc`, follows `run_session` from the creation of the driver
to the end of the session, with one step per libusb call whose result the code looks
at, each of which may fail (attaching and detaching a kernel driver, whose results
it ignores, always succeed). A device is
the list of its alternate settings (interface, setting, class, directions of the
bulk endpoints) and the interfaces a kernel driver holds; `CommIface`, `DataIface`
and `FindEndpoint` choose from it as the loops over the descriptors do, last match
first. An error path is the list of its releases (`todo`), taken one at a time and
mapped to the stack of `Held`. The device structure keeps its fields from one
device of the list to the next, as in the code, which clears it only once.

A phone has a queue of requests and one of answers; the driver writes a request,
sleeps, and reads once; the read may fail although an answer is there. So an answer can be late (still in the queue when the driver
has given up), refused, without data, or unsolicited (INDICATE_STATUS), and the next
handshake reads what the last one left. Unplugging empties the queues. `abandoned`
and `orderly` are ghosts.

### Packets

A transfer is a sequence of messages, whole, cut short, or padded; a message has the
lengths and offsets of its header, any words, which need not agree with its contents:
a frame is as long as `data_len` says (`Payload`). The loop
of `rndis_drv_unwrap_data` is one action per header, with the arithmetic of the
code modulo `WORD`. What it reads at an offset (`HeadersAt`) is the message that
begins there, zeros behind the last one, or, where an offset that has wrapped may
point to, anything. A wrapped offset can make the loop go on for ever; the model
follows it for `MAX_HEADERS` rounds and then lets it stay where it is (`GoesOn`).
`NoWrap` says that no sum of line 114 has wrapped so far: until one does, the
properties speak of frames, delivery and termination. What `process_rx_frame` does
with a frame (answer, convert, drop) is part of the step; replies are counted when
the bridge sets out to send them, before the allocation and submission that may fail
(`main.c:175-191`). A transfer is at most `RNDIS_BUF` bytes long, the length with
which it is submitted (`main.c:275`). The other direction is one step from utun
packet to RNDIS message.

### Config

A file is its key lines, a command line is its options; each is applied to the
record `cfg` in the order of the code. `Settings` and `LastWord` are the reference:
everything that was said, in order, and what the last of those who speak of a field
say.

## 3. Runs

Passing runs:

| Run | Checks | Bounds, and why they are enough |
|---|---|---|
| `Bridge` | `TypeOK`, `Accounting`, `RxFreeSafe`, `RxMissedBound`, `QuietAtClose`, refinements `PoolSpec` and `SessionSpec`, `StopEnds`, `UnplugEnds`, `TxRecycled` | 2 receive transfers, so that one can be in a callback while another is in flight; 1 transmit transfer, so that a full pool, the wait and the wakeup are common; batches of 1, one ARP reply. The theorems remove the bounds for all but the last three |
| `GwMac` | `FrameAfterLearning` | addresses of 3 bytes with 2 values: first, middle and last byte differ |
| `Dhcp` | `TypeOK`, `RequestConsistent`, `LeaseWasAcked`, `LeaseIsRequested`, `Returns` | 2 servers with 2 addresses each, 2 calls, 2 reads per answer, 2 queued frames: offers of both servers can be in one read, and answers to the first call are read by the second |
| `Tether` | `TypeOK`, `NetClean`, `OneSocket`, `AppShowsTold`, `Reconnects`, `AppIsServed`, `Terminates`, `TriggerStops` | watch mode, and one-shot mode with `--no-route`; 1 client slot and a backlog of 1, so that a stale connection occupies everything; 2 lines per stream, so that two state lines can be read together; 2 starts of the daemon, 1 user action (a click or the trigger file), no other clients; the app may also lose and reopen its connection without limit. The restart shows what a death left behind |
| `TetherStop` | `ClientSlots`, `StopHonoured` | both modes, without routes and DNS, which the properties do not depend on; 2 slots, 3 connections; the app, which sends "enable" on connecting when auto-connect is on, and one other client (`MAX_OTHERS`) that sends "disable" whenever it likes, so that the two commands meet in one poll, in either order of slots; no user actions, 1 start. "disable" stands for "stop" too: the session loop ends the session for both (`main.c:650-657`), and "disable" also turns auto-connect off |
| `Setup` | `TypeOK`, `EndpointsOwn`, `DriverBack`, `PromptMac`, `LinkIsUp`, refinement `HeldSpec`, `SetupEnds` | any number of sessions on three buses: a plain phone; a disk before a phone with a vendor class, no CDC data interface and its endpoints in setting 1; a device without an OUT endpoint before a plain phone. At most 2 requests and answers under way (`MAX_LAG`): an answer of the last session and a request of this one |
| `Packets` | `FramesInside`, `AllDelivered`, `ArpAnswered`, `RoundTrip`, `UnwrapEnds` | up to 3 messages of 15 kinds (each kind of frame, the shortest lengths, padding, wrong lengths, and a length that wraps offsets of 104 or more), cut short by 61 or 1 bytes, to the header of a message that wraps, whole, or padded by 8; 5 headers per transfer, so that the loop can go back and read messages again; utun packets around the smallest and largest length that is sent; `WORD` is 2^16, above a transfer, as 2^32 is |
| `Config` | `LastWordWins` | 5 default files (one missing), command lines of up to 3 options out of 18: enough for an option, a `-c` and an option after it; `INT_MAX` is 127 and one `--ui-pid` exceeds it |

The real sizes are 16 and 64 transfers, batches of 64, 4 clients, backlog 2, 50
attempts, 6 rounds of half a second. The invariants and refinements are proved for
every size (section 4); for the liveness properties a small pool, slot table or
queue is the harder case, because it is full more often. The transmit half of the
bound on strays, `TxStrayBound`, says nothing of a single transfer and is left to its
proof.

Runs that must fail, each a sentence of a comment or a document that the code does
not live up to (details under "findings" in `PROJECT.json`):

| Run | Sentence | What happens |
|---|---|---|
| `BridgeStopWasRequested` | `main.c:436` | losing all receive transfers counts as a requested stop |
| `TetherExitIsClean` | `README.md:18` | SIGPIPE ends the daemon with DNS and service configured |
| `TetherLastToggleWins` | `ipc.h:19-20` | "disable" and "enable" in one read mean "disable" |
| `ConfigOptionsPrevail` | `README.md:136`, `config.h:10-12` | a `-c` file overrides the options before it, the log level of `-v` included |

Other observations made while modelling, for which no run is kept:

* `main.c:301` says "Cancel all in-flight RX transfers"; a transfer that main's
  keepalive is resubmitting escapes. `main.c:307` and `315` say the same of transmit
  transfers and the drain; one that was submitted and not yet counted outlives it.
  `RxMissedBound` and `TxStrayBound` say that it is at most one of each.
* `ipc.h:18` says that "stop" stops the current session. A poll keeps one command for
  all clients (`ipc.c:151-163`): the "stop" of one is overwritten by the "enable" of
  another in a later slot, and the session goes on. This is the exception
  (`Overruled`) in `StopHonoured`.
* `utun.h:47` says the original DNS settings are restored. `utun_set_dns` saves them
  to a file, but `utun_restore_dns` only removes the key and deletes the file (value
  "removed" of `dns`); nothing reads it. `NetClean` therefore says that nothing the
  daemon has set is left, and not that everything is as it was.
* `main.c:152-155` says that `gw_mac` is only read by the transmit thread once
  `gw_mac_learned` is set; that thread (`main.c:378`) does not look at the flag, and a
  frame begun before the address is learned can carry a half-copied one.
  `FrameAfterLearning` is about the later ones.
* `proto_rndis.c:114` and `123` add a length of the phone to `offset` in 32 bits. When
  the sum wraps, the comparison with the length of the transfer holds although the
  message does not fit, the parser takes a frame that may lie behind the transfer, and
  the loop goes back to messages it has delivered, possibly for ever. This is why the
  properties of `Packets` end where a sum wraps; `Packets.cfg` has messages that do it.
* The endpoint fields are cleared once for all devices (`usb_device.c:52`): a device
  with only an IN endpoint, given up, and a later one with only an OUT endpoint give
  a session with the first one's IN endpoint. `EndpointsOwn` therefore speaks of
  devices that have their own.
* The scan looks at every alternate setting of the two interfaces, and selects
  setting 1 only if that found too little (`usb_device.c:171-184`): endpoints that
  exist in setting 1 alone are used without it being selected.
* Kernel drivers of a device that is given up, and that of the data interface, are
  never attached again (`DriverBack` says when the other one is).
* An answer that comes late, or unasked, shifts all later ones: QUERY reads the
  answer to something else and the fallback MAC is used, in every session until the
  phone is replugged. A QUERY answer without data leaves the MAC zero. `PromptMac`
  says that a phone that answers in time is not affected by what the driver does.
* A `--ui-pid` beyond `INT_MAX` passes its test and is cut down to an int.
* An IPv4 frame of 14 bytes becomes a utun packet of 4 bytes, a header without data.
* In watch mode without a session the trigger file is not looked for; the next
  session finds it in its first second and the daemon ends.
* An app that connects while a session runs is told no state until it ends
  ("status", `ipc.h:21`, is not implemented): it shows "disconnected" and hides
  the Stop button of `README.md:87`.
* An app that reads "disconnected" and a later "connected" in one poll closes its
  socket for the first and shows the second; it does not hear of that session's end.
* The atexit handler never finds anything to undo: by `BoundFlag` the flag is
  clear whenever `main` returns.
* A "disable" that is still unread when a one-shot session ends does not end the
  daemon, because the waiting loop only looks for "stop" (`StopHonoured` says which
  ones do).
* With answers of an earlier call in the queue a lease may differ from what was
  requested, so `LeaseIsRequested` is stated for the first call only.

### Fairness

* `Bridge`: weak fairness for each thread's own steps: each blocking call is
  bounded by a timeout (`libusb_handle_events_timeout`, `poll`, `usleep`). Not
  for the timed wakeup of the condition variable: termination does not depend on
  it. Strong fairness for the completion of a transmit transfer, which has a
  timeout of a second. For receive transfers only that those of a phone that is
  gone are reported: libusb reports NO_DEVICE or an error for them.
* `Tether`: weak fairness for the daemon's main thread (its calls end: for the
  set-up that is `SetupEnds`, for the joins `StopEnds`) and for the app's timer. None
  for the user, the other clients, signals, launchd, the phone or the bridge ending by
  itself.
* `Dhcp`: weak fairness of the client: each read returns within 200 ms. None for
  the servers.
* `Setup`: weak fairness of the set-up and the releases: every libusb call returns
  within its timeout. None for the phones, the user who plugs them, or the begin and
  end of a session.
* `Packets`: weak fairness of the unwrap loop, which calls nothing that blocks.

`CHECK_DEADLOCK` is on everywhere; the final states have an explicit stuttering
action where there are any.

## 4. Proofs

| Theorem | Says | Assumes |
|---|---|---|
| `BridgeProofs!TypeInvariant` | `Spec => []TypeOK` | `SizeAssumption`: at least one transfer of each kind, batches of at least one |
| `BridgeProofs!AccountingHolds` | `Accounting`, that is `RxAccounting` and `TxAccounting` | same |
| `BridgeProofs!SlotsHold` | `SlotsSafe`, `NoSlotLeak`: the slot invariants behind `PoolSpec` | same |
| `BridgeProofs!TeardownHolds` | `RxFreeSafe` | same |
| `BridgeProofs!StraysBounded` | `RxMissedBound`, `TxStrayBound` | same |
| `BridgeProofs!CloseIsQuiet` | `QuietAtClose` | same |
| `BridgeProofs!PoolRefinement` | `Spec => PoolSpec` | same |
| `BridgeProofs!SessionRefinement` | `Spec => SessionSpec` | same |
| `GwMacProofs!LearningHolds` | `LearnedWhole`, `FrameAfterLearning` | `MacAssumption`: a length of at least one, 0xFF is not among the phone's bytes |
| `TetherProofs!NetworkUndone` | `NetClean`, `BoundFlag` | `DaemonAssumption`: `Modes` are triples of 0 and 1 |
| `TetherProofs!TetherTypes`, `SlotsAreCounted`, `SocketNotLeaked`, `MenuShowsTold` | `TypeOK`, `ClientSlots`, `OneSocket`, `AppShowsTold` | also `IpcAssumption`, `ClickAssumption`, `OthersAssumption`: sizes are positive, and there are enough connection numbers for the slots and the backlog |
| `DhcpProofs!DhcpTypes`, `RequestsAreConsistent`, `LeasesWereAcked`, `LeasesAreRequested` | `TypeOK`, `RequestConsistent`, `LeaseWasAcked`, `LeaseIsRequested` | `DhcpAssumption`: servers are not the zero address, bounds are positive |
| `SetupProofs!ResourcesGivenBack` | `Spec => HeldSpec` | `BusAssumption`: a bus is a sequence of devices with descriptors |
| `SetupProofs!SetupTypes`, `EndpointsAreOwn`, `DriverComesBack`, `PromptPhoneMac`, `LinkReallyUp` | `TypeOK`, `EndpointsOwn`, `DriverBack`, `PromptMac`, `LinkIsUp` | same, and `LagAssumption`: at least one request may be under way |
| `PacketsProofs!FramesStayInside`, `WholeMessagesDelivered`, `ArpIsAnswered`, `PacketsRoundTrip` | `FramesInside`, `AllDelivered`, `ArpAnswered`, `RoundTrip` | `LengthAssumption`: the fields of a header are words, a message is not empty, a buffer is shorter than `WORD`; `TunAssumption`: the family before a packet of the kernel agrees with its version |
| `ConfigProofs!LastWordAlwaysWins` | `LastWordWins` | `FileAssumption`: files are sequences of lines, `-c` names one |

*Bridge.* The inductive invariant `IInv` joins the checked properties with four
facts none of them implies: `RxOrder` (while a receive transfer waits to be
counted, no slot after it is in flight or in a callback), `StopFirst` (`running` is 0 from the
moment `usb_to_tun` starts to cancel), `CallbackThread` (a callback runs in a
thread that handles events) and `Joined` (what the main thread has waited for has
ended). The accounting needs the slot discipline, because a cardinality only
changes by one if the slot was not already in the set. `RxFreeSafe` follows from
the accounting and the exit condition of the drain loop, and stays true because
`StopFirst` forbids further resubmissions but the one that was already decided,
which `RxAccounting` has counted. Frame lemmas (`MainFrame`, `RxFrame`, ...) say which
variables each thread leaves alone, so that each preservation proof has a step only
for the actions that matter. The refinement maps each slot to its owner; each
action changes the owner of at most one slot, and the slot invariants give the
guard of the abstract step. The refinement of `Session` needs one more invariant,
`Told` (`running` is 0 once the main thread has left its loop), and `Joined`, by
which no thread is left that could touch a flag when the bridge is over.

*GwMac.* `IInv` adds how far each copy has come: `Copied` (the bytes before
`rxByte` are those of the frame) and `Addressed` (so are the bytes of the frame
under construction, if it was begun after learning).

*Tether.* `NetInv` adds `BoundFlag` (`g_network_bound` is set exactly while there is
something to undo), the types of the options, and `Undoable`: what `restore_network_state` skips because of
an option was not done because of the same option, and after it only the routes may
be left, which closing the interface removes. The lemma `RestoreUndoes` is that fact for the
function itself; the app's steps change nothing it speaks of.

For the socket the inductive invariant is `TetherInv`: the daemon's control state
(`PendingSet`: where a pending line is sent there is one) and
`SocketInv`, which adds to the checked properties `OffClosed` (an app that is not
running has no connection), `ClosedForgotten` (nothing is kept for the app of a
connection it has closed) and `ToldOrShown` (the last state line of the
app's stream, or the state it shows if there is none, is what the connection was
told). `AppShowsTold` is the case of `ToldOrShown` in which the stream is empty; it
is not inductive, because it says nothing of lines that are still under way. The
proof goes through `SocketStep`: all steps of the daemon are one of six things as
seen from the socket, so that each invariant is shown for those six and for the
app's steps; what the other clients do is the opening (`NewConnection`) or closing
of a connection that is not the app's. `Poll` is the hard one: the clients after a closed slot are read in the
same step, so the count is related to the set of slots that survive
(`FiniteSetTheorems`).

*Dhcp.* `DhcpInv` adds `QueueTrue` (every frame in the queue tells the truth about
what its server did), `OfferKept` (from the OFFER on, server and address are a pair
that was offered) and `FirstCall` (before the first REQUEST there is no ACK, and
afterwards every ACK is for it). The last is what later calls do not have.
`ServerAfter`, the server named by the last DHCP frame read, is treated by lemmas of
its own.

*Setup.* Three invariants, each proved from the ones before it. `PathInv` ties the
control state to the number of resources held: while an error path is unwound, `todo`
is an end of the longest path (`ToIdle` or `ToProbe`), and its length is what is held.
So each step moves between two neighbouring levels (`Moves`), which is a step of
`Held`. `DevInv` says which devices may have their driver detached and where the
endpoints came from: a scan that finds an endpoint overwrites what the device before
left. `PipeInv` follows the control pipe: `PromptInv` (with a phone that has answered
in time there is at most the one request that is awaited, or its answer) and
`LinkInv` (an INIT answer means an initialized phone, and no INIT is queued behind
the SET).

*Packets.* That `offset` stays inside the transfer, and `ArpAnswered` and
`RoundTrip`, are proved for all headers. For the rest of `FramesInside` and for
`AllDelivered`, `PacketsInv` places the loop until a sum wraps (`NoWrap`): `offset`
is where message `k - 1` ends (`Position`), and each frame delivered belongs to a
message before `k`, in order, and each acceptable message before `k` was delivered
(`Placed`). `DoneAtEnd` says that the loop stops at the first message that is not
whole. `NoWrap` is not an assumption about the phone but says how far the loop has
come; it makes the sums of the code the sums of the numbers (`SumExact`), and the
header that is read the next message (`HeaderThere`).

*Config.* `ConfigInv` says that `cfg` shows everything said so far (`Shown`), from
the default file on. `LineSets` and `OptionSets` say that a word changes exactly the
fields it sets; `LastWordOfAppend` that it has the last word on them; `ShownFile`
and `SettingsOfAppend` carry this over to whole files and command lines.

*Recursive functions.* `End`, `LoadFile` and `Settings` are recursive functions. The
library's induction theorems cannot be instantiated by the provers here, so `Lemmas`
replaces induction by least counterexamples (`FirstExists`, from the well-foundedness
of `<`): a function with a given start and steps exists (`RecursionExists`), keeps
its type (`RecursionType`) and is unique (`RecursionUnique`). The three need no
operator as parameter, because the steps are given as a function.

Only model-checked are the liveness properties, which TLAPS does not prove under
fairness: `StopEnds`, `UnplugEnds`, `TxRecycled`, `Returns`, `StopHonoured`,
`Reconnects`, `AppIsServed`, `Terminates`, `TriggerStops`, `SetupEnds`
and `UnwrapEnds`.

## 5. Not modelled

The layout of packets, messages and JSON; the text of labels and log lines; the
statistics files, which nothing reads back; the splitting of configuration lines;
running out of memory, in particular while the transmit pool is built
(`main.c:579`) or an ARP reply is sent (`main.c:175-191`); what a frame behind the
transfer, which a wrapped sum may yield, contains; kernel drivers that cannot be
attached or detached; DHCP servers that do not name themselves; logging and the
installer. ARP reply transfers are neither counted nor
cancelled by the code; they appear in `Bridge` only as a number in flight. The USB
interrupt endpoint, `get_usb_filters` and the parser of INDICATE_STATUS are not used
by the program. Reads of `gw_mac` are interleaved, not reordered by the processor;
the code's other shared accesses are atomics with sequential consistency.

`Setup` and `Daemon` are not composed: the set-up changes nothing the daemon's other
parts see, and `Daemon` takes its outcome as a choice. `Bridge` and `Daemon` are
composed through `Session`, not directly.

## 6. Plan

All invariants and refinements that the runs check are proved. What can be added:

1. the safety part of liveness arguments: that each round of the unwrap loop
   increases `offset`, and that each step of an error path shortens `todo`, as action
   properties, so that `UnwrapEnds` and `SetupEnds` rest on a measure that is proved;
2. that once `running` is cleared no transfer is submitted but those already decided,
   which is behind `StopEnds`;
3. shorter proofs: a frame lemma for `Setup` as `Bridge` has them.
