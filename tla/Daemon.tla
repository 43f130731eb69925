------------------------------- MODULE Daemon -------------------------------
(***************************************************************************)
(* The daemon's main thread (src/main.c): the watch loop and the one-shot  *)
(* loop of main, run_session around the packet bridge, and what the daemon *)
(* does to the system's network configuration (src/utun.c).  The bridge    *)
(* itself is module Bridge; here it is what Bridge is shown to implement,  *)
(* a Session, and it ends when running is cleared (liveness of Bridge).    *)
(*                                                                         *)
(* One step is one system call sequence that nothing can interrupt: the    *)
(* signal handler only clears g_running, and the daemon dies only by a     *)
(* SIGPIPE from one of its socket writes, in which case neither            *)
(* run_session's cleanup nor the atexit handler runs.                      *)
(***************************************************************************)
EXTENDS Ipc

CONSTANTS
  Modes,          \* options considered: <<--watch, --no-route, --no-dns>>
  RETRIES,        \* half seconds between two attempts (6)
  MAX_STARTS      \* bound of the model: times the daemon is started

ASSUME DaemonAssumption ==
  /\ Modes \subseteq {0, 1} \X {0, 1} \X {0, 1}
  /\ RETRIES \in Nat \ {0}
  /\ MAX_STARTS \in Nat \ {0}

VARIABLES
  g_watch_mode, g_no_route, g_no_dns,
  dpc,               \* control state
  starts,            \* how often the daemon was started
  g_running,
  g_watch_enabled,
  g_network_bound,
  running,           \* bctx.running
  disconnected,      \* bctx.disconnected
  result,            \* what run_session returned
  tries,             \* index of the retry loop
  pending,           \* state line to send after a poll, or "none"
  trigger,           \* the stop trigger file exists
  routes,            \* some half-default route is installed
  service,           \* State:/Network/Service/android-tether exists
  dns,               \* State:/Network/Global/DNS: "orig", "tether", "removed"
  killed             \* ghost: died by SIGPIPE, and no session restored since

optVars == <<g_watch_mode, g_no_route, g_no_dns>>
ctlVars == <<starts, g_running, g_watch_enabled, running, disconnected,
             result, tries, pending, trigger>>
netVars == <<g_network_bound, routes, service, dns, killed>>
daemonVars == <<optVars, dpc, ctlVars, netVars>>

\* The options never change: launchd starts the daemon with the same ones.
DaemonInit ==
  /\ \E m \in Modes :
       g_watch_mode = m[1] /\ g_no_route = m[2] /\ g_no_dns = m[3]
  /\ dpc = "boot" /\ starts = 0
  /\ g_running = 1 /\ g_watch_enabled = 0 /\ g_network_bound = 0
  /\ running = 0 /\ disconnected = 0 /\ result = 0 /\ tries = 0
  /\ pending = "none" /\ trigger = 0
  /\ routes = 0 /\ service = 0 /\ dns = "orig" /\ killed = 0

Alive == dpc \notin {"boot", "exited", "dead"}

\* launchd starts the daemon (RunAtLoad, KeepAlive) with fresh globals.  The
\* "idle" sent to the clients of a new server reaches nobody.
Boot ==
  /\ dpc \in {"boot", "exited", "dead"}
  /\ dpc # "boot" => g_watch_mode = 1
  /\ starts < MAX_STARTS
  /\ starts' = starts + 1
  /\ g_running' = 1 /\ g_watch_enabled' = 0 /\ g_network_bound' = 0
  /\ running' = 0 /\ disconnected' = 0 /\ result' = 0 /\ tries' = 0
  /\ pending' = "none"
  /\ Create
  /\ dpc' = "top"
  /\ UNCHANGED <<trigger, routes, service, dns, killed>>

\* SIGINT or SIGTERM.
Signal ==
  /\ Alive
  /\ g_running = 1
  /\ g_running' = 0
  /\ UNCHANGED <<dpc, starts, g_watch_enabled, running, disconnected, result,
                 tries, pending, trigger, netVars, ipcVars>>

-----------------------------------------------------------------------------
(* Sending a line *)

\* The control states that write to the clients, and what they write.
Line ==
  CASE dpc \in {"topSend", "retrySend"} -> pending
    [] dpc = "sendConnected" -> "connected"
    [] dpc = "sendStats" -> "stats"
    [] dpc = "sendDisconnected" -> "disconnected"
    [] dpc = "sendWatching" -> "watching"
    [] OTHER -> "none"

SendAndGo(next) ==
  /\ SendToAll(Line)
  /\ dpc' = next

\* The first write to a connection its client has closed: the process ends
\* there.  The utun interface goes with it, and its routes.
Die ==
  /\ Line # "none"
  /\ Broken # {}
  /\ dpc' = "dead"
  /\ Deliver(Line)
  /\ CloseAll
  /\ routes' = 0
  /\ killed' = 1
  /\ UNCHANGED <<ctlVars, g_network_bound, service, dns>>

-----------------------------------------------------------------------------
(* main *)

\* The head of either loop of main; watch mode polls and sleeps while it is
\* disabled.
TopExit ==
  /\ dpc = "top" /\ g_running = 0
  /\ dpc' = "exit"
  /\ UNCHANGED <<ctlVars, netVars, ipcVars>>

TopPoll ==
  /\ dpc = "top" /\ g_running = 1 /\ g_watch_mode = 1
  /\ \E cmd \in Commands \cup {"none"} :
       /\ PollIfAny(cmd)
       /\ g_watch_enabled' = CASE cmd = "disable" -> 0
                               [] cmd = "enable" -> 1
                               [] OTHER -> g_watch_enabled
       /\ pending' = CASE cmd = "disable" -> "idle"
                       [] cmd = "enable" -> "watching"
                       [] OTHER -> "none"
       /\ dpc' = IF cmd \in {"disable", "enable"} THEN "topSend" ELSE "gate"
  /\ UNCHANGED <<starts, g_running, running, disconnected, result, tries, trigger,
                 netVars>>

TopSend ==
  /\ dpc = "topSend"
  /\ SendAndGo("gate")
  /\ UNCHANGED <<ctlVars, netVars>>

\* Mutant: the condition is inverted.
GateInverted ==
  /\ dpc = "gate"
  /\ dpc' = IF g_watch_enabled = 1 THEN "top" ELSE "setup"
  /\ UNCHANGED <<ctlVars, netVars, ipcVars>>

Gate ==
  /\ dpc = "gate"
  /\ dpc' = IF g_watch_enabled = 1 THEN "setup" ELSE "top"
  /\ UNCHANGED <<ctlVars, netVars, ipcVars>>

OneShotStart ==
  /\ dpc = "top" /\ g_running = 1 /\ g_watch_mode = 0
  /\ dpc' = "setup"
  /\ UNCHANGED <<ctlVars, netVars, ipcVars>>

-----------------------------------------------------------------------------
(* run_session *)

\* No device, no RNDIS, no MAC address, a bad address, no utun interface or
\* one that cannot be configured: nothing of the system was changed.
SetupFail ==
  /\ dpc = "setup"
  /\ result' = g_running
  /\ dpc' = "after"
  /\ UNCHANGED <<starts, g_running, g_watch_enabled, running, disconnected,
                 tries, pending, trigger, netVars, ipcVars>>

SetupDone ==
  /\ dpc = "setup"
  /\ dpc' = "dns"
  /\ UNCHANGED <<ctlVars, netVars, ipcVars>>

SetDns ==
  /\ dpc = "dns"
  /\ dns' = IF g_no_dns = 0 THEN "tether" ELSE dns
  /\ dpc' = "service"
  /\ UNCHANGED <<ctlVars, g_network_bound, routes, service, killed, ipcVars>>

RegisterService ==
  /\ dpc = "service"
  /\ service' = IF g_no_dns = 0 \/ g_no_route = 0 THEN 1 ELSE service
  /\ dpc' = "route"
  /\ UNCHANGED <<ctlVars, g_network_bound, routes, dns, killed, ipcVars>>

\* The result of route(8) is not looked at.
SetDefaultRoute ==
  /\ dpc = "route"
  /\ routes' \in IF g_no_route = 0 THEN {0, 1} ELSE {routes}
  /\ dpc' = "bind"
  /\ UNCHANGED <<ctlVars, g_network_bound, service, dns, killed, ipcVars>>

Bind ==
  /\ dpc = "bind"
  /\ g_network_bound' = 1
  /\ dpc' = "sendConnected"
  /\ UNCHANGED <<ctlVars, routes, service, dns, killed, ipcVars>>

StartBridge ==
  /\ dpc = "sendConnected"
  /\ running' = 1 /\ disconnected' = 0
  /\ SendAndGo("first")
  /\ UNCHANGED <<starts, g_running, g_watch_enabled, result, tries, pending, trigger, netVars>>

\* Mutant: the session loop does not look at g_running.
InLoopBridgeOnly == running = 1

InLoop == g_running = 1 /\ running = 1

\* The packet bridge, as the abstract session that Bridge implements.
Bridging == {"first", "active", "sendStats", "tick", "poll", "join"}

Br == INSTANCE Session WITH over <- IF dpc \in Bridging THEN 0 ELSE 1

\* The phone is unplugged, or no receive transfer is left.
BridgeStops ==
  /\ UNCHANGED <<dpc, starts, g_running, g_watch_enabled, result, tries,
                 pending, trigger, netVars, ipcVars>>
  /\ Br!Stop

\* Once a second: statistics (not the first time), then the requests to stop.
ActiveFirst ==
  /\ dpc = "first" /\ InLoop
  /\ dpc' = "tick"
  /\ UNCHANGED <<ctlVars, netVars, ipcVars>>

ActiveStats ==
  /\ dpc = "active" /\ InLoop
  /\ dpc' = IF num_clients > 0 THEN "sendStats" ELSE "tick"
  /\ UNCHANGED <<ctlVars, netVars, ipcVars>>

SendStats ==
  /\ dpc = "sendStats"
  /\ SendAndGo("tick")
  /\ UNCHANGED <<ctlVars, netVars>>

\* The process of --ui-pid is found gone, before the trigger is looked for.
UiGone ==
  /\ dpc = "tick" /\ g_watch_mode = 0 /\ g_running = 1
  /\ g_running' = 0 /\ running' = 0
  /\ UNCHANGED <<dpc, starts, g_watch_enabled, disconnected, result, tries,
                 pending, trigger, netVars, ipcVars>>

\* Mutant: only the session is ended.
CheckTriggerSession ==
  /\ dpc = "tick"
  /\ running' = IF trigger = 1 THEN 0 ELSE running
  /\ trigger' = 0
  /\ dpc' = "poll"
  /\ UNCHANGED <<starts, g_running, g_watch_enabled, disconnected, result, tries,
                 pending, netVars, ipcVars>>

\* stats_check_stop_trigger removes the file it finds.
CheckTrigger ==
  /\ dpc = "tick"
  /\ g_running' = IF trigger = 1 THEN 0 ELSE g_running
  /\ running' = IF trigger = 1 THEN 0 ELSE running
  /\ trigger' = 0
  /\ dpc' = "poll"
  /\ UNCHANGED <<starts, g_watch_enabled, disconnected, result, tries, pending,
                 netVars, ipcVars>>

\* Mutant: only "stop" is handled.
EndsOnStopOnly(cmd) == cmd = "stop"

EndsSession(cmd) == cmd \in {"stop", "disable"}

ActivePoll ==
  /\ dpc = "poll"
  /\ \E cmd \in Commands \cup {"none"} :
       /\ PollIfAny(cmd)
       /\ running' = IF EndsSession(cmd) THEN 0 ELSE running
       /\ g_watch_enabled' = CASE cmd = "disable" -> 0
                               [] cmd = "enable" -> 1
                               [] OTHER -> g_watch_enabled
       /\ g_running' = IF EndsSession(cmd) /\ g_watch_mode = 0 THEN 0 ELSE g_running
  /\ dpc' = "active"
  /\ UNCHANGED <<starts, disconnected, result, tries, pending, trigger, netVars>>

\* The threads are told to stop, and joined before disconnected is read: one
\* of them may still find the phone unplugged in between.
ActiveExit ==
  /\ dpc \in {"first", "active"} /\ ~InLoop
  /\ running' = 0
  /\ dpc' = "join"
  /\ UNCHANGED <<starts, g_running, g_watch_enabled, disconnected, result, tries,
                 pending, trigger, netVars, ipcVars>>

Join ==
  /\ dpc = "join"
  /\ dpc' = "sendDisconnected"
  /\ Br!Over
  /\ UNCHANGED <<starts, g_running, g_watch_enabled, result, tries, pending,
                 trigger, netVars, ipcVars>>

SendDisconnected ==
  /\ dpc = "sendDisconnected"
  /\ SendAndGo("restore")
  /\ UNCHANGED <<ctlVars, netVars>>

\* Mutant: the DNS settings are left alone.
RestoreForgetsDns ==
  IF g_network_bound = 1
  THEN /\ routes' = IF g_no_route = 0 THEN 0 ELSE routes
       /\ service' = 0
       /\ dns' = dns
       /\ g_network_bound' = 0
       /\ killed' = 0
  ELSE UNCHANGED netVars

\* restore_network_state.  The saved DNS settings are not read: the key is
\* removed.
RestoreNetworkState ==
  IF g_network_bound = 1
  THEN /\ routes' = IF g_no_route = 0 THEN 0 ELSE routes
       /\ service' = 0
       /\ dns' = IF g_no_dns = 0 THEN "removed" ELSE dns
       /\ g_network_bound' = 0
       /\ killed' = 0
  ELSE UNCHANGED netVars

Restore ==
  /\ dpc = "restore"
  /\ RestoreNetworkState
  /\ dpc' = "close"
  /\ UNCHANGED <<ctlVars, ipcVars>>

\* Closing the utun descriptor removes the interface and its routes.
CloseSession ==
  /\ dpc = "close"
  /\ routes' = 0
  /\ result' = IF disconnected = 1 /\ g_running = 1 THEN 1 ELSE 0
  /\ dpc' = "after"
  /\ UNCHANGED <<starts, g_running, g_watch_enabled, running, disconnected,
                 tries, pending, trigger, g_network_bound, service, dns, killed,
                 ipcVars>>

-----------------------------------------------------------------------------
(* main, after a session *)

After ==
  /\ dpc = "after"
  /\ tries' = 0
  /\ dpc' = CASE g_watch_mode = 1 /\ result = 1 /\ g_running = 1 ->
                   IF listening = 1 /\ g_watch_enabled = 1
                   THEN "sendWatching" ELSE "retry"
              [] g_watch_mode = 0 /\ result = 1 -> "retry"
              [] g_watch_mode = 0 /\ result = 0 -> "exit"
              [] OTHER -> "top"
  /\ UNCHANGED <<starts, g_running, g_watch_enabled, running, disconnected,
                 result, pending, trigger, netVars, ipcVars>>

SendWatching ==
  /\ dpc = "sendWatching"
  /\ SendAndGo("retry")
  /\ UNCHANGED <<ctlVars, netVars>>

\* Mutant: one iteration too many.
RetryingOnceMore == tries <= RETRIES /\ g_running = 1 /\ (g_watch_mode = 1 => g_watch_enabled = 1)

Retrying == tries < RETRIES /\ g_running = 1 /\ (g_watch_mode = 1 => g_watch_enabled = 1)

RetryPoll ==
  /\ dpc = "retry" /\ Retrying /\ g_watch_mode = 1
  /\ tries' = tries + 1
  /\ \E cmd \in Commands \cup {"none"} :
       /\ PollIfAny(cmd)
       /\ g_watch_enabled' = IF cmd = "disable" THEN 0 ELSE 1
       /\ pending' = IF cmd = "disable" THEN "idle" ELSE "none"
       /\ dpc' = IF cmd = "disable" THEN "retrySend" ELSE "retry"
  /\ UNCHANGED <<starts, g_running, running, disconnected, result, trigger, netVars>>

RetrySend ==
  /\ dpc = "retrySend"
  /\ SendAndGo("retry")
  /\ UNCHANGED <<ctlVars, netVars>>

\* The trigger file stops the one-shot daemon here too, and so may the end of
\* the UI process.
OneShotWait ==
  /\ dpc = "retry" /\ Retrying /\ g_watch_mode = 0
  /\ tries' = tries + 1
  /\ trigger' = 0
  /\ \E cmd \in Commands \cup {"none"} :
       /\ PollIfAny(cmd)
       /\ g_running' \in IF cmd = "stop" \/ trigger = 1 THEN {0} ELSE {0, 1}
  /\ UNCHANGED <<dpc, starts, g_watch_enabled, running, disconnected, result,
                 pending, netVars>>

RetryEnd ==
  /\ dpc = "retry" /\ ~Retrying
  /\ dpc' = "top"
  /\ UNCHANGED <<ctlVars, netVars, ipcVars>>

Exit ==
  /\ dpc = "exit"
  /\ CloseAll
  /\ dpc' = "atexit"
  /\ UNCHANGED <<down, told, ctlVars, netVars>>

AtExit ==
  /\ dpc = "atexit"
  /\ RestoreNetworkState
  /\ dpc' = "exited"
  /\ UNCHANGED <<ctlVars, ipcVars>>

-----------------------------------------------------------------------------

Step ==
  \/ Die
  \/ TopExit \/ TopPoll \/ TopSend \/ Gate \/ OneShotStart
  \/ SetupFail \/ SetupDone \/ SetDns \/ RegisterService \/ SetDefaultRoute
  \/ Bind \/ StartBridge \/ ActiveFirst \/ ActiveStats \/ SendStats
  \/ CheckTrigger \/ ActivePoll \/ ActiveExit \/ Join \/ SendDisconnected \/ Restore \/ CloseSession
  \/ After \/ SendWatching \/ RetryPoll \/ RetrySend \/ OneShotWait \/ RetryEnd
  \/ Exit \/ AtExit

DaemonNext ==
  (Boot \/ Signal \/ BridgeStops \/ UiGone \/ Step) /\ UNCHANGED optVars

DaemonTypeOK ==
  /\ optVars \in Modes
  /\ dpc \in {"boot", "top", "topSend", "gate", "setup", "dns", "service",
              "route", "bind", "sendConnected", "first", "active", "sendStats",
              "tick", "poll", "join",
              "sendDisconnected", "restore", "close", "after", "sendWatching",
              "retry", "retrySend", "exit", "atexit", "exited", "dead"}
  /\ starts \in 0 .. MAX_STARTS
  /\ g_running \in {0, 1} /\ g_watch_enabled \in {0, 1}
  /\ g_network_bound \in {0, 1}
  /\ running \in {0, 1} /\ disconnected \in {0, 1} /\ result \in {0, 1}
  /\ tries \in 0 .. RETRIES
  /\ pending \in {"none", "idle", "watching"} /\ trigger \in {0, 1}
  /\ routes \in {0, 1} /\ service \in {0, 1}
  /\ dns \in {"orig", "tether", "removed"}
  /\ killed \in {0, 1}

\* The states of run_session in which the system's network is changed.
Binding == dpc \in {"dns", "service", "route", "bind"}
Bound   == dpc \in Bridging \cup {"sendConnected", "sendDisconnected", "restore"}

\* Nothing the daemon has configured is in force.  That is not the state before
\* the session: utun_restore_dns removes the DNS key and never reads the backup
\* (utun.c:239-254), although utun.h:47 says it restores the original settings.
NothingLeft == routes = 0 /\ service = 0 /\ dns # "tether"

\* Outside a session, and after an orderly exit, no route, service or DNS
\* setting of the daemon is left: run_session takes back on every path what it
\* configured, as long as no SIGPIPE ended the process since the last cleanup.
\* It does not say that the DNS settings are those of before.
NetClean == killed = 0 /\ ~Binding /\ ~Bound /\ dpc # "close" => NothingLeft

\* g_network_bound, on which both run_session and the atexit handler rely to
\* decide whether there is something to undo, is set exactly from the end of
\* the configuration to its undoing.
BoundFlag == dpc # "dead" => (g_network_bound = 1 <=> Bound)

\* A request to terminate is followed by the end of the process.
Terminates == (Alive /\ g_running = 0) ~> (dpc \in {"exited", "dead"})

\* README.md:18 "Reliably restores macOS network routes and DNS on exit".
ExitIsClean == dpc \in {"exited", "dead"} => NothingLeft
=============================================================================
