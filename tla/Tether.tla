------------------------------- MODULE Tether -------------------------------
(***************************************************************************)
(* The daemon and the menu bar app together, over the socket of Ipc.  The  *)
(* socket is open to everyone: other clients (a second instance of the     *)
(* app, a script) are what the daemon sees of them, connections with       *)
(* commands on them.                                                       *)
(***************************************************************************)
EXTENDS Daemon, MenuApp

CONSTANTS
  MAX_OTHERS,     \* bound of the model: other clients at once
  OtherCommands   \* what they send

ASSUME OthersAssumption == MAX_OTHERS \in Nat /\ OtherCommands \subseteq Commands

VARIABLE others         \* connections of other clients

vars == <<daemonVars, ipcVars, appVars, others>>

Init == DaemonInit /\ IpcInit /\ AppInit /\ others = {}

DaemonMoves == DaemonNext /\ UNCHANGED <<appVars, others>>
AppMoves    == AppNext /\ UNCHANGED <<daemonVars, others>>

\* Bounded by the number of such clients.
OtherConnects ==
  /\ Cardinality(others) < MAX_OTHERS
  /\ \E c \in Unused : Connect(c) /\ others' = others \cup {c}
  /\ UNCHANGED <<up, daemonVars, appVars>>

\* Accepted or not, as often as it likes.
OtherSends ==
  /\ \E c \in others \cap Served, cmd \in OtherCommands : Write(c, cmd)
  /\ UNCHANGED <<srvVars, uiEnd, down, told, daemonVars, appVars, others>>

OtherQuits ==
  /\ \E c \in others :
       /\ Disconnect(c)
       /\ others' = others \ {c}
  /\ UNCHANGED <<daemonVars, appVars>>

\* The daemon has ended and the bound allows no further start.
Finished == dpc \in {"exited", "dead"} /\ UNCHANGED vars

\* Someone writes the stop trigger file (the way to stop older versions).
TriggerWritten ==
  /\ Click
  /\ trigger = 0
  /\ trigger' = 1
  /\ UNCHANGED <<optVars, dpc, starts, g_running, g_watch_enabled, running,
                 disconnected, result, tries, pending, netVars, ipcVars,
                 ui, sockFd, connectionState, autoConnect, lastToggle, others>>

Next ==
  \/ DaemonMoves \/ AppMoves
  \/ OtherConnects \/ OtherSends \/ OtherQuits
  \/ TriggerWritten \/ Finished

Spec == Init /\ [][Next]_vars

(***************************************************************************)
(* Fairness.  The daemon's main thread is never blocked for good: every    *)
(* call in it is bounded by a timeout or is a command that ends, and the   *)
(* joins end (StopEnds of Bridge).  The app's timer fires every second     *)
(* while it runs.  Nothing is assumed of the user, of other clients, of    *)
(* launchd, of signals or of the phone.                                    *)
(***************************************************************************)
FairSpec ==
  /\ Spec
  /\ WF_vars(Step /\ UNCHANGED <<optVars, appVars, others>>)
  /\ WF_vars(Tick /\ UNCHANGED <<daemonVars, others>>)

-----------------------------------------------------------------------------

\* Type correctness of daemon, socket and app.
TypeOK == DaemonTypeOK /\ IpcTypeOK /\ AppTypeOK /\ others \in SUBSET Conns

\* The app never has a descriptor open that it has forgotten: the connections
\* that are open are its own and those of the other clients.
OneSocket ==
  /\ uiEnd \ others = IF sockFd = NoConn THEN {} ELSE {sockFd}
  /\ others \subseteq uiEnd

\* Everything written has been read and the app's connection is accepted.
Settled ==
  /\ ui = "on" /\ sockFd # NoConn
  /\ \E i \in ClientIdx : client_fds[i] = sockFd
  /\ backlog = <<>>
  /\ \A c \in Conns : up[c] = <<>> /\ down[c] = <<>>

InSession == dpc \in {"first", "active", "sendStats", "tick", "poll"}

\* Once everything is read the menu shows the last state the daemon told this
\* connection, also when several state lines arrive in one poll: the updates
\* are applied in their order (MenuApp.swift:208).  What a connection was not
\* told, because it was opened later, the menu does not know.
AppShowsTold ==
  Settled /\ told[sockFd] # "none" => connectionState = told[sockFd]

\* A stop trigger file that exists when the session loop looks for it ends the
\* daemon, in watch mode too, and not only the session.
TriggerStops == (dpc = "tick" /\ trigger = 1) ~> (dpc \in {"exited", "dead"})

StopArrived ==
  \E i \in ClientIdx :
    /\ client_fds[i] # NoConn
    /\ Has(up[client_fds[i]], "stop") \/ Has(up[client_fds[i]], "disable")

\* The session loop is about to read the stop together with an "enable" in a
\* later slot, which is the one that ipc_server_poll returns.
Overruled ==
  /\ dpc = "poll" /\ StopArrived
  /\ \E i \in Ready : (\A j \in Ready : j <= i) /\ Decode(up[Accepted[i]]) = "enable"

\* In watch mode a stop or disable on the connection of an accepted client ends
\* the session.  In one-shot mode, once the session loop is about to read it, it
\* ends the daemon, even if the phone is unplugged at the same moment
\* (main.c:650-657, 700): there is no reconnection.  The exceptions: an "enable"
\* of another client read in the same poll (ipc.c:151-163), for which ipc.h:18
\* makes none, and in one-shot mode a "disable" that is still unread when the
\* session ends.
StopHonoured ==
  (StopArrived /\ IF g_watch_mode = 1 THEN InSession ELSE dpc \in {"tick", "poll"})
    ~> (\/ Overruled
        \/ IF g_watch_mode = 1 THEN ~InSession ELSE dpc \in {"exited", "dead"})

\* In watch mode the daemon tries again after a session or a failed attempt,
\* until it is disabled or told to end.
Reconnects ==
  (g_watch_mode = 1 /\ dpc = "after") ~>
    (dpc \in {"setup", "exited", "dead"} \/ g_watch_enabled = 0)

\* An app that runs beside a daemon with a server gets a slot of it, whatever
\* stale connections occupy the others.
AppIsServed ==
  (ui = "on" /\ listening = 1) ~>
    (ui = "off" \/ listening = 0 \/ \E i \in ClientIdx : client_fds[i] \in uiEnd)

-----------------------------------------------------------------------------
(* What the documentation says, and the code does not guarantee *)

\* include/ipc.h:19-20: "disable" disables and "enable" enables auto-connect.
LastToggleWins ==
  Settled /\ Alive =>
    /\ lastToggle = "enable" => g_watch_enabled = 1
    /\ lastToggle = "disable" => g_watch_enabled = 0
=============================================================================
