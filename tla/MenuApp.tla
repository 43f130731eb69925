------------------------------ MODULE MenuApp -------------------------------
(***************************************************************************)
(* The menu bar app (ui/MenuApp.swift): its IPC client, the once-a-second  *)
(* tick, what the state lines of the daemon do to the menu, and the user's *)
(* clicks.  All of it runs on the main thread; the state updates that one  *)
(* poll dispatches to the main queue are run, in order, before the next    *)
(* tick, and are part of the poll's step here: a click that is handled     *)
(* between the poll and its updates is not told apart from one before it.  *)
(* The counters that make the app wait for the third failure before it     *)
(* gives up a connection are abstracted: the first failures change nothing *)
(* visible.                                                                *)
(***************************************************************************)
EXTENDS Ipc

CONSTANT MAX_CLICKS     \* bound of the model: actions of the user

ASSUME ClickAssumption == MAX_CLICKS \in Nat

VARIABLES
  ui,               \* is the app running?
  sockFd,           \* IPCClient.sockFd: the connection, or NoConn
  connectionState,  \* AppDelegate.connectionState
  autoConnect,      \* the persisted autoConnect default
  clicks,           \* user actions so far
  lastToggle        \* ghost: the last "enable" or "disable" written

appVars == <<ui, sockFd, connectionState, autoConnect, clicks, lastToggle>>

AppInit ==
  /\ ui = "off"
  /\ sockFd = NoConn
  /\ connectionState = "disconnected"
  /\ autoConnect \in {0, 1}
  /\ clicks = 0
  /\ lastToggle = "none"

StopVisible  == connectionState \in {"connected", "watching"}
StartVisible == ~StopVisible

Click == clicks < MAX_CLICKS /\ clicks' = clicks + 1

Launch ==
  /\ ui = "off"
  /\ ui' = "on"
  /\ connectionState' = "disconnected"
  /\ UNCHANGED <<sockFd, autoConnect, clicks, lastToggle, ipcVars>>

-----------------------------------------------------------------------------
(* sendCommand *)

Write(c, cmd) ==
  up' = [up EXCEPT ![c] = IF Len(@) < QLEN THEN Append(@, cmd) ELSE @]

Toggled(cmd) == lastToggle' = IF cmd = "stop" THEN lastToggle ELSE cmd

\* On the open connection, whose other end is still there.
SendOpen(cmd) ==
  /\ sockFd # NoConn
  /\ sockFd \in Served
  /\ Write(sockFd, cmd)
  /\ Toggled(cmd)
  /\ UNCHANGED <<srvVars, uiEnd, down, told, ui, sockFd, connectionState>>

\* The daemon's end is closed: SIGPIPE ends the app.
SendBroken ==
  /\ sockFd # NoConn
  /\ sockFd \notin Served
  /\ Disconnect(sockFd)
  /\ ui' = "off"
  /\ sockFd' = NoConn
  /\ connectionState' = "disconnected"
  /\ UNCHANGED lastToggle

\* On a connection opened for it.
SendNew(cmd) ==
  /\ sockFd = NoConn
  /\ \E c \in Unused :
       /\ Connect(c)
       /\ Write(c, cmd)
       /\ sockFd' = c
  /\ Toggled(cmd)
  /\ UNCHANGED <<ui, connectionState>>

-----------------------------------------------------------------------------
(* tick *)

TickConnect ==
  /\ ui = "on" /\ sockFd = NoConn
  /\ \/ /\ autoConnect = 1
        /\ SendNew("enable")
     \/ /\ autoConnect = 0
        /\ \E c \in Unused : Connect(c) /\ sockFd' = c
        /\ UNCHANGED <<up, ui, connectionState, lastToggle>>
  /\ UNCHANGED <<autoConnect, clicks>>

\* The third failure in a row.
TickConnectFails ==
  /\ ui = "on" /\ sockFd = NoConn
  /\ ~CanConnect
  /\ connectionState # "disconnected"
  /\ connectionState' = "disconnected"
  /\ UNCHANGED <<ui, sockFd, autoConnect, clicks, lastToggle, ipcVars>>

\* Everything the daemon sent is read, line by line; "disconnected" also
\* closes the socket.
StateLines(q) == {k \in 1 .. Len(q) : q[k] # "stats"}

\* Mutant: the first state line of a read stays.
ShownFirst(q) ==
  IF StateLines(q) = {} THEN connectionState
  ELSE q[CHOOSE k \in StateLines(q) : \A l \in StateLines(q) : k <= l]

Shown(q) ==
  IF StateLines(q) = {} THEN connectionState
  ELSE q[CHOOSE k \in StateLines(q) : \A l \in StateLines(q) : l <= k]

TickRead ==
  /\ ui = "on" /\ sockFd # NoConn
  /\ down[sockFd] # <<>>
  /\ connectionState' = Shown(down[sockFd])
  /\ IF Has(down[sockFd], "disconnected")
     THEN Disconnect(sockFd) /\ sockFd' = NoConn
     ELSE /\ down' = [down EXCEPT ![sockFd] = <<>>]
          /\ UNCHANGED <<srvVars, uiEnd, up, told, sockFd>>
  /\ UNCHANGED <<ui, autoConnect, clicks, lastToggle>>

\* End of file, for the third time.
TickEof ==
  /\ ui = "on" /\ sockFd # NoConn
  /\ down[sockFd] = <<>>
  /\ sockFd \notin Served
  /\ Disconnect(sockFd)
  /\ sockFd' = NoConn
  /\ connectionState' = "disconnected"
  /\ UNCHANGED <<ui, autoConnect, clicks, lastToggle>>

Tick == TickConnect \/ TickConnectFails \/ TickRead \/ TickEof

-----------------------------------------------------------------------------
(* The user *)

\* Without a daemon an alert is shown and nothing changes.
StartTethering ==
  /\ ui = "on" /\ StartVisible
  /\ Click
  /\ SendOpen("enable") \/ SendBroken \/ SendNew("enable")
  /\ UNCHANGED autoConnect

StopTethering ==
  /\ ui = "on" /\ StopVisible
  /\ Click
  /\ SendOpen(IF autoConnect = 1 THEN "stop" ELSE "disable") \/ SendBroken
  /\ UNCHANGED autoConnect

ToggleAutoConnect ==
  LET cmd == IF autoConnect = 1 THEN "disable" ELSE "enable"
  IN  /\ ui = "on"
      /\ Click
      /\ autoConnect' = 1 - autoConnect
      /\ \/ SendOpen(cmd) \/ SendBroken \/ SendNew(cmd)
         \/ /\ sockFd = NoConn /\ ~CanConnect
            /\ UNCHANGED <<ui, sockFd, connectionState, lastToggle, ipcVars>>

Quit ==
  /\ ui = "on"
  /\ Click
  /\ Disconnect(sockFd)
  /\ ui' = "off"
  /\ sockFd' = NoConn
  /\ connectionState' = "disconnected"
  /\ UNCHANGED <<autoConnect, lastToggle>>

AppNext ==
  Launch \/ Tick \/ StartTethering \/ StopTethering \/ ToggleAutoConnect \/ Quit

AppTypeOK ==
  /\ ui \in {"off", "on"}
  /\ sockFd \in Conns \cup {NoConn}
  /\ connectionState \in Lines \ {"stats"}
  /\ autoConnect \in {0, 1}
  /\ clicks \in 0 .. MAX_CLICKS
  /\ lastToggle \in {"none", "enable", "disable"}
=============================================================================
