-------------------------------- MODULE Ipc ---------------------------------
(***************************************************************************)
(* The Unix-domain socket between the daemon (src/ipc.c) and the menu bar  *)
(* app.  A connection has two ends and a byte stream each way; a JSON line *)
(* is abstracted to its command or state.  The daemon reads whatever has   *)
(* arrived on a connection in one read and turns it into one command; the  *)
(* sockets are non-blocking, so a line for which the buffer has no room is *)
(* lost.  Writing to a connection whose other end is closed raises SIGPIPE,*)
(* which neither program handles.                                          *)
(***************************************************************************)
EXTENDS Integers, Sequences, FiniteSets

CONSTANTS
  MAX_CLIENTS,    \* slots of client_fds (4 in the code)
  BACKLOG,        \* argument of listen (2)
  MAX_CONNS,      \* bound of the model: connections existing at once
  QLEN            \* lines a socket buffer holds

ASSUME IpcAssumption ==
  /\ MAX_CLIENTS \in Nat \ {0}
  /\ BACKLOG \in Nat \ {0}
  /\ MAX_CONNS \in Nat /\ MAX_CONNS >= MAX_CLIENTS + BACKLOG
  /\ QLEN \in Nat \ {0}

ClientIdx == 0 .. MAX_CLIENTS - 1
Conns     == 1 .. MAX_CONNS
NoConn    == 0                        \* a descriptor of -1

Commands == {"stop", "disable", "enable"}
Lines    == {"connected", "disconnected", "watching", "idle", "stats"}

VARIABLES
  listening,      \* the daemon has a server: ipc_server_create succeeded
  backlog,        \* connections not yet accepted
  client_fds,     \* ipc_server.client_fds
  num_clients,    \* ipc_server.num_clients
  uiEnd,          \* connections whose end in the app is open
  up,             \* up[c]: commands sent by the app and not yet read
  down,           \* down[c]: lines sent by the daemon and not yet read
  told            \* ghost: told[c]: the last state line that went into down[c]

srvVars  == <<listening, backlog, client_fds, num_clients>>
wireVars == <<uiEnd, up, down, told>>
ipcVars  == <<srvVars, wireVars>>

IpcInit ==
  /\ listening = 0
  /\ backlog = <<>>
  /\ client_fds = [i \in ClientIdx |-> NoConn]
  /\ num_clients = 0
  /\ uiEnd = {}
  /\ up = [c \in Conns |-> <<>>]
  /\ down = [c \in Conns |-> <<>>]
  /\ told = [c \in Conns |-> "none"]

Has(q, m) == \E k \in 1 .. Len(q) : q[k] = m

\* The connections whose daemon end is open.
Served == {c \in Conns : Has(backlog, c) \/ \E i \in ClientIdx : client_fds[i] = c}

Unused == {c \in Conns : c \notin uiEnd /\ c \notin Served}

-----------------------------------------------------------------------------
(* ipc_server_create, ipc_server_destroy and the end of the process *)

Create ==
  /\ listening' \in {0, 1}
  /\ UNCHANGED <<backlog, client_fds, num_clients, wireVars>>

\* Every descriptor of the daemon is closed: by ipc_server_destroy, or by the
\* kernel when the process dies.  What it has sent stays readable.
CloseAll ==
  /\ listening' = 0
  /\ backlog' = <<>>
  /\ client_fds' = [i \in ClientIdx |-> NoConn]
  /\ num_clients' = 0
  /\ up' = [c \in Conns |-> <<>>]
  /\ UNCHANGED uiEnd

-----------------------------------------------------------------------------
(* ipc_server_poll *)

FreeIdx == {i \in ClientIdx : client_fds[i] = NoConn}

\* At most one connection is accepted; without a free slot it is closed.
Accepting == backlog # <<>> /\ FreeIdx # {}

Accepted ==
  [i \in ClientIdx |->
     IF /\ Accepting
        /\ i \in FreeIdx
        /\ \A j \in FreeIdx : i <= j
     THEN Head(backlog) ELSE client_fds[i]]

\* The strstr tests, in their order, on everything one read returned.
Decode(q) ==
  IF Has(q, "stop") THEN "stop"
  ELSE IF Has(q, "disable") THEN "disable"
  ELSE "enable"

\* Slots with something to read.
Ready == {i \in ClientIdx : Accepted[i] # NoConn /\ up[Accepted[i]] # <<>>}

\* Mutant: a read that returns 0 does not close the client.
GoneNever == {}

\* Slots whose client has hung up: they are closed.
Gone == {i \in ClientIdx : /\ Accepted[i] # NoConn
                           /\ up[Accepted[i]] = <<>>
                           /\ Accepted[i] \notin uiEnd}

\* Mutant: close_client does not decrement num_clients.
CountAcceptedOnly == num_clients + (IF Accepting THEN 1 ELSE 0)

ClientCount == num_clients + (IF Accepting THEN 1 ELSE 0) - Cardinality(Gone)

\* Commands are read slot by slot and the last one read is returned: those
\* of the slots before it are forgotten.
Poll(cmd) ==
  /\ listening = 1
  /\ \/ Ready = {} /\ cmd = "none"
     \/ \E i \in Ready : /\ \A j \in Ready : j <= i
                         /\ cmd = Decode(up[Accepted[i]])
  /\ backlog' = IF backlog = <<>> THEN <<>> ELSE Tail(backlog)
  /\ client_fds' = [i \in ClientIdx |-> IF i \in Gone THEN NoConn ELSE Accepted[i]]
  /\ num_clients' = ClientCount
  /\ up' = [c \in Conns |->
              IF \/ \E i \in Ready : Accepted[i] = c
                 \/ backlog # <<>> /\ ~Accepting /\ c = Head(backlog)
              THEN <<>> ELSE up[c]]
  /\ UNCHANGED <<listening, uiEnd, down, told>>

\* The callers guard every use with "if (ipc)".
PollIfAny(cmd) ==
  \/ Poll(cmd)
  \/ listening = 0 /\ cmd = "none" /\ UNCHANGED ipcVars

-----------------------------------------------------------------------------
(* ipc_server_send_state and ipc_server_send_stats *)

\* Slots whose client has closed its end without the daemon having noticed.
Broken == {i \in ClientIdx : client_fds[i] # NoConn /\ client_fds[i] \notin uiEnd}

\* send_to_all goes through the slots in order, as far as the first broken
\* one: the write to that one raises SIGPIPE.
Reached == {c \in Conns : \E i \in ClientIdx : /\ client_fds[i] = c
                                             /\ \A j \in Broken : i < j}

Deliver(m) ==
  LET got == {c \in Reached : Len(down[c]) < QLEN}
  IN  /\ down' = [c \in Conns |-> IF c \in got THEN Append(down[c], m) ELSE down[c]]
      /\ told' = [c \in Conns |-> IF c \in got /\ m # "stats" THEN m ELSE told[c]]

SendToAll(m) ==
  /\ Broken = {}
  /\ Deliver(m)
  /\ UNCHANGED <<srvVars, uiEnd, up>>

-----------------------------------------------------------------------------
(* The app's calls *)

\* The listening socket takes one more connection.
CanConnect == listening = 1 /\ Len(backlog) < BACKLOG

\* Which of the unused numbers a connection gets does not matter.
Connect(c) ==
  /\ CanConnect
  /\ c \in Unused /\ \A d \in Unused : c <= d
  /\ backlog' = Append(backlog, c)
  /\ uiEnd' = uiEnd \cup {c}
  /\ UNCHANGED <<listening, client_fds, num_clients, down, told>>

\* Mutant: the descriptor is forgotten without close.
DisconnectNoClose(c) ==
  /\ UNCHANGED uiEnd
  /\ down' = [d \in Conns |-> IF d = c THEN <<>> ELSE down[d]]
  /\ told' = [d \in Conns |-> IF d = c THEN "none" ELSE told[d]]
  /\ UNCHANGED <<srvVars, up>>

\* Lines that were not read are lost with the descriptor.
Disconnect(c) ==
  /\ uiEnd' = uiEnd \ {c}
  /\ down' = [d \in Conns |-> IF d = c THEN <<>> ELSE down[d]]
  /\ told' = [d \in Conns |-> IF d = c THEN "none" ELSE told[d]]
  /\ UNCHANGED <<srvVars, up>>

-----------------------------------------------------------------------------

IpcTypeOK ==
  /\ listening \in {0, 1}
  /\ backlog \in Seq(Conns)
  /\ client_fds \in [ClientIdx -> Conns \cup {NoConn}]
  /\ num_clients \in Int
  /\ uiEnd \in SUBSET Conns
  /\ up \in [Conns -> Seq(Commands)]
  /\ down \in [Conns -> Seq(Lines)]
  /\ told \in [Conns -> (Lines \ {"stats"}) \cup {"none"}]

\* num_clients, which ipc_server_send_stats relies on, counts the occupied
\* slots, and no connection is in two places: close_client closes each
\* descriptor once.
ClientSlots ==
  /\ num_clients = Cardinality({i \in ClientIdx : client_fds[i] # NoConn})
  /\ \A i, j \in ClientIdx :
       client_fds[i] = client_fds[j] /\ i # j => client_fds[i] = NoConn
  /\ \A k \in 1 .. Len(backlog) :
       /\ \A i \in ClientIdx : client_fds[i] # backlog[k]
       /\ \A l \in 1 .. Len(backlog) : backlog[k] = backlog[l] => k = l
=============================================================================
