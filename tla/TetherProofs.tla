---------------------------- MODULE TetherProofs ----------------------------
(***************************************************************************)
(* Proofs, for every configuration of the daemon and every number of       *)
(* clients, connections, buffered lines, restarts and clicks.  The daemon  *)
(* undoes what it did to the network.  On the socket between the daemon    *)
(* and the app the daemon's slots are counted and no descriptor is held    *)
(* twice, the app forgets no open socket, and the menu shows the last      *)
(* state it was told.                                                      *)
(***************************************************************************)
EXTENDS Tether, Lemmas, FiniteSetTheorems

-----------------------------------------------------------------------------
(* The network *)

\* What restore_network_state does not undo because of an option was not done
\* because of the same option; between it and the closing of the interface
\* only the routes may be left.
Undoable ==
  /\ g_no_route = 1 => routes = 0
  /\ g_no_dns = 1 => dns # "tether"
  /\ dpc = "close" /\ killed = 0 => service = 0 /\ dns # "tether"

\* The inductive invariant.
NetInv ==
  /\ g_no_route \in {0, 1} /\ g_no_dns \in {0, 1} /\ g_network_bound \in {0, 1}
  /\ BoundFlag /\ NetClean /\ Undoable

\* restore_network_state, from a session that is bound or from none.
LEMMA RestoreUndoes ==
  ASSUME NetInv, RestoreNetworkState, g_network_bound = 1
  PROVE  /\ service' = 0 /\ dns' # "tether" /\ g_network_bound' = 0
         /\ routes' = 0
BY DEF NetInv, Undoable, RestoreNetworkState, netVars

\* Every step of the daemon keeps it: the actions that touch the network one
\* by one, and those that only move the control state.
LEMMA NetDaemonStep == NetInv /\ DaemonNext => NetInv'
<1> SUFFICES ASSUME NetInv, DaemonNext PROVE NetInv'
  OBVIOUS
<1> USE DEF NetInv, BoundFlag, NetClean, Undoable, NothingLeft, Binding, Bound, Bridging,
            optVars, ctlVars, netVars
<1> UNCHANGED optVars
  BY DEF DaemonNext
<1>1. CASE Boot
  BY <1>1 DEF Boot
<1>2. CASE Die
  <2>1. dpc \in {"topSend", "retrySend", "sendConnected", "sendStats",
                 "sendDisconnected", "sendWatching"}
    BY <1>2 DEF Die, Line
  <2> QED BY <1>2, <2>1 DEF Die
<1>3. CASE SetDns
  BY <1>3 DEF SetDns
<1>4. CASE RegisterService
  BY <1>4 DEF RegisterService
<1>5. CASE SetDefaultRoute
  BY <1>5 DEF SetDefaultRoute
<1>6. CASE Bind
  BY <1>6 DEF Bind
<1>7. CASE Restore
  BY <1>7, RestoreUndoes DEF Restore
<1>8. CASE CloseSession
  BY <1>8 DEF CloseSession
<1>9. CASE AtExit
  <2>1. g_network_bound = 0
    BY <1>9 DEF AtExit
  <2>2. UNCHANGED netVars
    BY <1>9, <2>1 DEF AtExit, RestoreNetworkState
  <2> QED BY <1>9, <2>2 DEF AtExit
<1>10. CASE Signal \/ BridgeStops \/ UiGone
  BY <1>10 DEF Signal, BridgeStops, UiGone
<1>11. CASE TopExit \/ TopPoll \/ TopSend \/ Gate \/ OneShotStart
  <2>1. /\ UNCHANGED netVars
        /\ dpc \in {"top", "topSend", "gate"}
        /\ dpc' \in {"exit", "topSend", "gate", "setup", "top"}
    BY <1>11 DEF TopExit, TopPoll, TopSend, Gate, OneShotStart, SendAndGo
  <2> QED BY <2>1
<1>12. CASE SetupFail \/ SetupDone
  BY <1>12 DEF SetupFail, SetupDone
<1>13. CASE \/ StartBridge \/ ActiveFirst \/ ActiveStats \/ SendStats
            \/ CheckTrigger \/ ActivePoll \/ ActiveExit \/ Join \/ SendDisconnected
  <2>1. UNCHANGED netVars /\ Bound /\ Bound' /\ dpc # "dead" /\ dpc' # "dead"
    BY <1>13 DEF StartBridge, ActiveFirst, ActiveStats, SendStats, ActivePoll,
       CheckTrigger, ActiveExit, Join, SendDisconnected, SendAndGo
  <2> QED BY <2>1
<1>14. CASE \/ After \/ SendWatching \/ RetryPoll \/ RetrySend \/ OneShotWait
            \/ RetryEnd \/ Exit
  <2>1. /\ UNCHANGED netVars
        /\ dpc \in {"after", "sendWatching", "retry", "retrySend", "exit"}
        /\ dpc' \in {"sendWatching", "retry", "exit", "top", "retrySend", "atexit"}
    BY <1>14 DEF After, SendWatching, RetryPoll, RetrySend, OneShotWait, RetryEnd,
       Exit, SendAndGo
  <2> QED BY <2>1
<1> QED
  BY <1>1, <1>2, <1>3, <1>4, <1>5, <1>6, <1>7, <1>8, <1>9, <1>10, <1>11, <1>12,
     <1>13, <1>14 DEF DaemonNext, Step

\* Nothing the app or the user does changes this state.
LEMMA NetNextStep == NetInv /\ [Next]_vars => NetInv'
<1> SUFFICES ASSUME NetInv, [Next]_vars PROVE NetInv'
  OBVIOUS
<1>1. CASE DaemonNext
  BY <1>1, NetDaemonStep
<1>2. CASE UNCHANGED <<optVars, dpc, netVars>>
  BY <1>2 DEF NetInv, BoundFlag, NetClean, Undoable, NothingLeft, Binding, Bound, Bridging,
     optVars, netVars
<1> QED
  BY <1>1, <1>2 DEF Next, DaemonMoves, AppMoves, OtherConnects, OtherSends, OtherQuits,
     TriggerWritten, Finished, vars, daemonVars, optVars, netVars

\* Outside a session nothing of the daemon's network configuration is left,
\* and g_network_bound tells exactly when there is something to undo: with
\* every combination of options, whatever the clients and the phone do.
THEOREM NetworkUndone == Spec => [](NetClean /\ BoundFlag)
<1>1. Init => NetInv
  BY DaemonAssumption DEF Init, DaemonInit, NetInv, BoundFlag, NetClean, Undoable, NothingLeft,
     Binding, Bound, Bridging
<1>2. NetInv => NetClean /\ BoundFlag
  BY DEF NetInv
<1> QED BY <1>1, <1>2, NetNextStep, PTL DEF Spec

-----------------------------------------------------------------------------
(* The socket: the invariant *)

\* A control state that sends a pending line has one.
PendingSet == dpc \in {"topSend", "retrySend"} => pending # "none"

\* An app that does not run has no socket.
OffClosed == ui = "off" => sockFd = NoConn

\* Nothing is kept of a connection whose end in the app is closed.
ClosedForgotten == \A c \in Conns : c \notin uiEnd => told[c] = "none" /\ down[c] = <<>>

\* The last state line of q, at place k, is m.
LastStateAt(q, k, m) ==
  k \in StateLines(q) /\ q[k] = m /\ \A l \in StateLines(q) : l <= k

\* What the daemon told the app's connection last is either still to be read,
\* as the last state line in the buffer, or what the menu shows.
ToldOrShown ==
  sockFd # NoConn =>
    LET q == down[sockFd]
        m == told[sockFd]
    IN  \/ StateLines(q) = {} /\ (m = "none" \/ connectionState = m)
        \/ \E k \in 1 .. Len(q) : LastStateAt(q, k, m)

\* The inductive invariant: the daemon's part, and the part of the socket and
\* the app.
DaemonInv == DaemonTypeOK /\ PendingSet

SocketInv ==
  /\ IpcTypeOK /\ AppTypeOK /\ OffClosed
  /\ ClientSlots /\ OneSocket /\ ClosedForgotten /\ ToldOrShown

TetherInv == DaemonInv /\ SocketInv

-----------------------------------------------------------------------------
(* What the daemon does to the socket *)

\* Its steps, as seen there.
SocketStep ==
  \/ UNCHANGED ipcVars
  \/ Create
  \/ \E cmd \in Commands \cup {"none"} : Poll(cmd)
  \/ \E m \in Lines : SendToAll(m)
  \/ \E m \in Lines : Deliver(m) /\ CloseAll
  \/ CloseAll /\ UNCHANGED <<down, told>>

\* What is sent in the states that send.
LEMMA LineSent ==
  ASSUME DaemonInv, Line # "none" 
  PROVE  Line \in Lines
BY DEF DaemonInv, PendingSet, DaemonTypeOK, Line, Lines

LEMMA DaemonStep ==
  ASSUME DaemonInv, DaemonNext
  PROVE  DaemonInv' /\ SocketStep
<1> USE DaemonAssumption DEF DaemonInv, PendingSet, DaemonTypeOK
<1>0. optVars' = optVars
  BY DEF DaemonNext
\* The steps that only move the control state, or the network.
<1>1. CASE \/ Signal \/ TopExit \/ Gate \/ OneShotStart \/ SetupFail \/ SetupDone
           \/ SetDns \/ RegisterService \/ SetDefaultRoute \/ Bind
  <2>1. UNCHANGED ipcVars
    BY <1>1 DEF Signal, TopExit, Gate, OneShotStart, SetupFail, SetupDone, SetDns,
       RegisterService, SetDefaultRoute, Bind
  <2>2. DaemonInv'
    BY <1>0, <1>1 DEF Signal, TopExit, Gate, OneShotStart, SetupFail, SetupDone, SetDns,
       RegisterService, SetDefaultRoute, Bind, ctlVars, netVars
  <2> QED BY <2>1, <2>2 DEF SocketStep
<1>2. CASE \/ BridgeStops \/ UiGone \/ ActiveFirst \/ ActiveStats \/ CheckTrigger
           \/ ActiveExit \/ Join
  <2>1. UNCHANGED ipcVars
    BY <1>2 DEF BridgeStops, UiGone, ActiveFirst, ActiveStats, CheckTrigger, ActiveExit, Join
  <2>2. DaemonInv'
    BY <1>0, <1>2 DEF BridgeStops, UiGone, ActiveFirst, ActiveStats, CheckTrigger,
       ActiveExit, Join, Br!Stop, Br!Over, ctlVars, netVars
  <2> QED BY <2>1, <2>2 DEF SocketStep
<1>3. CASE Restore \/ AtExit \/ CloseSession \/ After \/ RetryEnd
  <2>1. UNCHANGED ipcVars
    BY <1>3 DEF Restore, AtExit, CloseSession, After, RetryEnd
  <2>2. CASE Restore \/ AtExit
    BY <1>0, <2>2, <2>1 DEF Restore, AtExit, RestoreNetworkState, ctlVars, netVars, SocketStep
  <2>3. CASE CloseSession \/ RetryEnd
    BY <1>0, <2>3, <2>1 DEF CloseSession, RetryEnd, ctlVars, netVars, SocketStep
  <2>4. CASE After
    <3>1. dpc' \in {"sendWatching", "retry", "exit", "top"}
      BY <2>4 DEF After
    <3> QED BY <1>0, <2>1, <2>4, <3>1 DEF After, netVars, SocketStep
  <2> QED BY <1>3, <2>2, <2>3, <2>4
\* The steps that poll.
<1>4. CASE TopPoll \/ ActivePoll \/ RetryPoll \/ OneShotWait
  <2>1. PICK cmd \in Commands \cup {"none"} : PollIfAny(cmd)
    BY <1>4 DEF TopPoll, ActivePoll, RetryPoll, OneShotWait
  <2>2. SocketStep
    BY <2>1 DEF PollIfAny, SocketStep
  <2>3. CASE TopPoll
    BY <1>0, <2>2, <2>3 DEF TopPoll, netVars
  <2>4. CASE ActivePoll
    BY <1>0, <2>2, <2>4 DEF ActivePoll, netVars
  <2>5. CASE RetryPoll
    <3>1. tries' \in 0 .. RETRIES
      BY <2>5 DEF RetryPoll, Retrying
    <3> QED BY <1>0, <2>2, <2>5, <3>1 DEF RetryPoll, netVars
  <2>6. CASE OneShotWait
    <3>1. tries' \in 0 .. RETRIES
      BY <2>6 DEF OneShotWait, Retrying
    <3> QED BY <1>0, <2>2, <2>6, <3>1 DEF OneShotWait, netVars
  <2> QED BY <1>4, <2>3, <2>4, <2>5, <2>6
\* The steps that send.
<1>5. CASE \/ TopSend \/ StartBridge \/ SendStats \/ SendDisconnected \/ SendWatching
           \/ RetrySend
  <2>1. SendToAll(Line) /\ Line # "none"
    BY <1>5 DEF TopSend, StartBridge, SendStats, SendDisconnected, SendWatching, RetrySend,
       SendAndGo, Line
  <2>2. SocketStep
    BY <2>1, LineSent DEF SocketStep
  <2>3. DaemonInv'
    BY <1>0, <1>5 DEF TopSend, StartBridge, SendStats, SendDisconnected, SendWatching,
       RetrySend, SendAndGo, ctlVars, netVars
  <2> QED BY <2>2, <2>3
\* The steps that open the server, and those that close it.
<1>6. CASE Boot
  BY <1>0, <1>6 DEF Boot, SocketStep
<1>7. CASE Die
  <2>1. SocketStep
    BY <1>7, LineSent DEF Die, SocketStep
  <2>2. DaemonInv'
    BY <1>0, <1>7 DEF Die, ctlVars
  <2> QED BY <2>1, <2>2
<1>8. CASE Exit
  BY <1>0, <1>8 DEF Exit, SocketStep, ctlVars, netVars
<1> QED
  BY <1>1, <1>2, <1>3, <1>4, <1>5, <1>6, <1>7, <1>8 DEF DaemonNext, Step
-----------------------------------------------------------------------------
(* The daemon's steps on the socket *)

\* What is sent to clients goes to open ends.
LEMMA ReachedOpen ==
  ASSUME IpcTypeOK
  PROVE  Reached \subseteq uiEnd
<1> SUFFICES ASSUME NEW c \in Reached PROVE c \in uiEnd
  OBVIOUS
<1>1. PICK i \in ClientIdx : client_fds[i] = c /\ \A j \in Broken : i < j
  BY DEF Reached
<1>2. ~ (i < i) /\ c # NoConn
  BY IpcAssumption DEF ClientIdx, Reached, Conns, NoConn
<1> QED BY <1>1, <1>2 DEF Broken

\* One more line at the end of a buffer.
LEMMA StateLinesAppend ==
  ASSUME NEW q \in Seq(Lines), NEW m \in Lines
  PROVE  /\ m = "stats" => StateLines(Append(q, m)) = StateLines(q)
         /\ m # "stats" => StateLines(Append(q, m)) = StateLines(q) \cup {Len(q) + 1}
         /\ \A k \in 1 .. Len(q) : Append(q, m)[k] = q[k]
         /\ Append(q, m)[Len(q) + 1] = m
         /\ Len(Append(q, m)) = Len(q) + 1
         /\ Append(q, m) \in Seq(Lines)
<1> DEFINE a == Append(q, m)
           n == Len(q)
<1>1. /\ \A k \in 1 .. n : a[k] = q[k]
      /\ a[n + 1] = m /\ Len(a) = n + 1 /\ n \in Nat /\ a \in Seq(Lines)
  OBVIOUS
<1> HIDE DEF a, n
<1>2. 1 .. n + 1 = (1 .. n) \cup {n + 1}
  BY <1>1
<1>3. StateLines(a) = {k \in 1 .. n + 1 : a[k] # "stats"}
  BY <1>1 DEF StateLines
<1>4. StateLines(q) = {k \in 1 .. n : q[k] # "stats"}
  BY DEF StateLines, n
<1>5. m = "stats" => StateLines(a) = StateLines(q)
  BY <1>1, <1>2, <1>3, <1>4
<1>6. m # "stats" => StateLines(a) = StateLines(q) \cup {n + 1}
  BY <1>1, <1>2, <1>3, <1>4
<1> QED BY <1>1, <1>5, <1>6 DEF a, n

\* A line that is delivered becomes the last state line of the app's buffer;
\* statistics change nothing.
LEMMA Delivered ==
  ASSUME SocketInv, NEW m \in Lines, Deliver(m), UNCHANGED <<uiEnd, appVars>>
  PROVE  /\ down' \in [Conns -> Seq(Lines)]
         /\ told' \in [Conns -> (Lines \ {"stats"}) \cup {"none"}]
         /\ ClosedForgotten' /\ ToldOrShown'
<1> DEFINE got == {c \in Reached : Len(down[c]) < QLEN}
<1>1. down' = [c \in Conns |-> IF c \in got THEN Append(down[c], m) ELSE down[c]]
  BY DEF Deliver
<1>2. told' = [c \in Conns |-> IF c \in got /\ m # "stats" THEN m ELSE told[c]]
  BY DEF Deliver
<1>3. got \subseteq uiEnd /\ got \subseteq Conns
  BY ReachedOpen DEF SocketInv, Reached
<1> HIDE DEF got
<1>4. down \in [Conns -> Seq(Lines)] /\ told \in [Conns -> (Lines \ {"stats"}) \cup {"none"}]
  BY DEF SocketInv, IpcTypeOK
<1>5. down' \in [Conns -> Seq(Lines)]
  BY <1>1, <1>4
<1>6. told' \in [Conns -> (Lines \ {"stats"}) \cup {"none"}]
  BY <1>2, <1>4
<1>7. ClosedForgotten'
  BY <1>1, <1>2, <1>3 DEF SocketInv, ClosedForgotten
<1>8. ToldOrShown'
  <2> SUFFICES ASSUME sockFd' # NoConn PROVE ToldOrShown'
    BY DEF ToldOrShown
  <2>1. sockFd' = sockFd /\ connectionState' = connectionState
    BY DEF appVars
  <2>2. PICK s \in Conns : s = sockFd
    BY <2>1 DEF SocketInv, AppTypeOK
  <2> DEFINE q == down[s]
  <2>3. \/ StateLines(q) = {} /\ (told[s] = "none" \/ connectionState = told[s])
        \/ \E k \in 1 .. Len(q) : LastStateAt(q, k, told[s])
    BY <2>1, <2>2 DEF SocketInv, ToldOrShown
  <2>4. q \in Seq(Lines)
    BY <1>4
  <2>5. CASE s \notin got
    <3>1. down'[s] = down[s] /\ told'[s] = told[s]
      BY <1>1, <1>2, <2>5
    <3> QED BY <2>1, <2>2, <2>3, <3>1 DEF ToldOrShown
  <2>6. CASE s \in got /\ m # "stats"
    <3>1. down'[s] = Append(q, m) /\ told'[s] = m
      BY <1>1, <1>2, <2>6
    <3>2. LastStateAt(Append(q, m), Len(q) + 1, m)
      <4>1. \A l \in StateLines(q) : l <= Len(q) + 1
        BY <2>4 DEF StateLines
      <4> HIDE DEF q
      <4> QED BY <4>1, <2>4, <2>6, StateLinesAppend DEF LastStateAt
    <3>3. Len(q) + 1 \in 1 .. Len(Append(q, m))
      BY <2>4
    <3>4. \E k \in 1 .. Len(Append(q, m)) : LastStateAt(Append(q, m), k, m)
      BY <3>2, <3>3
    <3> QED BY <2>1, <2>2, <3>1, <3>4 DEF ToldOrShown
  <2>7. CASE s \in got /\ m = "stats"
    <3>1. down'[s] = Append(q, m) /\ told'[s] = told[s]
      BY <1>1, <1>2, <2>7
    <3>2. StateLines(Append(q, m)) = StateLines(q)
      BY <2>4, <2>7, StateLinesAppend
    <3>3. CASE StateLines(q) = {} /\ (told[s] = "none" \/ connectionState = told[s])
      BY <2>1, <2>2, <3>1, <3>2, <3>3 DEF ToldOrShown
    <3>4. CASE \E k \in 1 .. Len(q) : LastStateAt(q, k, told[s])
      <4>1. PICK k \in 1 .. Len(q) : LastStateAt(q, k, told[s])
        BY <3>4
      <4>2. Append(q, m)[k] = q[k] /\ k \in 1 .. Len(Append(q, m))
        <5> HIDE DEF q
        <5> QED BY <2>4, StateLinesAppend
      <4>3. LastStateAt(Append(q, m), k, told[s])
        BY <4>1, <4>2, <3>2 DEF LastStateAt
      <4> QED BY <2>1, <2>2, <3>1, <4>2, <4>3 DEF ToldOrShown
    <3> QED BY <2>3, <3>3, <3>4
  <2> QED BY <2>5, <2>6, <2>7
<1> QED BY <1>5, <1>6, <1>7, <1>8
\* What only concerns the two ends and the lines to the app.
LEMMA SameEnds ==
  ASSUME SocketInv, UNCHANGED <<uiEnd, down, told, appVars, others>>
  PROVE  /\ AppTypeOK' /\ OffClosed' /\ OneSocket'
         /\ ClosedForgotten' /\ ToldOrShown'
BY DEF SocketInv, appVars, AppTypeOK, OffClosed, OneSocket, ClosedForgotten, ToldOrShown

\* accept puts at most one connection into the first free slot: the occupied
\* slots are one more then, and still hold different connections.
LEMMA AcceptedSlots ==
  ASSUME SocketInv
  PROVE  /\ Accepted \in [ClientIdx -> Conns \cup {NoConn}]
         /\ IsFiniteSet({i \in ClientIdx : Accepted[i] # NoConn})
         /\ Cardinality({i \in ClientIdx : Accepted[i] # NoConn})
              = num_clients + (IF Accepting THEN 1 ELSE 0)
         /\ \A i, j \in ClientIdx :
              Accepted[i] = Accepted[j] /\ i # j => Accepted[i] = NoConn
         /\ \A k \in 2 .. Len(backlog) : \A i \in ClientIdx : Accepted[i] # backlog[k]
<1> DEFINE occ == {i \in ClientIdx : client_fds[i] # NoConn}
           acc == {i \in ClientIdx : Accepted[i] # NoConn}
<1>1. /\ backlog \in Seq(Conns) /\ client_fds \in [ClientIdx -> Conns \cup {NoConn}]
      /\ num_clients \in Int /\ NoConn \notin Conns
  BY IpcAssumption DEF SocketInv, IpcTypeOK, Conns, NoConn
<1>2. /\ num_clients = Cardinality(occ)
      /\ \A i, j \in ClientIdx :
           client_fds[i] = client_fds[j] /\ i # j => client_fds[i] = NoConn
      /\ \A k \in 1 .. Len(backlog) : \A i \in ClientIdx : client_fds[i] # backlog[k]
      /\ \A k, l \in 1 .. Len(backlog) : backlog[k] = backlog[l] => k = l
  BY DEF SocketInv, ClientSlots
<1>3. IsFiniteSet(occ)
  <2>1. IsFiniteSet(ClientIdx)
    BY IpcAssumption, FS_Interval DEF ClientIdx
  <2> QED BY <2>1, FS_Subset
<1>4. CASE ~Accepting
  <2>1. Accepted = [i \in ClientIdx |-> client_fds[i]]
    BY <1>4 DEF Accepted
  <2>2. Accepted = client_fds
    BY <2>1, <1>1
  <2>3. acc = occ
    BY <2>2
  <2>4. \A k \in 2 .. Len(backlog) : k \in 1 .. Len(backlog)
    BY <1>1
  <2> QED BY <1>1, <1>2, <1>3, <1>4, <2>2, <2>3, <2>4
<1>5. CASE Accepting
  <2>1. FreeIdx # {} /\ FreeIdx \in SUBSET Nat /\ FreeIdx \subseteq ClientIdx
    BY <1>5, IpcAssumption DEF Accepting, FreeIdx, ClientIdx
  <2>2. PICK f \in FreeIdx : \A j \in FreeIdx : f <= j
    BY <2>1, FirstExists
  <2>3. \A i \in FreeIdx : (\A j \in FreeIdx : i <= j) => i = f
    BY <2>1, <2>2
  <2>4. PICK h \in Conns : h = Head(backlog) /\ h = backlog[1] /\ 1 \in 1 .. Len(backlog)
    <3>1. backlog # <<>>
      BY <1>5 DEF Accepting
    <3> QED BY <1>1, <3>1
  <2>5. Accepted = [i \in ClientIdx |-> IF i = f THEN h ELSE client_fds[i]]
    BY <1>5, <2>1, <2>2, <2>3, <2>4 DEF Accepted
  <2>6. f \in ClientIdx /\ f \notin occ
    BY <2>1 DEF FreeIdx
  <2>7. acc = occ \cup {f}
    BY <1>1, <2>4, <2>5, <2>6
  <2>8. IsFiniteSet(acc) /\ Cardinality(acc) = num_clients + 1
    <3> HIDE DEF occ, acc
    <3> QED BY <1>2, <1>3, <2>6, <2>7, FS_AddElement
  <2>9. \A i \in ClientIdx : client_fds[i] # h
    BY <1>2, <2>4
  <2>10. \A k \in 2 .. Len(backlog) : k \in 1 .. Len(backlog) /\ backlog[k] # h
    <3>1. Len(backlog) \in Nat
      BY <1>1
    <3>2. \A k \in 2 .. Len(backlog) : k \in 1 .. Len(backlog) /\ k # 1
      BY <3>1
    <3> QED BY <1>2, <2>4, <3>2
  <2>11. Accepted \in [ClientIdx -> Conns \cup {NoConn}]
    BY <1>1, <2>5
  <2>12. \A i, j \in ClientIdx :
              Accepted[i] = Accepted[j] /\ i # j => Accepted[i] = NoConn
    BY <1>2, <2>5, <2>9
  <2>13. \A k \in 2 .. Len(backlog) : \A i \in ClientIdx : Accepted[i] # backlog[k]
    BY <1>2, <2>5, <2>10
  <2> QED BY <1>5, <2>8, <2>11, <2>12, <2>13
<1> QED BY <1>4, <1>5

\* ipc_server_poll accepts, reads and closes: the count follows the slots.
LEMMA Polled ==
  ASSUME SocketInv, NEW cmd, Poll(cmd), UNCHANGED <<appVars, others>>
  PROVE  SocketInv'
<1> DEFINE acc == {i \in ClientIdx : Accepted[i] # NoConn}
           occ2 == {i \in ClientIdx : client_fds'[i] # NoConn}
           A == Accepted
           G == Gone
           x == IF Accepting THEN 1 ELSE 0
           n == num_clients + x
<1>1. UNCHANGED <<listening, uiEnd, down, told>>
  BY DEF Poll
<1>2. IpcTypeOK
  BY DEF SocketInv
<1>3. /\ A \in [ClientIdx -> Conns \cup {NoConn}] /\ IsFiniteSet(acc)
      /\ Cardinality(acc) = n
      /\ \A i, j \in ClientIdx : A[i] = A[j] /\ i # j => A[i] = NoConn
      /\ \A k \in 2 .. Len(backlog) : \A i \in ClientIdx : A[i] # backlog[k]
  BY AcceptedSlots
<1>4. client_fds' = [i \in ClientIdx |-> IF i \in G THEN NoConn ELSE A[i]]
  BY DEF Poll
<1>5. G \subseteq acc
  BY DEF Gone
<1>6. num_clients' = n - Cardinality(G)
  <2>1. num_clients' = ClientCount
    BY DEF Poll
  <2>2. num_clients' = num_clients + (x - Cardinality(G))
    BY <2>1, Zenon DEF ClientCount
  <2>3. x \in Int /\ num_clients \in Int
    BY <1>2 DEF IpcTypeOK
  <2>4. Cardinality(G) \in Int
    <3>1. IsFiniteSet(G)
      BY <1>3, <1>5, FS_Subset
    <3> QED BY <3>1, FS_CardinalityType
  <2> HIDE DEF x, G
  <2> QED BY <2>2, <2>3, <2>4
<1>7. num_clients' = Cardinality(occ2)
  <2>1. occ2 = acc \ G
    BY <1>4, <1>5
  <2>2. acc \cap G = G
    BY <1>5
  <2> HIDE DEF acc, occ2, G, n
  <2>3. Cardinality(acc \ G) = Cardinality(acc) - Cardinality(G)
    BY <1>3, <2>2, FS_Difference
  <2> QED BY <1>3, <1>6, <2>1, <2>3
<1>8. num_clients' \in Int
  <2>1. IsFiniteSet(occ2)
    <3>1. occ2 \subseteq acc
      BY <1>4, <1>5
    <3> QED BY <1>3, <3>1, FS_Subset
  <2> QED BY <1>7, <2>1, FS_CardinalityType
<1>9. /\ backlog' \in Seq(Conns)
      /\ \A k \in 1 .. Len(backlog') :
           k + 1 \in 2 .. Len(backlog) /\ k \in Int /\ backlog'[k] = backlog[k + 1]
  <2>1. backlog' = IF backlog = <<>> THEN <<>> ELSE Tail(backlog)
    BY DEF Poll
  <2>2. backlog \in Seq(Conns)
    BY <1>2 DEF IpcTypeOK
  <2>3. CASE backlog = <<>>
    BY <2>1, <2>3
  <2>4. CASE backlog # <<>>
    <3>1. backlog' = Tail(backlog)
      BY <2>1, <2>4
    <3>2. Len(backlog') = Len(backlog) - 1 /\ Len(backlog) \in Nat /\ backlog' \in Seq(Conns)
      BY <2>2, <2>4, <3>1
    <3>3. \A k \in 1 .. Len(backlog') : backlog'[k] = backlog[k + 1]
      BY <2>2, <2>4, <3>1
    <3>4. \A k \in 1 .. Len(backlog') : k + 1 \in 2 .. Len(backlog) /\ k \in Int
      BY <3>2
    <3> QED BY <3>2, <3>3, <3>4
  <2> QED BY <2>3, <2>4
<1>10. up' \in [Conns -> Seq(Commands)]
  <2>1. <<>> \in Seq(Commands)
    OBVIOUS
  <2> QED BY <1>2, <2>1 DEF Poll, IpcTypeOK
<1>11. IpcTypeOK'
  <2>1. client_fds' \in [ClientIdx -> Conns \cup {NoConn}]
    BY <1>3, <1>4
  <2> QED BY <1>1, <1>2, <1>8, <1>9, <1>10, <2>1 DEF IpcTypeOK
<1>12. ClientSlots'
  <2>1. \A i, j \in ClientIdx :
           client_fds'[i] = client_fds'[j] /\ i # j => client_fds'[i] = NoConn
    BY <1>3, <1>4
  <2>2. NoConn \notin Conns
    BY DEF Conns, NoConn
  <2>3. \A k \in 1 .. Len(backlog') : backlog'[k] \in Conns
    BY <1>9
  <2>4. \A k \in 1 .. Len(backlog') : \A i \in ClientIdx : client_fds'[i] # backlog'[k]
    BY <1>3, <1>4, <1>9, <2>2, <2>3
  <2>5. \A k, l \in 1 .. Len(backlog) : backlog[k] = backlog[l] => k = l
    BY DEF SocketInv, ClientSlots
  <2>6. \A k \in 2 .. Len(backlog) : k \in 1 .. Len(backlog)
    BY <1>2 DEF IpcTypeOK
  <2>7. \A k, l \in 1 .. Len(backlog') : backlog'[k] = backlog'[l] => k = l
    <3> SUFFICES ASSUME NEW k \in 1 .. Len(backlog'), NEW l \in 1 .. Len(backlog'),
                        backlog'[k] = backlog'[l]
                 PROVE  k = l
      OBVIOUS
    <3>1. k + 1 = l + 1
      BY <1>9, <2>5, <2>6
    <3>2. k \in Int /\ l \in Int
      BY <1>9
    <3> QED BY <3>1, <3>2
  <2> QED BY <1>7, <2>1, <2>4, <2>7 DEF ClientSlots
<1> QED BY <1>1, <1>11, <1>12, SameEnds DEF SocketInv

\* The end of the server: every slot is empty.
LEMMA Closed ==
  ASSUME SocketInv, CloseAll, UNCHANGED <<appVars, others>>,
         down' \in [Conns -> Seq(Lines)],
         told' \in [Conns -> (Lines \ {"stats"}) \cup {"none"}],
         ClosedForgotten', ToldOrShown'
  PROVE  SocketInv'
<1>1. /\ listening' = 0 /\ backlog' = <<>> /\ client_fds' = [i \in ClientIdx |-> NoConn]
      /\ num_clients' = 0 /\ up' = [c \in Conns |-> <<>>] /\ uiEnd' = uiEnd
  BY DEF CloseAll
<1>2. IpcTypeOK'
  BY <1>1 DEF SocketInv, IpcTypeOK
<1>3. ClientSlots'
  <2>1. {i \in ClientIdx : client_fds'[i] # NoConn} = {}
    BY <1>1
  <2>2. Len(backlog') = 0
    BY <1>1
  <2>3. 1 .. Len(backlog') = {}
    BY <2>2
  <2> QED BY <1>1, <2>1, <2>3, FS_EmptySet DEF ClientSlots
<1>4. AppTypeOK' /\ OffClosed' /\ OneSocket'
  BY <1>1 DEF SocketInv, appVars, AppTypeOK, OffClosed, OneSocket
<1> QED BY <1>2, <1>3, <1>4 DEF SocketInv

\* No step of the daemon on the socket breaks its part of the invariant.
LEMMA SocketKept ==
  ASSUME SocketInv, SocketStep, UNCHANGED <<appVars, others>>
  PROVE  SocketInv'
<1>1. CASE UNCHANGED ipcVars
  <2>1. IpcTypeOK' /\ ClientSlots'
    BY <1>1 DEF SocketInv, ipcVars, srvVars, wireVars, IpcTypeOK, ClientSlots
  <2> QED BY <1>1, <2>1, SameEnds DEF SocketInv, ipcVars, wireVars
<1>2. CASE Create
  <2>1. IpcTypeOK' /\ ClientSlots'
    BY <1>2 DEF SocketInv, Create, wireVars, IpcTypeOK, ClientSlots
  <2> QED BY <1>2, <2>1, SameEnds DEF SocketInv, Create, wireVars
<1>3. CASE \E cmd \in Commands \cup {"none"} : Poll(cmd)
  BY <1>3, Polled
<1>4. CASE \E m \in Lines : SendToAll(m)
  <2>1. PICK m \in Lines : SendToAll(m)
    BY <1>4
  <2>2. Deliver(m) /\ UNCHANGED <<srvVars, uiEnd, up>>
    BY <2>1 DEF SendToAll
  <2>3. /\ down' \in [Conns -> Seq(Lines)]
        /\ told' \in [Conns -> (Lines \ {"stats"}) \cup {"none"}]
        /\ ClosedForgotten' /\ ToldOrShown'
    BY <2>2, Delivered
  <2>4. IpcTypeOK' /\ ClientSlots'
    BY <2>2, <2>3 DEF SocketInv, srvVars, IpcTypeOK, ClientSlots
  <2>5. AppTypeOK' /\ OffClosed' /\ OneSocket'
    BY <2>2 DEF SocketInv, appVars, AppTypeOK, OffClosed, OneSocket
  <2> QED BY <2>3, <2>4, <2>5 DEF SocketInv
<1>5. CASE \E m \in Lines : Deliver(m) /\ CloseAll
  BY <1>5, Delivered, Closed DEF CloseAll
<1>6. CASE CloseAll /\ UNCHANGED <<down, told>>
  <2>1. UNCHANGED <<uiEnd, down, told, appVars, others>>
    BY <1>6 DEF CloseAll
  <2>2. /\ down' \in [Conns -> Seq(Lines)]
        /\ told' \in [Conns -> (Lines \ {"stats"}) \cup {"none"}]
    BY <1>6 DEF SocketInv, IpcTypeOK
  <2> QED BY <1>6, <2>1, <2>2, SameEnds, Closed
<1> QED BY <1>1, <1>2, <1>3, <1>4, <1>5, <1>6 DEF SocketStep
-----------------------------------------------------------------------------
(* The app's steps *)

\* What the actions below establish of the socket; the app's types are left to
\* each of them.
WireInv == IpcTypeOK /\ ClientSlots /\ OneSocket /\ OffClosed /\ ClosedForgotten /\ ToldOrShown

\* One command into the buffer of a connection.
LEMMA Written ==
  ASSUME IpcTypeOK, NEW c \in Conns, NEW cmd \in Commands, Write(c, cmd)
  PROVE  up' \in [Conns -> Seq(Commands)]
<1>1. up \in [Conns -> Seq(Commands)]
  BY DEF IpcTypeOK
<1>2. Append(up[c], cmd) \in Seq(Commands)
  BY <1>1
<1> QED BY <1>1, <1>2 DEF Write

\* The descriptor is closed and forgotten in one step.
LEMMA Disconnected ==
  ASSUME SocketInv, Disconnect(sockFd), sockFd' = NoConn, others' = others
  PROVE  WireInv'
<1>1. /\ uiEnd' = uiEnd \ {sockFd} /\ UNCHANGED <<srvVars, up>>
      /\ down' = [d \in Conns |-> IF d = sockFd THEN <<>> ELSE down[d]]
      /\ told' = [d \in Conns |-> IF d = sockFd THEN "none" ELSE told[d]]
  BY DEF Disconnect
<1>2. IpcTypeOK'
  BY <1>1 DEF SocketInv, IpcTypeOK, srvVars
<1>3. ClientSlots'
  BY <1>1 DEF SocketInv, ClientSlots, srvVars
<1>4. OneSocket'
  <2>1. NoConn \notin others
    BY DEF SocketInv, OneSocket, IpcTypeOK, Conns, NoConn
  <2> QED BY <1>1, <2>1 DEF SocketInv, OneSocket
<1>5. ClosedForgotten'
  BY <1>1 DEF SocketInv, ClosedForgotten
<1> QED BY <1>2, <1>3, <1>4, <1>5 DEF WireInv, OffClosed, ToldOrShown

\* A new connection goes to the end of the backlog; nothing is left in it from
\* an earlier one.
LEMMA NewConnection ==
  ASSUME SocketInv, NEW c \in Unused, Connect(c), up' \in [Conns -> Seq(Commands)]
  PROVE  /\ IpcTypeOK' /\ ClientSlots' /\ ClosedForgotten'
         /\ c \in Conns /\ c # NoConn /\ c \notin uiEnd /\ uiEnd' = uiEnd \cup {c}
         /\ UNCHANGED <<down, told>>
         /\ told[c] = "none" /\ down[c] = <<>>
<1>1. /\ backlog' = Append(backlog, c) /\ uiEnd' = uiEnd \cup {c}
      /\ UNCHANGED <<listening, client_fds, num_clients, down, told>>
  BY DEF Connect
<1>2. c \in Conns /\ c \notin uiEnd /\ c \notin Served /\ c # NoConn
  BY IpcAssumption DEF Unused, Conns, NoConn
<1>3. backlog \in Seq(Conns) /\ client_fds \in [ClientIdx -> Conns \cup {NoConn}]
  BY DEF SocketInv, IpcTypeOK
<1>4. IpcTypeOK'
  BY <1>1, <1>2 DEF SocketInv, IpcTypeOK
<1>5. ClientSlots'
  <2> DEFINE n == Len(backlog)
  <2>1. /\ n \in Nat /\ Len(backlog') = n + 1
        /\ backlog'[n + 1] = c /\ \A k \in 1 .. n : backlog'[k] = backlog[k]
    BY <1>1, <1>2, <1>3
  <2>2. /\ \A k \in 1 .. n : backlog[k] # c
        /\ \A i \in ClientIdx : client_fds[i] # c
    BY <1>2 DEF Served, Has
  <2>3. /\ \A k \in 1 .. n : \A i \in ClientIdx : client_fds[i] # backlog[k]
        /\ \A k, l \in 1 .. n : backlog[k] = backlog[l] => k = l
        /\ num_clients = Cardinality({i \in ClientIdx : client_fds[i] # NoConn})
        /\ \A i, j \in ClientIdx :
             client_fds[i] = client_fds[j] /\ i # j => client_fds[i] = NoConn
    BY DEF SocketInv, ClientSlots
  <2> HIDE DEF n
  <2>4. 1 .. Len(backlog') = (1 .. n) \cup {n + 1}
    BY <2>1
  <2>5. \A k \in 1 .. Len(backlog') : \A i \in ClientIdx : client_fds[i] # backlog'[k]
    BY <2>1, <2>2, <2>3, <2>4
  <2>6. \A k, l \in 1 .. Len(backlog') : backlog'[k] = backlog'[l] => k = l
    BY <2>1, <2>2, <2>3, <2>4
  <2> QED BY <1>1, <2>3, <2>5, <2>6 DEF ClientSlots
<1>6. ClosedForgotten'
  BY <1>1 DEF SocketInv, ClosedForgotten
<1>7. told[c] = "none" /\ down[c] = <<>>
  BY <1>2 DEF SocketInv, ClosedForgotten
<1> QED BY <1>1, <1>2, <1>4, <1>5, <1>6, <1>7

\* It is the app's.
LEMMA Connected ==
  ASSUME SocketInv, NEW c \in Unused, Connect(c), sockFd = NoConn, sockFd' = c,
         ui' = "on", up' \in [Conns -> Seq(Commands)], others' = others
  PROVE  WireInv'
<1>1. /\ IpcTypeOK' /\ ClientSlots' /\ ClosedForgotten'
      /\ c \in Conns /\ c # NoConn /\ c \notin uiEnd /\ uiEnd' = uiEnd \cup {c}
      /\ UNCHANGED <<down, told>>
      /\ told[c] = "none" /\ down[c] = <<>>
  BY NewConnection
<1>2. OneSocket'
  BY <1>1 DEF SocketInv, OneSocket
<1>3. ToldOrShown'
  <2>1. StateLines(<<>>) = {}
    BY DEF StateLines
  <2> QED BY <1>1, <2>1 DEF ToldOrShown
<1> QED BY <1>1, <1>2, <1>3 DEF WireInv, OffClosed

\* It is another client's.
LEMMA OtherConnected ==
  ASSUME SocketInv, OtherConnects
  PROVE  SocketInv'
<1>1. PICK c \in Unused : Connect(c) /\ others' = others \cup {c}
  BY DEF OtherConnects
<1>2. UNCHANGED appVars
  BY DEF OtherConnects
<1>3. c \in Conns /\ IpcTypeOK
  BY DEF Unused, SocketInv
<1>4. up' \in [Conns -> Seq(Commands)]
  BY <1>3 DEF OtherConnects, IpcTypeOK
<1>5. /\ IpcTypeOK' /\ ClientSlots' /\ ClosedForgotten'
      /\ c # NoConn /\ c \notin uiEnd /\ uiEnd' = uiEnd \cup {c}
      /\ UNCHANGED <<down, told>>
  BY <1>1, <1>4, NewConnection
<1>6. OneSocket'
  BY <1>1, <1>2, <1>5 DEF SocketInv, OneSocket, appVars
<1>7. AppTypeOK' /\ OffClosed' /\ ToldOrShown'
  BY <1>2, <1>5 DEF SocketInv, AppTypeOK, OffClosed, ToldOrShown, appVars
<1> QED BY <1>5, <1>6, <1>7 DEF SocketInv

\* Another client closes its connection, which is not the app's.
LEMMA OtherDisconnected ==
  ASSUME SocketInv, OtherQuits
  PROVE  SocketInv'
<1>1. PICK c \in others : Disconnect(c) /\ others' = others \ {c}
  BY DEF OtherQuits
<1>2. UNCHANGED <<ui, sockFd, connectionState, autoConnect, clicks, lastToggle>>
  BY DEF OtherQuits, appVars
<1>3. /\ uiEnd' = uiEnd \ {c} /\ UNCHANGED <<srvVars, up>>
      /\ down' = [d \in Conns |-> IF d = c THEN <<>> ELSE down[d]]
      /\ told' = [d \in Conns |-> IF d = c THEN "none" ELSE told[d]]
  BY <1>1 DEF Disconnect
<1>4. c # sockFd
  <2>1. c \in uiEnd /\ NoConn \notin uiEnd
    BY DEF SocketInv, OneSocket, IpcTypeOK, Conns, NoConn
  <2> QED BY <2>1 DEF SocketInv, OneSocket
<1>5. IpcTypeOK'
  BY <1>3 DEF SocketInv, IpcTypeOK, srvVars
<1>6. ClientSlots'
  BY <1>3 DEF SocketInv, ClientSlots, srvVars
<1>7. OneSocket'
  BY <1>1, <1>2, <1>3, <1>4 DEF SocketInv, OneSocket
<1>8. ClosedForgotten'
  BY <1>3 DEF SocketInv, ClosedForgotten
<1>9. ToldOrShown'
  <2>1. sockFd # NoConn => sockFd \in Conns /\ down'[sockFd] = down[sockFd]
                           /\ told'[sockFd] = told[sockFd]
    BY <1>3, <1>4 DEF SocketInv, AppTypeOK
  <2> QED BY <1>2, <2>1 DEF SocketInv, ToldOrShown
<1>10. AppTypeOK' /\ OffClosed'
  BY <1>2, ClickAssumption DEF SocketInv, AppTypeOK, OffClosed, Click
<1> QED BY <1>5, <1>6, <1>7, <1>8, <1>9, <1>10 DEF SocketInv

\* The socket and the state shown stay as they are.
LEMMA SameSocket ==
  ASSUME SocketInv, UNCHANGED <<srvVars, uiEnd, down, told, ui, sockFd, connectionState, others>>,
         up' \in [Conns -> Seq(Commands)]
  PROVE  WireInv'
<1>1. IpcTypeOK' /\ ClientSlots'
  BY DEF SocketInv, srvVars, IpcTypeOK, ClientSlots
<1>2. OneSocket' /\ OffClosed' /\ ClosedForgotten' /\ ToldOrShown'
  BY DEF SocketInv, OneSocket, OffClosed, ClosedForgotten, ToldOrShown
<1> QED BY <1>1, <1>2 DEF WireInv

\* A command of another client only adds to what the daemon has to read.
LEMMA OtherWritten ==
  ASSUME SocketInv, OtherSends
  PROVE  SocketInv'
<1>1. PICK c \in others \cap Served, cmd \in OtherCommands : Write(c, cmd)
  BY DEF OtherSends
<1>2. UNCHANGED <<srvVars, uiEnd, down, told, appVars, others>>
  BY DEF OtherSends
<1>3. c \in Conns /\ cmd \in Commands /\ IpcTypeOK
  BY OthersAssumption DEF Served, SocketInv
<1>4. up' \in [Conns -> Seq(Commands)]
  BY <1>1, <1>3, Written
<1>5. WireInv'
  BY <1>2, <1>4, SameSocket DEF appVars
<1>6. AppTypeOK'
  BY <1>2 DEF SocketInv, AppTypeOK, appVars
<1> QED BY <1>5, <1>6 DEF SocketInv, WireInv

\* sendCommand, in each of its forms.
LEMMA Sent ==
  ASSUME SocketInv, ui = "on", NEW cmd \in Commands,
         SendOpen(cmd) \/ SendBroken \/ SendNew(cmd), others' = others
  PROVE  /\ WireInv'
         /\ ui' \in {"off", "on"} /\ sockFd' \in Conns \cup {NoConn}
         /\ connectionState' \in Lines \ {"stats"}
         /\ lastToggle' \in {"none", "enable", "disable"}
<1>1. IpcTypeOK /\ AppTypeOK
  BY DEF SocketInv
<1>2. CASE SendOpen(cmd)
  <2>1. sockFd \in Conns
    BY <1>1, <1>2 DEF SendOpen, AppTypeOK
  <2>2. up' \in [Conns -> Seq(Commands)]
    BY <1>1, <1>2, <2>1, Written DEF SendOpen
  <2>3. WireInv'
    BY <1>2, <2>2, SameSocket DEF SendOpen
  <2> QED BY <1>1, <1>2, <2>3 DEF SendOpen, AppTypeOK, Toggled, Commands
<1>3. CASE SendBroken
  <2>1. WireInv'
    BY <1>3, Disconnected DEF SendBroken
  <2> QED BY <1>1, <1>3, <2>1 DEF SendBroken, AppTypeOK, Lines
<1>4. CASE SendNew(cmd)
  <2>1. PICK c \in Unused : Connect(c) /\ Write(c, cmd) /\ sockFd' = c
    BY <1>4 DEF SendNew
  <2>2. c \in Conns
    BY DEF Unused
  <2>3. up' \in [Conns -> Seq(Commands)]
    BY <1>1, <2>1, <2>2, Written
  <2>4. WireInv'
    BY <1>4, <2>1, <2>3, Connected DEF SendNew
  <2> QED BY <1>1, <1>4, <2>1, <2>2, <2>4 DEF SendNew, AppTypeOK, Toggled, Commands
<1> QED BY <1>2, <1>3, <1>4

\* Reading the buffer shows its last state line, the last the daemon told.
LEMMA Read ==
  ASSUME SocketInv, TickRead, others' = others
  PROVE  SocketInv'
<1>1. PICK s \in Conns : s = sockFd
  BY DEF SocketInv, AppTypeOK, TickRead
<1> DEFINE q == down[s]
<1>2. /\ q \in Seq(Lines) /\ q # <<>> /\ connectionState' = Shown(q)
      /\ UNCHANGED <<ui, autoConnect, clicks, lastToggle>>
      /\ s # NoConn
  BY <1>1 DEF SocketInv, IpcTypeOK, TickRead
<1>3. \/ StateLines(q) = {} /\ (told[s] = "none" \/ connectionState = told[s])
      \/ \E k \in 1 .. Len(q) : LastStateAt(q, k, told[s])
  BY <1>1, <1>2 DEF SocketInv, ToldOrShown
<1>4. /\ connectionState' \in Lines \ {"stats"}
      /\ told[s] = "none" \/ connectionState' = told[s]
  <2>1. CASE StateLines(q) = {}
    <3>1. ~ \E k \in 1 .. Len(q) : LastStateAt(q, k, told[s])
      BY <2>1 DEF LastStateAt
    <3> QED BY <1>2, <1>3, <2>1, <3>1 DEF Shown, SocketInv, AppTypeOK
  <2>2. CASE StateLines(q) # {}
    <3>1. PICK k \in 1 .. Len(q) : LastStateAt(q, k, told[s])
      BY <1>3, <2>2
    <3> DEFINE M == CHOOSE j \in StateLines(q) : \A l \in StateLines(q) : l <= j
    <3>2. k \in StateLines(q) /\ \A l \in StateLines(q) : l <= k
      BY <3>1 DEF LastStateAt
    <3>3. M \in StateLines(q) /\ \A l \in StateLines(q) : l <= M
      BY <3>2
    <3>4. M = k
      <4>1. StateLines(q) \subseteq Int
        BY <1>2 DEF StateLines
      <4> HIDE DEF M
      <4> QED BY <3>2, <3>3, <4>1
    <3>5. connectionState' = q[k]
      BY <1>2, <2>2, <3>4 DEF Shown
    <3>6. q[k] = told[s] /\ q[k] \in Lines \ {"stats"}
      BY <1>2, <3>1 DEF LastStateAt, StateLines
    <3> QED BY <3>5, <3>6
  <2> QED BY <2>1, <2>2
<1>5. CASE Has(q, "disconnected")
  <2>1. Disconnect(sockFd) /\ sockFd' = NoConn
    BY <1>1, <1>5 DEF TickRead
  <2>2. WireInv'
    BY <2>1, Disconnected
  <2> QED BY <1>2, <1>4, <2>1, <2>2 DEF SocketInv, WireInv, AppTypeOK
<1>6. CASE ~Has(q, "disconnected")
  <2>1. /\ down' = [down EXCEPT ![s] = <<>>]
        /\ UNCHANGED <<srvVars, uiEnd, up, told, sockFd>>
    BY <1>1, <1>6 DEF TickRead
  <2>2. IpcTypeOK'
    BY <2>1 DEF SocketInv, IpcTypeOK, srvVars
  <2>3. ClientSlots'
    BY <2>1 DEF SocketInv, ClientSlots, srvVars
  <2>4. AppTypeOK' /\ OffClosed' /\ OneSocket'
    BY <1>2, <1>4, <2>1 DEF SocketInv, AppTypeOK, OffClosed, OneSocket
  <2>5. down'[s] = <<>> /\ \A c \in Conns : c # s => down'[c] = down[c]
    BY <2>1 DEF SocketInv, IpcTypeOK
  <2>6. ClosedForgotten'
    BY <2>1, <2>5 DEF SocketInv, ClosedForgotten
  <2>7. ToldOrShown'
    <3>1. StateLines(<<>>) = {}
      BY DEF StateLines
    <3> QED BY <1>1, <1>4, <2>1, <2>5, <3>1 DEF ToldOrShown
  <2> QED BY <2>2, <2>3, <2>4, <2>6, <2>7 DEF SocketInv
<1> QED BY <1>5, <1>6

LEMMA AppStep ==
  ASSUME SocketInv, AppNext, others' = others
  PROVE  SocketInv'
<1>1. IpcTypeOK /\ AppTypeOK
  BY DEF SocketInv
<1>2. Click => clicks' \in 0 .. MAX_CLICKS
  BY <1>1, ClickAssumption DEF Click, AppTypeOK
<1>3. CASE Launch
  <2>1. sockFd = NoConn /\ sockFd' = NoConn /\ UNCHANGED ipcVars
    BY <1>3 DEF Launch, SocketInv, OffClosed
  <2>2. IpcTypeOK' /\ ClientSlots'
    BY <2>1 DEF SocketInv, ipcVars, srvVars, wireVars, IpcTypeOK, ClientSlots
  <2>3. OneSocket' /\ ClosedForgotten' /\ ToldOrShown' /\ OffClosed'
    BY <2>1 DEF SocketInv, ipcVars, wireVars, OneSocket, ClosedForgotten, ToldOrShown, OffClosed
  <2>4. AppTypeOK'
    BY <1>1, <1>3 DEF Launch, AppTypeOK, Lines
  <2> QED BY <2>2, <2>3, <2>4 DEF SocketInv
<1>4. CASE TickConnect
  <2>1. ui = "on" /\ sockFd = NoConn /\ UNCHANGED <<autoConnect, clicks>>
    BY <1>4 DEF TickConnect
  <2>2. CASE SendNew("enable")
    <3>1. "enable" \in Commands
      BY DEF Commands
    <3> QED BY <1>1, <2>1, <2>2, <3>1, Sent DEF SocketInv, WireInv, AppTypeOK
  <2>3. CASE /\ \E c \in Unused : Connect(c) /\ sockFd' = c
             /\ UNCHANGED <<up, ui, connectionState, lastToggle>>
    <3>1. PICK c \in Unused : Connect(c) /\ sockFd' = c
      BY <2>3
    <3>2. up' \in [Conns -> Seq(Commands)]
      BY <1>1, <2>3 DEF IpcTypeOK
    <3>3. WireInv'
      BY <2>1, <2>3, <3>1, <3>2, Connected
    <3> QED BY <1>1, <2>1, <2>3, <3>1, <3>3 DEF SocketInv, WireInv, AppTypeOK, Unused
  <2> QED BY <1>4, <2>2, <2>3 DEF TickConnect
<1>5. CASE TickConnectFails
  <2>1. sockFd = NoConn /\ sockFd' = NoConn /\ UNCHANGED ipcVars
    BY <1>5 DEF TickConnectFails
  <2>2. IpcTypeOK' /\ ClientSlots'
    BY <2>1 DEF SocketInv, ipcVars, srvVars, wireVars, IpcTypeOK, ClientSlots
  <2>3. OneSocket' /\ ClosedForgotten' /\ ToldOrShown' /\ OffClosed'
    BY <2>1 DEF SocketInv, ipcVars, wireVars, OneSocket, ClosedForgotten, ToldOrShown, OffClosed
  <2>4. AppTypeOK'
    BY <1>1, <1>5 DEF TickConnectFails, AppTypeOK, Lines
  <2> QED BY <2>2, <2>3, <2>4 DEF SocketInv
<1>6. CASE TickRead
  BY <1>6, Read
<1>7. CASE TickEof
  <2>1. WireInv'
    BY <1>7, Disconnected DEF TickEof
  <2> QED BY <1>1, <1>7, <2>1 DEF TickEof, SocketInv, WireInv, AppTypeOK, Lines
<1>8. CASE StartTethering
  <2>1. "enable" \in Commands
    BY DEF Commands
  <2>2. ui = "on" /\ Click /\ UNCHANGED autoConnect
    BY <1>8 DEF StartTethering
  <2>3. SendOpen("enable") \/ SendBroken \/ SendNew("enable")
    BY <1>8 DEF StartTethering
  <2> QED BY <1>1, <1>2, <2>1, <2>2, <2>3, Sent DEF SocketInv, WireInv, AppTypeOK
<1>9. CASE StopTethering
  <2>1. PICK cmd \in Commands : SendOpen(cmd) \/ SendBroken
    BY <1>9 DEF StopTethering, Commands
  <2>2. ui = "on" /\ Click /\ UNCHANGED autoConnect
    BY <1>9 DEF StopTethering
  <2> QED BY <1>1, <1>2, <2>1, <2>2, Sent DEF SocketInv, WireInv, AppTypeOK
<1>10. CASE ToggleAutoConnect
  <2>1. PICK cmd \in Commands :
          \/ SendOpen(cmd) \/ SendBroken \/ SendNew(cmd)
          \/ UNCHANGED <<ui, sockFd, connectionState, lastToggle, ipcVars>>
    BY <1>10 DEF ToggleAutoConnect, Commands
  <2>2. ui = "on" /\ Click /\ autoConnect' = 1 - autoConnect
    BY <1>10 DEF ToggleAutoConnect
  <2>3. autoConnect' \in {0, 1}
    BY <1>1, <2>2 DEF AppTypeOK
  <2>4. CASE SendOpen(cmd) \/ SendBroken \/ SendNew(cmd)
    BY <1>1, <1>2, <2>2, <2>3, <2>4, Sent DEF SocketInv, WireInv, AppTypeOK
  <2>5. CASE UNCHANGED <<ui, sockFd, connectionState, lastToggle, ipcVars>>
    <3>1. up' \in [Conns -> Seq(Commands)]
      BY <1>1, <2>5 DEF IpcTypeOK, ipcVars, wireVars
    <3>2. WireInv'
      BY <2>5, <3>1, SameSocket DEF ipcVars, wireVars
    <3> QED BY <1>1, <1>2, <2>2, <2>3, <2>5, <3>2 DEF SocketInv, WireInv, AppTypeOK
  <2> QED BY <2>1, <2>4, <2>5
<1>11. CASE Quit
  <2>1. WireInv'
    BY <1>11, Disconnected DEF Quit
  <2> QED BY <1>1, <1>2, <1>11, <2>1 DEF Quit, SocketInv, WireInv, AppTypeOK, Lines
<1> QED
  BY <1>3, <1>4, <1>5, <1>6, <1>7, <1>8, <1>9, <1>10, <1>11 DEF AppNext, Tick
-----------------------------------------------------------------------------
(* The theorems *)

LEMMA InitInv == Init => TetherInv
<1> SUFFICES ASSUME Init PROVE TetherInv
  OBVIOUS
<1>1. DaemonInv
  <2>1. optVars \in Modes
    <3>1. PICK m \in Modes : g_watch_mode = m[1] /\ g_no_route = m[2] /\ g_no_dns = m[3]
      BY DEF Init, DaemonInit
    <3>2. m = <<m[1], m[2], m[3]>>
      BY DaemonAssumption
    <3> QED BY <3>1, <3>2 DEF optVars
  <2> QED BY <2>1, DaemonAssumption DEF Init, DaemonInit, DaemonInv, DaemonTypeOK, PendingSet
<1>2. IpcTypeOK /\ AppTypeOK
  BY ClickAssumption DEF Init, IpcInit, AppInit, IpcTypeOK, AppTypeOK, Lines
<1>3. ClientSlots
  <2>1. {i \in ClientIdx : client_fds[i] # NoConn} = {}
    BY DEF Init, IpcInit
  <2>2. 1 .. Len(backlog) = {}
    BY DEF Init, IpcInit
  <2> QED BY <2>1, <2>2, FS_EmptySet DEF Init, IpcInit, ClientSlots
<1>4. OneSocket /\ OffClosed /\ ClosedForgotten /\ ToldOrShown
  BY DEF Init, IpcInit, AppInit, OneSocket, OffClosed, ClosedForgotten, ToldOrShown
<1> QED BY <1>1, <1>2, <1>3, <1>4 DEF TetherInv, SocketInv

LEMMA NextInv == TetherInv /\ [Next]_vars => TetherInv'
<1> SUFFICES ASSUME TetherInv, [Next]_vars PROVE TetherInv'
  OBVIOUS
<1>1. DaemonInv /\ SocketInv
  BY DEF TetherInv
<1>2. CASE DaemonMoves
  BY <1>1, <1>2, DaemonStep, SocketKept DEF DaemonMoves, TetherInv
<1>3. UNCHANGED daemonVars => DaemonInv'
  BY <1>1 DEF DaemonInv, daemonVars, optVars, ctlVars, netVars, DaemonTypeOK, PendingSet
<1>4. CASE AppMoves
  BY <1>1, <1>3, <1>4, AppStep DEF AppMoves, TetherInv
<1>5. CASE TriggerWritten
  <2>1. DaemonInv'
    BY <1>1, <1>5 DEF TriggerWritten, DaemonInv, optVars, netVars, DaemonTypeOK, PendingSet
  <2>2. up' \in [Conns -> Seq(Commands)]
    BY <1>1, <1>5 DEF TriggerWritten, SocketInv, IpcTypeOK, ipcVars, wireVars
  <2>3. WireInv'
    BY <1>1, <1>5, <2>2, SameSocket DEF TriggerWritten, ipcVars, wireVars
  <2>4. AppTypeOK'
    BY <1>1, <1>5, ClickAssumption DEF TriggerWritten, Click, SocketInv, AppTypeOK
  <2> QED BY <2>1, <2>3, <2>4 DEF TetherInv, SocketInv, WireInv
<1>6. CASE UNCHANGED vars
  <2>1. DaemonInv'
    BY <1>3, <1>6 DEF vars
  <2>2. SocketInv'
    BY <1>1, <1>6, SocketKept DEF vars, SocketStep
  <2> QED BY <2>1, <2>2 DEF TetherInv
<1>7. CASE OtherConnects
  BY <1>1, <1>3, <1>7, OtherConnected DEF OtherConnects, TetherInv
<1>8. CASE OtherQuits
  BY <1>1, <1>3, <1>8, OtherDisconnected DEF OtherQuits, TetherInv
<1>9. CASE OtherSends
  BY <1>1, <1>3, <1>9, OtherWritten DEF OtherSends, TetherInv
<1> QED BY <1>2, <1>4, <1>5, <1>6, <1>7, <1>8, <1>9 DEF Next, Finished

LEMMA TetherInvHolds == Spec => []TetherInv
BY InitInv, NextInv, PTL DEF Spec

\* Type correctness of daemon, socket and app; in particular the retry loop's
\* index stays in its range, and every slot holds a connection or none.
THEOREM TetherTypes == Spec => []TypeOK
<1>1. TetherInv => TypeOK
  BY DEF TetherInv, DaemonInv, SocketInv, TypeOK, OneSocket, IpcTypeOK
<1> QED BY <1>1, TetherInvHolds, PTL

\* However clients come, go and are refused, num_clients is the number of
\* occupied slots and no descriptor is in two places.
THEOREM SlotsAreCounted == Spec => []ClientSlots
<1>1. TetherInv => ClientSlots
  BY DEF TetherInv, SocketInv
<1> QED BY <1>1, TetherInvHolds, PTL

\* On every path the app closes the socket it forgets, and forgets the one it
\* closes.
THEOREM SocketNotLeaked == Spec => []OneSocket
<1>1. TetherInv => OneSocket
  BY DEF TetherInv, SocketInv
<1> QED BY <1>1, TetherInvHolds, PTL

\* Once everything is read the menu shows the last state the daemon told this
\* connection.
THEOREM MenuShowsTold == Spec => []AppShowsTold
<1>1. TetherInv => AppShowsTold
  <2> SUFFICES ASSUME TetherInv, Settled, told[sockFd] # "none"
               PROVE  connectionState = told[sockFd]
    BY DEF AppShowsTold
  <2>1. sockFd \in Conns /\ sockFd # NoConn /\ down[sockFd] = <<>> /\ ToldOrShown
    BY DEF TetherInv, SocketInv, AppTypeOK, Settled
  <2>2. 1 .. Len(down[sockFd]) = {}
    BY <2>1
  <2> QED BY <2>1, <2>2 DEF ToldOrShown
<1> QED BY <1>1, TetherInvHolds, PTL
=============================================================================
