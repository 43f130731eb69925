-------------------------------- MODULE Dhcp --------------------------------
(***************************************************************************)
(* The DHCP client (src/dhcp.c, dhcp_discover) and what run_session makes  *)
(* of its result.  It sends one DISCOVER and one REQUEST, never repeats    *)
(* either, and waits for each answer through a bounded number of USB       *)
(* reads.  A read returns some of the frames the phone has queued; frames  *)
(* that are not DHCP answers use up reads as well.  Every call uses the    *)
(* same transaction id, so an answer to an earlier call is not told apart. *)
(* The four options it looks for are treated alike and are one here, gw.   *)
(* The phone's DHCP servers are external; they answer, refuse, or do not   *)
(* answer, in any order.  An OFFER, ACK or NAK names its server in option  *)
(* 54 and an OFFER holds an address, as RFC 2131 asks of a server; what    *)
(* the code makes of an answer without them (it keeps the server it had,   *)
(* dhcp.c:246, and takes an address of 0 for no OFFER, dhcp.c:269) is left *)
(* out.                                                                    *)
(***************************************************************************)
EXTENDS Integers, Sequences

CONSTANTS
  Servers,        \* DHCP servers behind the phone, named by numbers from 1
  Hosts,          \* numbers of the addresses each of them gives out
  ATTEMPTS,       \* reads before giving up (50)
  MAX_CALLS,      \* bound of the model: sessions
  QLEN            \* bound of the model: frames queued in the phone

ASSUME DhcpAssumption ==
  /\ Servers \subseteq Nat \ {0} /\ Hosts \subseteq Nat
  /\ ATTEMPTS \in Nat \ {0}
  /\ MAX_CALLS \in Nat \ {0}
  /\ QLEN \in Nat \ {0}

IPs       == Servers \X Hosts     \* an address, named by who gives it out
NoIp      == <<0, 0>>             \* an address of 0
DefaultIp == <<0, 1>>             \* DEFAULT_STATIC_IP
Zero      == 0                    \* no server, no gateway
DefaultGw == -1                   \* DEFAULT_GATEWAY

VARIABLES
  pc, attempt,
  offered_addr, server_addr, gw,
  lease,          \* what run_session configures: ip and gw
  calls,
  net,            \* frames queued for the host, in order
  discovers,      \* servers that have not dealt with the last DISCOVER
  requests,       \* REQUESTs no server has dealt with
  made,           \* ghost: <<server, ip>> of every OFFER
  acked           \* ghost: <<server, ip>> of every ACK

cliVars == <<pc, attempt, offered_addr, server_addr, gw, lease, calls>>
srvVars == <<discovers, requests, made, acked>>
vars    == <<cliVars, net, srvVars>>

Frame(type, s, ip, g) == [type |-> type, server |-> s, ip |-> ip, gw |-> g]
Noise == Frame("other", Zero, NoIp, Zero)

Init ==
  /\ pc = "discover" /\ attempt = 0 /\ calls = 1
  /\ offered_addr = NoIp /\ server_addr = Zero /\ gw = Zero
  /\ lease = [ip |-> NoIp, gw |-> Zero]
  /\ net = <<>>
  /\ discovers = {} /\ requests = {} /\ made = {} /\ acked = {}

-----------------------------------------------------------------------------
(* The phone *)

Queue(f) == Len(net) < QLEN /\ net' = Append(net, f)

ServerOffer(s) ==
  /\ s \in discovers
  /\ discovers' = discovers \ {s}
  /\ \E h \in Hosts, g \in {s, Zero} :
       /\ Queue(Frame("offer", s, <<s, h>>, g))
       /\ made' = made \cup {<<s, <<s, h>>>>}
  /\ UNCHANGED <<cliVars, requests, acked>>

ServerAck(r) ==
  /\ r \in requests
  /\ requests' = requests \ {r}
  /\ \E g \in {r.server, Zero} : Queue(Frame("ack", r.server, r.ip, g))
  /\ acked' = acked \cup {<<r.server, r.ip>>}
  /\ UNCHANGED <<cliVars, discovers, made>>

ServerNak(r) ==
  /\ r \in requests
  /\ requests' = requests \ {r}
  /\ Queue(Frame("nak", r.server, NoIp, Zero))
  /\ UNCHANGED <<cliVars, discovers, made, acked>>

OtherTraffic ==
  /\ Queue(Noise)
  /\ UNCHANGED <<cliVars, srvVars>>

-----------------------------------------------------------------------------
(* dhcp_discover *)

\* A bulk transfer that fails ends the call.
SendFails ==
  /\ pc \in {"discover", "request"}
  /\ pc' = "failed"
  /\ UNCHANGED <<attempt, offered_addr, server_addr, gw, lease, calls, net, srvVars>>

Discover ==
  /\ pc = "discover"
  /\ pc' = "offer" /\ attempt' = 0
  /\ offered_addr' = NoIp /\ server_addr' = Zero /\ gw' = Zero
  /\ discovers' = Servers
  /\ UNCHANGED <<lease, calls, net, requests, made, acked>>

\* The first frame of a type among the n frames of one read.
First(type, n, k) ==
  /\ k \in 1 .. n
  /\ net[k].type = type
  /\ \A j \in 1 .. k - 1 : net[j].type # type

None(type, n) == \A k \in 1 .. n : net[k].type # type

\* Mutant: the first server named stays, whoever made the offer.
ServerKept(k) ==
  IF server_addr # Zero \/ k = 0 \/ net[k].server = Zero
  THEN server_addr ELSE net[k].server

\* Option 54 of every DHCP frame up to the k-th, the last one winning.
ServerAfter(k) ==
  IF \A j \in 1 .. k : net[j].server = Zero THEN server_addr
  ELSE LET last == CHOOSE j \in 1 .. k :
                     /\ net[j].server # Zero
                     /\ \A i \in j + 1 .. k : net[i].server = Zero
       IN  net[last].server

\* dhcp_parse_options: an option that is absent leaves the old value.
ParseOptions(f) == IF f.gw = Zero THEN gw ELSE f.gw

\* Mutant: a read that brings frames does not count.
EmptyReadsOnly(n) == attempt' = IF n = 0 THEN attempt + 1 ELSE attempt

CountRead(n) == attempt' = attempt + 1

\* Reading stops at the first OFFER; the rest of the transfer is dropped.
OfferRead(n) ==
  /\ pc = "offer" /\ attempt < ATTEMPTS
  /\ \E k \in 1 .. n :
       /\ First("offer", n, k)
       /\ offered_addr' = net[k].ip
       /\ server_addr' = ServerAfter(k)
       /\ gw' = ParseOptions(net[k])
  /\ net' = SubSeq(net, n + 1, Len(net))
  /\ pc' = "request"
  /\ CountRead(n)
  /\ UNCHANGED <<lease, calls, srvVars>>

\* Mutant: one read too many.
NoOfferReadOnceMore(n) ==
  /\ pc = "offer" /\ attempt <= ATTEMPTS
  /\ None("offer", n)
  /\ server_addr' = ServerAfter(n)
  /\ net' = SubSeq(net, n + 1, Len(net))
  /\ CountRead(n)
  /\ UNCHANGED <<pc, offered_addr, gw, lease, calls, srvVars>>

NoOfferRead(n) ==
  /\ pc = "offer" /\ attempt < ATTEMPTS
  /\ None("offer", n)
  /\ server_addr' = ServerAfter(n)
  /\ net' = SubSeq(net, n + 1, Len(net))
  /\ CountRead(n)
  /\ UNCHANGED <<pc, offered_addr, gw, lease, calls, srvVars>>

RequestFor(addr, s) == [ip |-> addr, server |-> s]

Request ==
  /\ pc = "request"
  /\ requests' = requests \cup {RequestFor(offered_addr, server_addr)}
  /\ pc' = "ack" /\ attempt' = 0
  /\ UNCHANGED <<offered_addr, server_addr, gw, lease, calls, net,
                 discovers, made, acked>>

\* Mutant: any answer is taken for an ACK.
AnyAnswer(n, k) ==
  /\ k \in 1 .. n /\ net[k].type \in {"offer", "ack"}
  /\ \A j \in 1 .. k - 1 : net[j].type \notin {"offer", "ack"}

FirstAck(n, k) == First("ack", n, k)

\* The address is the one of the ACK, whatever was requested.
AckRead(n) ==
  /\ pc = "ack" /\ attempt < ATTEMPTS
  /\ \E k \in 1 .. n :
       /\ FirstAck(n, k)
       /\ gw' = ParseOptions(net[k])
       /\ lease' = [ip |-> net[k].ip,
                    gw |-> IF ParseOptions(net[k]) = Zero THEN DefaultGw
                           ELSE ParseOptions(net[k])]
  /\ net' = SubSeq(net, n + 1, Len(net))
  /\ pc' = "ok"
  /\ CountRead(n)
  /\ UNCHANGED <<offered_addr, server_addr, calls, srvVars>>

NoAckRead(n) ==
  /\ pc = "ack" /\ attempt < ATTEMPTS
  /\ None("ack", n)
  /\ net' = SubSeq(net, n + 1, Len(net))
  /\ CountRead(n)
  /\ UNCHANGED <<pc, offered_addr, server_addr, gw, lease, calls, srvVars>>

GiveUp ==
  /\ pc \in {"offer", "ack"} /\ attempt = ATTEMPTS
  /\ pc' = "failed"
  /\ UNCHANGED <<attempt, offered_addr, server_addr, gw, lease, calls, net, srvVars>>

-----------------------------------------------------------------------------
(* run_session *)

\* DHCP failed: the default configuration.
Fallback ==
  /\ pc = "failed"
  /\ lease' = [ip |-> DefaultIp, gw |-> DefaultGw]
  /\ pc' = "static"
  /\ UNCHANGED <<attempt, offered_addr, server_addr, gw, calls, net, srvVars>>

\* The bridge reads what is queued, and does not look for DHCP.
BridgeReads ==
  /\ pc \in {"ok", "static"}
  /\ net # <<>>
  /\ net' = Tail(net)
  /\ UNCHANGED <<cliVars, srvVars>>

NextSession ==
  /\ pc \in {"ok", "static"}
  /\ calls < MAX_CALLS
  /\ calls' = calls + 1
  /\ pc' = "discover"
  /\ UNCHANGED <<attempt, offered_addr, server_addr, gw, lease, net, srvVars>>

Finished == pc \in {"ok", "static"} /\ UNCHANGED vars

-----------------------------------------------------------------------------

Reads ==
  \E n \in 0 .. Len(net) :
    OfferRead(n) \/ NoOfferRead(n) \/ AckRead(n) \/ NoAckRead(n)

Client == SendFails \/ Discover \/ Reads \/ Request \/ GiveUp \/ Fallback

Phone ==
  \/ \E s \in Servers : ServerOffer(s)
  \/ \E r \in requests : ServerAck(r) \/ ServerNak(r)
  \/ OtherTraffic

Next == Client \/ Phone \/ BridgeReads \/ NextSession \/ Finished

Spec == Init /\ [][Next]_vars

\* usb_recv_bulk returns after 200 ms at the latest.
FairSpec == Spec /\ WF_vars(Client)

-----------------------------------------------------------------------------

Frames ==
  [type : {"offer", "ack", "nak", "other"}, server : Servers \cup {Zero},
   ip : IPs \cup {NoIp}, gw : Servers \cup {Zero}]

\* Type correctness of the client and the queues.
TypeOK ==
  /\ pc \in {"discover", "offer", "request", "ack", "ok", "failed", "static"}
  /\ attempt \in 0 .. ATTEMPTS
  /\ calls \in 1 .. MAX_CALLS
  /\ offered_addr \in IPs \cup {NoIp} /\ server_addr \in Servers \cup {Zero}
  /\ gw \in Servers \cup {Zero}
  /\ lease \in [ip : IPs \cup {NoIp, DefaultIp}, gw : Servers \cup {Zero, DefaultGw}]
  /\ net \in Seq(Frames)
  /\ discovers \in SUBSET Servers
  /\ requests \in SUBSET [ip : IPs, server : Servers]
  /\ made \in SUBSET (Servers \X IPs) /\ acked \in SUBSET (Servers \X IPs)

\* A REQUEST names an address together with the server that offered it,
\* although the two come from different parts of the frames and other
\* servers' frames are read in between.
RequestConsistent == \A r \in requests : <<r.server, r.ip>> \in made

\* A lease is an address some server acknowledged, even when the answers of
\* an earlier session are still in the queue.
LeaseWasAcked == pc = "ok" => \E s \in Servers : <<s, lease.ip>> \in acked

\* Without such leftovers it is the address the client asked for, with the
\* gateway of the same server or the default one: options of one server's
\* OFFER are not mixed with the ACK of another.
LeaseIsRequested ==
  pc = "ok" /\ calls = 1 =>
    /\ lease.ip = offered_addr
    /\ lease.gw \in {server_addr, DefaultGw}

\* The call returns, however much other traffic the phone sends.
Returns == (pc = "offer" \/ pc = "ack") ~> (pc \in {"ok", "static"})
=============================================================================
