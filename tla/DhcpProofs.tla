----------------------------- MODULE DhcpProofs -----------------------------
(***************************************************************************)
(* Proofs, for any number of servers, addresses, reads, sessions and       *)
(* queued frames, that the DHCP client asks for and configures what some   *)
(* server offered and acknowledged.                                        *)
(***************************************************************************)
EXTENDS Dhcp, Lemmas

USE DEF cliVars, srvVars, Zero, DefaultGw

\* A frame in the queue carries what its server did.
FrameTrue(f) ==
  /\ f.type = "offer" => <<f.server, f.ip>> \in made /\ f.gw \in {f.server, Zero}
  /\ f.type = "ack" => <<f.server, f.ip>> \in acked /\ f.gw \in {f.server, Zero}

QueueTrue == \A k \in 1 .. Len(net) : FrameTrue(net[k])

\* From the OFFER to the end of the call the address is the one of the server.
OfferKept == pc \in {"request", "ack"} => <<server_addr, offered_addr>> \in made

\* In the first session no answer is older than the REQUEST, and the only
\* REQUEST is for what was offered.
AckIsForUs(f) == f.type = "ack" => f.ip = offered_addr /\ f.server = server_addr

FirstCall ==
  calls = 1 =>
    /\ pc \in {"discover", "offer", "request"} =>
         requests = {} /\ \A k \in 1 .. Len(net) : net[k].type # "ack"
    /\ pc = "offer" => gw = Zero
    /\ pc \in {"request", "ack"} => gw \in {server_addr, Zero}
    /\ pc = "ack" =>
         /\ requests \subseteq {RequestFor(offered_addr, server_addr)}
         /\ \A k \in 1 .. Len(net) : AckIsForUs(net[k])

\* The inductive invariant.
DhcpInv ==
  /\ TypeOK /\ QueueTrue /\ OfferKept /\ FirstCall
  /\ RequestConsistent /\ LeaseWasAcked /\ LeaseIsRequested

-----------------------------------------------------------------------------
(* The operators *)

\* The server the options name is one the frames named, or the old one.
LEMMA ServerAfterType ==
  ASSUME TypeOK, NEW n \in 0 .. Len(net)
  PROVE  ServerAfter(n) \in Servers \cup {Zero}
<1> DEFINE S == {j \in 1 .. n : net[j].server # Zero}
<1>1. CASE S = {}
  <2>1. \A j \in 1 .. n : net[j].server = Zero
    BY <1>1
  <2> QED BY <2>1 DEF ServerAfter, TypeOK
<1>2. CASE S # {}
  <2>1. n \in Nat /\ 1 .. n \subseteq 1 .. Len(net)
    BY DEF TypeOK
  <2>2. PICK m \in S : \A i \in S : i <= m
    BY <1>2, <2>1, LastExists
  <2> DEFINE Last(j) == /\ net[j].server # Zero
                        /\ \A i \in j + 1 .. n : net[i].server = Zero
  <2>3. m \in 1 .. n /\ Last(m)
    BY <2>1, <2>2
  <2> HIDE DEF Last
  <2>4. (CHOOSE j \in 1 .. n : Last(j)) \in 1 .. n
    BY <2>3
  <2>5. net[CHOOSE j \in 1 .. n : Last(j)].server \in Servers \cup {Zero}
    <3>1. \A j \in 1 .. n : net[j] \in Frames
      BY <2>1, ElementOfSeq DEF TypeOK
    <3>2. \A j \in 1 .. n : net[j].server \in Servers \cup {Zero}
      BY <3>1 DEF Frames
    <3> QED BY <2>4, <3>2
  <2>6. server_addr \in Servers \cup {Zero}
    BY DEF TypeOK
  <2> QED BY <2>5, <2>6 DEF ServerAfter, Last
<1> QED BY <1>1, <1>2

\* The server of the frame that ends the search is the one that is kept.
LEMMA ServerAfterFrame ==
  ASSUME TypeOK, NEW k \in 1 .. Len(net), net[k].server # Zero
  PROVE  ServerAfter(k) = net[k].server
<1> DEFINE Last(j) == /\ net[j].server # Zero
                      /\ \A i \in j + 1 .. k : net[i].server = Zero
<1>1. k \in Nat /\ k \in 1 .. k
  BY DEF TypeOK
<1>2. Last(k)
  BY <1>1
<1>3. \A j \in 1 .. k : Last(j) => j = k
  BY <1>1
<1> HIDE DEF Last
<1>4. (CHOOSE j \in 1 .. k : Last(j)) = k
  BY <1>1, <1>2, <1>3
<1> QED BY <1>1, <1>4 DEF ServerAfter, Last

\* What is queued, after a server sent a frame.
LEMMA Queued ==
  ASSUME TypeOK, NEW f \in Frames, Queue(f)
  PROVE  /\ net' \in Seq(Frames)
         /\ \A k \in 1 .. Len(net') : net'[k] = f \/ \E j \in 1 .. Len(net) : net'[k] = net[j]
<1>1. net \in Seq(Frames) /\ net' = Append(net, f)
  BY DEF TypeOK, Queue
<1> QED BY <1>1, AppendProperties

\* What is left in the queue, after n frames were read.
LEMMA Left ==
  ASSUME TypeOK, NEW n \in 0 .. Len(net), net' = SubSeq(net, n + 1, Len(net))
  PROVE  /\ net' \in Seq(Frames)
         /\ \A k \in 1 .. Len(net') : \E j \in 1 .. Len(net) : net'[k] = net[j]
<1>1. net \in Seq(Frames) /\ Len(net) \in Nat
  BY DEF TypeOK
<1>2. \A i \in n + 1 .. Len(net) : net[i] \in Frames
  BY <1>1, ElementOfSeq
<1>3. /\ net' \in Seq(Frames)
      /\ Len(net') = IF n + 1 <= Len(net) THEN Len(net) - (n + 1) + 1 ELSE 0
      /\ \A i \in 1 .. Len(net) - (n + 1) + 1 : net'[i] = net[n + 1 + i - 1]
  BY <1>1, <1>2, SubSeqProperties
<1> QED BY <1>1, <1>3

-----------------------------------------------------------------------------
(* The inductive invariant holds *)

LEMMA PhoneStep == DhcpInv /\ Phone => DhcpInv'
<1> SUFFICES ASSUME DhcpInv, Phone PROVE DhcpInv'
  OBVIOUS
<1> USE DhcpAssumption DEF DhcpInv, OfferKept, RequestConsistent, LeaseWasAcked, LeaseIsRequested
<1>1. ASSUME NEW f \in Frames, Queue(f), UNCHANGED cliVars,
             discovers' \subseteq discovers, requests' \subseteq requests,
             made \subseteq made', made' \in SUBSET (Servers \X IPs),
             acked \subseteq acked', acked' \in SUBSET (Servers \X IPs),
             FrameTrue(f)',
             calls = 1 /\ f.type = "ack" => pc \notin {"discover", "offer", "request"},
             calls = 1 /\ pc = "ack" => AckIsForUs(f)
      PROVE  DhcpInv'
  <2>1. TypeOK'
    BY <1>1, Queued DEF TypeOK
  <2>2. QueueTrue'
    BY <1>1, Queued DEF QueueTrue, FrameTrue
  <2>3. FirstCall'
    <3>1. \A k \in 1 .. Len(net') :
            net'[k] = f \/ \E j \in 1 .. Len(net) : net'[k] = net[j]
      BY <1>1, Queued
    <3> QED BY <1>1, <3>1 DEF FirstCall, AckIsForUs
  <2>4. RequestConsistent'
    BY <1>1
  <2>5. LeaseWasAcked'
    BY <1>1
  <2> QED BY <1>1, <2>1, <2>2, <2>3, <2>4, <2>5
<1>2. CASE \E s \in Servers : ServerOffer(s)
  <2>1. PICK s \in Servers : ServerOffer(s)
    BY <1>2
  <2>2. PICK h \in Hosts, g \in {s, Zero} :
          /\ Queue(Frame("offer", s, <<s, h>>, g))
          /\ made' = made \cup {<<s, <<s, h>>>>}
    BY <2>1 DEF ServerOffer
  <2> DEFINE f == Frame("offer", s, <<s, h>>, g)
  <2>3. f \in Frames /\ <<s, h>> \in IPs
    BY DEF Frame, Frames, IPs
  <2>4. FrameTrue(f)' /\ f.type = "offer" /\ AckIsForUs(f)
    BY <2>2 DEF Frame, FrameTrue, AckIsForUs
  <2>5. made \in SUBSET (Servers \X IPs) /\ acked \in SUBSET (Servers \X IPs)
    BY DEF TypeOK
  <2> HIDE DEF f
  <2> QED BY <1>1, <2>1, <2>2, <2>3, <2>4, <2>5 DEF ServerOffer, f
<1>3. CASE \E r \in requests : ServerAck(r)
  <2>1. PICK r \in requests : ServerAck(r)
    BY <1>3
  <2>2. PICK g \in {r.server, Zero} : Queue(Frame("ack", r.server, r.ip, g))
    BY <2>1 DEF ServerAck
  <2> DEFINE f == Frame("ack", r.server, r.ip, g)
  <2>3. r.server \in Servers /\ r.ip \in IPs
    BY DEF TypeOK
  <2>4. f \in Frames /\ f.type = "ack" /\ f.ip = r.ip /\ f.server = r.server
    BY <2>3 DEF Frame, Frames
  <2>5. FrameTrue(f)'
    BY <2>1, <2>2 DEF Frame, FrameTrue, ServerAck
  <2>6. calls = 1 /\ pc = "ack" => AckIsForUs(f)
    BY <2>4 DEF FirstCall, AckIsForUs, RequestFor
  <2>7. calls = 1 => pc \notin {"discover", "offer", "request"}
    BY DEF FirstCall
  <2>8. made \in SUBSET (Servers \X IPs) /\ acked \in SUBSET (Servers \X IPs)
    BY DEF TypeOK
  <2> HIDE DEF f
  <2> QED BY <1>1, <2>1, <2>2, <2>3, <2>4, <2>5, <2>6, <2>7, <2>8 DEF ServerAck, f
<1>4. CASE \E r \in requests : ServerNak(r)
  <2>1. PICK r \in requests : ServerNak(r)
    BY <1>4
  <2> DEFINE f == Frame("nak", r.server, NoIp, Zero)
  <2>2. f \in Frames /\ f.type = "nak"
    BY DEF Frame, Frames, TypeOK
  <2>3. FrameTrue(f)' /\ AckIsForUs(f)
    BY DEF Frame, FrameTrue, AckIsForUs
  <2>4. made \in SUBSET (Servers \X IPs) /\ acked \in SUBSET (Servers \X IPs)
    BY DEF TypeOK
  <2> HIDE DEF f
  <2> QED BY <1>1, <2>1, <2>2, <2>3, <2>4 DEF ServerNak, f
<1>5. CASE OtherTraffic
  <2>1. Noise \in Frames /\ Noise.type = "other"
    BY DEF Noise, Frame, Frames
  <2>2. FrameTrue(Noise)' /\ AckIsForUs(Noise)
    BY DEF Noise, Frame, FrameTrue, AckIsForUs
  <2>3. made \in SUBSET (Servers \X IPs) /\ acked \in SUBSET (Servers \X IPs)
    BY DEF TypeOK
  <2> QED BY <1>1, <1>5, <2>1, <2>2, <2>3 DEF OtherTraffic
<1> QED BY <1>2, <1>3, <1>4, <1>5 DEF Phone

LEMMA ReadStep == DhcpInv /\ Reads => DhcpInv'
<1> SUFFICES ASSUME DhcpInv, Reads PROVE DhcpInv'
  OBVIOUS
<1> USE DhcpAssumption DEF DhcpInv, OfferKept, RequestConsistent, LeaseWasAcked, LeaseIsRequested
<1>1. PICK n \in 0 .. Len(net) :
        OfferRead(n) \/ NoOfferRead(n) \/ AckRead(n) \/ NoAckRead(n)
  BY DEF Reads
<1>2. n \in Nat /\ Len(net) \in Nat /\ 1 .. n \subseteq 1 .. Len(net)
  BY DEF TypeOK
<1>3. net' = SubSeq(net, n + 1, Len(net))
  BY <1>1 DEF OfferRead, NoOfferRead, AckRead, NoAckRead
<1>4. /\ net' \in Seq(Frames)
      /\ \A k \in 1 .. Len(net') : \E j \in 1 .. Len(net) : net'[k] = net[j]
  BY <1>3, Left
<1>5. \A k \in 1 .. Len(net) : net[k] \in Frames /\ FrameTrue(net[k])
  BY ElementOfSeq DEF TypeOK, QueueTrue
<1>6. UNCHANGED srvVars /\ attempt' \in 0 .. ATTEMPTS
  BY <1>1 DEF OfferRead, NoOfferRead, AckRead, NoAckRead, CountRead, TypeOK
<1>7. QueueTrue' /\ RequestConsistent'
  BY <1>4, <1>5, <1>6 DEF QueueTrue, FrameTrue
<1>8. CASE OfferRead(n)
  <2>1. PICK k \in 1 .. n :
          /\ net[k].type = "offer"
          /\ offered_addr' = net[k].ip
          /\ server_addr' = ServerAfter(k)
          /\ gw' = ParseOptions(net[k])
    BY <1>8 DEF OfferRead, First
  <2>2. net[k] \in Frames /\ FrameTrue(net[k])
    BY <1>2, <1>5
  <2>3. net[k].server \in Servers /\ net[k].ip \in IPs
    BY <2>1, <2>2 DEF FrameTrue, TypeOK
  <2>4. server_addr' = net[k].server
    BY <1>2, <2>1, <2>3, ServerAfterFrame
  <2>5. OfferKept'
    BY <1>6, <2>1, <2>2, <2>4 DEF FrameTrue
  <2>6. gw' \in Servers \cup {Zero}
    BY <2>1, <2>2, <2>3 DEF ParseOptions, FrameTrue, TypeOK
  <2>7. TypeOK'
    BY <1>4, <1>6, <1>8, <2>1, <2>3, <2>4, <2>6 DEF OfferRead, TypeOK
  <2>8. FirstCall'
    BY <1>4, <1>6, <1>8, <2>1, <2>2, <2>4 DEF OfferRead, FirstCall, FrameTrue, ParseOptions
  <2> QED BY <1>7, <1>8, <2>5, <2>7, <2>8 DEF OfferRead
<1>9. CASE NoOfferRead(n)
  <2>1. server_addr' \in Servers \cup {Zero}
    BY <1>9, ServerAfterType DEF NoOfferRead
  <2>2. TypeOK'
    BY <1>4, <1>6, <1>9, <2>1 DEF NoOfferRead, TypeOK
  <2>3. FirstCall'
    BY <1>4, <1>6, <1>9 DEF NoOfferRead, FirstCall
  <2> QED BY <1>7, <1>9, <2>2, <2>3 DEF NoOfferRead
<1>10. CASE AckRead(n)
  <2>1. PICK k \in 1 .. n :
          /\ net[k].type = "ack"
          /\ gw' = ParseOptions(net[k])
          /\ lease' = [ip |-> net[k].ip,
                       gw |-> IF ParseOptions(net[k]) = Zero THEN DefaultGw
                              ELSE ParseOptions(net[k])]
    BY <1>10 DEF AckRead, FirstAck, First
  <2>2. net[k] \in Frames /\ FrameTrue(net[k]) /\ k \in 1 .. Len(net)
    BY <1>2, <1>5
  <2>3. net[k].server \in Servers /\ net[k].ip \in IPs
    BY <2>1, <2>2 DEF FrameTrue, TypeOK
  <2>4. gw' \in Servers \cup {Zero}
    BY <2>1, <2>2, <2>3 DEF ParseOptions, FrameTrue, TypeOK
  <2>5. TypeOK'
    BY <1>4, <1>6, <1>10, <2>1, <2>3, <2>4 DEF AckRead, TypeOK
  <2>6. LeaseWasAcked'
    BY <1>6, <2>1, <2>2, <2>3 DEF FrameTrue
  <2>7. calls = 1 => AckIsForUs(net[k]) /\ gw \in {server_addr, Zero}
    BY <1>10, <2>2 DEF FirstCall, AckRead
  <2>8. LeaseIsRequested'
    BY <1>10, <2>1, <2>2, <2>7 DEF AckRead, AckIsForUs, FrameTrue, ParseOptions
  <2>9. FirstCall'
    BY <1>10 DEF AckRead, FirstCall
  <2> QED BY <1>7, <1>10, <2>5, <2>6, <2>8, <2>9 DEF AckRead
<1>11. CASE NoAckRead(n)
  <2>1. TypeOK'
    BY <1>4, <1>6, <1>11 DEF NoAckRead, TypeOK
  <2>2. FirstCall'
    BY <1>4, <1>6, <1>11 DEF NoAckRead, FirstCall, AckIsForUs
  <2> QED BY <1>6, <1>7, <1>11, <2>1, <2>2 DEF NoAckRead
<1> QED BY <1>1, <1>8, <1>9, <1>10, <1>11

\* Every step keeps the inductive invariant.
LEMMA DhcpStep == DhcpInv /\ [Next]_vars => DhcpInv'
<1> SUFFICES ASSUME DhcpInv, [Next]_vars PROVE DhcpInv'
  OBVIOUS
<1> USE DhcpAssumption DEF DhcpInv, OfferKept, RequestConsistent, LeaseWasAcked,
     LeaseIsRequested, TypeOK, QueueTrue, FrameTrue, FirstCall, AckIsForUs
<1>1. CASE Phone
  BY <1>1, PhoneStep
<1>2. CASE Reads
  BY <1>2, ReadStep
<1>3. CASE SendFails \/ GiveUp
  BY <1>3 DEF SendFails, GiveUp
<1>4. CASE Discover
  BY <1>4 DEF Discover
<1>5. CASE Request
  BY <1>5 DEF Request, RequestFor
<1>6. CASE Fallback
  BY <1>6 DEF Fallback
<1>7. CASE BridgeReads
  <2>1. net' = Tail(net) /\ net # <<>> /\ net \in Seq(Frames)
    BY <1>7 DEF BridgeReads
  <2>2. /\ net' \in Seq(Frames)
        /\ \A k \in 1 .. Len(net') : k + 1 \in 1 .. Len(net) /\ net'[k] = net[k + 1]
    BY <2>1, HeadTailProperties
  <2> QED BY <1>7, <2>2 DEF BridgeReads
<1>8. CASE NextSession
  BY <1>8 DEF NextSession
<1>9. CASE UNCHANGED vars
  BY <1>9 DEF vars
<1> QED
  BY <1>1, <1>2, <1>3, <1>4, <1>5, <1>6, <1>7, <1>8, <1>9 DEF Next, Client, Finished

LEMMA DhcpInvariant == Spec => []DhcpInv
<1>1. Init => DhcpInv
  BY DhcpAssumption, EmptySeq DEF Init, DhcpInv, OfferKept, RequestConsistent, LeaseWasAcked,
     LeaseIsRequested, TypeOK, QueueTrue, FirstCall
<1> QED BY <1>1, DhcpStep, PTL DEF Spec

-----------------------------------------------------------------------------

\* The variables of dhcp_discover and the queues keep their types: an answer
\* that is read never leaves an address or a server no frame carried.
THEOREM DhcpTypes == Spec => []TypeOK
<1>1. DhcpInv => TypeOK
  BY DEF DhcpInv
<1> QED BY <1>1, DhcpInvariant, PTL

\* The REQUEST names the server of the OFFER it accepts, whatever other
\* servers' frames dhcp_parse_options has gone through before it.
THEOREM RequestsAreConsistent == Spec => []RequestConsistent
<1>1. DhcpInv => RequestConsistent
  BY DEF DhcpInv
<1> QED BY <1>1, DhcpInvariant, PTL

\* What dhcp_discover returns was acknowledged by a server, in every session.
THEOREM LeasesWereAcked == Spec => []LeaseWasAcked
<1>1. DhcpInv => LeaseWasAcked
  BY DEF DhcpInv
<1> QED BY <1>1, DhcpInvariant, PTL

\* In a first session it is what was requested, with one server's options.
THEOREM LeasesAreRequested == Spec => []LeaseIsRequested
<1>1. DhcpInv => LeaseIsRequested
  BY DEF DhcpInv
<1> QED BY <1>1, DhcpInvariant, PTL
=============================================================================
