------------------------------ MODULE Packets -------------------------------
(***************************************************************************)
(* The data path of the bridge: the RNDIS messages packed into one USB     *)
(* transfer (src/rndis.c, src/proto_rndis.c), the conversion between       *)
(* Ethernet frames and utun packets (src/frame.c), ARP (src/arp.c) and     *)
(* process_rx_frame (src/main.c).  Lengths are the code's; contents are    *)
(* values that are only passed on.  What a failed allocation, submission   *)
(* or utun_write drops is left out: `replies' and `written' are what the   *)
(* bridge sets out to send and to write.                                   *)
(***************************************************************************)
EXTENDS Integers, Sequences

CONSTANTS
  WORD,           \* lengths are computed modulo WORD (2^32)
  Messages,       \* RNDIS messages a phone sends
  TunPackets,     \* packets the kernel sends through utun
  MAX_MSGS,       \* bound of the model: messages in one transfer
  MAX_HEADERS,    \* bound of the model: headers read in one transfer
  Slacks,         \* bytes by which a transfer is cut short (< 0) or padded
  OurMac, OurIp, Gateway

HDR     == 44     \* sizeof(rndis_data_packet_t)
ETH     == 14     \* sizeof(eth_hdr_t)
ARP     == 28     \* sizeof(arp_packet_t)
ETH_BUF == 2048   \* ETH_BUF_SIZE

RNDIS_BUF == 32768   \* RNDIS_BUF_SIZE, the length of a receive transfer

\* The fields of a header are words, whatever the phone has put there; a
\* length of zero is padding, not a message.
ASSUME LengthAssumption ==
  /\ WORD \in Nat /\ RNDIS_BUF + 8 < WORD
  /\ Slacks \subseteq Int /\ MAX_MSGS \in Nat
  /\ MAX_HEADERS \in Nat /\ MAX_MSGS <= MAX_HEADERS
  /\ \A m \in Messages :
       /\ m.msg_len \in 1 .. WORD - 1
       /\ m.data_offset \in 0 .. WORD - 1 /\ m.data_len \in 0 .. WORD - 1

\* The kernel puts the family of the packet before it, or one that the bridge
\* does not know.
ASSUME TunAssumption ==
  \A p \in TunPackets :
    /\ p.len \in Nat /\ p.data.ver = p.ver
    /\ p.af = "inet" => p.ver = 4
    /\ p.af = "inet6" => p.ver = 6

VARIABLES
  msgs, usb_len,  \* the transfer: its messages and the length libusb reports
  pc,             \* "idle", "loop" in rndis_drv_unwrap_data, "done"
  offset, k,      \* its offset, and how many headers it has read, plus one
  delivered,      \* frames given to on_frame, with their place in the transfer
  written,        \* packets given to utun_write
  replies,        \* ARP replies sent
  sent            \* the last utun packet and the message it was sent in

vars == <<pc, msgs, usb_len, offset, k, delivered, written, replies, sent>>

Nothing == [len |-> -1]

Init ==
  /\ pc = "idle" /\ msgs = <<>> /\ usb_len = 0 /\ offset = 0 /\ k = 1
  /\ delivered = <<>> /\ written = <<>> /\ replies = <<>> /\ sent = <<>>

-----------------------------------------------------------------------------
(* Messages *)

\* rndis_build_data_packet.
Wrap(f) ==
  [type |-> "packet", msg_len |-> HDR + f.len, data_offset |-> 36,
   data_len |-> f.len, frame |-> f]

DataStart(m) == (8 + m.data_offset) % WORD

\* Mutant: an empty payload is accepted, and its end is not looked at.
AcceptsAnyEnd(m) == m.msg_len >= HDR /\ m.type = "packet"

\* rndis_parse_data_packet.
Accepts(m) ==
  /\ m.msg_len >= HDR
  /\ m.type = "packet"
  /\ m.data_len # 0
  /\ DataStart(m) + m.data_len <= m.msg_len

\* The frame it returns is as long as the header says.
Payload(m) == [m.frame EXCEPT !.len = m.data_len]

-----------------------------------------------------------------------------
(* Frames *)

\* frame_eth_to_utun.
EthToUtun(f) ==
  IF f.len < ETH \/ 4 + f.len - ETH > ETH_BUF + 256 \/ f.type \notin {"ip4", "ip6"}
  THEN Nothing
  ELSE [len |-> 4 + f.len - ETH, af |-> IF f.type = "ip4" THEN "inet" ELSE "inet6",
        data |-> f.data]

\* Mutant: the version is not looked at.
EthertypeFamily(p) == IF p.af = "inet6" THEN "ip6" ELSE "ip4"

\* The address family, or the version of the IP header when it is neither.
Ethertype(p) ==
  CASE p.af = "inet" -> "ip4"
    [] p.af = "inet6" -> "ip6"
    [] OTHER -> CASE p.ver = 4 -> "ip4" [] p.ver = 6 -> "ip6" [] OTHER -> "none"

\* frame_ip_to_eth.
IpToEth(p) ==
  IF p.len < 5 \/ ETH + p.len - 4 > ETH_BUF \/ Ethertype(p) = "none" THEN Nothing
  ELSE [len |-> ETH + p.len - 4, dst |-> Gateway, src |-> OurMac,
        type |-> Ethertype(p), data |-> p.data]

\* Mutant: the opcode is not looked at.
AsksForUsAny(f) ==
  f.type = "arp" /\ f.len >= ETH + ARP /\ f.data.target_ip = OurIp

AsksForUs(f) ==
  /\ f.type = "arp" /\ f.len >= ETH + ARP
  /\ f.data.opcode = "request" /\ f.data.target_ip = OurIp

ArpFrame(dst, target_mac, target_ip) ==
  [len |-> ETH + ARP, dst |-> dst, src |-> OurMac, type |-> "arp",
   data |-> [opcode |-> "reply", sender_mac |-> OurMac, sender_ip |-> OurIp,
             target_mac |-> target_mac, target_ip |-> target_ip]]

\* arp_build_reply.
ArpReply(f) == ArpFrame(f.data.sender_mac, f.data.sender_mac, f.data.sender_ip)

\* arp_send_gratuitous, at the start of a session.
Gratuitous == ArpFrame("broadcast", "broadcast", OurIp)

\* process_rx_frame; learning the gateway's address is module GwMac.
Process(f) ==
  /\ replies' = IF AsksForUs(f) THEN Append(replies, Wrap(ArpReply(f))) ELSE replies
  /\ written' = IF (f.type = "arp" /\ f.len >= ETH) \/ EthToUtun(f) = Nothing
                THEN written ELSE Append(written, EthToUtun(f))

-----------------------------------------------------------------------------
(* rndis_drv_unwrap_data *)

\* Reading a sequence of messages: End(s)[i] is where the i-th one ends.
End(s) == LET e[i \in 0 .. Len(s)] == IF i = 0 THEN 0 ELSE e[i - 1] + s[i].msg_len IN e

\* A transfer completes: all of its messages, cut short or padded.
Receive ==
  /\ pc = "idle" /\ pc' = "loop"
  /\ \E n \in 0 .. MAX_MSGS : \E s \in [1 .. n -> Messages], slack \in Slacks :
       /\ End(s)[n] + slack \in 0 .. RNDIS_BUF
       /\ msgs' = s /\ usb_len' = End(s)[n] + slack
  /\ UNCHANGED <<offset, k, delivered, written, replies, sent>>

Padding == [msg_len |-> 0]

\* What is read as a header at offset o: the message that begins there, zeros
\* behind the last one, and anything in the middle of a message, where only an
\* offset that has wrapped can point to.
HeadersAt(o) ==
  LET here == {msgs[i] : i \in {j \in 1 .. Len(msgs) : End(msgs)[j - 1] = o}}
  IN  IF here # {} THEN here
      ELSE IF o >= End(msgs)[Len(msgs)] THEN {Padding} ELSE Messages \cup {Padding}

\* Mutant: a message may not end with the transfer.
MoreStrict(h) ==
  /\ (offset + 8) % WORD <= usb_len
  /\ h.msg_len # 0
  /\ (offset + h.msg_len) % WORD < usb_len

\* Another message begins, and by the sum of two words ends, in the transfer.
More(h) ==
  /\ (offset + 8) % WORD <= usb_len
  /\ h.msg_len # 0
  /\ (offset + h.msg_len) % WORD <= usb_len

\* Mutant: a message that is not accepted is not skipped.
AdvanceAccepted(h) ==
  /\ offset' = IF Accepts(h) THEN (offset + h.msg_len) % WORD ELSE offset
  /\ k' = IF Accepts(h) THEN k + 1 ELSE k

Advance(h) == offset' = (offset + h.msg_len) % WORD /\ k' = k + 1

Unwrap ==
  /\ pc = "loop" /\ k <= MAX_HEADERS
  /\ \E h \in HeadersAt(offset) :
       /\ More(h)
       /\ IF Accepts(h)
          THEN /\ delivered' = Append(delivered, [start |-> offset + DataStart(h),
                                                  len |-> h.data_len,
                                                  frame |-> Payload(h)])
               /\ Process(Payload(h))
          ELSE UNCHANGED <<delivered, written, replies>>
       /\ Advance(h)
  /\ UNCHANGED <<pc, msgs, usb_len, sent>>

\* The loop goes on; the model does not follow it behind the bound.
GoesOn ==
  /\ pc = "loop" /\ k > MAX_HEADERS
  /\ \E h \in HeadersAt(offset) : More(h)
  /\ UNCHANGED vars

Done ==
  /\ pc = "loop" /\ \E h \in HeadersAt(offset) : ~More(h)
  /\ pc' = "done"
  /\ UNCHANGED <<msgs, usb_len, offset, k, delivered, written, replies, sent>>

\* tun_to_usb: one packet becomes one message, or is dropped.
Transmit ==
  /\ pc = "idle" /\ pc' = "done"
  /\ \E p \in TunPackets :
       sent' = IF IpToEth(p) = Nothing THEN <<p>> ELSE <<p, Wrap(IpToEth(p))>>
  /\ UNCHANGED <<msgs, usb_len, offset, k, delivered, written, replies>>

\* The buffers are used for the next transfer or packet.
Reuse ==
  /\ pc = "done" /\ pc' = "idle"
  /\ msgs' = <<>> /\ usb_len' = 0 /\ offset' = 0 /\ k' = 1
  /\ delivered' = <<>> /\ written' = <<>> /\ replies' = <<>> /\ sent' = <<>>

Next == Receive \/ Unwrap \/ GoesOn \/ Done \/ Transmit \/ Reuse

Spec == Init /\ [][Next]_vars

FairSpec == Spec /\ WF_vars(Unwrap \/ Done)

-----------------------------------------------------------------------------

\* None of the sums of offset and msg_len so far (proto_rndis.c:114) has left
\* the word.  The code does not see to it; what follows holds until one does.
NoWrap == \A i \in 1 .. Len(msgs) : i < k => End(msgs)[i] < WORD

\* The loop never looks for a header behind the transfer.  Until a sum wraps,
\* the frames given to the bridge lie within the transfer and behind one
\* another, whatever else the headers say: no byte is read that libusb has not
\* written, and none is used for two frames.
FramesInside ==
  /\ offset <= usb_len
  /\ NoWrap =>
       \A i \in 1 .. Len(delivered) :
         /\ delivered[i].start + delivered[i].len <= offset
         /\ i > 1 => delivered[i - 1].start + delivered[i - 1].len <= delivered[i].start

Complete(i) == End(msgs)[i] <= usb_len /\ Accepts(msgs[i])

\* If no sum has wrapped, every message that arrived whole was delivered, once
\* and in order, and nothing else: a message that is no packet, or whose payload
\* is empty or too long, does not take the following ones with it.
AllDelivered ==
  pc = "done" /\ NoWrap =>
    \E place \in [1 .. Len(delivered) -> 1 .. Len(msgs)] :
      /\ \A i, j \in 1 .. Len(delivered) : i < j => place[i] < place[j]
      /\ \A i \in 1 .. Len(delivered) : delivered[i].frame = Payload(msgs[place[i]])
      /\ {place[i] : i \in 1 .. Len(delivered)} = {i \in 1 .. Len(msgs) : Complete(i)}

\* Each ARP request for the host's address is answered, as far as the bridge
\* can allocate and submit the transfer, to the one who asked;
\* nothing else is, in particular no reply: not one of the phone's, and not
\* the bridge's own, should the phone send them back.
ArpAnswered ==
  LET requests == {i \in 1 .. Len(delivered) :
                     /\ delivered[i].frame.type = "arp"
                     /\ delivered[i].frame.len >= ETH + ARP
                     /\ delivered[i].frame.data.opcode = "request"
                     /\ delivered[i].frame.data.target_ip = OurIp}
  IN  /\ \A i \in requests : \E j \in 1 .. Len(replies) :
           LET f == replies[j].frame
           IN  /\ f.dst = delivered[i].frame.data.sender_mac
               /\ f.data.target_mac = f.dst
               /\ f.data.target_ip = delivered[i].frame.data.sender_ip
      /\ replies # <<>> => requests # {}
      /\ \A j \in 1 .. Len(replies) : Accepts(replies[j]) /\ ~AsksForUs(replies[j].frame)
      /\ ~AsksForUs(Gratuitous)

\* What the phone unpacks from a message is the packet the kernel has sent.
RoundTrip ==
  Len(sent) = 2 =>
    LET p == sent[1]
        m == sent[2]
    IN  /\ Accepts(m) /\ DataStart(m) = HDR
        /\ EthToUtun(m.frame).len = p.len
        /\ EthToUtun(m.frame).data = p.data
        /\ EthToUtun(m.frame).af = IF p.data.ver = 4 THEN "inet" ELSE "inet6"

\* The loop ends unless a sum wraps: a message it does not accept, or padding,
\* does not hold it.
UnwrapEnds == pc = "loop" ~> (pc = "done" \/ ~NoWrap)
=============================================================================
