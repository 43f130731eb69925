----------------------------- MODULE MCPackets ------------------------------
(* Model-checking instances of Packets: one frame of each kind. *)
EXTENDS Packets

Ip(ver) == [ver |-> ver]
Arp(opcode, target_ip) ==
  [opcode |-> opcode, sender_mac |-> "phone", sender_ip |-> "gwIp",
   target_mac |-> "zero", target_ip |-> target_ip]

Frame(len, type, data) ==
  [len |-> len, dst |-> OurMac, src |-> "switch", type |-> type, data |-> data]

Frames ==
  {Frame(60, "ip4", Ip(4)), Frame(14, "ip4", Ip(4)), Frame(90, "ip6", Ip(6)),
   Frame(42, "arp", Arp("request", OurIp)), Frame(60, "arp", Arp("request", "other")),
   Frame(42, "arp", Arp("reply", OurIp)), Frame(41, "arp", Arp("request", OurIp)),
   Frame(60, "lldp", Ip(0)), Frame(13, "ip4", Ip(4))}

\* Aligned by the phone, not a packet, empty, longer than its message, shorter
\* than its frame, and of a length that wraps an offset of 104 or more.
MCMessages ==
  {Wrap(f) : f \in Frames} \cup
  {[Wrap(Frame(60, "ip4", Ip(4))) EXCEPT !.msg_len = 112, !.data_offset = 40],
   [Wrap(Frame(60, "ip4", Ip(4))) EXCEPT !.type = "indicate", !.msg_len = 20],
   [Wrap(Frame(60, "ip6", Ip(6))) EXCEPT !.data_len = 0],
   [Wrap(Frame(60, "ip6", Ip(6))) EXCEPT !.data_len = 61],
   [Wrap(Frame(42, "arp", Arp("request", OurIp))) EXCEPT !.data_len = 41],
   [Wrap(Frame(60, "ip4", Ip(4))) EXCEPT !.msg_len = WORD - 104]}

MCTunPackets ==
  {p \in [len : {4, 5, 1504, 2038, 2039}, af : {"inet", "inet6", "other"},
          ver : {0, 4, 6}, data : {Ip(4), Ip(6), Ip(0)}] :
     /\ p.data.ver = p.ver
     /\ p.af = "inet" => p.ver = 4
     /\ p.af = "inet6" => p.ver = 6}

\* The last one leaves only the header of a long message behind a short one.
MCSlacks == {-61, -1, 0, 8, 124 - WORD}
=============================================================================
