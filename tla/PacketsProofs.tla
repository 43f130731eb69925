--------------------------- MODULE PacketsProofs ----------------------------
(***************************************************************************)
(* Proofs, for all messages a phone may put into a transfer and all        *)
(* packets of the kernel, about the data path: the loop stays within the   *)
(* transfer, each ARP request is answered, and a packet arrives as it was  *)
(* sent; where no sum wraps, frames stay within the transfer too, and each *)
(* whole message is delivered once and in order.                           *)
(***************************************************************************)
EXTENDS Packets, Lemmas

USE DEF HDR, ETH, ARP, ETH_BUF

-----------------------------------------------------------------------------
(* Where the messages of a transfer end *)

\* What the assumption says of one message.
LEMMA LengthTypes ==
  /\ WORD \in Nat /\ WORD > 0
  /\ \A m \in Messages :
       /\ m.msg_len \in Nat \ {0} /\ m.data_offset \in Nat /\ m.data_len \in Nat
<1>1. WORD \in Nat /\ RNDIS_BUF \in Nat /\ RNDIS_BUF + 8 < WORD
  BY LengthAssumption DEF RNDIS_BUF
<1>2. WORD > 0
  BY <1>1
<1>3. \A m \in Messages :
        /\ m.msg_len \in 1 .. WORD - 1
        /\ m.data_offset \in 0 .. WORD - 1 /\ m.data_len \in 0 .. WORD - 1
  BY LengthAssumption
<1> QED BY <1>1, <1>2, <1>3

\* The equation that defines the ends of the first n messages of s.
EndEq(e, s, n) ==
  e = [i \in 0 .. n |-> IF i = 0 THEN 0 ELSE e[i - 1] + s[i].msg_len]

\* It has a solution.
LEMMA EndExists ==
  ASSUME NEW s \in Seq(Messages)
  PROVE  \E e : EndEq(e, s, Len(s))
<1>0. PICK n \in Nat : n = Len(s)
  OBVIOUS
<1>1. \A i \in 1 .. n : s[i].msg_len \in Nat
  <2>1. \A m \in Messages : m.msg_len \in Nat
    BY LengthTypes
  <2> QED BY <1>0, <2>1
<1>2. PICK len : len = [i \in 1 .. n |-> s[i].msg_len]
  OBVIOUS
<1>3. len \in [1 .. n -> Nat]
  BY <1>1, <1>2
<1>4. PICK e \in [0 .. n -> Nat] : e[0] = 0 /\ \A i \in 1 .. n : e[i] = e[i - 1] + len[i]
  BY <1>3, SumsExist
<1>5. \A i \in 0 .. n : i = 0 \/ i \in 1 .. n
  OBVIOUS
<1>6. EndEq(e, s, n)
  BY <1>2, <1>4, <1>5 DEF EndEq
<1> QED BY <1>0, <1>6

\* So End is what its equation says.
LEMMA EndSteps ==
  ASSUME NEW s \in Seq(Messages)
  PROVE  /\ End(s)[0] = 0
         /\ \A i \in 1 .. Len(s) : End(s)[i] = End(s)[i - 1] + s[i].msg_len
<1> DEFINE E == CHOOSE e : EndEq(e, s, Len(s))
<1>0. Len(s) \in Nat
  OBVIOUS
<1>2. \E e : EndEq(e, s, Len(s))
  BY EndExists
<1>3. EndEq(E, s, Len(s))
  BY <1>2
<1>4. End(s) = E
  BY DEF End, EndEq
<1> HIDE DEF E
<1>5. \A i \in 0 .. Len(s) : E[i] = IF i = 0 THEN 0 ELSE E[i - 1] + s[i].msg_len
  BY <1>3 DEF EndEq
<1>6. 0 \in 0 .. Len(s) /\ \A i \in 1 .. Len(s) : i \in 0 .. Len(s) /\ i # 0
  BY <1>0
<1> QED BY <1>4, <1>5, <1>6

LEMMA EndNat ==
  ASSUME NEW s \in Seq(Messages), NEW n \in 0 .. Len(s)
  PROVE  End(s)[n] \in Nat
<1>1. Len(s) \in Nat /\ \A i \in 1 .. Len(s) : s[i].msg_len \in Nat
  BY LengthTypes
<1>2. End(s)[0] = 0 /\ \A i \in 1 .. Len(s) : End(s)[i] = End(s)[i - 1] + s[i].msg_len
  BY EndSteps
<1> DEFINE d == End(s)
           S == Nat
<1>3. d[0] \in S /\ \A i \in 1 .. Len(s) : d[i - 1] \in S => d[i] \in S
  BY <1>1, <1>2
<1> HIDE DEF d, S
<1>4. d[n] \in S
  BY <1>1, <1>3, RecursionType
<1> QED BY <1>4 DEF d, S

\* A later message ends later.
LEMMA EndGrows ==
  ASSUME NEW s \in Seq(Messages), NEW a \in 0 .. Len(s), NEW n \in 0 .. Len(s), a <= n
  PROVE  End(s)[a] <= End(s)[n]
<1> DEFINE N == Len(s)
           Bad == {i \in 0 .. N : a <= i /\ ~ (End(s)[a] <= End(s)[i])}
<1>0. N \in Nat /\ End(s)[a] \in Nat
  BY EndNat
<1> SUFFICES ASSUME Bad # {} PROVE FALSE
  OBVIOUS
<1>1. Bad \in SUBSET Nat
  BY <1>0
<1>2. PICK b \in Bad : \A i \in Bad : b <= i
  BY <1>1, FirstExists
<1>3. b \in 0 .. N /\ a <= b /\ b # a /\ ~ (End(s)[a] <= End(s)[b])
  BY <1>0
<1>4. b \in 1 .. N /\ b - 1 \in 0 .. N /\ a <= b - 1 /\ ~ (b <= b - 1)
  BY <1>0, <1>3
<1>5. End(s)[a] <= End(s)[b - 1] /\ End(s)[b - 1] \in Nat
  BY <1>2, <1>4, EndNat
<1>6. s[b].msg_len \in Nat
  BY <1>4, LengthTypes
<1>7. End(s)[b] = End(s)[b - 1] + s[b].msg_len
  BY <1>4, EndSteps
<1> QED BY <1>0, <1>3, <1>5, <1>6, <1>7

\* No two messages begin at the same place, and none where the last one ends.
LEMMA EndStrict ==
  ASSUME NEW s \in Seq(Messages), NEW a \in 0 .. Len(s), NEW n \in 0 .. Len(s), a < n
  PROVE  End(s)[a] < End(s)[n]
<1>1. n \in 1 .. Len(s) /\ n - 1 \in 0 .. Len(s) /\ a <= n - 1
  OBVIOUS
<1>2. End(s)[a] <= End(s)[n - 1] /\ End(s)[n - 1] \in Nat /\ End(s)[a] \in Nat
  BY <1>1, EndGrows, EndNat
<1>3. End(s)[n] = End(s)[n - 1] + s[n].msg_len
  BY <1>1, EndSteps
<1>4. s[n].msg_len \in Nat \ {0}
  BY <1>1, LengthTypes
<1> QED BY <1>2, <1>3, <1>4

-----------------------------------------------------------------------------
(* The inductive invariant *)

Contents   == {Payload(m) : m \in Messages}
Deliveries == [start : Nat, len : Nat, frame : Contents]
Replies    == {Wrap(ArpReply(f)) : f \in {g \in Contents : AsksForUs(g)}}

Types ==
  /\ pc \in {"idle", "loop", "done"}
  /\ msgs \in Seq(Messages) /\ usb_len \in 0 .. RNDIS_BUF
  /\ offset \in Nat /\ k \in Nat \ {0}
  /\ delivered \in Seq(Deliveries) /\ replies \in Seq(Replies)

\* Every transfer starts from an empty one.
IdleEmpty ==
  pc = "idle" =>
    /\ msgs = <<>> /\ usb_len = 0 /\ offset = 0 /\ k = 1
    /\ delivered = <<>> /\ replies = <<>> /\ sent = <<>>

\* Until a sum wraps, the offset is where the k-th message begins.
Position == k - 1 \in 0 .. Len(msgs) /\ offset = End(msgs)[k - 1]

\* The frames delivered are those of the messages in ok, in their order.
PlacedBy(place, ok) ==
  /\ place \in [1 .. Len(delivered) -> 1 .. Len(msgs)]
  /\ \A i, j \in 1 .. Len(delivered) : i < j => place[i] < place[j]
  /\ \A i \in 1 .. Len(delivered) : delivered[i].frame = Payload(msgs[place[i]])
  /\ {place[i] : i \in 1 .. Len(delivered)} = ok

\* So far they are the accepted ones before the k-th.
Placed == \E place : PlacedBy(place, {i \in 1 .. k - 1 : Accepts(msgs[i])})

\* The loop is left only when no further message is there.
DoneAtEnd == pc = "done" => \E h \in HeadersAt(offset) : ~More(h)

\* What tun_to_usb sends.
SentWrapped ==
  sent # <<>> =>
    \E p \in TunPackets :
      \/ sent = <<p>>
      \/ IpToEth(p) # Nothing /\ sent = <<p, Wrap(IpToEth(p))>>

PacketsInv ==
  /\ Types /\ IdleEmpty /\ DoneAtEnd /\ SentWrapped
  /\ FramesInside /\ ArpAnswered
  /\ NoWrap => Position /\ Placed
-----------------------------------------------------------------------------
(* The operators *)

LEMMA BufferType == RNDIS_BUF \in Nat
BY DEF RNDIS_BUF

LEMMA SmallRemainder ==
  ASSUME NEW x \in Nat, NEW w \in Nat, x < w
  PROVE  x % w = x
OBVIOUS

LEMMA RemainderBound ==
  ASSUME NEW x \in Nat, NEW w \in Nat, w > 0
  PROVE  x % w <= x
<1>1. x % w \in Nat /\ x % w < w
  OBVIOUS
<1>2. CASE x < w
  BY <1>2, SmallRemainder
<1>3. CASE ~(x < w)
  BY <1>1, <1>3
<1> QED BY <1>2, <1>3

LEMMA RemainderType ==
  ASSUME NEW x \in Nat, NEW w \in Nat, w > 0
  PROVE  x % w \in Nat
OBVIOUS

\* Only a header of one of the messages goes on.
LEMMA HeadersType ==
  ASSUME Types, NEW h \in HeadersAt(offset), More(h)
  PROVE  h \in Messages
<1>1. h \in Messages \cup {Padding}
  <2>1. \A j \in 1 .. Len(msgs) : msgs[j] \in Messages
    BY DEF Types
  <2> QED BY <2>1 DEF HeadersAt
<1>2. h # Padding
  BY DEF More, Padding
<1> QED BY <1>1, <1>2

\* Where a message begins, its header is read, and behind the last one zeros.
LEMMA HeaderThere ==
  ASSUME Types, Position, NEW h \in HeadersAt(offset)
  PROVE  /\ k \in 1 .. Len(msgs) => h = msgs[k]
         /\ k \notin 1 .. Len(msgs) => h = Padding
<1> DEFINE here == {msgs[i] : i \in {j \in 1 .. Len(msgs) : End(msgs)[j - 1] = offset}}
<1>1. /\ msgs \in Seq(Messages) /\ Len(msgs) \in Nat /\ k \in Nat \ {0}
      /\ k - 1 \in 0 .. Len(msgs) /\ offset = End(msgs)[k - 1] /\ offset \in Nat
  BY DEF Types, Position
<1>2. \A j \in 1 .. Len(msgs) : End(msgs)[j - 1] = offset => j = k
  <2> SUFFICES ASSUME NEW j \in 1 .. Len(msgs), End(msgs)[j - 1] = offset, j # k
               PROVE  FALSE
    OBVIOUS
  <2>1. j - 1 \in 0 .. Len(msgs) /\ (j - 1 < k - 1 \/ k - 1 < j - 1)
    BY <1>1
  <2>2. End(msgs)[j - 1] < End(msgs)[k - 1] \/ End(msgs)[k - 1] < End(msgs)[j - 1]
    BY <1>1, <2>1, EndStrict
  <2> QED BY <1>1, <2>2
<1>3. CASE k \in 1 .. Len(msgs)
  <2>1. {j \in 1 .. Len(msgs) : End(msgs)[j - 1] = offset} = {k}
    BY <1>1, <1>2, <1>3
  <2>2. here = {msgs[k]}
    BY <2>1
  <2> QED BY <1>3, <2>2 DEF HeadersAt
<1>4. CASE k \notin 1 .. Len(msgs)
  <2>1. here = {}
    BY <1>2, <1>4
  <2>2. k - 1 = Len(msgs)
    BY <1>1, <1>4
  <2>3. offset >= End(msgs)[Len(msgs)]
    BY <1>1, <2>2
  <2> QED BY <1>4, <2>1, <2>3 DEF HeadersAt
<1> QED BY <1>3, <1>4

\* Below the word, the sum for the k-th message is exact.
LEMMA SumExact ==
  ASSUME Types, Position, k \in 1 .. Len(msgs), End(msgs)[k] < WORD
  PROVE  (offset + msgs[k].msg_len) % WORD = offset + msgs[k].msg_len
<1>1. /\ msgs \in Seq(Messages) /\ offset \in Nat /\ msgs[k] \in Messages
      /\ offset = End(msgs)[k - 1]
  BY DEF Types, Position
<1>2. msgs[k].msg_len \in Nat /\ WORD \in Nat
  BY <1>1, LengthTypes
<1>3. End(msgs)[k] = offset + msgs[k].msg_len
  BY <1>1, EndSteps
<1>4. offset + msgs[k].msg_len \in Nat /\ offset + msgs[k].msg_len < WORD
  BY <1>1, <1>2, <1>3
<1> QED BY <1>2, <1>4, SmallRemainder

\* At the place of a message, the header that goes on is that of the k-th one.
LEMMA MoreMessage ==
  ASSUME Types, Position, NEW h \in HeadersAt(offset), More(h)
  PROVE  k \in 1 .. Len(msgs) /\ h = msgs[k]
<1>1. h # Padding
  BY DEF More, Padding
<1> QED BY <1>1, HeaderThere

\* What ends the loop: no message, or one that does not fit.
LEMMA NoMoreMessage ==
  ASSUME Types, Position, offset <= usb_len, k <= Len(msgs),
         NEW h \in HeadersAt(offset), ~More(h)
  PROVE  offset + 8 > usb_len \/ offset + msgs[k].msg_len > usb_len
<1>1. offset \in Nat /\ usb_len \in Nat /\ usb_len <= RNDIS_BUF /\ k \in 1 .. Len(msgs)
  BY DEF Types
<1>2. h = msgs[k] /\ h \in Messages
  BY <1>1, HeaderThere DEF Types
<1>3. h.msg_len \in Nat \ {0} /\ WORD \in Nat /\ RNDIS_BUF + 8 < WORD
  BY <1>2, LengthTypes, LengthAssumption
<1>4. (offset + h.msg_len) % WORD <= offset + h.msg_len
  <2>1. offset + h.msg_len \in Nat /\ WORD > 0
    BY <1>1, <1>3, BufferType
  <2> QED BY <1>3, <2>1, RemainderBound
<1>5. (offset + 8) % WORD = offset + 8
  <2>1. offset + 8 \in Nat /\ offset + 8 < WORD
    BY <1>1, <1>3, BufferType
  <2> QED BY <1>3, <2>1, SmallRemainder
<1>6. (offset + h.msg_len) % WORD \in Nat
  <2>1. offset + h.msg_len \in Nat /\ WORD > 0
    BY <1>1, <1>3, BufferType
  <2> QED BY <1>3, <2>1, RemainderType
<1> QED BY <1>1, <1>2, <1>3, <1>4, <1>5, <1>6 DEF More

\* The frame of an accepted message lies within it.
LEMMA AcceptedInside ==
  ASSUME NEW m \in Messages, Accepts(m)
  PROVE  DataStart(m) \in Nat /\ m.data_len \in Nat /\ DataStart(m) + m.data_len <= m.msg_len
<1>1. /\ WORD \in Nat /\ WORD > 0 /\ m.data_offset \in Nat /\ m.data_len \in Nat
      /\ 8 + m.data_offset \in Nat
  BY LengthTypes
<1>2. (8 + m.data_offset) % WORD \in Nat
  BY <1>1, RemainderType
<1> QED BY <1>1, <1>2 DEF Accepts, DataStart

\* A reply goes to the one who asked, and is a message that carries no request.
LEMMA ReplyFacts ==
  ASSUME NEW f
  PROVE  LET r == Wrap(ArpReply(f)) IN
         /\ r.frame.dst = f.data.sender_mac
         /\ r.frame.data.target_mac = f.data.sender_mac
         /\ r.frame.data.target_ip = f.data.sender_ip
         /\ Accepts(r) /\ ~AsksForUs(r.frame)
<1> DEFINE r == Wrap(ArpReply(f))
<1>1. /\ r.frame.dst = f.data.sender_mac
      /\ r.frame.data.target_mac = f.data.sender_mac
      /\ r.frame.data.target_ip = f.data.sender_ip
      /\ r.frame.data.opcode = "reply"
      /\ r.type = "packet" /\ r.msg_len = 86 /\ r.data_offset = 36 /\ r.data_len = 42
  BY DEF Wrap, ArpReply, ArpFrame
<1>2. (8 + r.data_offset) % WORD = 44
  <2>1. 44 < WORD /\ WORD \in Nat
    BY LengthAssumption DEF RNDIS_BUF
  <2> QED BY <1>1, <2>1, SmallRemainder
<1>3. Accepts(r)
  BY <1>1, <1>2 DEF Accepts, DataStart
<1>4. ~AsksForUs(r.frame)
  BY <1>1 DEF AsksForUs
<1> QED BY <1>1, <1>3, <1>4
-----------------------------------------------------------------------------
(* One message *)

Delivery(m) ==
  [start |-> offset + DataStart(m), len |-> m.data_len, frame |-> Payload(m)]

\* What one round of the loop does with a header that goes on.
Round(m) ==
  /\ m \in Messages /\ m \in HeadersAt(offset) /\ More(m)
  /\ m.msg_len \in Nat /\ Payload(m) \in Contents
  /\ offset' = (offset + m.msg_len) % WORD /\ offset' \in Nat /\ offset' <= usb_len
  /\ k' = k + 1 /\ pc = "loop" /\ UNCHANGED <<pc, msgs, usb_len, sent>>
  /\ Accepts(m) =>
       /\ delivered' = Append(delivered, Delivery(m))
       /\ Delivery(m) \in Deliveries
       /\ AsksForUs(Payload(m)) =>
            /\ replies' = Append(replies, Wrap(ArpReply(Payload(m))))
            /\ Wrap(ArpReply(Payload(m))) \in Replies
       /\ ~AsksForUs(Payload(m)) => replies' = replies
  /\ ~Accepts(m) => UNCHANGED <<delivered, replies>>

LEMMA UnwrapRound ==
  ASSUME PacketsInv, Unwrap
  PROVE  \E m : Round(m)
<1>1. PICK m \in HeadersAt(offset) :
        /\ More(m)
        /\ IF Accepts(m)
           THEN /\ delivered' = Append(delivered, [start |-> offset + DataStart(m),
                                                   len |-> m.data_len,
                                                   frame |-> Payload(m)])
                /\ Process(Payload(m))
           ELSE UNCHANGED <<delivered, written, replies>>
        /\ Advance(m)
  BY Zenon DEF Unwrap
<1>2. Types /\ offset \in Nat
  BY DEF PacketsInv, Types
<1>3. m \in Messages
  BY <1>1, <1>2, HeadersType
<1>4. m.msg_len \in Nat /\ Payload(m) \in Contents /\ WORD \in Nat /\ WORD > 0
  BY <1>3, LengthTypes DEF Contents
<1>5. offset' = (offset + m.msg_len) % WORD /\ offset' \in Nat /\ offset' <= usb_len
  <2>1. offset + m.msg_len \in Nat
    BY <1>2, <1>4
  <2> QED BY <1>1, <1>4, <2>1, RemainderType DEF Advance, More
<1>6. k' = k + 1 /\ pc = "loop" /\ UNCHANGED <<pc, msgs, usb_len, sent>>
  BY <1>1 DEF Unwrap, Advance
<1>7. ASSUME Accepts(m)
      PROVE  /\ delivered' = Append(delivered, Delivery(m))
             /\ AsksForUs(Payload(m)) => replies' = Append(replies, Wrap(ArpReply(Payload(m))))
             /\ ~AsksForUs(Payload(m)) => replies' = replies
  BY <1>1, <1>7 DEF Process, Delivery
<1>8. Accepts(m) => Delivery(m) \in Deliveries
  BY <1>2, <1>3, <1>4, AcceptedInside DEF Delivery, Deliveries
<1>9. AsksForUs(Payload(m)) => Wrap(ArpReply(Payload(m))) \in Replies
  BY <1>4 DEF Replies
<1>10. ~Accepts(m) => UNCHANGED <<delivered, replies>>
  BY <1>1
<1> QED BY <1>1, <1>3, <1>4, <1>5, <1>6, <1>7, <1>8, <1>9, <1>10 DEF Round

\* If no sum has wrapped yet and this one does not, the header is that of the
\* k-th message.
LEMMA RoundMessage ==
  ASSUME PacketsInv, NEW m, Round(m), NoWrap'
  PROVE  /\ NoWrap /\ k \in 1 .. Len(msgs) /\ m = msgs[k]
         /\ offset' = offset + m.msg_len
<1>0. k \in Nat /\ k' = k + 1 /\ msgs' = msgs /\ msgs \in Seq(Messages)
  BY DEF PacketsInv, Types, Round
<1>1. \A i \in 1 .. Len(msgs) : i < k + 1 => End(msgs)[i] < WORD
  BY <1>0 DEF NoWrap
<1>2. NoWrap
  BY <1>0, <1>1 DEF NoWrap
<1>3. Types /\ Position
  BY <1>2 DEF PacketsInv
<1>4. m \in HeadersAt(offset) /\ More(m) /\ offset' = (offset + m.msg_len) % WORD
  BY DEF Round
<1>5. k \in 1 .. Len(msgs) /\ m = msgs[k]
  BY <1>3, <1>4, MoreMessage
<1>6. (offset + m.msg_len) % WORD = offset + m.msg_len
  BY <1>0, <1>1, <1>3, <1>5, SumExact
<1> QED BY <1>2, <1>4, <1>5, <1>6

LEMMA UnwrapTypes ==
  ASSUME PacketsInv, Unwrap
  PROVE  Types' /\ IdleEmpty' /\ DoneAtEnd' /\ SentWrapped'
<1>0. PICK m : Round(m)
  BY UnwrapRound
<1>1. /\ offset' \in Nat /\ k' = k + 1
      /\ pc = "loop" /\ UNCHANGED <<pc, msgs, usb_len, sent>>
  BY <1>0 DEF Round
<1>2. Types
  BY DEF PacketsInv
<1>3. delivered' \in Seq(Deliveries)
  <2>1. \/ delivered' = delivered
        \/ delivered' = Append(delivered, Delivery(m)) /\ Delivery(m) \in Deliveries
    BY <1>0 DEF Round
  <2>2. delivered \in Seq(Deliveries)
    BY <1>2 DEF Types
  <2> QED BY <2>1, <2>2, AppendProperties
<1>4. replies' \in Seq(Replies)
  <2> DEFINE r == Wrap(ArpReply(Payload(m)))
  <2>1. replies' = replies \/ (replies' = Append(replies, r) /\ r \in Replies)
    BY <1>0 DEF Round
  <2>2. replies \in Seq(Replies)
    BY <1>2 DEF Types
  <2> HIDE DEF r
  <2> QED BY <2>1, <2>2, AppendProperties
<1>5. Types'
  BY <1>1, <1>2, <1>3, <1>4 DEF Types
<1>6. IdleEmpty' /\ DoneAtEnd' /\ SentWrapped'
  BY <1>1 DEF PacketsInv, IdleEmpty, DoneAtEnd, SentWrapped
<1> QED BY <1>5, <1>6

\* The next message begins where this one ends.
LEMMA UnwrapPosition ==
  ASSUME PacketsInv, Unwrap, NoWrap'
  PROVE  Position'
<1>0. PICK m : Round(m)
  BY UnwrapRound
<1>1. NoWrap /\ k \in 1 .. Len(msgs) /\ m = msgs[k] /\ offset' = offset + m.msg_len
  BY <1>0, RoundMessage
<1>2. k' = k + 1 /\ msgs' = msgs /\ msgs \in Seq(Messages) /\ Position
  BY <1>0, <1>1 DEF Round, PacketsInv, Types
<1>3. k' - 1 = k /\ k \in 0 .. Len(msgs)
  BY <1>1, <1>2
<1>4. End(msgs)[k] = End(msgs)[k - 1] + m.msg_len
  BY <1>1, <1>2, EndSteps
<1>5. offset' = End(msgs)[k]
  BY <1>1, <1>2, <1>4 DEF Position
<1> QED BY <1>2, <1>3, <1>5 DEF Position

\* The new frame begins behind the last one and ends with its message.
LEMMA RoundFrames ==
  ASSUME PacketsInv, NEW m, Round(m), NoWrap'
  PROVE  FramesInside'
<1> DEFINE n == Len(delivered)
<1>1. /\ NoWrap /\ m \in Messages /\ m.msg_len \in Nat
      /\ offset' = offset + m.msg_len /\ offset' <= usb_len /\ usb_len' = usb_len
  BY RoundMessage DEF Round
<1>2. /\ offset \in Nat /\ usb_len \in Nat /\ delivered \in Seq(Deliveries) /\ n \in Nat
      /\ \A i \in 1 .. n : delivered[i] \in Deliveries
  BY DEF PacketsInv, Types
<1>3. \A i \in 1 .. n :
         /\ delivered[i].start \in Nat /\ delivered[i].len \in Nat
         /\ delivered[i].start + delivered[i].len <= offset
         /\ i > 1 => delivered[i - 1].start + delivered[i - 1].len <= delivered[i].start
  BY <1>1, <1>2 DEF PacketsInv, FramesInside, Deliveries
<1>4. offset \in Nat /\ offset <= offset' /\ offset' \in Nat
  BY <1>1, <1>2
<1>5. \A i \in 1 .. n : delivered[i].start + delivered[i].len <= offset'
  <2> SUFFICES ASSUME NEW i \in 1 .. n
               PROVE  delivered[i].start + delivered[i].len <= offset'
    OBVIOUS
  <2>1. PICK x : x = delivered[i].start + delivered[i].len
    OBVIOUS
  <2>2. x \in Nat /\ x <= offset
    BY <1>3, <2>1
  <2>3. x <= offset'
    BY <1>4, <2>2
  <2> QED BY <2>1, <2>3
<1>6. CASE ~Accepts(m)
  <2>1. delivered' = delivered
    BY <1>6 DEF Round
  <2>2. \A i \in 1 .. Len(delivered') :
          /\ delivered'[i].start + delivered'[i].len <= offset'
          /\ i > 1 => delivered'[i - 1].start + delivered'[i - 1].len <= delivered'[i].start
    BY <1>3, <1>5, <2>1
  <2>3. offset' <= usb_len'
    BY <1>1
  <2> QED BY <2>2, <2>3 DEF FramesInside
<1>7. CASE Accepts(m)
  <2> DEFINE d == Delivery(m)
  <2>1. delivered' = Append(delivered, d) /\ d \in Deliveries
    BY <1>7 DEF Round
  <2>2. /\ d.start \in Nat /\ d.len \in Nat
        /\ offset <= d.start /\ d.start + d.len <= offset'
    BY <1>1, <1>2, <1>7, AcceptedInside DEF Delivery
  <2> HIDE DEF d
  <2>3. /\ Len(delivered') = n + 1 /\ delivered'[n + 1] = d
        /\ \A i \in 1 .. n : delivered'[i] = delivered[i]
    BY <1>2, <2>1
  <2> SUFFICES ASSUME NEW i \in 1 .. n + 1
               PROVE  /\ delivered'[i].start + delivered'[i].len <= offset'
                      /\ i > 1 => delivered'[i - 1].start + delivered'[i - 1].len
                                    <= delivered'[i].start
    BY <1>1, <2>3 DEF FramesInside
  <2> HIDE DEF n
  <2>4. CASE i = n + 1
    <3>1. i > 1 => n \in 1 .. n /\ i - 1 = n
      BY <1>2, <2>4
    <3>2. i > 1 => delivered'[i - 1] = delivered[n] /\ n \in 1 .. n
      BY <2>3, <3>1
    <3>3. /\ d.start + d.len <= offset'
          /\ i > 1 => delivered[n].start + delivered[n].len <= d.start
      BY <1>2, <1>3, <2>2, <3>2
    <3> QED BY <2>3, <2>4, <3>2, <3>3
  <2>5. CASE i # n + 1
    <3>1. i \in 1 .. n
      BY <1>2, <2>5
    <3>2. i > 1 => i - 1 \in 1 .. n
      BY <1>2, <2>5
    <3>3. delivered'[i] = delivered[i] /\ (i > 1 => delivered'[i - 1] = delivered[i - 1])
      BY <2>3, <3>1, <3>2
    <3>4. /\ delivered[i].start + delivered[i].len <= offset'
          /\ i > 1 => delivered[i - 1].start + delivered[i - 1].len <= delivered[i].start
      BY <1>3, <1>5, <3>1
    <3> QED BY <3>3, <3>4
  <2> QED BY <2>4, <2>5
<1> QED BY <1>6, <1>7

LEMMA UnwrapFrames ==
  ASSUME PacketsInv, Unwrap
  PROVE  FramesInside'
<1>0. PICK m : Round(m)
  BY UnwrapRound
<1>1. /\ m \in Messages /\ m.msg_len \in Nat /\ offset' <= usb_len /\ usb_len' = usb_len
      /\ msgs' = msgs
  BY <1>0 DEF Round
<1>a. CASE ~NoWrap'
  BY <1>1, <1>a DEF FramesInside
<1>b. CASE NoWrap'
  BY <1>0, <1>b, RoundFrames
<1> QED BY <1>a, <1>b

\* The message's place is behind all others.
LEMMA UnwrapPlaced ==
  ASSUME PacketsInv, Unwrap, NoWrap'
  PROVE  Placed'
<1>0. PICK m : Round(m)
  BY UnwrapRound
<1> DEFINE n == Len(delivered)
           ok == {i \in 1 .. k - 1 : Accepts(msgs[i])}
           ok2 == {i \in 1 .. k : Accepts(msgs[i])}
<1>1. k \in 1 .. Len(msgs) /\ m = msgs[k] /\ k' = k + 1 /\ msgs' = msgs /\ m \in Messages
  BY <1>0, RoundMessage DEF Round
<1>2. /\ delivered \in Seq(Deliveries) /\ n \in Nat /\ Len(msgs) \in Nat /\ k \in Nat
      /\ k' - 1 = k
  BY <1>1 DEF PacketsInv, Types
<1>3. PICK place : PlacedBy(place, ok)
  BY <1>0, RoundMessage DEF PacketsInv, Placed
<1>4. /\ place \in [1 .. n -> 1 .. Len(msgs)]
      /\ \A i, j \in 1 .. n : i < j => place[i] < place[j]
      /\ \A i \in 1 .. n : delivered[i].frame = Payload(msgs[place[i]])
      /\ {place[i] : i \in 1 .. n} = ok
  BY <1>3 DEF PlacedBy
<1>5. 1 .. k = (1 .. k - 1) \cup {k} /\ k \notin 1 .. k - 1
  BY <1>1, <1>2
<1>6. {i \in 1 .. k' - 1 : Accepts(msgs'[i])} = ok2
  BY <1>1, <1>2
<1>7. CASE ~Accepts(m)
  <2>1. delivered' = delivered
    BY <1>0, <1>7 DEF Round
  <2>2. ok2 = ok
    BY <1>1, <1>5, <1>7
  <2>3. PlacedBy(place, {i \in 1 .. k - 1 : Accepts(msgs[i])})'
    BY <1>1, <1>4, <1>6, <2>1, <2>2 DEF PlacedBy
  <2> QED BY <2>3 DEF Placed
<1>8. CASE Accepts(m)
  <2>1. delivered' = Append(delivered, Delivery(m)) /\ Delivery(m).frame = Payload(m)
        /\ Delivery(m) \in Deliveries
    BY <1>0, <1>8 DEF Round, Delivery
  <2>2. /\ Len(delivered') = n + 1 /\ delivered'[n + 1].frame = Payload(m)
        /\ \A i \in 1 .. n : delivered'[i] = delivered[i]
    BY <1>2, <2>1
  <2>3. ok2 = ok \cup {k}
    BY <1>1, <1>5, <1>8
  <2>4. PICK p2 : p2 = [i \in 1 .. n + 1 |-> IF i = n + 1 THEN k ELSE place[i]]
    OBVIOUS
  <2> HIDE DEF n
  <2>5. 1 .. n + 1 = (1 .. n) \cup {n + 1} /\ n + 1 \notin 1 .. n
    BY <1>2
  <2>6. /\ p2 \in [1 .. n + 1 -> 1 .. Len(msgs)]
        /\ p2[n + 1] = k /\ \A i \in 1 .. n : p2[i] = place[i]
    BY <1>1, <1>4, <2>4, <2>5
  <2>7. {p2[i] : i \in 1 .. n + 1} = ok2
    <3>1. {p2[i] : i \in 1 .. n + 1} = {p2[i] : i \in 1 .. n} \cup {p2[n + 1]}
      BY <2>5
    <3>2. {p2[i] : i \in 1 .. n} = {place[i] : i \in 1 .. n}
      BY <2>6
    <3> QED BY <1>4, <2>3, <2>6, <3>1, <3>2
  <2>8. \A i \in 1 .. n + 1 : delivered'[i].frame = Payload(msgs[p2[i]])
    BY <1>1, <1>4, <2>2, <2>5, <2>6
  <2>9. \A i, j \in 1 .. n + 1 : i < j => p2[i] < p2[j]
    <3> SUFFICES ASSUME NEW i \in 1 .. n + 1, NEW j \in 1 .. n + 1, i < j
                 PROVE  p2[i] < p2[j]
      OBVIOUS
    <3>1. i \in 1 .. n
      BY <1>2
    <3>2. place[i] \in 1 .. k - 1 /\ p2[i] = place[i]
      BY <1>4, <2>6, <3>1
    <3>3. CASE j = n + 1
      BY <1>2, <2>6, <3>2, <3>3
    <3>4. CASE j # n + 1
      <4>1. j \in 1 .. n
        BY <1>2, <3>4
      <4> QED BY <1>4, <2>6, <3>1, <4>1
    <3> QED BY <3>3, <3>4
  <2>10. PlacedBy(p2, {i \in 1 .. k - 1 : Accepts(msgs[i])})'
    BY <1>1, <1>6, <2>2, <2>6, <2>7, <2>8, <2>9 DEF PlacedBy
  <2> QED BY <2>10 DEF Placed
<1> QED BY <1>7, <1>8

\* The frames that ask for the host's address.
Asking == {i \in 1 .. Len(delivered) : AsksForUs(delivered[i].frame)}

Answers(r, f) ==
  /\ r.frame.dst = f.data.sender_mac
  /\ r.frame.data.target_mac = r.frame.dst
  /\ r.frame.data.target_ip = f.data.sender_ip

\* The part of ArpAnswered that the loop builds up.
Answered ==
  /\ \A i \in Asking : \E j \in 1 .. Len(replies) : Answers(replies[j], delivered[i].frame)
  /\ replies # <<>> => Asking # {}

LEMMA AnsweredIsAll == Types => (Answered <=> ArpAnswered)
<1> SUFFICES ASSUME Types PROVE Answered <=> ArpAnswered
  OBVIOUS
<1>1. \A j \in 1 .. Len(replies) : Accepts(replies[j]) /\ ~AsksForUs(replies[j].frame)
  <2> SUFFICES ASSUME NEW j \in 1 .. Len(replies)
               PROVE  Accepts(replies[j]) /\ ~AsksForUs(replies[j].frame)
    OBVIOUS
  <2>1. replies[j] \in Replies
    BY DEF Types
  <2> QED BY <2>1, ReplyFacts DEF Replies
<1>2. ~AsksForUs(Gratuitous)
  BY DEF AsksForUs, Gratuitous, ArpFrame
<1>3. Asking = {i \in 1 .. Len(delivered) :
                     /\ delivered[i].frame.type = "arp"
                     /\ delivered[i].frame.len >= ETH + ARP
                     /\ delivered[i].frame.data.opcode = "request"
                     /\ delivered[i].frame.data.target_ip = OurIp}
  BY DEF Asking, AsksForUs
<1> QED BY <1>1, <1>2, <1>3 DEF Answered, ArpAnswered, Answers

\* A request is answered in the round that delivers it.
LEMMA UnwrapArp ==
  ASSUME PacketsInv, Unwrap
  PROVE  ArpAnswered'
<1>0. PICK m : Round(m)
  BY UnwrapRound
<1> DEFINE n == Len(delivered)
           f == Payload(m)
<1>1. Types /\ Types' /\ Answered
  BY UnwrapTypes, AnsweredIsAll DEF PacketsInv
<1>2. /\ delivered \in Seq(Deliveries) /\ replies \in Seq(Replies) /\ n \in Nat
      /\ Len(replies) \in Nat
  BY <1>1 DEF Types
<1> SUFFICES Answered'
  <2>1. Types' => (Answered' <=> ArpAnswered')
    BY AnsweredIsAll, PTL
  <2> QED BY <1>1, <2>1
<1>3. CASE ~Accepts(m)
  <2>1. delivered' = delivered /\ replies' = replies
    BY <1>0, <1>3 DEF Round
  <2>2. Asking' = Asking
    BY <2>1 DEF Asking
  <2> QED BY <1>1, <2>1, <2>2 DEF Answered
<1>4. CASE Accepts(m)
  <2> DEFINE d == Delivery(m)
             r == Wrap(ArpReply(f))
  <2>1. delivered' = Append(delivered, d) /\ d \in Deliveries
    BY <1>0, <1>4 DEF Round
  <2>2. d.frame = f
    BY DEF Delivery
  <2> HIDE DEF d
  <2>3. /\ Len(delivered') = n + 1 /\ delivered'[n + 1] = d
        /\ \A i \in 1 .. n : delivered'[i] = delivered[i]
    BY <1>2, <2>1
  <2> HIDE DEF n
  <2>4. 1 .. n + 1 = (1 .. n) \cup {n + 1} /\ n + 1 \notin 1 .. n
    BY <1>2
  <2>5. Asking = {i \in 1 .. n : AsksForUs(delivered[i].frame)}
    BY DEF Asking, n
  <2>6. Asking' = {i \in 1 .. n + 1 : AsksForUs(delivered'[i].frame)}
    BY <2>3 DEF Asking
  <2>7. CASE ~AsksForUs(f)
    <3>1. replies' = replies
      BY <1>4, <2>7, <1>0 DEF Round
    <3>2. Asking' = Asking
      BY <2>2, <2>3, <2>4, <2>5, <2>6, <2>7
    <3>3. \A i \in Asking : delivered'[i] = delivered[i]
      BY <2>3, <2>5
    <3> QED BY <1>1, <3>1, <3>2, <3>3 DEF Answered
  <2>8. CASE AsksForUs(f)
    <3>1. replies' = Append(replies, r) /\ r \in Replies
      BY <1>4, <2>8, <1>0 DEF Round
    <3>2. Answers(r, f)
      BY ReplyFacts DEF Answers
    <3> HIDE DEF r
    <3> DEFINE q == Len(replies)
    <3>3. /\ Len(replies') = q + 1 /\ replies'[q + 1] = r
          /\ \A j \in 1 .. q : replies'[j] = replies[j]
      BY <1>2, <3>1
    <3>4. q + 1 \in 1 .. q + 1 /\ \A j \in 1 .. q : j \in 1 .. q + 1
      BY <1>2
    <3>5. Asking' = Asking \cup {n + 1}
      BY <2>2, <2>3, <2>4, <2>5, <2>6, <2>8
    <3>6. \A i \in Asking : delivered'[i] = delivered[i]
      BY <2>3, <2>5
    <3>7. \A i \in Asking : \E j \in 1 .. q : Answers(replies[j], delivered[i].frame)
      BY <1>1 DEF Answered
    <3> HIDE DEF q
    <3>8. \A i \in Asking' : \E j \in 1 .. q + 1 : Answers(replies'[j], delivered'[i].frame)
      <4> SUFFICES ASSUME NEW i \in Asking'
                   PROVE  \E j \in 1 .. q + 1 : Answers(replies'[j], delivered'[i].frame)
        OBVIOUS
      <4>1. CASE i = n + 1
        BY <2>2, <2>3, <3>2, <3>3, <3>4, <4>1
      <4>2. CASE i \in Asking
        BY <3>3, <3>4, <3>6, <3>7, <4>2
      <4> QED BY <3>5, <4>1, <4>2
    <3>9. Asking' # {}
      BY <3>5
    <3> QED BY <3>3, <3>8, <3>9 DEF Answered, Answers
  <2> QED BY <2>7, <2>8
<1> QED BY <1>3, <1>4
-----------------------------------------------------------------------------
(* The other steps *)

\* Before the first message nothing is delivered, and all is in order.
Fresh ==
  /\ k = 1 /\ offset = 0 /\ delivered = <<>> /\ replies = <<>>
  /\ msgs \in Seq(Messages) /\ usb_len \in Nat

LEMMA NothingYet == Fresh => Position /\ Placed /\ FramesInside /\ ArpAnswered
<1> SUFFICES ASSUME Fresh
             PROVE  Position /\ Placed /\ FramesInside /\ ArpAnswered
  OBVIOUS
<1> USE DEF Fresh
<1>1. k - 1 = 0 /\ 0 \in 0 .. Len(msgs) /\ 1 .. Len(delivered) = {} /\ 1 .. Len(replies) = {}
  OBVIOUS
<1>2. Position
  <2>1. End(msgs)[0] = 0
    BY EndSteps
  <2> QED BY <1>1, <2>1 DEF Position
<1>3. Placed
  <2> DEFINE place == [i \in 1 .. Len(delivered) |-> 1]
  <2>1. {i \in 1 .. k - 1 : Accepts(msgs[i])} = {}
    OBVIOUS
  <2>2. PlacedBy(place, {})
    BY <1>1 DEF PlacedBy
  <2> QED BY <2>1, <2>2 DEF Placed
<1>4. FramesInside
  BY <1>1 DEF FramesInside
<1>5. ArpAnswered
  BY <1>1 DEF ArpAnswered, AsksForUs, Gratuitous, ArpFrame
<1> QED BY <1>2, <1>3, <1>4, <1>5

LEMMA InitInv == Init => PacketsInv
<1> SUFFICES ASSUME Init PROVE PacketsInv
  OBVIOUS
<1>1. Types /\ IdleEmpty /\ DoneAtEnd /\ SentWrapped
  BY BufferType DEF Init, Types, IdleEmpty, DoneAtEnd, SentWrapped
<1>2. Position /\ Placed /\ FramesInside /\ ArpAnswered
  BY NothingYet DEF Init, Fresh
<1> QED BY <1>1, <1>2 DEF PacketsInv

LEMMA ReceiveInv ==
  ASSUME PacketsInv, Receive
  PROVE  PacketsInv'
<1>1. /\ k' = 1 /\ offset' = 0 /\ delivered' = <<>> /\ replies' = <<>> /\ sent' = <<>>
      /\ pc' = "loop"
  <2>1. pc = "idle" /\ pc' = "loop" /\ UNCHANGED <<offset, k, delivered, replies, sent>>
    BY Zenon DEF Receive
  <2> QED BY <2>1 DEF PacketsInv, IdleEmpty
<1>2. msgs' \in Seq(Messages) /\ usb_len' \in 0 .. RNDIS_BUF
  <2>1. PICK n \in 0 .. MAX_MSGS : \E s \in [1 .. n -> Messages], slack \in Slacks :
          /\ End(s)[n] + slack \in 0 .. RNDIS_BUF
          /\ msgs' = s /\ usb_len' = End(s)[n] + slack
    BY Zenon DEF Receive
  <2>2. PICK s \in [1 .. n -> Messages], slack \in Slacks :
          End(s)[n] + slack \in 0 .. RNDIS_BUF /\ msgs' = s /\ usb_len' = End(s)[n] + slack
    BY <2>1, Zenon
  <2>3. n \in Nat
    BY LengthAssumption
  <2>4. s \in Seq(Messages)
    BY <2>3
  <2> QED BY <2>2, <2>4
<1>3. Position' /\ Placed' /\ FramesInside' /\ ArpAnswered'
  <2>1. Fresh' => Position' /\ Placed' /\ FramesInside' /\ ArpAnswered'
    BY NothingYet, PTL
  <2> QED BY <1>1, <1>2, <2>1 DEF Fresh
<1>4. Types' /\ IdleEmpty' /\ DoneAtEnd' /\ SentWrapped'
  BY <1>1, <1>2 DEF Types, IdleEmpty, DoneAtEnd, SentWrapped
<1> QED BY <1>3, <1>4 DEF PacketsInv

LEMMA ReuseInv ==
  ASSUME Reuse
  PROVE  PacketsInv'
<1>1. Init'
  BY DEF Reuse, Init
<1>2. Init' => PacketsInv'
  BY InitInv, PTL
<1> QED BY <1>1, <1>2

\* Nothing of the transfer changes.
LEMMA SameTransfer ==
  ASSUME PacketsInv, UNCHANGED <<msgs, usb_len, offset, k, delivered, replies>>
  PROVE  /\ pc' \in {"idle", "loop", "done"} => Types'
         /\ FramesInside' /\ ArpAnswered' /\ (NoWrap' => Position' /\ Placed')
<1>1. pc' \in {"idle", "loop", "done"} => Types'
  BY DEF PacketsInv, Types
<1>2. NoWrap' = NoWrap
  BY DEF NoWrap
<1>3. FramesInside' /\ ArpAnswered'
  BY <1>2 DEF PacketsInv, FramesInside, ArpAnswered
<1>4. Position' = Position
  BY DEF Position
<1>5. Placed => Placed'
  BY DEF Placed, PlacedBy
<1> QED BY <1>1, <1>2, <1>3, <1>4, <1>5 DEF PacketsInv

LEMMA DoneInv ==
  ASSUME PacketsInv, Done
  PROVE  PacketsInv'
<1>1. /\ pc' = "done" /\ UNCHANGED <<msgs, usb_len, offset, k, delivered, replies, sent>>
      /\ \E h \in HeadersAt(offset) : ~More(h)
  BY DEF Done
<1>2. DoneAtEnd'
  BY <1>1 DEF DoneAtEnd, More, HeadersAt
<1> QED BY <1>1, <1>2, SameTransfer DEF PacketsInv, IdleEmpty, SentWrapped

LEMMA TransmitInv ==
  ASSUME PacketsInv, Transmit
  PROVE  PacketsInv'
<1>1. /\ pc = "idle" /\ pc' = "done"
      /\ UNCHANGED <<msgs, usb_len, offset, k, delivered, replies>>
  BY DEF Transmit
<1>2. DoneAtEnd'
  <2>1. usb_len' = 0 /\ offset' = 0 /\ msgs' = <<>> /\ k' = 1
    BY <1>1 DEF PacketsInv, IdleEmpty
  <2>2. Len(msgs') = 0 /\ End(msgs')[0] = 0
    <3>1. msgs \in Seq(Messages) /\ msgs' = msgs /\ msgs = <<>>
      BY <1>1, <2>1 DEF PacketsInv, Types
    <3>2. End(msgs)[0] = 0
      BY <3>1, EndSteps
    <3> QED BY <3>1, <3>2
  <2>3. HeadersAt(offset)' = {Padding}
    BY <2>1, <2>2 DEF HeadersAt
  <2>4. ~More(Padding)'
    BY DEF More, Padding
  <2> QED BY <2>3, <2>4 DEF DoneAtEnd
<1>3. SentWrapped'
  BY DEF Transmit, SentWrapped
<1> QED BY <1>1, <1>2, <1>3, SameTransfer DEF PacketsInv, IdleEmpty

LEMMA NextInv == PacketsInv /\ [Next]_vars => PacketsInv'
<1> SUFFICES ASSUME PacketsInv, [Next]_vars PROVE PacketsInv'
  OBVIOUS
<1>1. CASE Unwrap
  <2>1. Types' /\ IdleEmpty' /\ DoneAtEnd' /\ SentWrapped'
    BY <1>1, UnwrapTypes
  <2>2. FramesInside' /\ ArpAnswered'
    BY <1>1, UnwrapFrames, UnwrapArp
  <2>3. NoWrap' => Position' /\ Placed'
    BY <1>1, UnwrapPosition, UnwrapPlaced
  <2> QED BY <2>1, <2>2, <2>3 DEF PacketsInv
<1>2. CASE UNCHANGED vars
  <2>1. UNCHANGED <<pc, msgs, usb_len, offset, k, delivered, replies, sent>>
    BY <1>2 DEF vars
  <2>2. IdleEmpty' /\ DoneAtEnd' /\ SentWrapped'
    BY <2>1 DEF PacketsInv, IdleEmpty, DoneAtEnd, More, HeadersAt, SentWrapped
  <2>3. pc' \in {"idle", "loop", "done"}
    BY <2>1 DEF PacketsInv, Types
  <2> QED BY <2>1, <2>2, <2>3, SameTransfer DEF PacketsInv
<1>3. CASE GoesOn
  BY <1>2, <1>3 DEF GoesOn
<1> QED BY <1>1, <1>2, <1>3, ReceiveInv, ReuseInv, DoneInv, TransmitInv DEF Next

LEMMA PacketsInvHolds == Spec => []PacketsInv
BY InitInv, NextInv, PTL DEF Spec

-----------------------------------------------------------------------------
(* The theorems *)

\* The offset stays within the transfer for all headers; until the sum of an
\* offset and a length wraps, no frame reaches beyond the transfer or overlaps
\* another one.
THEOREM FramesStayInside == Spec => []FramesInside
<1>1. PacketsInv => FramesInside
  BY DEF PacketsInv
<1> QED BY <1>1, PacketsInvHolds, PTL

\* Exactly the whole and acceptable messages are delivered, in their order,
\* when the loop ends without a sum of an offset and a length having wrapped.
THEOREM WholeMessagesDelivered == Spec => []AllDelivered
<1>1. PacketsInv => AllDelivered
  <2> SUFFICES ASSUME PacketsInv, pc = "done", NoWrap PROVE AllDelivered
    BY DEF AllDelivered
  <2> DEFINE ok == {i \in 1 .. k - 1 : Accepts(msgs[i])}
             N == Len(msgs)
  <2>1. PICK place : PlacedBy(place, ok)
    BY DEF PacketsInv, Placed
  <2>0. /\ Types /\ Position /\ offset <= usb_len
        /\ \E h \in HeadersAt(offset) : ~More(h)
    BY DEF PacketsInv, DoneAtEnd, FramesInside
  <2>2. /\ msgs \in Seq(Messages) /\ N \in Nat /\ offset \in Nat /\ usb_len \in Nat
        /\ offset <= usb_len
        /\ k \in Nat /\ k - 1 \in 0 .. N /\ offset = End(msgs)[k - 1]
    BY <2>0 DEF Types, Position
  <2>3. \A i \in 1 .. k - 1 : i \in 1 .. N /\ End(msgs)[i] <= usb_len
    <3> SUFFICES ASSUME NEW i \in 1 .. k - 1
                 PROVE  i \in 1 .. N /\ End(msgs)[i] <= usb_len
      OBVIOUS
    <3>1. i \in 1 .. N /\ i \in 0 .. N /\ i <= k - 1
      BY <2>2
    <3>2. End(msgs)[i] <= End(msgs)[k - 1] /\ End(msgs)[i] \in Nat
      BY <2>2, <3>1, EndGrows, EndNat
    <3> QED BY <2>2, <3>1, <3>2
  <2>4. \A i \in 1 .. N : i \notin 1 .. k - 1 => ~Complete(i)
    <3> SUFFICES ASSUME NEW i \in 1 .. N, i \notin 1 .. k - 1, Complete(i)
                 PROVE  FALSE
      OBVIOUS
    <3>1. /\ k <= i /\ k <= N /\ k \in 0 .. N /\ i \in 0 .. N
          /\ i - 1 \in 0 .. N /\ k - 1 <= i - 1
      BY <2>2
    <3>2. End(msgs)[k - 1] <= End(msgs)[i - 1] /\ End(msgs)[k] <= End(msgs)[i]
      BY <2>2, <3>1, EndGrows
    <3>3. End(msgs)[i] = End(msgs)[i - 1] + msgs[i].msg_len
      BY <2>2, EndSteps
    <3>4. End(msgs)[k] = offset + msgs[k].msg_len
      <4>1. k \in 1 .. N
        BY <2>2, <3>1
      <4> QED BY <2>2, <4>1, EndSteps
    <3>5. msgs[i] \in Messages /\ msgs[i].msg_len >= HDR /\ End(msgs)[i] <= usb_len
      BY <2>2 DEF Complete, Accepts
    <3>6. /\ End(msgs)[i] \in Nat /\ End(msgs)[i - 1] \in Nat /\ End(msgs)[k] \in Nat
          /\ msgs[i].msg_len \in Nat
      BY <2>2, <3>1, <3>5, EndNat, LengthTypes
    <3>7. offset + 8 > usb_len \/ End(msgs)[k] > usb_len
      BY <2>0, <3>1, <3>4, NoMoreMessage
    <3>8. PICK o \in Nat, u \in Nat, a \in Nat, b \in Nat, c \in Nat, l \in Nat :
            /\ o = offset /\ u = usb_len /\ a = End(msgs)[i - 1] /\ b = End(msgs)[i]
            /\ c = End(msgs)[k] /\ l = msgs[i].msg_len
      BY <2>2, <3>6
    <3>9. o <= a /\ c <= b /\ b = a + l /\ l >= 44 /\ b <= u /\ (o + 8 > u \/ c > u)
      BY <2>2, <3>2, <3>3, <3>5, <3>7, <3>8
    <3> QED BY <3>9
  <2>5. ok = {i \in 1 .. N : Complete(i)}
    BY <2>3, <2>4 DEF Complete
  <2> QED BY <2>1, <2>5 DEF AllDelivered, PlacedBy
<1> QED BY <1>1, PacketsInvHolds, PTL

\* Each ARP request for the host is answered to the one who asked, and nothing
\* else is answered.
THEOREM ArpIsAnswered == Spec => []ArpAnswered
<1>1. PacketsInv => ArpAnswered
  BY DEF PacketsInv
<1> QED BY <1>1, PacketsInvHolds, PTL

\* A packet of the kernel, of every length and family, is dropped or arrives
\* at the phone as it was sent.
THEOREM PacketsRoundTrip == Spec => []RoundTrip
<1>1. PacketsInv => RoundTrip
  <2> SUFFICES ASSUME PacketsInv, Len(sent) = 2 PROVE RoundTrip
    BY DEF RoundTrip
  <2>1. PICK p \in TunPackets : IpToEth(p) # Nothing /\ sent = <<p, Wrap(IpToEth(p))>>
    <3>1. sent # <<>> /\ \A p : sent # <<p>>
      OBVIOUS
    <3> QED BY <3>1 DEF PacketsInv, SentWrapped
  <2>2. sent[1] = p /\ sent[2] = Wrap(IpToEth(p))
    BY <2>1
  <2> DEFINE f == IpToEth(p)
             m == Wrap(f)
  <2>3. /\ p.len \in Nat /\ p.data.ver = p.ver
        /\ p.af = "inet" => p.ver = 4
        /\ p.af = "inet6" => p.ver = 6
    BY TunAssumption
  <2>4. /\ p.len >= 5 /\ ETH + p.len - 4 <= ETH_BUF /\ Ethertype(p) # "none"
        /\ f.len = ETH + p.len - 4 /\ f.type = Ethertype(p) /\ f.data = p.data
    BY <2>1, <2>3 DEF IpToEth
  <2>5. /\ Ethertype(p) = "ip4" => p.ver = 4
        /\ Ethertype(p) = "ip6" => p.ver # 4
        /\ Ethertype(p) \in {"ip4", "ip6"}
    BY <2>3, <2>4 DEF Ethertype
  <2> HIDE DEF f
  <2>6. /\ m.type = "packet" /\ m.msg_len = HDR + f.len /\ m.data_offset = 36
        /\ m.data_len = f.len /\ m.frame = f
    BY DEF Wrap
  <2> HIDE DEF m
  <2>7. DataStart(m) = HDR
    <3>1. 44 < WORD /\ WORD \in Nat
      BY LengthAssumption DEF RNDIS_BUF
    <3> QED BY <2>6, <3>1, SmallRemainder DEF DataStart
  <2>8. Accepts(m)
    BY <2>3, <2>4, <2>6, <2>7 DEF Accepts
  <2>9. EthToUtun(f) = [len |-> 4 + f.len - ETH,
                        af |-> IF f.type = "ip4" THEN "inet" ELSE "inet6", data |-> f.data]
    BY <2>3, <2>4, <2>5 DEF EthToUtun
  <2>10. 4 + f.len - ETH = p.len
    BY <2>3, <2>4
  <2>11. /\ EthToUtun(f).len = p.len /\ EthToUtun(f).data = p.data
         /\ EthToUtun(f).af = IF p.data.ver = 4 THEN "inet" ELSE "inet6"
    BY <2>3, <2>4, <2>5, <2>9, <2>10
  <2> QED BY <2>2, <2>6, <2>7, <2>8, <2>11 DEF RoundTrip, m, f
<1> QED BY <1>1, PacketsInvHolds, PTL
=============================================================================
