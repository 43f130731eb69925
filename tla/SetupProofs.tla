---------------------------- MODULE SetupProofs -----------------------------
(***************************************************************************)
(* Proofs, for every list of devices and whatever the phones answer, that  *)
(* the set-up of a session gives back what it took, that the endpoints, the *)
(* MAC address and the link state it uses are those of the device it has   *)
(* opened, and that the kernel driver comes back.                          *)
(***************************************************************************)
EXTENDS Setup, Lemmas

USE DEF busVars, devVars, pathVars, phoneVars, rndisVars, usbVars

-----------------------------------------------------------------------------
(* The resources *)

\* The first n resources are held, and no other.
Upto(n) ==
  /\ held["driver"] = IF n >= 1 THEN 1 ELSE 0
  /\ held["ctx"] = IF n >= 2 THEN 1 ELSE 0
  /\ held["handle"] = IF n >= 3 THEN 1 ELSE 0
  /\ held["comm"] = IF n >= 4 THEN 1 ELSE 0
  /\ held["data"] = IF n >= 5 THEN 1 ELSE 0
  /\ held["tun"] = IF n >= 6 THEN 1 ELSE 0

\* The longest error path of run_session, and of usb_find_rndis_device.
ToIdle  == <<"tun", "data", "comm", "attach", "handle", "ctx", "driver">>
ToProbe == <<"data", "comm", "handle">>

\* What is left of an error path is the end of the longest one.
EndOf(path) ==
  /\ Len(todo) <= Len(path)
  /\ \A i \in 1 .. Len(todo) : todo[i] = path[Len(path) - Len(todo) + i]

InSession == {"initSend", "initRecv", "querySend", "queryRecv", "setSend", "setRecv",
              "address", "tun", "configure", "session", "keepalive"}

HeldInv ==
  /\ spc = "idle" => Upto(0)
  /\ spc = "find" => Upto(1)
  /\ spc \in {"list", "probe"} => Upto(2)
  /\ spc = "claimComm" => Upto(3)
  /\ spc = "claimData" => Upto(4)
  /\ spc = "scan" \/ spc \in InSession \ {"configure", "session", "keepalive"} => Upto(5)
  /\ spc \in {"configure", "session", "keepalive"} => Upto(6)
  /\ spc = "unwind" =>
       \/ then = "idle" /\ EndOf(ToIdle) /\
          IF Len(todo) <= 3 THEN Upto(Len(todo)) ELSE Upto(Len(todo) - 1)
       \/ then = "probe" /\ EndOf(ToProbe) /\ Upto(Len(todo) + 2)

-----------------------------------------------------------------------------
(* The device *)

\* usb_close_device will still find the device whose driver it must attach.
Holding ==
  \/ spc \in InSession \cup {"claimComm", "claimData", "scan"}
  \/ spc = "unwind" /\ then = "idle" /\ Len(todo) >= 4

DriverInv ==
  \A d \in Devices :
    <<d, "comm">> \in detached =>
      d \in abandoned \/ (Holding /\ d = cur /\ kernel_detached = 1)

EndpointsInv ==
  spc \in InSession =>
    \A k \in DOMAIN bus[cur].alts :
      bus[cur].alts[k].num \in Ifaces(bus[cur].alts) =>
        /\ "in" \in bus[cur].alts[k].eps => ep_in[1] = cur
        /\ "out" \in bus[cur].alts[k].eps => ep_out[1] = cur

-----------------------------------------------------------------------------
(* The control pipe *)

Idle(d) == inbox[d] = <<>> /\ answers[d] = <<>>

\* The one request q is with the phone, or its answer waits to be read.
Pending(d, q) ==
  \/ inbox[d] = <<q>> /\ answers[d] = <<>>
  \/ inbox[d] = <<>> /\ answers[d] = <<q>>

\* A phone that has answered in time has nothing to say but what is awaited.
PromptInv ==
  /\ \A d \in gone : Idle(d)
  /\ \A d \in orderly \ gone :
       \/ Idle(d) /\ ~ (d = cur /\ spc \in {"initRecv", "queryRecv", "setRecv"})
       \/ d = cur /\ spc = "initRecv" /\ Pending(d, "init")
       \/ d = cur /\ spc = "queryRecv" /\ Pending(d, "query")
       \/ d = cur /\ spc = "setRecv" /\ Pending(d, "set")
       \/ d = cur /\ spc = "keepalive" /\ Pending(d, "keepalive")
  /\ spc \in {"setSend", "setRecv"} \/ LinkUp =>
       (cur \in orderly \ gone => mac = "phone")

NoInitAfter(d, k) == \A l \in 1 .. Len(inbox[d]) : l > k => inbox[d][l] # "init"

\* An answer to INIT means an initialized phone; the filter of this handshake
\* is set, or its request is queued and no INIT will undo it.
LinkInv ==
  /\ \A d \in Devices : \A k \in 1 .. Len(answers[d]) :
       answers[d][k] = "init" => phone[d] # "down"
  /\ spc \in InSession \ {"initSend", "initRecv"} /\ cur \notin gone => phone[cur] # "down"
  /\ (spc = "setRecv" \/ LinkUp) /\ cur \notin gone =>
       \/ phone[cur] \in {"filtering", "unfiltered"} /\ NoInitAfter(cur, 0)
       \/ \E k \in 1 .. Len(inbox[cur]) : inbox[cur][k] = "set" /\ NoInitAfter(cur, k)

-----------------------------------------------------------------------------
(* The operators *)

Names == {"driver", "ctx", "handle", "comm", "data", "tun"}

LEMMA ResourceNames ==
  /\ Resources = Names /\ Len(Order) = 6
  /\ Order[1] = "driver" /\ Order[2] = "ctx" /\ Order[3] = "handle"
  /\ Order[4] = "comm" /\ Order[5] = "data" /\ Order[6] = "tun"
<1>1. /\ Len(Order) = 6
      /\ Order[1] = "driver" /\ Order[2] = "ctx" /\ Order[3] = "handle"
      /\ Order[4] = "comm" /\ Order[5] = "data" /\ Order[6] = "tun"
  BY DEF Order
<1>2. 1 .. 6 = {1, 2, 3, 4, 5, 6}
  OBVIOUS
<1> HIDE DEF Order
<1> QED BY <1>1, <1>2 DEF Resources, Names

Steps == Names \cup {"attach"}

LEMMA PathElements ==
  /\ ToIdle[1] = "tun" /\ ToIdle[2] = "data" /\ ToIdle[3] = "comm"
  /\ ToIdle[4] = "attach" /\ ToIdle[5] = "handle" /\ ToIdle[6] = "ctx"
  /\ ToIdle[7] = "driver"
  /\ ToProbe[1] = "data" /\ ToProbe[2] = "comm" /\ ToProbe[3] = "handle"
BY DEF ToIdle, ToProbe

LEMMA PathLengths == Len(ToIdle) = 7 /\ Len(ToProbe) = 3
BY DEF ToIdle, ToProbe

\* The element m places from the end.
LEMMA FromTheEnd ==
  /\ \A m \in 1 .. 7 :
       \/ m = 1 /\ ToIdle[8 - m] = "driver"
       \/ m = 2 /\ ToIdle[8 - m] = "ctx"
       \/ m = 3 /\ ToIdle[8 - m] = "handle"
       \/ m = 4 /\ ToIdle[8 - m] = "attach"
       \/ m = 5 /\ ToIdle[8 - m] = "comm"
       \/ m = 6 /\ ToIdle[8 - m] = "data"
       \/ m = 7 /\ ToIdle[8 - m] = "tun"
  /\ \A m \in 1 .. 3 :
       \/ m = 1 /\ ToProbe[4 - m] = "handle"
       \/ m = 2 /\ ToProbe[4 - m] = "comm"
       \/ m = 3 /\ ToProbe[4 - m] = "data"
<1>1. \A m \in 1 .. 7 : m = 1 \/ m = 2 \/ m = 3 \/ m = 4 \/ m = 5 \/ m = 6 \/ m = 7
  OBVIOUS
<1>2. \A m \in 1 .. 3 : m = 1 \/ m = 2 \/ m = 3
  OBVIOUS
<1> QED BY <1>1, <1>2, PathElements

\* The releases an error path begins with are the end of a longest path.
LEMMA Suffixes ==
  /\ <<"driver">> \in Seq(Steps) /\ Len(<<"driver">>) = 1
  /\ <<"ctx", "driver">> \in Seq(Steps) /\ Len(<<"ctx", "driver">>) = 2
  /\ <<"handle">> \in Seq(Steps) /\ <<"comm", "handle">> \in Seq(Steps)
  /\ ToProbe \in Seq(Steps) /\ Len(ToProbe) = 3
  /\ ToIdle \in Seq(Steps) /\ Len(ToIdle) = 7
  /\ UsbClose \o <<"driver">> \in Seq(Steps) /\ Len(UsbClose \o <<"driver">>) = 6
  /\ \A i \in 1 .. 6 : (UsbClose \o <<"driver">>)[i] = ToIdle[i + 1]
  /\ CloseAllOf = ToIdle
<1>1. /\ <<"driver">> \in Seq(Steps) /\ Len(<<"driver">>) = 1
      /\ <<"ctx", "driver">> \in Seq(Steps) /\ Len(<<"ctx", "driver">>) = 2
      /\ <<"handle">> \in Seq(Steps) /\ <<"comm", "handle">> \in Seq(Steps)
  BY DEF Steps, Names
<1>2. ToProbe \in Seq(Steps) /\ Len(ToProbe) = 3
  BY DEF Steps, Names, ToProbe
<1>3. ToIdle \in Seq(Steps) /\ Len(ToIdle) = 7
  BY DEF Steps, Names, ToIdle
<1>4. UsbClose \in Seq(Steps) /\ Len(UsbClose) = 5
  BY DEF Steps, Names, UsbClose
<1>5. /\ UsbClose[1] = "data" /\ UsbClose[2] = "comm" /\ UsbClose[3] = "attach"
      /\ UsbClose[4] = "handle" /\ UsbClose[5] = "ctx"
  BY DEF UsbClose
<1> DEFINE close == UsbClose \o <<"driver">>
<1>7. /\ close \in Seq(Steps) /\ Len(close) = 6
      /\ \A i \in 1 .. 6 : close[i] = IF i <= 5 THEN UsbClose[i] ELSE <<"driver">>[i - 5]
  <2>1. close \in Seq(Steps) /\ Len(close) = Len(UsbClose) + Len(<<"driver">>)
    BY <1>1, <1>4, ConcatProperties
  <2>2. \A i \in 1 .. Len(UsbClose) + Len(<<"driver">>) : close[i] =
          IF i <= Len(UsbClose) THEN UsbClose[i] ELSE <<"driver">>[i - Len(UsbClose)]
    BY <1>1, <1>4, ConcatProperties
  <2> HIDE DEF close
  <2>3. Len(UsbClose) + Len(<<"driver">>) = 6
    BY <1>1, <1>4
  <2> QED BY <1>4, <2>1, <2>2, <2>3
<1>8. \A i \in 1 .. 6 : close[i] = ToIdle[i + 1]
  <2>1. close[6] = "driver"
    BY <1>7
  <2>2. \A i \in 1 .. 5 : close[i] = UsbClose[i]
    BY <1>7
  <2> HIDE DEF close
  <2>3. \A i \in 1 .. 6 : i = 1 \/ i = 2 \/ i = 3 \/ i = 4 \/ i = 5 \/ i = 6
    OBVIOUS
  <2> QED BY <1>5, PathElements, <2>1, <2>2, <2>3
<1>9. CloseAllOf = ToIdle
  <2>1. <<"tun">> \in Seq(Steps) /\ Len(<<"tun">>) = 1 /\ <<"tun">>[1] = "tun"
    BY DEF Steps, Names
  <2>2. CloseAllOf = <<"tun">> \o close
    BY <1>1, <1>4, <2>1, ConcatAssociative DEF CloseAllOf
  <2> HIDE DEF close
  <2>3. /\ CloseAllOf \in Seq(Steps) /\ Len(CloseAllOf) = 7
        /\ \A i \in 1 .. 7 :
             CloseAllOf[i] = IF i <= 1 THEN <<"tun">>[i] ELSE close[i - 1]
    <3>1. /\ CloseAllOf \in Seq(Steps) /\ Len(CloseAllOf) = Len(<<"tun">>) + Len(close)
          /\ \A i \in 1 .. Len(<<"tun">>) + Len(close) : CloseAllOf[i] =
               IF i <= Len(<<"tun">>) THEN <<"tun">>[i] ELSE close[i - Len(<<"tun">>)]
      BY <1>7, <2>1, <2>2, ConcatProperties
    <3>2. Len(<<"tun">>) + Len(close) = 7
      BY <1>7, <2>1
    <3> QED BY <2>1, <3>1, <3>2
  <2>4. \A i \in 1 .. 7 : CloseAllOf[i] = ToIdle[i]
    BY PathElements, <1>8, <2>1, <2>3
  <2> QED BY <1>3, <2>3, <2>4, SeqEqual
<1> HIDE DEF close
<1> QED BY <1>1, <1>2, <1>3, <1>7, <1>8, <1>9 DEF close

-----------------------------------------------------------------------------
(* The resources: every step moves between two neighbouring levels *)

\* A step acquires the next resource or releases the last one.
Moves == \E n \in 1 .. 6 : (Upto(n - 1) /\ Upto(n)') \/ (Upto(n) /\ Upto(n - 1)')

HeldType == held \in [Names -> {0, 1}]

\* The part of the type invariant that is about the error paths.
PathType ==
  /\ spc \in InSession \cup {"idle", "find", "list", "probe", "claimComm", "claimData",
                             "scan", "unwind"}
  /\ HeldType /\ todo \in Seq(Steps) /\ then \in {"idle", "probe"}

PathInv == PathType /\ HeldInv

LEMMA AcquireNext ==
  ASSUME NEW n \in 1 .. 6, HeldType, Upto(n - 1), Acquire(Order[n])
  PROVE  HeldType' /\ Upto(n)' /\ Moves
<1>1. n = 1 \/ n = 2 \/ n = 3 \/ n = 4 \/ n = 5 \/ n = 6
  OBVIOUS
<1>2. Upto(n)' /\ HeldType'
  BY <1>1, ResourceNames DEF Acquire, Upto, HeldType, Names
<1> QED BY <1>2 DEF Moves

LEMMA ReleaseLast ==
  ASSUME NEW n \in 1 .. 6, HeldType, Upto(n), held' = [held EXCEPT ![Order[n]] = @ - 1]
  PROVE  HeldType' /\ Upto(n - 1)' /\ Moves
<1>1. n = 1 \/ n = 2 \/ n = 3 \/ n = 4 \/ n = 5 \/ n = 6
  OBVIOUS
<1>2. Upto(n - 1)' /\ HeldType'
  BY <1>1, ResourceNames DEF Upto, HeldType, Names
<1> QED BY <1>2 DEF Moves

\* One release of an error path.
LEMMA ReleaseStep ==
  ASSUME PathInv, Release
  PROVE  PathInv' /\ Moves
<1>1. /\ spc = "unwind" /\ todo # <<>> /\ Head(todo) # "attach" /\ todo \in Seq(Steps)
      /\ held' = [held EXCEPT ![Head(todo)] = @ - 1]
      /\ todo' = Tail(todo) /\ spc' = spc /\ then' = then
  BY DEF Release, PathInv, PathType
<1>2. /\ Head(todo) = todo[1] /\ Len(todo) \in Nat \ {0}
      /\ todo' \in Seq(Steps) /\ Len(todo') = Len(todo) - 1
      /\ \A i \in 1 .. Len(todo') : todo'[i] = todo[i + 1]
  BY <1>1, HeadTailProperties
<1>3. CASE then = "idle"
  <2>1. EndOf(ToIdle) /\ Len(todo) <= 7
    <3>1. EndOf(ToIdle)
      BY <1>1, <1>3 DEF PathInv, HeldInv
    <3> QED BY <3>1, Suffixes DEF EndOf
  <2>2. todo[1] = ToIdle[8 - Len(todo)]
    BY <1>2, <2>1, Suffixes DEF EndOf
  <2>3. EndOf(ToIdle)'
    BY <1>2, <2>1, Suffixes DEF EndOf
  <2>4. \/ Len(todo) = 1 /\ todo[1] = "driver"
        \/ Len(todo) = 2 /\ todo[1] = "ctx"
        \/ Len(todo) = 3 /\ todo[1] = "handle"
        \/ Len(todo) = 5 /\ todo[1] = "comm"
        \/ Len(todo) = 6 /\ todo[1] = "data"
        \/ Len(todo) = 7 /\ todo[1] = "tun"
    <3>1. todo \in Seq(Steps) /\ todo # <<>> /\ Len(todo) <= 7
      BY <1>1, <2>1
    <3>2. Len(todo) \in 1 .. 7
      BY <3>1, LengthRange
    <3>3. todo[1] # "attach"
      BY <1>1, <1>2
    <3> QED BY <2>2, <3>2, <3>3, FromTheEnd
  <2>5. PICK n \in 1 .. 6 : /\ n = IF Len(todo) <= 3 THEN Len(todo) ELSE Len(todo) - 1
                            /\ todo[1] = Order[n] /\ Upto(n)
    <3>1. PICK m \in 1 .. 7 : m = Len(todo)
      BY <2>4
    <3>2. IF m <= 3 THEN Upto(m) ELSE Upto(m - 1)
      BY <1>1, <1>3, <3>1 DEF PathInv, HeldInv
    <3>3. \/ m = 1 /\ todo[1] = "driver"
          \/ m = 2 /\ todo[1] = "ctx"
          \/ m = 3 /\ todo[1] = "handle"
          \/ m = 5 /\ todo[1] = "comm"
          \/ m = 6 /\ todo[1] = "data"
          \/ m = 7 /\ todo[1] = "tun"
      BY <2>4, <3>1
    <3>4. CASE m <= 3
      <4>1. m \in 1 .. 6 /\ todo[1] = Order[m] /\ Upto(m)
        BY <3>2, <3>3, <3>4, ResourceNames
      <4> QED BY <3>1, <3>4, <4>1
    <3>5. CASE m > 3
      <4>1. m - 1 \in 1 .. 6 /\ todo[1] = Order[m - 1] /\ Upto(m - 1)
        BY <3>2, <3>3, <3>5, ResourceNames
      <4>2. m - 1 = IF Len(todo) <= 3 THEN Len(todo) ELSE Len(todo) - 1
        BY <3>1, <3>5
      <4> QED BY <4>1, <4>2
    <3> QED BY <3>4, <3>5
  <2>6. HeldType' /\ Upto(n - 1)' /\ Moves
    BY <1>1, <1>2, <2>5, ReleaseLast DEF PathInv, PathType
  <2>7. (IF Len(todo) <= 3 THEN Upto(Len(todo)) ELSE Upto(Len(todo) - 1))'
    <3>1. n - 1 = IF Len(todo') <= 3 THEN Len(todo') ELSE Len(todo') - 1
      BY <1>2, <2>4, <2>5
    <3> QED BY <2>6, <3>1
  <2> QED BY <1>1, <1>2, <1>3, <2>3, <2>6, <2>7 DEF PathInv, PathType, HeldInv, InSession
<1>4. CASE then = "probe"
  <2>1. EndOf(ToProbe) /\ Len(todo) <= 3 /\ Upto(Len(todo) + 2)
    BY <1>1, <1>4, Suffixes DEF PathInv, HeldInv, EndOf
  <2>2. todo[1] = ToProbe[4 - Len(todo)]
    BY <1>2, <2>1, Suffixes DEF EndOf
  <2>3. EndOf(ToProbe)'
    BY <1>2, <2>1, Suffixes DEF EndOf
  <2>4. \/ Len(todo) = 1 /\ todo[1] = "handle"
        \/ Len(todo) = 2 /\ todo[1] = "comm"
        \/ Len(todo) = 3 /\ todo[1] = "data"
    <3>1. Len(todo) \in 1 .. 3
      BY <1>2, <2>1
    <3> QED BY <2>2, <3>1, FromTheEnd
  <2>5. PICK n \in 1 .. 6 : n = Len(todo) + 2 /\ todo[1] = Order[n] /\ Upto(n)
    <3>1. PICK m \in 1 .. 3 : m = Len(todo)
      BY <2>4
    <3>2. \/ m = 1 /\ todo[1] = "handle"
          \/ m = 2 /\ todo[1] = "comm"
          \/ m = 3 /\ todo[1] = "data"
      BY <2>4, <3>1
    <3>3. m + 2 \in 1 .. 6 /\ todo[1] = Order[m + 2]
      BY <3>2, ResourceNames
    <3>4. Upto(m + 2) /\ m + 2 = Len(todo) + 2
      BY <2>1, <3>1
    <3> QED BY <3>3, <3>4
  <2>6. HeldType' /\ Upto(n - 1)' /\ Moves
    BY <1>1, <1>2, <2>5, ReleaseLast DEF PathInv, PathType
  <2>7. Upto(Len(todo) + 2)'
    <3>1. n - 1 = Len(todo') + 2
      BY <1>2, <2>5
    <3> QED BY <2>6, <3>1
  <2> QED BY <1>1, <1>2, <1>4, <2>3, <2>6, <2>7 DEF PathInv, PathType, HeldInv, InSession
<1> QED BY <1>3, <1>4 DEF PathInv, PathType

\* The call of libusb_attach_kernel_driver, and the end of an error path.
LEMMA AttachStep ==
  ASSUME PathInv, Attach \/ Unwound
  PROVE  PathInv' /\ UNCHANGED held
<1>1. CASE Attach
  <2>1. /\ spc = "unwind" /\ todo # <<>> /\ Head(todo) = "attach" /\ todo \in Seq(Steps)
        /\ todo' = Tail(todo) /\ UNCHANGED <<spc, then, held>>
    BY <1>1 DEF Attach, PathInv, PathType
  <2>2. /\ todo[1] = "attach" /\ Len(todo) \in Nat \ {0}
        /\ todo' \in Seq(Steps) /\ Len(todo') = Len(todo) - 1
        /\ \A i \in 1 .. Len(todo') : todo'[i] = todo[i + 1]
    BY <2>1, HeadTailProperties
  <2>3. then = "idle" => Len(todo) = 4 /\ EndOf(ToIdle)' /\ Upto(3)'
    <3> SUFFICES ASSUME then = "idle" PROVE Len(todo) = 4 /\ EndOf(ToIdle)' /\ Upto(3)'
      OBVIOUS
    <3>1. EndOf(ToIdle) /\ Len(todo) <= 7
      <4>1. EndOf(ToIdle)
        BY <2>1 DEF PathInv, HeldInv
      <4> QED BY <4>1, Suffixes DEF EndOf
    <3>2. todo[1] = ToIdle[8 - Len(todo)]
      BY <2>2, <3>1, PathLengths DEF EndOf
    <3>3. Len(todo) = 4
      <4>1. todo \in Seq(Steps) /\ todo # <<>> /\ Len(todo) <= 7
        BY <2>1, <3>1
      <4>2. Len(todo) \in 1 .. 7
        BY <4>1, LengthRange
      <4> QED BY <2>2, <3>2, <4>2, FromTheEnd
    <3>4. EndOf(ToIdle)'
      BY <2>2, <3>1, Suffixes DEF EndOf
    <3>5. Upto(3)
      BY <2>1, <3>3 DEF PathInv, HeldInv
    <3> QED BY <2>1, <3>3, <3>4, <3>5 DEF Upto
  <2>4. then # "probe"
    <3> SUFFICES ASSUME then = "probe" PROVE FALSE
      OBVIOUS
    <3>1. EndOf(ToProbe) /\ Len(todo) <= 3
      BY <2>1, Suffixes DEF PathInv, HeldInv, EndOf
    <3>2. todo[1] = ToProbe[4 - Len(todo)]
      BY <2>2, <3>1, Suffixes DEF EndOf
    <3>3. Len(todo) \in 1 .. 3
      BY <2>2, <3>1
    <3> QED BY <2>2, <3>2, <3>3, FromTheEnd
  <2>5. (IF Len(todo) <= 3 THEN Upto(Len(todo)) ELSE Upto(Len(todo) - 1))'
    BY <2>1, <2>2, <2>3, <2>4 DEF PathInv, PathType
  <2> QED BY <2>1, <2>2, <2>3, <2>4, <2>5 DEF PathInv, PathType, HeldType, HeldInv, InSession
<1>2. CASE Unwound
  <2>1. spc = "unwind" /\ todo = <<>> /\ spc' = then /\ UNCHANGED <<held, todo, then>>
    BY <1>2 DEF Unwound
  <2>2. Len(todo) = 0
    BY <2>1
  <2>3. IF then = "idle" THEN Upto(0) ELSE Upto(2)
    BY <2>1, <2>2 DEF PathInv, PathType, HeldInv
  <2> QED BY <2>1, <2>3 DEF PathInv, PathType, HeldType, HeldInv, InSession, Upto
<1> QED BY <1>1, <1>2

Level5 == {"scan", "initSend", "initRecv", "querySend", "queryRecv", "setSend", "setRecv",
           "address", "tun"}
Level6 == {"configure", "session", "keepalive"}

\* A step within the session.
LEMMA StayStep ==
  ASSUME PathInv, UNCHANGED <<held, todo, then>>,
         (spc \in Level5 /\ spc' \in Level5) \/ (spc \in Level6 /\ spc' \in Level6)
  PROVE  PathInv'
BY DEF PathInv, PathType, HeldType, HeldInv, InSession, Level5, Level6, Upto

\* The error path of a device that is open, and the end of a session.
LEMMA FailStep ==
  ASSUME PathInv, UNCHANGED held,
         \/ spc \in Level5 /\ Unwind(UsbClose \o <<"driver">>, "idle")
         \/ spc \in Level6 /\ Unwind(CloseAllOf, "idle")
  PROVE  PathInv'
<1> USE DEF PathInv, PathType, HeldType, HeldInv, InSession, Level5, Level6, Unwind
<1>1. CASE spc \in Level5 /\ Unwind(UsbClose \o <<"driver">>, "idle")
  <2>1. spc' = "unwind" /\ then' = "idle" /\ todo' = UsbClose \o <<"driver">>
    BY <1>1
  <2>2. /\ todo' \in Seq(Steps) /\ Len(todo') = 6
        /\ \A i \in 1 .. 6 : todo'[i] = ToIdle[i + 1]
    BY <2>1, Suffixes
  <2>3. EndOf(ToIdle)'
    BY <2>2, PathLengths DEF EndOf
  <2>4. Upto(5)'
    BY <1>1 DEF Upto
  <2>5. (IF Len(todo) <= 3 THEN Upto(Len(todo)) ELSE Upto(Len(todo) - 1))'
    BY <2>2, <2>4
  <2> QED BY <2>1, <2>2, <2>3, <2>5
<1>2. CASE spc \in Level6 /\ Unwind(CloseAllOf, "idle")
  <2>1. spc' = "unwind" /\ then' = "idle" /\ todo' = ToIdle
    BY <1>2, Suffixes
  <2>2. todo' \in Seq(Steps) /\ Len(todo') = 7
    BY <2>1, Suffixes
  <2>3. EndOf(ToIdle)'
    BY <2>1, <2>2 DEF EndOf
  <2>4. Upto(6)'
    BY <1>2 DEF Upto
  <2>5. (IF Len(todo) <= 3 THEN Upto(Len(todo)) ELSE Upto(Len(todo) - 1))'
    BY <2>2, <2>4
  <2> QED BY <2>1, <2>2, <2>3, <2>5
<1> QED BY <1>1, <1>2

\* usb_find_rndis_device stops before it has opened a device.
LEMMA StopStep ==
  ASSUME PathInv, UNCHANGED held,
         \/ spc = "find" /\ Unwind(<<"driver">>, "idle")
         \/ spc \in {"list", "probe"} /\ Unwind(<<"ctx", "driver">>, "idle")
  PROVE  PathInv'
<1> USE DEF PathInv, PathType, HeldType, HeldInv, InSession, Unwind
<1>1. CASE spc = "find" /\ Unwind(<<"driver">>, "idle")
  <2>1. spc' = "unwind" /\ then' = "idle" /\ todo' = <<"driver">>
    BY <1>1
  <2>2. todo' \in Seq(Steps) /\ Len(todo') = 1 /\ todo'[1] = "driver"
    BY <2>1, Suffixes
  <2>3. EndOf(ToIdle)'
    BY <2>2, PathLengths, PathElements DEF EndOf
  <2>4. Upto(1)'
    BY <1>1 DEF Upto
  <2>5. (IF Len(todo) <= 3 THEN Upto(Len(todo)) ELSE Upto(Len(todo) - 1))'
    BY <2>2, <2>4
  <2> QED BY <2>1, <2>2, <2>3, <2>5
<1>2. CASE spc \in {"list", "probe"} /\ Unwind(<<"ctx", "driver">>, "idle")
  <2>1. spc' = "unwind" /\ then' = "idle" /\ todo' = <<"ctx", "driver">>
    BY <1>2
  <2>2. todo' \in Seq(Steps) /\ Len(todo') = 2 /\ todo'[1] = "ctx" /\ todo'[2] = "driver"
    BY <2>1, Suffixes
  <2>3. EndOf(ToIdle)'
    BY <2>2, PathLengths, PathElements DEF EndOf
  <2>4. Upto(2)'
    BY <1>2 DEF Upto
  <2>5. (IF Len(todo) <= 3 THEN Upto(Len(todo)) ELSE Upto(Len(todo) - 1))'
    BY <2>2, <2>4
  <2> QED BY <2>1, <2>2, <2>3, <2>5
<1> QED BY <1>1, <1>2

\* The loop goes on to the next device.
LEMMA GiveUpStep ==
  ASSUME PathInv, UNCHANGED held,
         \/ spc = "claimComm" /\ GiveUp(<<"handle">>)
         \/ spc = "claimData" /\ GiveUp(<<"comm", "handle">>)
         \/ spc = "scan" /\ GiveUp(<<"data", "comm", "handle">>)
  PROVE  PathInv'
<1> USE DEF PathInv, PathType, HeldType, HeldInv, InSession, Unwind, GiveUp
<1>1. CASE spc = "claimComm" /\ GiveUp(<<"handle">>)
  <2>1. spc' = "unwind" /\ then' = "probe" /\ todo' = <<"handle">>
    BY <1>1
  <2>2. todo' \in Seq(Steps) /\ Len(todo') = 1 /\ todo'[1] = "handle"
    BY <2>1, Suffixes
  <2>3. EndOf(ToProbe)'
    BY <2>2, PathLengths, PathElements DEF EndOf
  <2>4. Upto(Len(todo) + 2)'
    BY <1>1, <2>2 DEF Upto
  <2> QED BY <2>1, <2>2, <2>3, <2>4
<1>2. CASE spc = "claimData" /\ GiveUp(<<"comm", "handle">>)
  <2>1. spc' = "unwind" /\ then' = "probe" /\ todo' = <<"comm", "handle">>
    BY <1>2
  <2>2. todo' \in Seq(Steps) /\ Len(todo') = 2 /\ todo'[1] = "comm" /\ todo'[2] = "handle"
    BY <2>1, Suffixes
  <2>3. EndOf(ToProbe)'
    BY <2>2, PathLengths, PathElements DEF EndOf
  <2>4. Upto(Len(todo) + 2)'
    BY <1>2, <2>2 DEF Upto
  <2> QED BY <2>1, <2>2, <2>3, <2>4
<1>3. CASE spc = "scan" /\ GiveUp(<<"data", "comm", "handle">>)
  <2>1. spc' = "unwind" /\ then' = "probe" /\ todo' = ToProbe
    BY <1>3 DEF ToProbe
  <2>2. todo' \in Seq(Steps) /\ Len(todo') = 3
    BY <2>1, Suffixes
  <2>3. EndOf(ToProbe)'
    BY <2>1, <2>2 DEF EndOf
  <2>4. Upto(Len(todo) + 2)'
    BY <1>3, <2>2 DEF Upto
  <2> QED BY <2>1, <2>2, <2>3, <2>4
<1> QED BY <1>1, <1>2, <1>3

\* The step from one level to the next one.
LEMMA UpStep ==
  ASSUME PathInv, UNCHANGED <<todo, then>>,
         \/ spc = "idle" /\ Acquire("driver") /\ spc' = "find"
         \/ spc = "find" /\ Acquire("ctx") /\ spc' = "list"
         \/ spc = "probe" /\ Acquire("handle") /\ spc' = "claimComm"
         \/ spc = "claimComm" /\ Acquire("comm") /\ spc' = "claimData"
         \/ spc = "claimData" /\ Acquire("data") /\ spc' = "scan"
         \/ spc = "tun" /\ Acquire("tun") /\ spc' = "configure"
  PROVE  PathInv' /\ Moves
<1> USE DEF PathInv, PathType, HeldInv, InSession
<1>1. CASE spc = "idle" /\ Acquire("driver") /\ spc' = "find"
  <2>1. HeldType' /\ Upto(1)' /\ Moves
    BY <1>1, ResourceNames, AcquireNext
  <2> QED BY <1>1, <2>1
<1>2. CASE spc = "find" /\ Acquire("ctx") /\ spc' = "list"
  <2>1. HeldType' /\ Upto(2)' /\ Moves
    BY <1>2, ResourceNames, AcquireNext
  <2> QED BY <1>2, <2>1
<1>3. CASE spc = "probe" /\ Acquire("handle") /\ spc' = "claimComm"
  <2>1. HeldType' /\ Upto(3)' /\ Moves
    BY <1>3, ResourceNames, AcquireNext
  <2> QED BY <1>3, <2>1
<1>4. CASE spc = "claimComm" /\ Acquire("comm") /\ spc' = "claimData"
  <2>1. HeldType' /\ Upto(4)' /\ Moves
    BY <1>4, ResourceNames, AcquireNext
  <2> QED BY <1>4, <2>1
<1>5. CASE spc = "claimData" /\ Acquire("data") /\ spc' = "scan"
  <2>1. HeldType' /\ Upto(5)' /\ Moves
    BY <1>5, ResourceNames, AcquireNext
  <2> QED BY <1>5, <2>1
<1>6. CASE spc = "tun" /\ Acquire("tun") /\ spc' = "configure"
  <2>1. HeldType' /\ Upto(6)' /\ Moves
    BY <1>6, ResourceNames, AcquireNext
  <2> QED BY <1>6, <2>1
<1> QED BY <1>1, <1>2, <1>3, <1>4, <1>5, <1>6

LEMMA FindPath ==
  ASSUME PathInv, FindStep
  PROVE  PathInv' /\ (Moves \/ UNCHANGED held)
<1>1. CASE Release
  BY <1>1, ReleaseStep
<1>2. CASE Attach \/ Unwound
  BY <1>2, AttachStep
<1>3. CASE FindStart
  BY <1>3, UpStep, StopStep DEF FindStart
<1>4. CASE FindList
  <2>1. CASE spc' = "probe" /\ UNCHANGED <<todo, then>>
    BY <1>4, <2>1 DEF FindList, PathInv, PathType, HeldType, HeldInv, InSession, Upto
  <2>2. CASE Unwind(<<"ctx", "driver">>, "idle")
    BY <1>4, <2>2, StopStep DEF FindList
  <2> QED BY <1>4, <2>1, <2>2 DEF FindList
<1>5. CASE FindNone
  BY <1>5, StopStep DEF FindNone
<1>6. CASE Skip
  BY <1>6 DEF Skip, PathInv, PathType, HeldType, HeldInv, Upto, EndOf
<1>7. CASE Open
  BY <1>7, UpStep DEF Open
<1>8. CASE ClaimComm
  BY <1>8, UpStep, GiveUpStep DEF ClaimComm
<1>9. CASE ClaimData
  BY <1>9, UpStep, GiveUpStep DEF ClaimData
<1>10. CASE Scan
  <2>1. /\ spc = "scan" /\ UNCHANGED held
        /\ \/ GiveUp(<<"data", "comm", "handle">>)
           \/ spc' = "initSend" /\ UNCHANGED <<todo, then>>
    BY <1>10 DEF Scan
  <2> QED BY <2>1, GiveUpStep, StayStep DEF Level5
<1> QED
  BY <1>1, <1>2, <1>3, <1>4, <1>5, <1>6, <1>7, <1>8, <1>9, <1>10 DEF FindStep

\* What the other steps do to the path: they stay on a level of the session,
\* leave it, or acquire the interface.
LEMMA PathStep ==
  ASSUME PathInv, [Next]_vars
  PROVE  PathInv' /\ (Moves \/ UNCHANGED held)
<1>1. CASE FindStep
  BY <1>1, FindPath
<1>2. CASE InitSend \/ QuerySend \/ SetSend \/ InitRecv \/ QueryRecv \/ SetRecv \/ Address
  <2>1. /\ spc \in Level5 /\ UNCHANGED held
        /\ \/ spc' \in Level5 /\ UNCHANGED <<todo, then>>
           \/ Unwind(UsbClose \o <<"driver">>, "idle")
    <3>1. CASE InitSend \/ QuerySend \/ SetSend
      BY <3>1 DEF InitSend, QuerySend, SetSend, SendRequest, GoTo, InitFails, Level5
    <3>2. CASE InitRecv \/ QueryRecv \/ SetRecv \/ Address
      BY <3>2 DEF InitRecv, QueryRecv, SetRecv, Address, GoTo, InitFails, Level5
    <3> QED BY <1>2, <3>1, <3>2
  <2> QED BY <2>1, StayStep, FailStep
<1>3. CASE CreateTun
  BY <1>3, UpStep, FailStep DEF CreateTun, InitFails, Level5
<1>4. CASE ConfigureTun \/ KeepaliveRecv \/ KeepaliveSend \/ EndSession
  <2>1. /\ spc \in Level6 /\ UNCHANGED held
        /\ \/ spc' \in Level6 /\ UNCHANGED <<todo, then>>
           \/ Unwind(CloseAllOf, "idle")
    BY <1>4 DEF ConfigureTun, KeepaliveRecv, KeepaliveSend, EndSession, GoTo, Level6
  <2> QED BY <2>1, StayStep, FailStep
<1>5. CASE CreateDriver
  BY <1>5, UpStep DEF CreateDriver
<1>6. CASE UNCHANGED pathVars
  BY <1>6 DEF PathInv, PathType, HeldType, HeldInv, Upto, EndOf
<1>7. CASE \E d \in Devices : PhoneAnswers(d) \/ PhoneIndicates(d) \/ Unplug(d) \/ Replug(d)
  <2>1. UNCHANGED pathVars
    BY <1>7 DEF PhoneAnswers, PhoneIndicates, Unplug, Replug
  <2> QED BY <1>6, <2>1
<1> QED
  BY <1>1, <1>2, <1>3, <1>4, <1>5, <1>6, <1>7 DEF Next, SetupStep, vars

LEMMA PathInit == Init => PathInv
<1> SUFFICES ASSUME Init PROVE PathInv
  OBVIOUS
<1>1. spc = "idle" /\ todo = <<>> /\ then = "idle" /\ held = [r \in Names |-> 0]
  BY ResourceNames DEF Init, UsbInit
<1>2. HeldType /\ Upto(0)
  BY <1>1 DEF HeldType, Upto, Names
<1>3. todo \in Seq(Steps)
  BY <1>1
<1> QED BY <1>1, <1>2, <1>3 DEF PathInv, PathType, HeldInv, InSession

\* A step between two levels is a step of the abstract specification.
LEMMA MovesAreSteps ==
  ASSUME HeldType, Moves, HeldType'
  PROVE  Stack!Next
<1> DEFINE h == [i \in 1 .. Len(Order) |-> held[Order[i]]]
<1>1. ASSUME NEW n \in 0 .. 6, Upto(n), HeldType
      PROVE  \A i \in 1 .. 6 : h[i] = IF i <= n THEN 1 ELSE 0
  <2>1. \A i \in 1 .. 6 : h[i] = held[Order[i]]
    BY ResourceNames
  <2>2. \A i \in 1 .. 6 : i = 1 \/ i = 2 \/ i = 3 \/ i = 4 \/ i = 5 \/ i = 6
    OBVIOUS
  <2> HIDE DEF h
  <2> QED BY <1>1, <2>1, <2>2, ResourceNames DEF Upto
<1>2. ASSUME NEW n \in 0 .. 6, Upto(n)', HeldType'
      PROVE  \A i \in 1 .. 6 : h'[i] = IF i <= n THEN 1 ELSE 0
  <2>1. \A i \in 1 .. 6 : h'[i] = held'[Order[i]]
    BY ResourceNames DEF Order
  <2>2. \A i \in 1 .. 6 : i = 1 \/ i = 2 \/ i = 3 \/ i = 4 \/ i = 5 \/ i = 6
    OBVIOUS
  <2> HIDE DEF h
  <2> QED BY <1>2, <2>1, <2>2, ResourceNames DEF Upto
<1>3. /\ h = [i \in 1 .. 6 |-> h[i]]
      /\ h' = [i \in 1 .. 6 |-> h'[i]]
  BY ResourceNames DEF Order
<1>4. PICK n \in 1 .. 6 : (Upto(n - 1) /\ Upto(n)') \/ (Upto(n) /\ Upto(n - 1)')
  BY DEF Moves
<1>5. n \in 0 .. 6 /\ n - 1 \in 0 .. 6
  OBVIOUS
<1>6. CASE Upto(n - 1) /\ Upto(n)'
  <2>1. /\ \A i \in 1 .. 6 : h[i] = IF i <= n - 1 THEN 1 ELSE 0
        /\ \A i \in 1 .. 6 : h'[i] = IF i <= n THEN 1 ELSE 0
    BY <1>1, <1>2, <1>5, <1>6
  <2> HIDE DEF h
  <2>2. \A j \in 1 .. 6 : h[j] = IF j < n THEN 1 ELSE 0
    BY <2>1
  <2>3. h' = [h EXCEPT ![n] = 1]
    BY <1>3, <2>1
  <2>4. Stack!Acquire(n)
    BY <2>2, <2>3, ResourceNames DEF Stack!Acquire, Stack!Below, h
  <2> QED BY <2>4, ResourceNames DEF Stack!Next
<1>7. CASE Upto(n) /\ Upto(n - 1)'
  <2>1. /\ \A i \in 1 .. 6 : h[i] = IF i <= n THEN 1 ELSE 0
        /\ \A i \in 1 .. 6 : h'[i] = IF i <= n - 1 THEN 1 ELSE 0
    BY <1>1, <1>2, <1>5, <1>7
  <2> HIDE DEF h
  <2>2. \A j \in 1 .. 6 : h[j] = IF j < n + 1 THEN 1 ELSE 0
    BY <2>1
  <2>3. h' = [h EXCEPT ![n] = 0]
    BY <1>3, <2>1
  <2>4. Stack!Release(n)
    BY <2>2, <2>3, ResourceNames DEF Stack!Release, Stack!Below, h
  <2> QED BY <2>4, ResourceNames DEF Stack!Next
<1> QED BY <1>4, <1>6, <1>7

\* On every path of usb_find_rndis_device and run_session, whatever fails, the
\* resources of a session are released in reverse order and each exactly once.
THEOREM ResourcesGivenBack == Spec => HeldSpec
<1>1. Init => PathInv /\ Stack!Init
  <2> SUFFICES ASSUME Init PROVE Stack!Init
    BY PathInit
  <2>1. held = [r \in Resources |-> 0]
    BY DEF Init, UsbInit
  <2>2. \A i \in 1 .. 6 : i = 1 \/ i = 2 \/ i = 3 \/ i = 4 \/ i = 5 \/ i = 6
    OBVIOUS
  <2>3. \A i \in 1 .. Len(Order) : held[Order[i]] = 0
    BY <2>1, <2>2, ResourceNames DEF Names
  <2> QED BY <2>3 DEF Stack!Init
<1>2. PathInv /\ [Next]_vars => PathInv' /\ (Moves \/ UNCHANGED held)
  BY PathStep
<1>3. PathInv /\ PathInv' /\ Moves => Stack!Next
  BY MovesAreSteps DEF PathInv, PathType
<1>4. UNCHANGED held => UNCHANGED [i \in 1 .. Len(Order) |-> held[Order[i]]]
  BY DEF Order
<1> QED BY <1>1, <1>2, <1>3, <1>4, PTL DEF Spec, HeldSpec, Stack!Spec

-----------------------------------------------------------------------------
(* The device that is open *)

DevType ==
  /\ bus \in Buses
  /\ gone \in SUBSET Devices
  /\ detached \in SUBSET (Devices \X {"comm", "data"})
  /\ cur \in 1 .. Len(bus) + 1
  /\ spc \notin {"idle", "find", "list", "probe", "unwind"} => cur <= Len(bus)
  /\ kernel_detached \in {0, 1}
  /\ abandoned \in SUBSET Devices

DevInv == DevType /\ DriverInv /\ EndpointsInv

LEMMA BusFacts ==
  ASSUME bus \in Buses
  PROVE  /\ Len(bus) \in Nat /\ Devices = 1 .. Len(bus)
         /\ \A d \in Devices : bus[d].drivers \subseteq {"comm", "data"}
<1>1. bus \in Seq([alts : Seq(AltSettings), drivers : SUBSET {"comm", "data"}])
  BY BusAssumption
<1>2. Len(bus) \in Nat /\ Devices = 1 .. Len(bus)
  BY <1>1 DEF Devices
<1>3. \A d \in 1 .. Len(bus) : bus[d] \in [alts : Seq(AltSettings), drivers : SUBSET {"comm", "data"}]
  BY <1>1, ElementOfSeq
<1> QED BY <1>2, <1>3

\* A direction the settings S have is found in them.
LEMMA FoundHere ==
  ASSUME NEW d, NEW S, NEW dir, NEW old
  PROVE  /\ (\E k \in S : dir \in bus[d].alts[k].eps) => FindEndpoint(d, S, dir, old)[1] = d
         /\ old[1] = d => FindEndpoint(d, S, dir, old)[1] = d
BY DEF FindEndpoint

\* Steps that keep the device: control stays, or leaves on an error path.
LEMMA SameDevice ==
  ASSUME DevInv, UNCHANGED <<bus, gone, detached, cur, ep_in, ep_out, kernel_detached, abandoned>>,
         \/ spc \in InSession /\ spc' \in InSession
         \/ spc \in InSession /\ spc' = "unwind" /\ then' = "idle" /\ Len(todo') >= 4
         \/ spc = "idle" /\ spc' = "find"
         \/ UNCHANGED <<spc, then, todo>>
  PROVE  DevInv'
<1> USE DEF DevInv, DevType, Devices
<1>1. DevType'
  BY DEF InSession
<1>2. DriverInv'
  <2>1. Holding => Holding'
    BY DEF Holding, InSession
  <2> QED BY <2>1 DEF DriverInv
<1>3. EndpointsInv'
  BY DEF EndpointsInv, InSession
<1> QED BY <1>1, <1>2, <1>3

LEMMA FindDevice ==
  ASSUME DevInv, PathInv, FindStep
  PROVE  DevInv'
<1> USE DEF DevInv, DevType
<1>0. /\ Len(bus) \in Nat /\ Devices = 1 .. Len(bus)
      /\ \A d \in Devices : bus[d].drivers \subseteq {"comm", "data"}
  BY BusFacts
<1>1. CASE Release
  <2>1. /\ UNCHANGED <<bus, gone, detached, cur, ep_in, ep_out, kernel_detached, abandoned>>
        /\ spc = "unwind" /\ spc' = "unwind" /\ then' = then
    BY <1>1 DEF Release
  <2>2. then = "idle" /\ Len(todo) >= 4 => Len(todo') >= 4
    <3> SUFFICES ASSUME then = "idle", Len(todo) >= 4 PROVE Len(todo') >= 4
      OBVIOUS
    <3>1. /\ todo \in Seq(Steps) /\ todo # <<>> /\ Head(todo) # "attach" /\ todo' = Tail(todo)
          /\ EndOf(ToIdle)
      BY <1>1 DEF Release, PathInv, PathType, HeldInv
    <3>2. todo[1] # "attach" /\ Len(todo') = Len(todo) - 1 /\ Len(todo) <= 7
      BY <3>1, HeadTailProperties, PathLengths DEF EndOf
    <3>3. Len(todo) # 4
      <4> SUFFICES ASSUME Len(todo) = 4 PROVE FALSE
        OBVIOUS
      <4>1. todo[1] = ToIdle[4]
        BY <3>1, PathLengths DEF EndOf
      <4> QED BY <3>2, <4>1, PathElements
    <3>4. Len(todo) \in Nat
      BY <3>1
    <3> QED BY <3>2, <3>3, <3>4
  <2>3. DriverInv'
    BY <2>1, <2>2 DEF DriverInv, Holding, Devices, InSession
  <2> QED BY <2>1, <2>3 DEF EndpointsInv, InSession, Devices
<1>2. CASE Attach
  <2>1. /\ UNCHANGED <<bus, gone, cur, ep_in, ep_out, kernel_detached, abandoned>>
        /\ spc = "unwind" /\ spc' = "unwind" /\ then' = then
        /\ detached' = IF kernel_detached = 1 THEN detached \ {<<cur, "comm">>} ELSE detached
    BY <1>2 DEF Attach
  <2>2. DriverInv'
    BY <2>1 DEF DriverInv, Holding, Devices, InSession
  <2>3. detached' \subseteq detached
    BY <2>1
  <2> QED BY <2>1, <2>2, <2>3 DEF EndpointsInv, InSession, Devices
<1>3. CASE Unwound
  <2>1. /\ UNCHANGED <<bus, gone, detached, cur, ep_in, ep_out, kernel_detached, abandoned>>
        /\ spc = "unwind" /\ todo = <<>> /\ spc' \in {"idle", "probe"}
    BY <1>3 DEF Unwound, PathInv, PathType
  <2>2. Len(todo) = 0
    BY <2>1
  <2>3. DriverInv'
    BY <2>1, <2>2 DEF DriverInv, Holding, Devices, InSession
  <2> QED BY <2>1, <2>3 DEF EndpointsInv, InSession, Devices
<1>4. CASE FindStart \/ FindList \/ FindNone \/ Skip
  <2>1. /\ UNCHANGED <<bus, gone, detached, abandoned>>
        /\ spc \in {"find", "list", "probe"} /\ spc' \in {"list", "probe", "unwind"}
        /\ cur' \in 1 .. Len(bus) + 1 /\ kernel_detached' \in {0, 1}
    BY <1>0, <1>4 DEF FindStart, FindList, FindNone, Skip, Unwind
  <2>2. DriverInv'
    BY <2>1 DEF DriverInv, Holding, Devices, InSession
  <2> QED BY <2>1, <2>2 DEF EndpointsInv, InSession, Devices
<1>5. CASE Open
  <2> DEFINE active == {i \in bus[cur].drivers : <<cur, i>> \notin detached}
  <2>1. /\ spc = "probe" /\ cur <= Len(bus) /\ spc' = "claimComm"
        /\ detached' = detached \cup {<<cur, i>> : i \in active}
        /\ kernel_detached' = IF "comm" \in active THEN 1 ELSE kernel_detached
        /\ UNCHANGED <<bus, gone, cur, abandoned>>
    BY <1>5 DEF Open
  <2>2. cur \in Devices /\ active \subseteq {"comm", "data"}
    BY <1>0, <2>1
  <2>3. detached' \in SUBSET (Devices \X {"comm", "data"})
    <3> HIDE DEF active
    <3>1. \A i \in active : <<cur, i>> \in Devices \X {"comm", "data"}
      BY <2>2
    <3>2. detached \in SUBSET (Devices \X {"comm", "data"})
      OBVIOUS
    <3> QED BY <2>1, <3>1, <3>2
  <2>4. DriverInv'
    <3> SUFFICES ASSUME NEW d \in Devices, <<d, "comm">> \in detached'
                 PROVE  d \in abandoned \/ (d = cur /\ kernel_detached' = 1)
      BY <2>1 DEF DriverInv, Holding, Devices
    <3>1. CASE <<d, "comm">> \in detached
      BY <2>1, <3>1 DEF DriverInv, Holding, InSession
    <3>2. CASE <<d, "comm">> \notin detached
      BY <2>1, <3>2
    <3> QED BY <3>1, <3>2
  <2> QED BY <2>1, <2>2, <2>3, <2>4 DEF EndpointsInv, InSession, Devices
<1>6. ASSUME spc \in {"claimComm", "claimData", "scan"}, UNCHANGED <<bus, gone, detached, kernel_detached>>,
             spc' = "unwind", cur' = cur + 1, abandoned' = abandoned \cup {cur}
      PROVE  DevInv'
  <2>1. cur \in Devices /\ cur' \in 1 .. Len(bus) + 1
    BY <1>0, <1>6
  <2>2. DriverInv'
    BY <1>6 DEF DriverInv, Holding, Devices, InSession
  <2> QED BY <1>6, <2>1, <2>2 DEF EndpointsInv, InSession, Devices
<1>7. CASE ClaimComm \/ ClaimData
  <2>1. /\ spc \in {"claimComm", "claimData"} /\ UNCHANGED <<bus, gone, detached, kernel_detached>>
        /\ \/ spc' \in {"claimData", "scan"} /\ UNCHANGED <<cur, abandoned>>
           \/ spc' = "unwind" /\ cur' = cur + 1 /\ abandoned' = abandoned \cup {cur}
    BY <1>7 DEF ClaimComm, ClaimData, GiveUp, Unwind
  <2>2. CASE spc' \in {"claimData", "scan"} /\ UNCHANGED <<cur, abandoned>>
    BY <2>1, <2>2 DEF DriverInv, Holding, EndpointsInv, InSession, Devices
  <2> QED BY <1>6, <2>1, <2>2
<1>8. CASE Scan
  <2> DEFINE alts == bus[cur].alts
             both == {k \in DOMAIN alts : alts[k].num \in Ifaces(alts)}
             in1  == FindEndpoint(cur, both, "in", ep_in)
             out1 == FindEndpoint(cur, both, "out", ep_out)
  <2>1. /\ spc = "scan" /\ UNCHANGED <<bus, gone, detached, kernel_detached>>
        /\ \/ spc' = "initSend" /\ UNCHANGED <<cur, abandoned>>
           \/ spc' = "unwind" /\ cur' = cur + 1 /\ abandoned' = abandoned \cup {cur}
    BY <1>8 DEF Scan, GiveUp, Unwind
  <2>2. \E again : /\ ep_in' = FindEndpoint(cur, again, "in", in1)
                   /\ ep_out' = FindEndpoint(cur, again, "out", out1)
    BY <1>8 DEF Scan
  <2>3. /\ (\E k \in both : "in" \in alts[k].eps) => ep_in'[1] = cur
        /\ (\E k \in both : "out" \in alts[k].eps) => ep_out'[1] = cur
    BY <2>2, FoundHere
  <2>4. CASE spc' = "initSend" /\ UNCHANGED <<cur, abandoned>>
    <3>1. EndpointsInv'
      BY <2>1, <2>3, <2>4 DEF EndpointsInv
    <3> QED BY <2>1, <2>4, <3>1 DEF DriverInv, Holding, InSession, Devices
  <2> QED BY <1>6, <2>1, <2>4
<1> QED BY <1>1, <1>2, <1>3, <1>4, <1>5, <1>7, <1>8 DEF FindStep

LEMMA DevStep ==
  ASSUME DevInv, PathInv, [Next]_vars
  PROVE  DevInv'
<1>1. CASE FindStep
  BY <1>1, FindDevice
<1>2. CASE (SetupStep /\ ~FindStep) \/ CreateDriver \/ KeepaliveSend \/ EndSession
  <2>1. UNCHANGED <<bus, gone, detached, cur, ep_in, ep_out, kernel_detached, abandoned>>
    BY <1>2 DEF SetupStep, InitSend, QuerySend, SetSend, SendRequest, InitRecv, QueryRecv,
       SetRecv, Address, CreateTun, ConfigureTun, KeepaliveRecv, CreateDriver,
       KeepaliveSend, EndSession
  <2>2. \/ spc \in InSession /\ spc' \in InSession
        \/ spc = "idle" /\ spc' = "find"
        \/ /\ spc \in InSession /\ spc' = "unwind" /\ then' = "idle"
           /\ todo' = UsbClose \o <<"driver">> \/ todo' = CloseAllOf
    <3>1. CASE InitSend \/ QuerySend \/ SetSend \/ InitRecv \/ QueryRecv \/ SetRecv \/ Address
      BY <3>1 DEF InitSend, QuerySend, SetSend, SendRequest, InitRecv, QueryRecv,
         SetRecv, Address, GoTo, InitFails, Unwind, InSession
    <3>2. CASE \/ CreateTun \/ ConfigureTun \/ KeepaliveRecv \/ KeepaliveSend
               \/ CreateDriver \/ EndSession
      BY <3>2 DEF CreateTun, ConfigureTun, KeepaliveRecv, CreateDriver, KeepaliveSend,
         EndSession, GoTo, InitFails, Unwind, InSession
    <3> QED BY <1>2, <3>1, <3>2 DEF SetupStep
  <2>3. todo' = UsbClose \o <<"driver">> \/ todo' = CloseAllOf => Len(todo') >= 4
    BY Suffixes
  <2> QED BY <2>1, <2>2, <2>3, SameDevice
<1>3. CASE \E d \in Devices : Unplug(d)
  <2>1. PICK d \in Devices : Unplug(d)
    BY <1>3
  <2>2. /\ gone' = gone \cup {d} /\ detached' = detached \ ({d} \X {"comm", "data"})
        /\ abandoned' = abandoned \ {d}
        /\ UNCHANGED <<bus, cur, ep_in, ep_out, kernel_detached, spc, then, todo>>
    BY <2>1 DEF Unplug
  <2>3. DevType'
    BY <2>2 DEF DevInv, DevType, Devices
  <2>4. DriverInv'
    BY <2>2 DEF DevInv, DriverInv, Holding, Devices
  <2>5. EndpointsInv'
    BY <2>2 DEF DevInv, EndpointsInv
  <2> QED BY <2>3, <2>4, <2>5 DEF DevInv
<1>4. CASE \E d \in Devices : PhoneAnswers(d) \/ PhoneIndicates(d) \/ Replug(d)
  <2>1. /\ gone' \subseteq gone
        /\ UNCHANGED <<bus, detached, cur, ep_in, ep_out, kernel_detached, abandoned, spc, then, todo>>
    BY <1>4 DEF PhoneAnswers, PhoneIndicates, Replug
  <2>2. DevType'
    BY <2>1 DEF DevInv, DevType, Devices
  <2>3. DriverInv'
    BY <2>1 DEF DevInv, DriverInv, Holding, Devices
  <2>4. EndpointsInv'
    BY <2>1 DEF DevInv, EndpointsInv
  <2> QED BY <2>2, <2>3, <2>4 DEF DevInv
<1>5. CASE UNCHANGED vars
  BY <1>5, SameDevice DEF vars
<1> QED
  BY <1>1, <1>2, <1>3, <1>4, <1>5 DEF Next, SetupStep

-----------------------------------------------------------------------------
(* The control pipe *)

PhoneType ==
  /\ inbox \in [Devices -> Seq(Requests)] /\ answers \in [Devices -> Seq(Answers)]
  /\ phone \in [Devices -> {"down", "ready", "filtering", "unfiltered"}]
  /\ mac \in {"zero", "phone", "fallback"}
  /\ orderly \in SUBSET Devices

PipeInv == PhoneType /\ PromptInv /\ LinkInv

Awaiting == {"initRecv", "queryRecv", "setRecv"}
Talking  == InSession \ {"initSend", "initRecv"}
WithMac  == {"setSend", "setRecv", "address", "tun", "configure", "session", "keepalive"}
Filtered == WithMac \ {"setSend"}

\* Steps of the driver that do not use the pipe.
LEMMA QuietStep ==
  ASSUME PipeInv, UNCHANGED <<bus, gone, inbox, answers, phone, mac, orderly>>,
         spc \notin Awaiting \cup {"keepalive"}, spc' \notin Awaiting,
         spc' \in Talking => spc \in Talking /\ cur' = cur,
         spc' \in WithMac => spc \in WithMac,
         spc' \in Filtered => spc \in Filtered
  PROVE  PipeInv'
<1> USE DEF PipeInv
<1>1. PhoneType'
  BY DEF PhoneType, Devices
<1>2. PromptInv'
  <2>1. \A d \in gone' : Idle(d)'
    BY DEF PromptInv, Idle
  <2>2. \A d \in orderly \ gone : Idle(d)
    BY DEF PromptInv, Awaiting
  <2>3. spc' \in WithMac => (cur' \in orderly \ gone => mac = "phone")
    BY DEF PromptInv, LinkUp, WithMac, Talking, InSession
  <2> QED BY <2>1, <2>2, <2>3 DEF PromptInv, Idle, Awaiting, WithMac, LinkUp
<1>3. LinkInv'
  <2>1. spc' \in Talking /\ cur' \notin gone' => phone'[cur'] # "down"
    BY DEF LinkInv, Talking
  <2>2. spc' \in Filtered /\ cur' \notin gone' =>
          \/ phone'[cur'] \in {"filtering", "unfiltered"} /\ NoInitAfter(cur, 0)'
          \/ \E k \in 1 .. Len(inbox'[cur']) : inbox'[cur'][k] = "set" /\ NoInitAfter(cur, k)'
    BY DEF LinkInv, Filtered, WithMac, Talking, InSession, LinkUp, NoInitAfter
  <2> QED BY <2>1, <2>2 DEF LinkInv, Talking, Filtered, WithMac, LinkUp, Devices
<1> QED BY <1>1, <1>2, <1>3

\* A request is sent to a phone that, if it is orderly, has nothing pending.
LEMMA SendStep ==
  ASSUME PipeInv, cur \in Devices, UNCHANGED <<bus, gone, cur, mac>>, NEW q, Send(q),
         \/ q = "init" /\ spc = "initSend" /\ spc' = "initRecv"
         \/ q = "query" /\ spc = "querySend" /\ spc' = "queryRecv"
         \/ q = "set" /\ spc = "setSend" /\ spc' = "setRecv"
         \/ q = "keepalive" /\ spc = "session" /\ spc' = "keepalive"
  PROVE  PipeInv'
<1> USE DEF PipeInv
<1>1. /\ inbox' = [inbox EXCEPT ![cur] = Append(@, q)] /\ cur \notin gone
      /\ UNCHANGED <<answers, phone, orderly>>
  BY DEF Send, CanSend
<1>2. q \in Requests /\ inbox[cur] \in Seq(Requests)
  BY DEF Requests, PhoneType
<1>3. /\ inbox'[cur] = Append(inbox[cur], q)
      /\ \A d \in Devices : d # cur => inbox'[d] = inbox[d]
  BY <1>1 DEF PhoneType
<1>4. PhoneType'
  BY <1>1, <1>2 DEF PhoneType, Devices
<1>5. PromptInv'
  <2>1. \A d \in gone' : Idle(d)'
    <3>1. \A d \in gone : d \in Devices => d # cur
      BY <1>1
    <3>2. \A d \in gone : d # cur => inbox'[d] = inbox[d]
      BY <1>1 DEF PhoneType
    <3> QED BY <1>1, <3>2 DEF PromptInv, Idle
  <2>2. \A d \in orderly \ gone : Idle(d)
    BY DEF PromptInv
  <2>3. cur \in orderly => Pending(cur, q)'
    BY <1>1, <1>3, <2>2, OneElement DEF Idle, Pending
  <2>4. \A d \in orderly' \ gone' : d = cur \/ Idle(d)'
    BY <1>1, <1>3, <2>2 DEF Idle, PhoneType
  <2>5. spc' \in WithMac => (cur' \in orderly' \ gone' => mac' = "phone")
    BY <1>1 DEF PromptInv, LinkUp, WithMac
  <2> QED BY <1>1, <2>1, <2>3, <2>4, <2>5 DEF PromptInv, WithMac, LinkUp, Pending, Idle
<1>6. LinkInv'
  <2>1. \A d \in Devices' : \A k \in 1 .. Len(answers'[d]) :
          answers'[d][k] = "init" => phone'[d] # "down"
    BY <1>1 DEF LinkInv, Devices
  <2>2. spc' \in Talking /\ cur' \notin gone' => phone'[cur'] # "down"
    BY <1>1 DEF LinkInv, Talking, InSession
  <2>3. CASE spc = "setSend"
    <3>1. inbox'[cur][Len(inbox'[cur])] = "set" /\ Len(inbox'[cur]) \in 1 .. Len(inbox'[cur])
      <4>1. Len(inbox'[cur]) = Len(inbox[cur]) + 1 /\ Len(inbox[cur]) \in Nat
        BY <1>2, <1>3, AppendProperties
      <4>2. inbox'[cur][Len(inbox[cur]) + 1] = "set"
        BY <1>2, <1>3, <2>3, AppendProperties
      <4> QED BY <4>1, <4>2
    <3>2. \A l \in 1 .. Len(inbox'[cur]) : ~ (l > Len(inbox'[cur]))
      BY <1>2, <1>3, AppendProperties
    <3>3. \E k \in 1 .. Len(inbox'[cur]) :
            inbox'[cur][k] = "set" /\
            \A l \in 1 .. Len(inbox'[cur]) : l > k => inbox'[cur][l] # "init"
      BY <3>1, <3>2
    <3> QED BY <2>1, <2>2, <3>3 DEF LinkInv, NoInitAfter, Talking
  <2>4. CASE spc = "session"
    <3> DEFINE s == inbox[cur]
               t == inbox'[cur]
    <3>1. /\ Len(t) = Len(s) + 1 /\ Len(s) \in Nat
          /\ \A i \in 1 .. Len(s) : t[i] = s[i]
          /\ t[Len(s) + 1] = "keepalive"
      BY <1>2, <1>3, <2>4, AppendProperties
    <3>2. \/ phone[cur] \in {"filtering", "unfiltered"} /\
             \A l \in 1 .. Len(s) : l > 0 => s[l] # "init"
          \/ \E k \in 1 .. Len(s) : s[k] = "set" /\
             \A l \in 1 .. Len(s) : l > k => s[l] # "init"
      BY <1>1, <2>4 DEF LinkInv, LinkUp, NoInitAfter
    <3> HIDE DEF s, t
    <3>3. \A k \in Nat : (\A l \in 1 .. Len(s) : l > k => s[l] # "init")
                         => \A l \in 1 .. Len(t) : l > k => t[l] # "init"
      BY <3>1
    <3>4. \/ phone[cur] \in {"filtering", "unfiltered"} /\
             \A l \in 1 .. Len(t) : l > 0 => t[l] # "init"
          \/ \E k \in 1 .. Len(t) : t[k] = "set" /\
             \A l \in 1 .. Len(t) : l > k => t[l] # "init"
      BY <3>1, <3>2, <3>3
    <3> QED BY <1>1, <2>1, <2>2, <3>4 DEF LinkInv, NoInitAfter, Talking, t
  <2>5. CASE spc \in {"initSend", "querySend"}
    BY <2>1, <2>2, <2>5 DEF LinkInv, LinkUp, Talking
  <2> QED BY <2>3, <2>4, <2>5
<1> QED BY <1>4, <1>5, <1>6

\* The oldest answer is read.
LEMMA RecvStep ==
  ASSUME PipeInv, cur \in Devices, UNCHANGED <<bus, gone, cur>>, NEW a, Recv(a),
         spc \in Awaiting \cup {"keepalive"}, spc' \notin Awaiting \cup {"keepalive"},
         spc' \in Talking => spc \in Talking \/ a = "init",
         mac' \in {"zero", "phone", "fallback"},
         spc' \in WithMac => \/ spc \in WithMac /\ mac' = mac
                             \/ spc = "queryRecv" /\ (a = "query" => mac' = "phone"),
         spc' \in Filtered => spc \in Filtered
  PROVE  PipeInv'
<1> USE DEF PipeInv
<1>1. /\ answers[cur] # <<>> /\ a = Head(answers[cur])
      /\ answers' = [answers EXCEPT ![cur] = Tail(@)]
      /\ UNCHANGED <<inbox, phone, orderly>>
  BY DEF Recv
<1>2. answers[cur] \in Seq(Answers) /\ Tail(answers[cur]) \in Seq(Answers)
  BY <1>1 DEF PhoneType
<1>3. /\ answers'[cur] = Tail(answers[cur])
      /\ \A d \in Devices : d # cur => answers'[d] = answers[d]
  BY <1>1 DEF PhoneType
<1>4. PhoneType'
  BY <1>1, <1>2 DEF PhoneType, Devices
<1>5. cur \notin gone
  BY <1>1 DEF PromptInv, Idle
<1>6. cur \in orderly => /\ inbox[cur] = <<>> /\ answers'[cur] = <<>>
                         /\ spc = "queryRecv" => a = "query"
  <2>1. cur \in orderly => \E q : /\ inbox[cur] = <<>> /\ answers[cur] = <<q>>
                                  /\ spc = "queryRecv" => q = "query"
    BY <1>1, <1>5 DEF PromptInv, Pending, Idle, Awaiting
  <2> QED BY <1>1, <1>3, <2>1, OneElement
<1>7. PromptInv'
  <2>1. \A d \in gone' : Idle(d)'
    <3>1. \A d \in gone : d # cur => answers'[d] = answers[d]
      BY <1>1 DEF PhoneType
    <3> QED BY <1>1, <1>5, <3>1 DEF PromptInv, Idle
  <2>2. \A d \in orderly' \ gone' : Idle(d)'
    <3> SUFFICES ASSUME NEW d \in orderly \ gone PROVE Idle(d)'
      BY <1>1
    <3>1. CASE d = cur
      BY <1>1, <1>6, <3>1 DEF Idle
    <3>2. CASE d # cur
      BY <1>1, <1>3, <3>2 DEF PromptInv, Idle, PhoneType
    <3> QED BY <3>1, <3>2
  <2>3. spc' \in WithMac => (cur' \in orderly' \ gone' => mac' = "phone")
    BY <1>1, <1>6 DEF PromptInv, LinkUp, WithMac
  <2> QED BY <2>1, <2>2, <2>3 DEF PromptInv, WithMac, LinkUp, Awaiting
<1>8. LinkInv'
  <2>1. /\ \A k \in 1 .. Len(answers'[cur]) :
             k + 1 \in 1 .. Len(answers[cur]) /\ answers'[cur][k] = answers[cur][k + 1]
        /\ 1 \in 1 .. Len(answers[cur]) /\ a = answers[cur][1]
    <3> DEFINE s == answers[cur]
               t == answers'[cur]
    <3>1. /\ Len(t) = Len(s) - 1 /\ Len(s) \in Nat /\ Len(s) # 0 /\ a = s[1]
          /\ \A i \in 1 .. Len(t) : t[i] = s[i + 1]
      <4>1. s \in Seq(Answers) /\ s # <<>> /\ a = Head(s) /\ t = Tail(s)
        BY <1>1, <1>2, <1>3
      <4> HIDE DEF s, t
      <4>2. Len(s) \in Nat /\ Len(s) # 0 /\ a = s[1]
        BY <4>1
      <4> QED BY <4>1, <4>2, HeadTailProperties
    <3> HIDE DEF s, t
    <3>2. PICK n \in Nat : n = Len(s)
      BY <3>1
    <3>3. n # 0 /\ Len(t) = n - 1
      BY <3>1, <3>2
    <3>4. \A k \in 1 .. n - 1 : k + 1 \in 1 .. n
      OBVIOUS
    <3> QED BY <3>1, <3>2, <3>3, <3>4 DEF s, t
  <2>2. \A d \in Devices' : \A k \in 1 .. Len(answers'[d]) :
          answers'[d][k] = "init" => phone'[d] # "down"
    <3> SUFFICES ASSUME NEW d \in Devices, NEW k \in 1 .. Len(answers'[d]),
                        answers'[d][k] = "init"
                 PROVE  phone[d] # "down"
      BY <1>1 DEF Devices
    <3>1. CASE d = cur
      BY <2>1, <3>1 DEF LinkInv
    <3>2. CASE d # cur
      BY <1>3, <3>2 DEF LinkInv
    <3> QED BY <3>1, <3>2
  <2>3. spc' \in Talking /\ cur' \notin gone' => phone'[cur'] # "down"
    <3>1. a = "init" => phone[cur] # "down"
      BY <2>1 DEF LinkInv
    <3> QED BY <1>1, <3>1 DEF LinkInv, Talking
  <2>4. spc' \in Filtered =>
          \/ phone'[cur'] \in {"filtering", "unfiltered"} /\ NoInitAfter(cur, 0)'
          \/ \E k \in 1 .. Len(inbox'[cur']) : inbox'[cur'][k] = "set" /\ NoInitAfter(cur, k)'
    BY <1>1, <1>5 DEF LinkInv, Filtered, WithMac, LinkUp, NoInitAfter
  <2> QED BY <2>2, <2>3, <2>4 DEF LinkInv, Talking, Filtered, WithMac, LinkUp
<1> QED BY <1>4, <1>7, <1>8

\* The read fails: nothing was there yet, or what was there stays.
LEMMA RecvFailsStep ==
  ASSUME PipeInv, cur \in Devices, UNCHANGED <<bus, gone, cur, mac>>, RecvFails,
         \/ spc \in Awaiting /\ spc' = "unwind"
         \/ spc = "keepalive" /\ spc' = "session"
  PROVE  PipeInv'
<1> USE DEF PipeInv
<1>1. /\ UNCHANGED <<inbox, answers, phone>>
      /\ orderly' \subseteq orderly
      /\ cur \in orderly' => inbox[cur] = <<>> /\ answers[cur] = <<>>
  BY DEF RecvFails
<1>2. PhoneType'
  BY <1>1 DEF PhoneType, Devices
<1>3. PromptInv'
  <2>1. \A d \in gone' : Idle(d)'
    BY <1>1 DEF PromptInv, Idle
  <2>2. \A d \in orderly' \ gone' : Idle(d)'
    BY <1>1 DEF PromptInv, Idle
  <2>3. spc' \in WithMac => (cur' \in orderly' \ gone' => mac' = "phone")
    BY <1>1 DEF PromptInv, LinkUp, WithMac
  <2> QED BY <2>1, <2>2, <2>3 DEF PromptInv, WithMac, LinkUp
<1>4. LinkInv'
  <2>1. CASE spc' = "unwind"
    BY <1>1, <2>1 DEF LinkInv, LinkUp, InSession, Devices
  <2>2. CASE spc = "keepalive" /\ spc' = "session"
    BY <1>1, <2>2 DEF LinkInv, LinkUp, InSession, NoInitAfter, Devices
  <2> QED BY <2>1, <2>2
<1> QED BY <1>2, <1>3, <1>4

\* What handling the oldest request does to a phone.
LEMMA HandledFacts ==
  ASSUME NEW p \in {"down", "ready", "filtering", "unfiltered"}, NEW q, NEW ok \in BOOLEAN
  PROVE  /\ Handled(p, q, ok) \in {"down", "ready", "filtering", "unfiltered"}
         /\ p # "down" => Handled(p, q, ok) # "down"
         /\ q = "init" /\ ok => Handled(p, q, ok) # "down"
         /\ q = "set" /\ p # "down" => Handled(p, q, ok) \in {"filtering", "unfiltered"}
         /\ q # "init" /\ p \in {"filtering", "unfiltered"} =>
              Handled(p, q, ok) \in {"filtering", "unfiltered"}
<1>1. CASE q = "init" /\ ok
  BY <1>1 DEF Handled
<1>2. CASE q = "set" /\ p # "down"
  BY <1>2 DEF Handled
<1>3. CASE ~ (q = "init" /\ ok) /\ ~ (q = "set" /\ p # "down")
  <2>1. Handled(p, q, ok) = p
    BY <1>3 DEF Handled
  <2> QED BY <1>3, <2>1
<1> QED BY <1>1, <1>2, <1>3

\* A phone answers its oldest request.
LEMMA AnswerStep ==
  ASSUME PipeInv, NEW d \in Devices, PhoneAnswers(d)
  PROVE  PipeInv'
<1> USE DEF PipeInv
<1> DEFINE q == Head(inbox[d])
<1>1. PICK a \in Replies(q) :
        /\ answers' = [answers EXCEPT ![d] = Append(@, a)]
        /\ phone' = [phone EXCEPT ![d] = Handled(@, q, a # "refused")]
        /\ orderly' = IF a = q THEN orderly ELSE orderly \ {d}
  BY DEF PhoneAnswers
<1>2. /\ inbox[d] # <<>> /\ inbox' = [inbox EXCEPT ![d] = Tail(@)]
      /\ UNCHANGED <<mac, bus, gone, cur, spc>>
  BY DEF PhoneAnswers
<1>3. /\ inbox[d] \in Seq(Requests) /\ answers[d] \in Seq(Answers)
      /\ phone[d] \in {"down", "ready", "filtering", "unfiltered"}
  BY DEF PhoneType
<1>4. q \in Requests /\ Tail(inbox[d]) \in Seq(Requests)
  BY <1>2, <1>3
<1>5. a \in Answers /\ (a = "init" => q = "init")
  BY <1>4 DEF Replies, Answers, Requests
<1> DEFINE p == Handled(phone[d], q, a # "refused")
<1>6. /\ p \in {"down", "ready", "filtering", "unfiltered"}
      /\ phone[d] # "down" => p # "down"
      /\ a = "init" => p # "down"
      /\ q = "set" /\ phone[d] # "down" => p \in {"filtering", "unfiltered"}
      /\ q # "init" /\ phone[d] \in {"filtering", "unfiltered"} =>
           p \in {"filtering", "unfiltered"}
  BY <1>3, <1>5, HandledFacts
<1> HIDE DEF p
<1>7. /\ inbox'[d] = Tail(inbox[d]) /\ answers'[d] = Append(answers[d], a) /\ phone'[d] = p
      /\ \A e \in Devices : e # d => inbox'[e] = inbox[e] /\ answers'[e] = answers[e]
                                     /\ phone'[e] = phone[e]
  BY <1>1, <1>2 DEF PhoneType, p
<1> HIDE DEF q
<1>8. PhoneType'
  <2>1. inbox' \in [Devices -> Seq(Requests)]
    BY <1>2, <1>4 DEF PhoneType
  <2>2. answers' \in [Devices -> Seq(Answers)]
    BY <1>1, <1>3, <1>5, AppendProperties DEF PhoneType
  <2>3. phone' \in [Devices -> {"down", "ready", "filtering", "unfiltered"}]
    BY <1>1, <1>6 DEF PhoneType, p
  <2> QED BY <1>1, <1>2, <2>1, <2>2, <2>3 DEF PhoneType, Devices
<1>9. PromptInv'
  <2>1. d \notin gone
    BY <1>2 DEF PromptInv, Idle
  <2>2. \A e \in gone' : Idle(e)'
    <3>1. \A e \in gone : e # d => inbox'[e] = inbox[e] /\ answers'[e] = answers[e]
      BY <1>1, <1>2 DEF PhoneType
    <3> QED BY <1>2, <2>1, <3>1 DEF PromptInv, Idle
  <2>3. d \in orderly' =>
          /\ d = cur /\ spc \in Awaiting \cup {"keepalive"}
          /\ \E r : inbox[d] = <<r>> /\ answers[d] = <<>> /\ Pending(d, r)
    BY <1>1, <1>2, <2>1 DEF PromptInv, Idle, Pending, Awaiting
  <2>4. ASSUME NEW r, d \in orderly', inbox[d] = <<r>>, answers[d] = <<>>
        PROVE  inbox'[d] = <<>> /\ answers'[d] = <<r>>
    <3>1. q = r /\ inbox'[d] = <<>>
      BY <1>7, <2>4, OneElement DEF q
    <3>2. a = r
      BY <1>1, <2>4, <3>1
    <3> QED BY <1>7, <2>4, <3>1, <3>2, OneElement
  <2>5. \A e \in orderly' \ gone' :
          \/ Idle(e)' /\ ~ (e = cur' /\ spc' \in {"initRecv", "queryRecv", "setRecv"})
          \/ e = cur' /\ spc' = "initRecv" /\ Pending(e, "init")'
          \/ e = cur' /\ spc' = "queryRecv" /\ Pending(e, "query")'
          \/ e = cur' /\ spc' = "setRecv" /\ Pending(e, "set")'
          \/ e = cur' /\ spc' = "keepalive" /\ Pending(e, "keepalive")'
    <3> SUFFICES ASSUME NEW e \in orderly' \ gone PROVE
          \/ Idle(e)' /\ ~ (e = cur /\ spc \in {"initRecv", "queryRecv", "setRecv"})
          \/ e = cur /\ spc = "initRecv" /\ Pending(e, "init")'
          \/ e = cur /\ spc = "queryRecv" /\ Pending(e, "query")'
          \/ e = cur /\ spc = "setRecv" /\ Pending(e, "set")'
          \/ e = cur /\ spc = "keepalive" /\ Pending(e, "keepalive")'
      BY <1>2
    <3>1. CASE e = d
      <4>1. ~ Idle(e)
        BY <1>2, <3>1 DEF Idle
      <4>2. \/ e = cur /\ spc = "initRecv" /\ Pending(e, "init")
            \/ e = cur /\ spc = "queryRecv" /\ Pending(e, "query")
            \/ e = cur /\ spc = "setRecv" /\ Pending(e, "set")
            \/ e = cur /\ spc = "keepalive" /\ Pending(e, "keepalive")
        BY <1>1, <4>1 DEF PromptInv
      <4> QED BY <1>2, <2>4, <3>1, <4>2 DEF Pending
    <3>2. CASE e # d
      <4>1. e \in Devices /\ inbox'[e] = inbox[e] /\ answers'[e] = answers[e]
        BY <1>1, <1>7, <3>2 DEF PhoneType
      <4>2. e \in orderly \ gone
        BY <1>1
      <4> QED BY <4>1, <4>2 DEF PromptInv, Idle, Pending
    <3> QED BY <3>1, <3>2
  <2>6. spc' \in {"setSend", "setRecv"} \/ LinkUp' => (cur' \in orderly' \ gone' => mac' = "phone")
    BY <1>1, <1>2 DEF PromptInv, LinkUp
  <2> QED BY <2>2, <2>5, <2>6 DEF PromptInv
<1>10. LinkInv'
  <2>1. \A e \in Devices' : \A k \in 1 .. Len(answers'[e]) :
          answers'[e][k] = "init" => phone'[e] # "down"
    <3> SUFFICES ASSUME NEW e \in Devices, NEW k \in 1 .. Len(answers'[e]),
                        answers'[e][k] = "init"
                 PROVE  phone'[e] # "down"
      BY <1>2 DEF Devices
    <3>1. CASE e # d
      BY <1>7, <3>1 DEF LinkInv
    <3>2. CASE e = d
      <4> DEFINE s == answers[d]
                 t == answers'[d]
      <4>1. /\ Len(t) = Len(s) + 1 /\ Len(s) \in Nat
            /\ \A i \in 1 .. Len(s) : t[i] = s[i]
            /\ t[Len(s) + 1] = a
        BY <1>3, <1>5, <1>7, AppendProperties
      <4>2. k \in 1 .. Len(t) /\ t[k] = "init"
        BY <3>2
      <4>3. (\E i \in 1 .. Len(s) : s[i] = "init") => phone[d] # "down"
        BY DEF LinkInv
      <4> HIDE DEF s, t
      <4>4. (\E i \in 1 .. Len(s) : s[i] = "init") \/ a = "init"
        BY <4>1, <4>2
      <4> QED BY <1>6, <1>7, <3>2, <4>3, <4>4
    <3> QED BY <3>1, <3>2
  <2>2. spc' \in InSession \ {"initSend", "initRecv"} /\ cur' \notin gone' => phone'[cur'] # "down"
    <3>1. CASE cur = d
      BY <1>2, <1>6, <1>7, <3>1 DEF LinkInv
    <3>2. CASE cur # d
      <4>1. phone'[cur] = phone[cur]
        BY <1>1, <3>2 DEF PhoneType
      <4> QED BY <1>2, <4>1 DEF LinkInv
    <3> QED BY <3>1, <3>2
  <2>3. (spc' = "setRecv" \/ LinkUp') /\ cur' \notin gone' =>
          \/ phone'[cur'] \in {"filtering", "unfiltered"} /\ NoInitAfter(cur, 0)'
          \/ \E k \in 1 .. Len(inbox'[cur']) : inbox'[cur'][k] = "set" /\ NoInitAfter(cur, k)'
    <3> SUFFICES ASSUME spc = "setRecv" \/ LinkUp, cur \notin gone
                 PROVE  \/ phone'[cur] \in {"filtering", "unfiltered"} /\ NoInitAfter(cur, 0)'
                        \/ \E k \in 1 .. Len(inbox'[cur]) :
                             inbox'[cur][k] = "set" /\ NoInitAfter(cur, k)'
      BY <1>2 DEF LinkUp
    <3>1. CASE cur # d
      <4>1. phone'[cur] = phone[cur] /\ inbox'[cur] = inbox[cur]
        BY <1>1, <1>2, <3>1 DEF PhoneType
      <4>2. \/ phone[cur] \in {"filtering", "unfiltered"} /\ NoInitAfter(cur, 0)
            \/ \E k \in 1 .. Len(inbox[cur]) : inbox[cur][k] = "set" /\ NoInitAfter(cur, k)
        BY DEF LinkInv
      <4>3. \A k : NoInitAfter(cur, k) => NoInitAfter(cur, k)'
        BY <1>2, <4>1 DEF NoInitAfter
      <4> QED BY <4>1, <4>2, <4>3
    <3>2. CASE cur = d
      <4> DEFINE s == inbox[d]
                 t == inbox'[d]
      <4>1. s \in Seq(Requests) /\ s # <<>> /\ t = Tail(s) /\ q = Head(s)
        BY <1>2, <1>3, <1>7 DEF q
      <4>2. \/ phone[d] \in {"filtering", "unfiltered"} /\
               \A l \in 1 .. Len(s) : l > 0 => s[l] # "init"
            \/ \E k \in 1 .. Len(s) : s[k] = "set" /\
               \A l \in 1 .. Len(s) : l > k => s[l] # "init"
        BY <3>2 DEF LinkInv, NoInitAfter
      <4> HIDE DEF s, t
      <4>3. /\ Len(s) \in Nat /\ Len(s) # 0 /\ q = s[1] /\ Len(t) = Len(s) - 1
            /\ \A i \in 1 .. Len(t) : t[i] = s[i + 1]
        <5>1. Len(s) \in Nat /\ Len(s) # 0 /\ q = s[1]
          BY <4>1
        <5> QED BY <4>1, <5>1, HeadTailProperties
      <4>4. PICK n \in Nat : n = Len(s) /\ n # 0
        BY <4>3
      <4>5. /\ Len(t) = n - 1 /\ 1 \in 1 .. n
            /\ \A i \in 1 .. n - 1 : t[i] = s[i + 1] /\ i + 1 \in 1 .. n
        BY <4>3, <4>4
      <4>6. phone[d] # "down"
        BY <3>2 DEF LinkInv, LinkUp, InSession
      <4>7. CASE /\ phone[d] \in {"filtering", "unfiltered"}
                 /\ \A l \in 1 .. Len(s) : l > 0 => s[l] # "init"
        <5>1. q # "init" /\ \A l \in 1 .. Len(t) : l > 0 => t[l] # "init"
          BY <4>3, <4>4, <4>5, <4>7
        <5> QED BY <1>2, <1>6, <1>7, <3>2, <4>7, <5>1 DEF NoInitAfter, t
      <4>8. ASSUME NEW k \in 1 .. Len(s), s[k] = "set",
                   \A l \in 1 .. Len(s) : l > k => s[l] # "init"
            PROVE  \/ phone'[cur] \in {"filtering", "unfiltered"} /\ NoInitAfter(cur, 0)'
                   \/ \E j \in 1 .. Len(inbox'[cur]) :
                        inbox'[cur][j] = "set" /\ NoInitAfter(cur, j)'
        <5>0. k \in 1 .. n /\ \A l \in 1 .. n : l > k => s[l] # "init"
          BY <4>4, <4>8
        <5>1. CASE k = 1
          <6>1. q = "set" /\ \A l \in 1 .. Len(t) : l > 0 => t[l] # "init"
            BY <4>3, <4>5, <4>8, <5>0, <5>1
          <6> QED BY <1>2, <1>6, <1>7, <3>2, <4>6, <6>1 DEF NoInitAfter, t
        <5>2. CASE k # 1
          <6>1. /\ k - 1 \in 1 .. Len(t) /\ t[k - 1] = "set"
                /\ \A l \in 1 .. Len(t) : l > k - 1 => t[l] # "init"
            <7>1. k - 1 \in 1 .. n - 1 /\ t[k - 1] = s[k]
              BY <4>5, <5>0, <5>2
            <7>2. \A l \in 1 .. n - 1 : l > k - 1 => t[l] # "init"
              BY <4>5, <5>0
            <7> QED BY <4>5, <4>8, <7>1, <7>2
          <6> QED BY <1>2, <3>2, <6>1 DEF NoInitAfter, t
        <5> QED BY <5>1, <5>2
      <4> QED BY <4>2, <4>7, <4>8
    <3> QED BY <3>1, <3>2
  <2> QED BY <2>1, <2>2, <2>3 DEF LinkInv
<1> QED BY <1>8, <1>9, <1>10

\* A phone sends what nobody asked for, and is not orderly any more.
LEMMA IndicateStep ==
  ASSUME PipeInv, NEW d \in Devices, PhoneIndicates(d)
  PROVE  PipeInv'
<1> USE DEF PipeInv
<1>1. /\ answers' = [answers EXCEPT ![d] = Append(@, "indicate")] /\ d \notin gone
      /\ orderly' = orderly \ {d}
      /\ UNCHANGED <<inbox, phone, mac, bus, gone, cur, spc>>
  BY DEF PhoneIndicates
<1>2. answers[d] \in Seq(Answers) /\ "indicate" \in Answers
  BY DEF PhoneType, Answers
<1>3. /\ answers'[d] = Append(answers[d], "indicate")
      /\ \A e \in Devices : e # d => answers'[e] = answers[e]
  BY <1>1 DEF PhoneType
<1>4. PhoneType'
  BY <1>1, <1>2, AppendProperties DEF PhoneType, Devices
<1>5. PromptInv'
  <2>2. \A e \in gone : e # d => answers'[e] = answers[e]
    BY <1>1 DEF PhoneType
  <2>3. \A e \in orderly' : e # d /\ answers'[e] = answers[e] /\ e \in orderly
    BY <1>1, <1>3 DEF PhoneType
  <2> QED BY <1>1, <2>2, <2>3 DEF PromptInv, Idle, Pending, LinkUp
<1>6. LinkInv'
  <2>1. \A e \in Devices' : \A k \in 1 .. Len(answers'[e]) :
          answers'[e][k] = "init" => phone'[e] # "down"
    <3> SUFFICES ASSUME NEW e \in Devices, NEW k \in 1 .. Len(answers'[e]),
                        answers'[e][k] = "init"
                 PROVE  phone[e] # "down"
      BY <1>1 DEF Devices
    <3>1. CASE e # d
      BY <1>3, <3>1 DEF LinkInv
    <3>2. CASE e = d
      <4> DEFINE s == answers[d]
                 t == answers'[d]
      <4>1. /\ Len(t) = Len(s) + 1 /\ Len(s) \in Nat
            /\ \A i \in 1 .. Len(s) : t[i] = s[i]
            /\ t[Len(s) + 1] = "indicate"
        BY <1>2, <1>3, AppendProperties
      <4>2. k \in 1 .. Len(t) /\ t[k] = "init"
        BY <3>2
      <4>3. (\E i \in 1 .. Len(s) : s[i] = "init") => phone[d] # "down"
        BY DEF LinkInv
      <4> HIDE DEF s, t
      <4>4. \E i \in 1 .. Len(s) : s[i] = "init"
        BY <4>1, <4>2
      <4> QED BY <3>2, <4>3, <4>4
    <3> QED BY <3>1, <3>2
  <2> QED BY <1>1, <2>1 DEF LinkInv, LinkUp, NoInitAfter
<1> QED BY <1>4, <1>5, <1>6

\* A phone is unplugged, and forgets.
LEMMA UnplugStep ==
  ASSUME PipeInv, NEW d \in Devices, Unplug(d)
  PROVE  PipeInv'
<1> USE DEF PipeInv
<1>1. /\ inbox' = [inbox EXCEPT ![d] = <<>>] /\ answers' = [answers EXCEPT ![d] = <<>>]
      /\ phone' = [phone EXCEPT ![d] = "down"]
      /\ gone' = gone \cup {d} /\ UNCHANGED <<bus, cur, spc, mac, orderly>>
  BY DEF Unplug, PhoneReset
<1>2. PhoneType'
  BY <1>1 DEF PhoneType, Devices
<1>3. /\ Idle(d)'
      /\ \A e : e # d => /\ inbox'[e] = inbox[e] /\ answers'[e] = answers[e]
                         /\ phone'[e] = phone[e]
  BY <1>1 DEF PhoneType, Idle
<1>4. PromptInv'
  <2>1. \A e \in gone' : Idle(e)'
    BY <1>1, <1>3 DEF PromptInv, Idle
  <2>2. \A e \in orderly' \ gone' : e # d /\ e \in orderly \ gone
    BY <1>1
  <2> QED BY <1>1, <1>3, <2>1, <2>2 DEF PromptInv, Idle, Pending, LinkUp
<1>5. LinkInv'
  <2>1. \A e \in Devices' : \A k \in 1 .. Len(answers'[e]) :
          answers'[e][k] = "init" => phone'[e] # "down"
    <3> SUFFICES ASSUME NEW e \in Devices, NEW k \in 1 .. Len(answers'[e]),
                        answers'[e][k] = "init"
                 PROVE  phone'[e] # "down"
      BY <1>1 DEF Devices
    <3>1. CASE e = d
      <4>1. answers'[e] = <<>>
        BY <1>3, <3>1 DEF Idle
      <4> QED BY <4>1
    <3>2. CASE e # d
      BY <1>3, <3>2 DEF LinkInv
    <3> QED BY <3>1, <3>2
  <2>2. cur' \notin gone' => cur # d /\ cur \notin gone
    BY <1>1
  <2> QED BY <1>1, <1>3, <2>1, <2>2 DEF LinkInv, LinkUp, NoInitAfter
<1> QED BY <1>2, <1>4, <1>5

\* It is plugged in again, between two sessions.
LEMMA ReplugStep ==
  ASSUME PipeInv, NEW d \in Devices, Replug(d)
  PROVE  PipeInv'
<1> USE DEF PipeInv
<1>1. /\ d \in gone /\ spc = "idle" /\ spc' = "idle"
      /\ gone' = gone \ {d} /\ orderly' = orderly \cup {d}
      /\ UNCHANGED <<bus, inbox, answers, phone, mac>>
  BY DEF Replug
<1>2. PhoneType'
  BY <1>1 DEF PhoneType, Devices
<1>3. \A e \in gone \cup orderly : Idle(e)
  BY <1>1 DEF PromptInv
<1>4. PromptInv'
  BY <1>1, <1>3 DEF PromptInv, Idle, LinkUp
<1>5. LinkInv'
  BY <1>1 DEF LinkInv, LinkUp, Devices, InSession
<1> QED BY <1>2, <1>4, <1>5

LEMMA DriverPipe ==
  ASSUME PipeInv, cur \in Devices,
         \/ InitSend \/ InitRecv \/ QuerySend \/ QueryRecv \/ SetSend \/ SetRecv
         \/ KeepaliveSend \/ KeepaliveRecv
  PROVE  PipeInv'
<1>0. UNCHANGED <<bus, gone, cur>>
  BY DEF InitSend, QuerySend, SetSend, SendRequest, InitRecv, QueryRecv, SetRecv,
     KeepaliveSend, KeepaliveRecv
<1>1. CASE InitSend \/ QuerySend \/ SetSend \/ KeepaliveSend
  <2>1. /\ mac' = mac
        /\ \/ \E q : /\ Send(q)
                     /\ \/ q = "init" /\ spc = "initSend" /\ spc' = "initRecv"
                        \/ q = "query" /\ spc = "querySend" /\ spc' = "queryRecv"
                        \/ q = "set" /\ spc = "setSend" /\ spc' = "setRecv"
                        \/ q = "keepalive" /\ spc = "session" /\ spc' = "keepalive"
           \/ /\ UNCHANGED <<inbox, answers, phone, orderly>>
              /\ \/ spc \in {"initSend", "querySend", "setSend"} /\ spc' = "unwind"
                 \/ spc = "session" /\ spc' = "keepalive"
    BY <1>1 DEF InitSend, QuerySend, SetSend, SendRequest, KeepaliveSend, GoTo, InitFails, Unwind
  <2>2. CASE /\ UNCHANGED <<inbox, answers, phone, orderly>>
             /\ \/ spc \in {"initSend", "querySend", "setSend"} /\ spc' = "unwind"
                \/ spc = "session" /\ spc' = "keepalive"
    BY <1>0, <2>1, <2>2, QuietStep DEF Awaiting, Talking, WithMac, Filtered, InSession
  <2> QED BY <1>0, <2>1, <2>2, SendStep
<1>2. CASE InitRecv \/ QueryRecv \/ SetRecv \/ KeepaliveRecv
  <2>0. ASSUME NEW a, Recv(a)
        PROVE  answers' # answers
    <3> DEFINE s == answers[cur]
    <3>1. s \in Seq(Answers) /\ s # <<>> /\ answers'[cur] = Tail(s)
      BY <1>0, <2>0 DEF Recv, PipeInv, PhoneType
    <3> HIDE DEF s
    <3>2. Len(Tail(s)) = Len(s) - 1 /\ Len(s) \in Nat
      BY <3>1, HeadTailProperties
    <3>3. Tail(s) # s
      BY <3>2
    <3> QED BY <3>1, <3>3 DEF s
  <2>1. CASE answers' # answers
    <3>1. PICK a : /\ Recv(a)
                   /\ \/ /\ spc = "initRecv" /\ mac' = mac
                         /\ (spc' = "querySend" /\ a = "init") \/ spc' = "unwind"
                      \/ /\ spc = "queryRecv" /\ spc' = "setSend"
                         /\ mac' = mac \/ mac' \in {"fallback", "phone"}
                         /\ a = "query" => mac' = "phone"
                      \/ spc = "setRecv" /\ spc' = "address" /\ mac' = mac
                      \/ spc = "keepalive" /\ spc' = "session" /\ mac' = mac
      <4>0. ~ RecvFails
        BY <2>1 DEF RecvFails, phoneVars
      <4>1. CASE InitRecv
        BY <4>0, <4>1 DEF InitRecv, GoTo, InitFails, Unwind, ParseInit
      <4>2. CASE QueryRecv
        BY <4>0, <4>2 DEF QueryRecv, GoTo, ParseQuery
      <4>3. CASE SetRecv \/ KeepaliveRecv
        BY <4>0, <4>3 DEF SetRecv, KeepaliveRecv, GoTo
      <4> QED BY <1>2, <4>1, <4>2, <4>3
    <3>2. mac' \in {"zero", "phone", "fallback"}
      BY <3>1 DEF PipeInv, PhoneType
    <3> QED
      BY <1>0, <3>1, <3>2, RecvStep DEF Awaiting, Talking, WithMac, Filtered, InSession
  <2>2. CASE answers' = answers
    <3>0. RecvFails /\ ~ \E a : Recv(a)
      BY <1>2, <2>0, <2>2 DEF InitRecv, QueryRecv, SetRecv, KeepaliveRecv
    <3>1. mac' = mac /\ \/ spc \in Awaiting /\ spc' = "unwind"
                        \/ spc = "keepalive" /\ spc' = "session"
      BY <1>2, <3>0 DEF InitRecv, QueryRecv, SetRecv, KeepaliveRecv, GoTo, InitFails, Unwind,
         Awaiting
    <3> QED BY <1>0, <3>0, <3>1, RecvFailsStep
  <2> QED BY <2>1, <2>2
<1> QED BY <1>1, <1>2

\* Every step keeps the state of the control pipe in order.
LEMMA PipeStep ==
  ASSUME PipeInv, PathInv, DevInv, [Next]_vars
  PROVE  PipeInv'
<1>0. spc \in InSession => cur \in Devices
  BY BusFacts DEF DevInv, DevType, InSession
<1>1. CASE FindStep /\ UNCHANGED rndisVars
  <2>1. UNCHANGED <<bus, gone>>
    BY <1>1 DEF FindStep, Release, Attach, Unwound, FindStart, FindList, FindNone, Skip, Open,
       ClaimComm, ClaimData, Scan
  <2>2. spc \notin InSession /\ spc' \notin InSession \ {"initSend"}
    <3>1. CASE Release \/ Attach \/ Unwound
      BY <3>1 DEF Release, Attach, Unwound, InSession, PathInv, PathType
    <3>2. CASE FindStart \/ FindList \/ FindNone \/ Skip \/ Open
      BY <3>2 DEF FindStart, FindList, FindNone, Skip, Open, Unwind, InSession
    <3>3. CASE ClaimComm \/ ClaimData \/ Scan
      BY <3>3 DEF ClaimComm, ClaimData, Scan, GiveUp, Unwind, InSession
    <3> QED BY <1>1, <3>1, <3>2, <3>3 DEF FindStep
  <2> QED
    BY <1>1, <2>1, <2>2, QuietStep DEF InSession, Awaiting, Talking, WithMac, Filtered
<1>2. CASE \/ InitSend \/ InitRecv \/ QuerySend \/ QueryRecv \/ SetSend \/ SetRecv
           \/ KeepaliveSend \/ KeepaliveRecv
  <2>1. spc \in InSession
    BY <1>2 DEF InitSend, QuerySend, SetSend, SendRequest, InitRecv, QueryRecv, SetRecv,
       KeepaliveSend, KeepaliveRecv, InSession
  <2> QED BY <1>0, <1>2, <2>1, DriverPipe
<1>3. CASE Address \/ CreateTun \/ ConfigureTun \/ EndSession
  <2>1. /\ UNCHANGED <<bus, gone, cur, inbox, answers, phone, mac, orderly>>
        /\ spc \in {"address", "tun", "configure", "session"}
        /\ spc' \in {"tun", "configure", "session", "unwind"}
    BY <1>3 DEF Address, CreateTun, ConfigureTun, EndSession, GoTo, InitFails, Unwind
  <2> QED BY <2>1, QuietStep DEF InSession, Awaiting, Talking, WithMac, Filtered
<1>4. CASE CreateDriver
  <2>1. /\ UNCHANGED <<bus, gone, cur, inbox, answers, phone, orderly>>
        /\ spc = "idle" /\ spc' = "find" /\ mac' = "zero"
    BY <1>4 DEF CreateDriver
  <2> QED BY <2>1 DEF PipeInv, PhoneType, PromptInv, LinkInv, Idle, Pending, LinkUp, InSession, Devices
<1>5. CASE \E d \in Devices : PhoneAnswers(d) \/ PhoneIndicates(d) \/ Unplug(d) \/ Replug(d)
  BY <1>5, AnswerStep, IndicateStep, UnplugStep, ReplugStep
<1>6. CASE UNCHANGED vars
  <2>1. UNCHANGED <<bus, gone, cur, spc, inbox, answers, phone, mac, orderly>>
    BY <1>6 DEF vars
  <2>2. PhoneType'
    BY <2>1 DEF PipeInv, PhoneType, Devices
  <2>3. PromptInv'
    BY <2>1 DEF PipeInv, PromptInv, Idle, Pending, LinkUp
  <2>4. LinkInv'
    BY <2>1 DEF PipeInv, LinkInv, LinkUp, Devices, NoInitAfter
  <2> QED BY <2>2, <2>3, <2>4 DEF PipeInv
<1> QED
  BY <1>1, <1>2, <1>3, <1>4, <1>5, <1>6 DEF Next, SetupStep

-----------------------------------------------------------------------------

\* Initially there is a list of devices and nothing else.
LEMMA SetupInit == Init => PathInv /\ DevInv /\ PipeInv
<1> SUFFICES ASSUME Init PROVE DevInv /\ PipeInv
  BY PathInit
<1> USE DEF Init, UsbInit, RndisInit
<1>1. DevInv
  <2>1. Len(bus) \in Nat /\ Devices = 1 .. Len(bus)
    BY BusFacts
  <2> QED BY <2>1 DEF DevInv, DevType, DriverInv, EndpointsInv, InSession
<1>2. PhoneType
  BY DEF PhoneType
<1>3. PromptInv
  BY DEF PromptInv, Idle, LinkUp
<1>4. LinkInv
  <2>1. \A d \in Devices : Len(answers[d]) = 0
    OBVIOUS
  <2> QED BY <2>1 DEF LinkInv, InSession, LinkUp
<1> QED BY <1>1, <1>2, <1>3, <1>4 DEF PipeInv

LEMMA SetupInvariant == Spec => [](PathInv /\ DevInv /\ PipeInv)
<1>1. PathInv /\ DevInv /\ PipeInv /\ [Next]_vars => PathInv' /\ DevInv' /\ PipeInv'
  BY PathStep, DevStep, PipeStep
<1> QED BY <1>1, SetupInit, PTL DEF Spec

\* The state of run_session, of the device and of the pipes keeps its type:
\* no error path releases what is not held or runs past the device list.
THEOREM SetupTypes == Spec => []TypeOK
<1>1. PathInv /\ DevInv /\ PipeInv => TypeOK
  BY ResourceNames DEF PathInv, PathType, HeldType, DevInv, DevType, PipeInv, PhoneType,
     TypeOK, InSession, Steps
<1> QED BY <1>1, SetupInvariant, PTL

\* Whatever devices were given up before, the endpoints of a session are those
\* of the device it opened.
THEOREM EndpointsAreOwn == Spec => []EndpointsOwn
<1>1. PathInv /\ DevInv => EndpointsOwn
  <2> SUFFICES ASSUME PathInv, DevInv, Opened PROVE spc \in InSession
    BY DEF DevInv, EndpointsInv, EndpointsOwn
  <2> QED BY DEF Opened, PathInv, PathType, HeldInv, Upto, InSession
<1> QED BY <1>1, SetupInvariant, PTL

\* Between sessions a kernel driver is missing only from a device whose
\* set-up was abandoned.
THEOREM DriverComesBack == Spec => []DriverBack
<1>1. DevInv => DriverBack
  BY DEF DevInv, DriverInv, DriverBack, Holding, InSession
<1> QED BY <1>1, SetupInvariant, PTL

\* A phone that answers in time is used with its own MAC address.
THEOREM PromptPhoneMac == Spec => []PromptMac
<1>1. PipeInv => PromptMac
  BY DEF PipeInv, PromptInv, PromptMac
<1> QED BY <1>1, SetupInvariant, PTL

\* The link is reported up only when the phone is initialized and its filter
\* is set, about to be set or refused.
THEOREM LinkReallyUp == Spec => []LinkIsUp
<1>1. DevInv /\ PipeInv => LinkIsUp
  <2> SUFFICES ASSUME DevInv, PipeInv, LinkUp, cur \notin gone
               PROVE  /\ phone[cur] # "down"
                      /\ phone[cur] = "ready" =>
                           \E k \in DOMAIN inbox[cur] : inbox[cur][k] = "set"
    BY DEF LinkIsUp
  <2>1. cur \in Devices
    BY BusFacts DEF DevInv, DevType, LinkUp
  <2>2. inbox[cur] \in Seq(Requests)
    BY <2>1 DEF PipeInv, PhoneType
  <2>3. phone[cur] # "down"
    BY DEF PipeInv, LinkInv, LinkUp, InSession
  <2>4. phone[cur] = "ready" => \E k \in 1 .. Len(inbox[cur]) : inbox[cur][k] = "set"
    BY DEF PipeInv, LinkInv
  <2> QED BY <2>2, <2>3, <2>4
<1> QED BY <1>1, SetupInvariant, PTL
=============================================================================
