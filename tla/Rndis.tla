------------------------------- MODULE Rndis --------------------------------
(***************************************************************************)
(* The RNDIS driver on the control pipe (src/proto_rndis.c, src/rndis.c):  *)
(* the initialization handshake of a session and its keepalives.  A phone  *)
(* keeps the requests it has not handled and the answers nobody has read,  *)
(* in order; the driver sends a request, sleeps, and reads once: it gets   *)
(* the oldest answer, or an error, always when there is none yet.  An      *)
(* answer is its kind: the parsers look at type and status, never at       *)
(* request_id, so the ids are left out.                                    *)
(***************************************************************************)
EXTENDS Usb

CONSTANT MAX_LAG        \* bound of the model: requests and answers under way

ASSUME LagAssumption == MAX_LAG \in Nat \ {0}

VARIABLES
  inbox,                \* inbox[d]: requests phone d has not handled
  answers,              \* answers[d]: its answers that were not read
  phone,                \* "down", "ready" (INIT), "filtering" or "unfiltered" (SET)
  mac,                  \* state->mac_addr: "zero", "phone" or "fallback"
  orderly               \* ghost: phones whose answer to each request came in time and was read

phoneVars == <<inbox, answers, phone>>
rndisVars == <<phoneVars, mac, orderly>>
usbVars   == <<busVars, devVars, pathVars>>

Requests == {"init", "query", "set", "keepalive"}
Answers  == Requests \cup {"empty", "refused", "indicate"}

PhoneReset(d) ==
  /\ inbox' = [inbox EXCEPT ![d] = <<>>]
  /\ answers' = [answers EXCEPT ![d] = <<>>]
  /\ phone' = [phone EXCEPT ![d] = "down"]

RndisInit ==
  /\ inbox = [d \in Devices |-> <<>>]
  /\ answers = [d \in Devices |-> <<>>]
  /\ phone = [d \in Devices |-> "down"]
  /\ mac = "zero"
  /\ orderly = Devices

-----------------------------------------------------------------------------
(* The phone *)

Handled(p, q, ok) ==
  CASE q = "init" /\ ok -> "ready"
    [] q = "set" /\ p # "down" -> IF ok THEN "filtering" ELSE "unfiltered"
    [] OTHER -> p

\* It answers its oldest request, a query possibly without data, or refuses it.
Replies(q) == {q, "refused"} \cup IF q = "query" THEN {"empty"} ELSE {}

PhoneAnswers(d) ==
  /\ inbox[d] # <<>>
  /\ \E a \in Replies(Head(inbox[d])) :
       /\ answers' = [answers EXCEPT ![d] = Append(@, a)]
       /\ phone' = [phone EXCEPT ![d] = Handled(@, Head(inbox[d]), a # "refused")]
       /\ orderly' = IF a = Head(inbox[d]) THEN orderly ELSE orderly \ {d}
  /\ inbox' = [inbox EXCEPT ![d] = Tail(@)]
  /\ UNCHANGED <<mac, usbVars>>

\* INDICATE_STATUS, which nobody asked for, comes the same way.
PhoneIndicates(d) ==
  /\ d \notin gone /\ Matches(bus[d].alts)
  /\ Len(inbox[d]) + Len(answers[d]) < MAX_LAG
  /\ answers' = [answers EXCEPT ![d] = Append(@, "indicate")]
  /\ orderly' = orderly \ {d}
  /\ UNCHANGED <<inbox, phone, mac, usbVars>>

Unplug(d) ==
  /\ d \notin gone
  /\ gone' = gone \cup {d}
  /\ detached' = detached \ ({d} \X {"comm", "data"})
  /\ abandoned' = abandoned \ {d}
  /\ PhoneReset(d)
  /\ UNCHANGED <<bus, cur, ep_in, ep_out, kernel_detached, pathVars, mac, orderly>>

\* Plugged in again, between two sessions.
Replug(d) ==
  /\ d \in gone /\ spc = "idle"
  /\ gone' = gone \ {d}
  /\ orderly' = orderly \cup {d}
  /\ UNCHANGED <<bus, detached, devVars, pathVars, phoneVars, mac>>

-----------------------------------------------------------------------------
(* usb_send_ctrl and usb_recv_ctrl *)

CanSend == cur \notin gone /\ Len(inbox[cur]) + Len(answers[cur]) < MAX_LAG

Send(q) ==
  /\ CanSend
  /\ inbox' = [inbox EXCEPT ![cur] = Append(@, q)]
  /\ UNCHANGED <<answers, phone, orderly>>

Recv(a) ==
  /\ answers[cur] # <<>>
  /\ a = Head(answers[cur])
  /\ answers' = [answers EXCEPT ![cur] = Tail(@)]
  /\ UNCHANGED <<inbox, phone, orderly>>

\* Nothing to read yet, or the transfer fails: what was due stays for a later read.
RecvFails ==
  /\ orderly' = IF inbox[cur] = <<>> /\ answers[cur] = <<>> THEN orderly ELSE orderly \ {cur}
  /\ UNCHANGED phoneVars

-----------------------------------------------------------------------------
(* rndis_drv_init *)

\* Mutant: whatever is read counts as the answer to INIT.
ParseInitAny(a) == TRUE

ParseInit(a) == a = "init"

ParseQuery(a) == a \in {"query", "empty"}

GoTo(pc) == spc' = pc /\ UNCHANGED <<held, todo, then>>

\* rndis_drv_init returns -1: run_session closes the device.
InitFails == Unwind(UsbClose \o <<"driver">>, "idle") /\ UNCHANGED held

SendRequest(pc, q, next) ==
  /\ spc = pc
  /\ \/ Send(q) /\ GoTo(next)
     \/ InitFails /\ UNCHANGED <<phoneVars, orderly>>
  /\ UNCHANGED <<busVars, devVars, mac>>

InitSend  == SendRequest("initSend", "init", "initRecv")
QuerySend == SendRequest("querySend", "query", "queryRecv")
SetSend   == SendRequest("setSend", "set", "setRecv")

InitRecv ==
  /\ spc = "initRecv"
  /\ \/ \E a \in Answers : Recv(a) /\ IF ParseInit(a) THEN GoTo("querySend") ELSE InitFails
     \/ RecvFails /\ InitFails
  /\ UNCHANGED <<busVars, devVars, mac>>

\* A fixed address when the answer is not one to QUERY; none is copied from an
\* answer without data.
QueryRecv ==
  /\ spc = "queryRecv"
  /\ \/ \E a \in Answers :
          /\ Recv(a)
          /\ mac' = IF ~ParseQuery(a) THEN "fallback"
                    ELSE IF a = "empty" THEN mac ELSE "phone"
          /\ GoTo("setSend")
     \/ RecvFails /\ InitFails /\ UNCHANGED mac
  /\ UNCHANGED <<busVars, devVars>>

\* A wrong answer to SET is only logged.
SetRecv ==
  /\ spc = "setRecv"
  /\ \/ \E a \in Answers : Recv(a) /\ GoTo("address")
     \/ RecvFails /\ InitFails
  /\ UNCHANGED <<busVars, devVars, mac>>

-----------------------------------------------------------------------------
(* rndis_drv_keepalive: the results are ignored, the read is always made *)

\* Mutant: the answer is not read.
KeepaliveSendOnly ==
  /\ spc = "session"
  /\ \/ Send("keepalive")
     \/ UNCHANGED <<phoneVars, orderly>>
  /\ GoTo("session")
  /\ UNCHANGED <<busVars, devVars, mac>>

KeepaliveSend ==
  /\ spc = "session"
  /\ \/ Send("keepalive")
     \/ UNCHANGED <<phoneVars, orderly>>
  /\ GoTo("keepalive")
  /\ UNCHANGED <<busVars, devVars, mac>>

KeepaliveRecv ==
  /\ spc = "keepalive"
  /\ (\E a \in Answers : Recv(a)) \/ RecvFails
  /\ GoTo("session")
  /\ UNCHANGED <<busVars, devVars, mac>>

-----------------------------------------------------------------------------

LinkUp == spc \in {"address", "tun", "configure", "session", "keepalive"}

\* A phone that has answered every request in time since it was plugged in
\* is used with its own MAC address, in every session: no step of the driver
\* leaves an answer unread for the next handshake to find.
PromptMac ==
  LinkUp /\ cur \in orderly \ gone => mac = "phone"

\* The driver reports the link up only when the phone was initialized and the
\* packet filter is set, about to be set, or was refused, whatever answers to
\* earlier requests it has taken for those of this handshake.
LinkIsUp ==
  LinkUp /\ cur \notin gone =>
    /\ phone[cur] # "down"
    /\ phone[cur] = "ready" => \E k \in DOMAIN inbox[cur] : inbox[cur][k] = "set"
=============================================================================
