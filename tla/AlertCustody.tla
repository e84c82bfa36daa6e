----------------------------- MODULE AlertCustody -----------------------------
(***************************************************************************)
(* The custody of alerts (daily_eod_alert_custody.py) and the mail it      *)
(* brackets (daily_eod_email_delivery.py): one directory per deduplication *)
(* key with a start event written before the mail is sent and a terminal   *)
(* event after, under one lock that a second process does not wait for.    *)
(*                                                                         *)
(* The operations are composed by DailyCoordinator, whose results name the *)
(* keys.  The SMTP server is external: it may accept a mail and the answer *)
(* be lost.                                                                *)
(***************************************************************************)
EXTENDS Integers

CONSTANT Slots   \* processes of the command line

VARIABLES
  alerts,    \* per key with a directory: its journal, and the mails accepted
  delivery   \* the delivery each process is in, under the alert lock

custody == <<alerts, delivery>>

NoKey == [category |-> "none"]
NoDelivery == [step |-> "none", key |-> NoKey]

\* flock, not waited for, and held until the delivery ends one way or another.
LockFree == \A p \in Slots : delivery[p] = NoDelivery

Journal(k, state) == alerts' = [alerts EXCEPT ![k].journal = state]

\* Mutant of Refused: a start event with no terminal may be tried again.
RefusedOnceSettled(k) ==
  ~ LockFree \/ (k \in DOMAIN alerts /\ alerts[k].journal # "started")

\* Whatever the directory of the key holds, nothing is sent: _existing_result
\* reports or refuses, _read_events refuses an event file cut short.
Refused(k) == ~ LockFree \/ k \in DOMAIN alerts

\* The directory of key k is there, with its first event.
Enter(k, state) ==
  alerts' = [j \in DOMAIN alerts \cup {k} |->
               IF j \in DOMAIN alerts THEN alerts[j] ELSE [journal |-> state, mails |-> 0]]

\* deliver_daily_eod_alert up to the call of the capability.
OpenDelivery(p, k) ==
  /\ ~ Refused(k)
  /\ Enter(k, "started")
  /\ delivery' = [delivery EXCEPT ![p] = [step |-> "calling", key |-> k]]

\* The start event is cut short, by an error or by the death of the process.
TearStart(p, k) ==
  /\ ~ Refused(k)
  /\ k \notin DOMAIN alerts
  /\ Enter(k, "torn")
  /\ UNCHANGED delivery

\* The message is too large or the credential is rejected, before any request.
RejectMail(p) ==
  /\ delivery[p].step = "calling"
  /\ delivery' = [delivery EXCEPT ![p].step = "failed"]
  /\ UNCHANGED alerts

Accepted(k) == alerts' = [alerts EXCEPT ![k].mails = @ + 1]

\* Every recipient is accepted.
AcceptMail(p) ==
  /\ delivery[p].step = "calling"
  /\ Accepted(delivery[p].key)
  /\ delivery' = [delivery EXCEPT ![p].step = "delivered"]

\* The sender raises: some recipient is refused, or the connection is lost, before
\* or after the server took the mail.
LoseAnswer(p) ==
  /\ delivery[p].step = "calling"
  /\ Accepted(delivery[p].key) \/ UNCHANGED alerts
  /\ delivery' = [delivery EXCEPT ![p] = NoDelivery]

\* The terminal event, once the evidence is validated.
Settle(p) ==
  /\ delivery[p].step \in {"failed", "delivered"}
  /\ Journal(delivery[p].key, delivery[p].step)
  /\ delivery' = [delivery EXCEPT ![p] = NoDelivery]

\* The process dies in its delivery, perhaps while it writes the terminal event.
Abandon(p) ==
  /\ delivery' = [delivery EXCEPT ![p] = NoDelivery]
  /\ \/ UNCHANGED alerts
     \/ delivery[p].step \in {"failed", "delivered"} /\ Journal(delivery[p].key, "torn")

CustodyInit ==
  /\ alerts = <<>>
  /\ delivery = [p \in Slots |-> NoDelivery]

-----------------------------------------------------------------------------
(* Properties.                                                             *)

\* No alert is mailed twice, though processes die between the mail and its terminal
\* event, the server's answer is lost, and later invocations see the same result; and
\* what a terminal event says of the mail is true.
MailedOnceAsRecorded ==
  \A k \in DOMAIN alerts :
    /\ alerts[k].mails <= 1
    /\ alerts[k].journal = "delivered" => alerts[k].mails = 1
    /\ alerts[k].journal = "failed" => alerts[k].mails = 0
=============================================================================
