------------------------ MODULE DailyCoordinator_proofs ------------------------
(***************************************************************************)
(* Proofs about the coordinator and its alerts, for any processes, modes,  *)
(* operations and bounds.                                                  *)
(***************************************************************************)
EXTENDS DailyCoordinator, TLAPS

-----------------------------------------------------------------------------
(* The custody of alerts.                                                  *)

\* Mails of an alert whose delivery is at this step.
Sent(step) == IF step = "delivered" THEN 1 ELSE 0

\* The alert a process delivers has been entered, has no terminal event, and has been
\* mailed if its capability has answered so.
DeliveryOk(p) ==
  LET d == delivery[p]
  IN  /\ d = [step |-> d.step, key |-> d.key]
      /\ d # NoDelivery =>
           /\ d.step \in {"calling", "failed", "delivered"}
           /\ d.key \in DOMAIN alerts
           /\ alerts[d.key] = [journal |-> "started", mails |-> Sent(d.step)]

\* The alert lock is held by one process.
OneDelivery ==
  \A p, q \in Slots : delivery[p] # NoDelivery /\ delivery[q] # NoDelivery => p = q

AlertOk(a) ==
  /\ a \in [journal : {"torn", "started", "delivered", "failed"}, mails : {0, 1}]
  /\ a.journal = "delivered" => a.mails = 1
  /\ a.journal = "failed" => a.mails = 0

CustodyOk ==
  /\ alerts = [k \in DOMAIN alerts |-> alerts[k]]
  /\ delivery = [p \in Slots |-> delivery[p]]
  /\ \A k \in DOMAIN alerts : AlertOk(alerts[k])
  /\ \A p \in Slots : DeliveryOk(p)
  /\ OneDelivery

LEMMA CustodyStarts == CustodyInit => CustodyOk
BY DEF CustodyInit, CustodyOk, AlertOk, DeliveryOk, OneDelivery, NoDelivery

\* A delivery is begun by one process while no other has one.
LEMMA OpenKeeps ==
  ASSUME CustodyOk, NEW p \in Slots, NEW k, OpenDelivery(p, k)
  PROVE  CustodyOk'
<1> USE DEF OpenDelivery, Refused, LockFree, Enter
<1>1. \A q \in Slots : delivery[q] = NoDelivery
  OBVIOUS
<1>2. k \notin DOMAIN alerts
  OBVIOUS
<1>3. /\ DOMAIN alerts' = DOMAIN alerts \cup {k}
      /\ alerts'[k] = [journal |-> "started", mails |-> 0]
      /\ \A j \in DOMAIN alerts : alerts'[j] = alerts[j]
  BY <1>2
<1>4. /\ delivery'[p] = [step |-> "calling", key |-> k]
      /\ \A q \in Slots \ {p} : delivery'[q] = NoDelivery
  BY <1>1 DEF CustodyOk
<1>5. alerts' = [j \in DOMAIN alerts' |-> alerts'[j]]
  BY <1>3
<1>6. delivery' = [q \in Slots |-> delivery'[q]]
  BY DEF CustodyOk
<1>7. \A j \in DOMAIN alerts' : AlertOk(alerts'[j])
  BY <1>3 DEF CustodyOk, AlertOk
<1>8. \A q \in Slots : DeliveryOk(q)'
  BY <1>3, <1>4 DEF DeliveryOk, NoDelivery, Sent
<1>9. OneDelivery'
  BY <1>4 DEF OneDelivery
<1>10. QED
  BY <1>5, <1>6, <1>7, <1>8, <1>9 DEF CustodyOk, AlertOk

LEMMA TearKeeps ==
  ASSUME CustodyOk, NEW p \in Slots, NEW k, TearStart(p, k)
  PROVE  CustodyOk'
<1> USE DEF TearStart, Enter
<1>1. /\ DOMAIN alerts' = DOMAIN alerts \cup {k}
      /\ alerts'[k] = [journal |-> "torn", mails |-> 0]
      /\ \A j \in DOMAIN alerts : alerts'[j] = alerts[j]
      /\ alerts' = [j \in DOMAIN alerts' |-> alerts'[j]]
  OBVIOUS
<1>2. \A j \in DOMAIN alerts' : AlertOk(alerts'[j])
  BY <1>1 DEF CustodyOk, AlertOk
<1>3. \A q \in Slots : DeliveryOk(q)'
  BY <1>1 DEF CustodyOk, DeliveryOk
<1>4. QED
  BY <1>1, <1>2, <1>3 DEF CustodyOk, OneDelivery, AlertOk

\* What the holder of the lock does to its alert: it becomes a, and its delivery d.
LEMMA HolderKeeps ==
  ASSUME CustodyOk, NEW p \in Slots, NEW a, NEW d,
         delivery[p] # NoDelivery,
         alerts' = [alerts EXCEPT ![delivery[p].key] = a],
         delivery' = [delivery EXCEPT ![p] = d],
         AlertOk(a),
         \/ d = NoDelivery
         \/ /\ d = [step |-> d.step, key |-> delivery[p].key]
            /\ d.step \in {"failed", "delivered"}
            /\ a = [journal |-> "started", mails |-> Sent(d.step)]
  PROVE  CustodyOk'
<1> DEFINE key == delivery[p].key
<1>1. key \in DOMAIN alerts
  BY DEF CustodyOk, DeliveryOk
<1>2. \A q \in Slots \ {p} : delivery[q] = NoDelivery
  BY DEF CustodyOk, OneDelivery
<1>3. /\ delivery'[p] = d
      /\ \A q \in Slots \ {p} : delivery'[q] = NoDelivery
      /\ delivery' = [q \in Slots |-> delivery'[q]]
  BY <1>2 DEF CustodyOk
<1>4. /\ DOMAIN alerts' = DOMAIN alerts
      /\ alerts'[key] = a
      /\ \A j \in DOMAIN alerts \ {key} : alerts'[j] = alerts[j]
      /\ alerts' = [j \in DOMAIN alerts' |-> alerts'[j]]
  BY <1>1 DEF CustodyOk
<1>5. \A j \in DOMAIN alerts' : AlertOk(alerts'[j])
  BY <1>4 DEF CustodyOk
<1>6. \A q \in Slots : DeliveryOk(q)'
  <2> SUFFICES ASSUME NEW q \in Slots PROVE DeliveryOk(q)'
    OBVIOUS
  <2>1. CASE q # p
    BY <2>1, <1>3 DEF DeliveryOk, NoDelivery
  <2>2. CASE q = p /\ d = NoDelivery
    BY <2>2, <1>3 DEF DeliveryOk, NoDelivery
  <2>3. CASE q = p /\ d # NoDelivery
    BY <2>3, <1>1, <1>3, <1>4 DEF DeliveryOk
  <2>4. QED
    BY <2>1, <2>2, <2>3
<1>7. OneDelivery'
  BY <1>3 DEF OneDelivery
<1>8. QED
  BY <1>3, <1>4, <1>5, <1>6, <1>7 DEF CustodyOk, AlertOk

\* What a holder finds: the alert of its delivery as its last step left it.
LEMMA HolderFinds ==
  ASSUME CustodyOk, NEW p \in Slots, delivery[p] # NoDelivery
  PROVE  /\ delivery[p] = [step |-> delivery[p].step, key |-> delivery[p].key]
         /\ delivery[p].step \in {"calling", "failed", "delivered"}
         /\ delivery[p].key \in DOMAIN alerts
         /\ alerts[delivery[p].key] = [journal |-> "started", mails |-> Sent(delivery[p].step)]
         /\ alerts = [alerts EXCEPT ![delivery[p].key] = alerts[delivery[p].key]]
         /\ delivery = [q \in Slots |-> delivery[q]]
BY DEF CustodyOk, DeliveryOk

\* The capability answers, or raises.
LEMMA MailKeeps ==
  ASSUME CustodyOk, NEW p \in Slots, RejectMail(p) \/ AcceptMail(p) \/ LoseAnswer(p)
  PROVE  CustodyOk'
<1> DEFINE key == delivery[p].key
           d(step) == [step |-> step, key |-> key]
           a(mails) == [journal |-> "started", mails |-> mails]
<1>1. delivery[p].step = "calling" /\ delivery[p] # NoDelivery
  BY DEF RejectMail, AcceptMail, LoseAnswer, NoDelivery
<1>2. /\ key \in DOMAIN alerts
      /\ alerts[key] = a(0)
      /\ alerts = [alerts EXCEPT ![key] = a(0)]
      /\ delivery = [q \in Slots |-> delivery[q]]
      /\ delivery[p] = d("calling")
  BY <1>1, HolderFinds DEF Sent
<1>3. AlertOk(a(0)) /\ AlertOk(a(1))
  BY DEF AlertOk
<1>4. Accepted(key) => alerts' = [alerts EXCEPT ![key] = a(1)]
  <2>1. [alerts[key] EXCEPT !.mails = alerts[key].mails + 1] = a(1)
    BY <1>2
  <2>2. QED
    BY <2>1 DEF Accepted
<1>5. ASSUME NEW step
      PROVE  [delivery EXCEPT ![p].step = step] = [delivery EXCEPT ![p] = d(step)]
  <2>1. [delivery[p] EXCEPT !.step = step] = d(step)
    BY <1>2
  <2>2. QED
    BY <2>1
<1>6. CASE RejectMail(p)
  <2>1. /\ alerts' = [alerts EXCEPT ![key] = a(0)]
        /\ delivery' = [delivery EXCEPT ![p] = d("failed")]
    BY <1>2, <1>5, <1>6 DEF RejectMail
  <2>2. a(0) = [journal |-> "started", mails |-> Sent(d("failed").step)]
    BY DEF Sent
  <2>3. d("failed") = [step |-> d("failed").step, key |-> delivery[p].key]
    OBVIOUS
  <2>4. QED
    BY <1>1, <1>3, <2>1, <2>2, <2>3, HolderKeeps
<1>7. CASE AcceptMail(p)
  <2>1. /\ alerts' = [alerts EXCEPT ![key] = a(1)]
        /\ delivery' = [delivery EXCEPT ![p] = d("delivered")]
    BY <1>4, <1>5, <1>7 DEF AcceptMail
  <2>2. a(1) = [journal |-> "started", mails |-> Sent(d("delivered").step)]
    BY DEF Sent
  <2>3. d("delivered") = [step |-> d("delivered").step, key |-> delivery[p].key]
    OBVIOUS
  <2>4. QED
    BY <1>1, <1>3, <2>1, <2>2, <2>3, HolderKeeps
<1>8. CASE LoseAnswer(p)
  <2>1. \/ alerts' = [alerts EXCEPT ![key] = a(0)]
        \/ alerts' = [alerts EXCEPT ![key] = a(1)]
    BY <1>2, <1>4, <1>8 DEF LoseAnswer
  <2>2. delivery' = [delivery EXCEPT ![p] = NoDelivery]
    BY <1>8 DEF LoseAnswer
  <2>3. QED
    BY <1>1, <1>3, <2>1, <2>2, HolderKeeps
<1>9. QED
  BY <1>6, <1>7, <1>8

\* The delivery ends, with its terminal event, with a torn one or with none.
LEMMA EndKeeps ==
  ASSUME CustodyOk, NEW p \in Slots, Settle(p) \/ Abandon(p)
  PROVE  CustodyOk'
<1> DEFINE key == delivery[p].key
           a(journal) == [journal |-> journal, mails |-> Sent(delivery[p].step)]
<1>1. delivery' = [delivery EXCEPT ![p] = NoDelivery]
  BY DEF Settle, Abandon
<1>2. CASE delivery[p] = NoDelivery
  <2>1. UNCHANGED alerts
    BY <1>2 DEF Settle, Abandon, NoDelivery
  <2>2. delivery' = delivery
    BY <1>1, <1>2 DEF CustodyOk
  <2>3. QED
    BY <2>1, <2>2 DEF CustodyOk, DeliveryOk, AlertOk, OneDelivery
<1>3. CASE delivery[p] # NoDelivery
  <2>1. /\ key \in DOMAIN alerts
        /\ alerts[key] = a("started")
        /\ alerts = [alerts EXCEPT ![key] = alerts[key]]
        /\ delivery[p].step \in {"calling", "failed", "delivered"}
    BY <1>3, HolderFinds
  <2>2. ASSUME NEW journal, Journal(key, journal)
        PROVE  alerts' = [alerts EXCEPT ![key] = a(journal)]
    <3>1. [alerts[key] EXCEPT !.journal = journal] = a(journal)
      BY <2>1
    <3>2. QED
      BY <2>2, <3>1 DEF Journal
  <2>3. AlertOk(a("started")) /\ AlertOk(a("torn"))
    BY <2>1 DEF AlertOk, Sent
  <2>4. CASE Settle(p)
    <3>1. AlertOk(a(delivery[p].step))
      BY <2>4 DEF AlertOk, Sent, Settle
    <3>2. alerts' = [alerts EXCEPT ![key] = a(delivery[p].step)]
      BY <2>2, <2>4 DEF Settle
    <3>3. QED
      BY <1>1, <1>3, <3>1, <3>2, HolderKeeps
  <2>5. CASE Abandon(p)
    <3>1. \/ alerts' = [alerts EXCEPT ![key] = a("started")]
          \/ alerts' = [alerts EXCEPT ![key] = a("torn")]
      BY <2>1, <2>2, <2>5 DEF Abandon
    <3>2. QED
      BY <1>1, <1>3, <2>3, <3>1, HolderKeeps
  <2>6. QED
    BY <2>4, <2>5
<1>4. QED
  BY <1>2, <1>3

\* Only deliveries, mails and deaths touch the custody of alerts.
LEMMA CustodyStep == CustodyOk /\ [Next]_vars => CustodyOk'
<1> SUFFICES ASSUME CustodyOk, [Next]_vars PROVE CustodyOk'
  OBVIOUS
<1>1. ASSUME UNCHANGED custody PROVE CustodyOk'
  BY <1>1 DEF custody, CustodyOk, DeliveryOk, AlertOk, OneDelivery
<1>2. CASE UNCHANGED vars
  BY <1>1, <1>2 DEF vars
<1>3. CASE Tick \/ Clear
  BY <1>1, <1>3 DEF Tick, Clear
<1>4. ASSUME NEW p \in Slots, NEW mode \in ModesOf[p], Start(p, mode) PROVE CustodyOk'
  BY <1>1, <1>4 DEF Start
<1>5. ASSUME NEW p \in Slots, Kill(p) PROVE CustodyOk'
  BY <1>5, EndKeeps DEF Kill
<1>6. ASSUME NEW p \in Slots, Proceeds(p) PROVE CustodyOk'
  <2>1. CASE SeesOpenAttempt(p) \/ SeesBlockedPlan(p) \/ SeesReview(p) \/ SeesOffline(p)
             \/ SeesAcquisition(p) \/ Rejected(p)
    BY <1>1, <2>1 DEF SeesOpenAttempt, SeesBlockedPlan, SeesReview, SeesOffline,
                      SeesAcquisition, Rejected
  <2>2. CASE Reserve(p) \/ Perform(p) \/ CallFails(p) \/ Record(p)
    BY <1>1, <2>2 DEF Reserve, Perform, CallFails, Record
  <2>3. CASE Begin(p) \/ Fill(p) \/ Complete(p) \/ ActionFails(p) \/ Finish(p)
    BY <1>1, <2>3 DEF Begin, Fill, Complete, ActionFails, Finish
  <2>4. CASE Route(p) \/ Recover(p) \/ NotSent(p) \/ Report(p)
    BY <1>1, <2>4 DEF Route, Recover, NotSent, Report
  <2>5. CASE Deliver(p)
    BY <2>5, OpenKeeps, TearKeeps DEF Deliver
  <2>6. CASE Mail(p)
    BY <2>6, MailKeeps, EndKeeps DEF Mail
  <2>7. QED
    BY <1>6, <2>1, <2>2, <2>3, <2>4, <2>5, <2>6 DEF Proceeds
<1>7. QED
  BY <1>2, <1>3, <1>4, <1>5, <1>6 DEF Next

\* No alert is mailed twice and the journal says of the mail what is true, whoever
\* dies between the mail and its terminal event, and however often the same result
\* is seen again (deliver_daily_eod_alert).
THEOREM AlertsMailedOnce == Spec => []MailedOnceAsRecorded
<1>1. Init => CustodyOk
  BY CustodyStarts DEF Init
<1>2. CustodyOk => MailedOnceAsRecorded
  BY DEF CustodyOk, AlertOk, MailedOnceAsRecorded
<1>3. QED
  BY <1>1, <1>2, CustodyStep, PTL DEF Spec

-----------------------------------------------------------------------------
(* The transitions.                                                        *)

Outcomes == {"open", "succeeded", "failed", "waiting",
             "recovered_succeeded", "recovery_blocked", "recovered_not_completed"}
Successes == {"succeeded", "recovered_succeeded"}

Attempt == [op : Steps, outcome : Outcomes, at : Nat]

HostOk ==
  /\ now \in 0 .. MaxTime /\ done \in {0} \cup Steps /\ partial \in BOOLEAN
  /\ Len(attempts) <= MaxAttempts

\* Only the last attempt may be open, and what is recorded as a success is done.
AttemptsOk ==
  /\ attempts \in Seq(Attempt)
  /\ \A i \in DOMAIN attempts :
       /\ attempts[i].outcome = "open" => i = Len(attempts)
       /\ attempts[i].outcome \in Successes => attempts[i].op <= done

Fields == {"pc", "mode", "checked", "plan", "fetches", "op", "attempt", "closed", "outcome", "key"}

\* An operation a capability is asked for is not beyond the next one; once it was
\* reserved, its attempt is in the journal.
Calls(p) ==
  inv[p].pc \in {"reserving", "calling", "answered"} =>
    /\ inv[p].mode # "recover"
    /\ inv[p].op \in Steps /\ inv[p].op <= done + 1
    /\ Operations[inv[p].op] # "offline"
    /\ inv[p].pc # "reserving" => inv[p].attempt \in DOMAIN attempts
    /\ inv[p].pc = "answered" => inv[p].outcome \in {"succeeded", "waiting", "failed"}

\* An offline action was chosen at a plan that was not blocked, and until it is
\* written nobody does its operation: the open attempt is its own.
Acts(p) ==
  inv[p].pc \in {"starting"} \cup Working =>
    /\ inv[p].mode # "recover"
    /\ inv[p].op \in Steps
    /\ Operations[inv[p].op] = "offline"
    /\ inv[p].pc = "starting" => inv[p].op = inv[p].plan.done + 1 /\ ~ inv[p].plan.blocked
    /\ inv[p].pc \in Working =>
         Pending /\ inv[p].attempt = Len(attempts) /\ attempts[Len(attempts)].op = inv[p].op
    /\ inv[p].pc \in {"writing", "filling"} => done = inv[p].op - 1
    /\ inv[p].pc = "written" => done >= inv[p].op

Recovers(p) == inv[p].pc \in {"routing", "recovering"} => inv[p].mode = "recover"

Executed(p) ==
  inv[p].pc = "executed" =>
    /\ inv[p].attempt \in DOMAIN attempts
    /\ attempts[inv[p].attempt].outcome # "open"
    /\ inv[p].mode = "recover" => inv[p].closed = inv[p].attempt
    /\ inv[p].mode # "recover" => done >= inv[p].op

InvOk(p) ==
  /\ DOMAIN inv[p] = Fields
  /\ inv[p].plan.done \in 0 .. done /\ inv[p].op \in Nat
  /\ Calls(p) /\ Acts(p) /\ Recovers(p) /\ Executed(p)

\* The journal lock is kept by one process at a time.
OneWorker == \A p, q \in Slots : inv[p].pc \in Working /\ inv[q].pc \in Working => p = q

Mailing(p) == inv[p].pc = "mailing" <=> delivery[p] # NoDelivery

CoordinatorOk ==
  /\ HostOk /\ AttemptsOk /\ OneWorker
  /\ inv = [p \in Slots |-> inv[p]]
  /\ \A p \in Slots : InvOk(p) /\ Mailing(p)

IInv == CustodyOk /\ CoordinatorOk

LEMMA StepsAreNumbers ==
  /\ Steps = 1 .. Len(Operations)
  /\ Len(Operations) \in Nat
  /\ \A k \in Steps : Operations[k] \in Families
  /\ \A k \in Steps : Operations[k] = "fetch" => k + 1 \in Steps /\ Operations[k + 1] = "apply"
  /\ HandMade \subseteq {0} \cup Steps
  /\ MaxTime \in Nat /\ MaxAttempts \in Nat
BY CoordinatorAssumption DEF Steps

LEMMA CoordinatorStarts == Init => IInv
<1> SUFFICES ASSUME Init PROVE IInv
  OBVIOUS
<1> USE StepsAreNumbers DEF Init
<1>1. CustodyOk
  BY CustodyStarts
<1>2. \A p \in Slots : inv[p] = Idle
  OBVIOUS
<1>3. HostOk
  <2>1. Len(attempts) <= MaxAttempts
    OBVIOUS
  <2>2. now \in 0 .. MaxTime /\ done \in {0} \cup Steps
    OBVIOUS
  <2>3. partial \in BOOLEAN
    OBVIOUS
  <2>4. QED
    BY <2>1, <2>2, <2>3 DEF HostOk
<1>4. AttemptsOk /\ OneWorker
  BY <1>2 DEF AttemptsOk, OneWorker, Working, Idle
<1>5. ASSUME NEW p \in Slots PROVE InvOk(p) /\ Mailing(p)
  <2>1. DOMAIN inv[p] = Fields /\ inv[p].plan.done \in 0 .. done /\ inv[p].op \in Nat
    BY <1>2, <1>3 DEF Fields, Idle, NoPlan, HostOk
  <2>2. inv[p].pc = "idle" /\ delivery[p] = NoDelivery
    BY <1>2 DEF Idle, CustodyInit
  <2>3. QED
    BY <2>1, <2>2 DEF InvOk, Calls, Acts, Recovers, Executed, Mailing, Working
<1>6. QED
  BY <1>1, <1>3, <1>4, <1>5 DEF IInv, CoordinatorOk

-----------------------------------------------------------------------------
(* What a step of one process leaves true of the others.                   *)

\* The journal only grows and closes, and operations are only added to what is done.
Forward ==
  /\ done <= done'
  /\ Len(attempts) <= Len(attempts')
  /\ \A i \in DOMAIN attempts :
       /\ attempts'[i].op = attempts[i].op
       /\ attempts[i].outcome # "open" => attempts'[i].outcome # "open"

\* Who keeps the journal lock finds the journal, and until it has written the work,
\* as it left them.
Spared(q) ==
  inv[q].pc \in Working =>
    UNCHANGED attempts /\ (inv[q].pc # "written" => UNCHANGED done)

LEMMA OthersKeep ==
  ASSUME HostOk, HostOk', AttemptsOk, AttemptsOk', Forward,
         NEW q \in Slots, InvOk(q), Spared(q), inv'[q] = inv[q]
  PROVE  InvOk(q)'
<1> USE StepsAreNumbers
<1>1. done \in Nat /\ done' \in Nat /\ done <= done'
  BY DEF HostOk, Forward
<1>2. DOMAIN attempts = 1 .. Len(attempts) /\ DOMAIN attempts' = 1 .. Len(attempts')
  BY DEF AttemptsOk
<1>3. DOMAIN attempts \subseteq DOMAIN attempts'
  BY <1>2 DEF Forward, AttemptsOk
<1>4. (DOMAIN inv[q] = Fields)' /\ (inv[q].plan.done \in 0 .. done)' /\ (inv[q].op \in Nat)'
  BY <1>1 DEF InvOk
<1>5. Calls(q)'
  BY <1>1, <1>3 DEF InvOk, Calls
<1>6. Acts(q)'
  BY <1>1 DEF InvOk, Acts, Spared, Pending, Working
<1>7. Recovers(q)' /\ Executed(q)'
  BY <1>1, <1>3, <1>4 DEF InvOk, Recovers, Executed, Forward
<1>8. QED
  BY <1>4, <1>5, <1>6, <1>7 DEF InvOk

\* A step of p that keeps what is its own keeps the invariant.
LEMMA ProcessKeeps ==
  ASSUME CoordinatorOk, NEW p \in Slots, NEW state, Become(p, state),
         HostOk', AttemptsOk', Forward,
         \A q \in Slots \ {p} : Spared(q) /\ Mailing(q)',
         state.pc \in Working => inv[p].pc \in Working \/ JournalFree,
         InvOk(p)', Mailing(p)'
  PROVE  CoordinatorOk'
<1>1. /\ inv' = [q \in Slots |-> inv'[q]]
      /\ inv'[p] = state
      /\ \A q \in Slots \ {p} : inv'[q] = inv[q]
  BY DEF Become, CoordinatorOk
<1>2. \A q \in Slots : InvOk(q)'
  BY <1>1, OthersKeep DEF CoordinatorOk
<1>3. OneWorker'
  BY <1>1 DEF OneWorker, CoordinatorOk, JournalFree
<1>4. \A q \in Slots : Mailing(q)'
  OBVIOUS
<1>5. QED
  BY <1>1, <1>2, <1>3, <1>4 DEF CoordinatorOk

\* A process whose command is over, but for its alert.
Resting(state) ==
  /\ DOMAIN state = Fields
  /\ state.plan.done = 0 /\ state.op = 0
  /\ state.pc \in {"idle", "alerting"}

LEMMA Rests ==
  ASSUME NEW p \in Slots, NEW key, Exit(p) \/ Alert(p, key)
  PROVE  \E state : Resting(state) /\ Become(p, state)
<1>1. Resting(Idle)
  BY DEF Resting, Idle, Fields, NoPlan
<1>2. Resting([Idle EXCEPT !.pc = "alerting", !.key = key])
  BY DEF Resting, Idle, Fields, NoPlan
<1>3. QED
  BY <1>1, <1>2 DEF Exit, Alert

LEMMA RestKeeps ==
  ASSUME CoordinatorOk, NEW p \in Slots, NEW state, Become(p, state), Resting(state),
         HostOk', AttemptsOk', Forward,
         \A q \in Slots \ {p} : Spared(q) /\ Mailing(q)',
         delivery'[p] = NoDelivery
  PROVE  CoordinatorOk'
<1>1. inv'[p] = state
  BY DEF Become, CoordinatorOk
<1>2. done' \in Nat
  BY StepsAreNumbers DEF HostOk
<1>3. InvOk(p)'
  BY <1>1, <1>2 DEF Resting, InvOk, Calls, Acts, Recovers, Executed, Working
<1>4. Mailing(p)'
  BY <1>1 DEF Mailing, Resting
<1>5. QED
  BY <1>3, <1>4, ProcessKeeps DEF Resting, Working

LEMMA WorldStands ==
  ASSUME HostOk, AttemptsOk, UNCHANGED <<world, attempts>>
  PROVE  HostOk' /\ AttemptsOk' /\ Forward /\ \A q \in Slots : Spared(q)
<1>1. UNCHANGED <<now, done, partial, attempts>>
  BY DEF world
<1>2. done \in Nat /\ Len(attempts) \in Nat
  BY StepsAreNumbers DEF HostOk, AttemptsOk
<1>3. HostOk' /\ AttemptsOk'
  BY <1>1 DEF HostOk, AttemptsOk
<1>4. Forward
  BY <1>1, <1>2 DEF Forward
<1>5. \A q \in Slots : Spared(q)
  BY <1>1 DEF Spared
<1>6. QED
  BY <1>3, <1>4, <1>5

\* Appending a start event where nothing is open.
LEMMA Opens ==
  ASSUME HostOk, AttemptsOk, ~ Pending, NEW op \in Steps, Open(op),
         Len(attempts) < MaxAttempts, UNCHANGED world
  PROVE  /\ HostOk' /\ AttemptsOk' /\ Forward
         /\ Len(attempts') = Len(attempts) + 1
         /\ Len(attempts) + 1 \in DOMAIN attempts'
         /\ attempts'[Len(attempts) + 1].op = op
         /\ Pending'
<1> DEFINE n == Len(attempts)
           a == [op |-> op, outcome |-> "open", at |-> IF Operations[op] = "fetch" THEN now ELSE 0]
<1>1. UNCHANGED <<now, done, partial>>
  BY DEF world
<1>2. n \in Nat /\ DOMAIN attempts = 1 .. n /\ done \in Nat /\ now \in Nat
  BY StepsAreNumbers DEF AttemptsOk, HostOk
<1>3. a \in Attempt
  BY <1>2 DEF Outcomes, Attempt
<1>4. /\ attempts' \in Seq(Attempt)
      /\ Len(attempts') = n + 1
      /\ attempts'[n + 1] = a
      /\ \A i \in 1 .. n : attempts'[i] = attempts[i]
  BY <1>2, <1>3 DEF Open, AttemptsOk
<1>5. \A i \in 1 .. n : attempts[i].outcome # "open"
  BY <1>2 DEF Pending, AttemptsOk
<1>6. HostOk'
  <2>1. Len(attempts') <= MaxAttempts
    BY <1>2, <1>4, StepsAreNumbers
  <2>2. QED
    BY <1>1, <2>1 DEF HostOk
<1>7. AttemptsOk'
  <2>1. DOMAIN attempts' = 1 .. n + 1
    BY <1>2, <1>4
  <2>2. ASSUME NEW i \in 1 .. n + 1
        PROVE  /\ attempts'[i].outcome = "open" => i = n + 1
               /\ attempts'[i].outcome \in Successes => attempts'[i].op <= done'
    <3>1. CASE i = n + 1
      BY <1>4, <3>1 DEF Successes
    <3>2. CASE i \in 1 .. n
      BY <1>1, <1>2, <1>4, <1>5, <3>2 DEF AttemptsOk
    <3>3. QED
      BY <1>2, <3>1, <3>2
  <2>3. QED
    BY <1>4, <2>1, <2>2 DEF AttemptsOk
<1>8. Forward
  BY <1>1, <1>2, <1>4 DEF Forward
<1>9. Pending'
  BY <1>2, <1>4 DEF Pending
<1>10. QED
  BY <1>2, <1>4, <1>6, <1>7, <1>8, <1>9

\* Appending the terminal event of the open attempt.
LEMMA Closes ==
  ASSUME HostOk, AttemptsOk, Pending, NEW verdict \in Outcomes \ {"open"}, Close(verdict),
         verdict \in Successes => attempts[Len(attempts)].op <= done, UNCHANGED world
  PROVE  /\ HostOk' /\ AttemptsOk' /\ Forward
         /\ DOMAIN attempts' = DOMAIN attempts
         /\ Len(attempts) \in DOMAIN attempts
         /\ \A i \in DOMAIN attempts : attempts'[i].outcome # "open"
<1> DEFINE n == Len(attempts)
           a == [op |-> attempts[n].op, outcome |-> verdict, at |-> attempts[n].at]
<1>1. UNCHANGED <<now, done, partial>>
  BY DEF world
<1>2. n \in Nat /\ DOMAIN attempts = 1 .. n /\ done \in Nat
  BY StepsAreNumbers DEF AttemptsOk, HostOk
<1>3. n \in DOMAIN attempts
  BY <1>2 DEF Pending, AttemptsOk
<1>4. /\ attempts \in Seq(Attempt)
      /\ attempts[n] \in Attempt
  BY <1>2, <1>3 DEF AttemptsOk
<1>5. a \in Attempt /\ a.op = attempts[n].op /\ a.outcome = verdict
  BY <1>4 DEF Attempt
<1>6. [attempts[n] EXCEPT !.outcome = verdict] = a
  BY <1>4 DEF Attempt
<1>7. attempts' = [attempts EXCEPT ![n] = a]
  BY <1>6 DEF Close
<1>8. /\ attempts' \in Seq(Attempt)
      /\ Len(attempts') = n
      /\ DOMAIN attempts' = 1 .. n
      /\ attempts'[n].op = attempts[n].op /\ attempts'[n].outcome = verdict
      /\ \A i \in 1 .. n : i # n => attempts'[i] = attempts[i]
  BY <1>2, <1>3, <1>4, <1>5, <1>7
<1>9. \A i \in 1 .. n : attempts'[i].outcome # "open"
  <2> SUFFICES ASSUME NEW i \in 1 .. n PROVE attempts'[i].outcome # "open"
    OBVIOUS
  <2>1. CASE i = n
    BY <1>8, <2>1
  <2>2. CASE i # n
    BY <1>2, <1>8, <2>2 DEF AttemptsOk
  <2>3. QED
    BY <2>1, <2>2
<1>10. HostOk'
  BY <1>1, <1>8 DEF HostOk
<1>11. ASSUME NEW i \in 1 .. n
       PROVE  /\ attempts'[i].op = attempts[i].op
              /\ attempts'[i].outcome \in Successes => attempts'[i].op <= done'
  <2>1. CASE i = n
    BY <1>1, <1>8, <2>1
  <2>2. CASE i # n
    BY <1>1, <1>2, <1>8, <2>2 DEF AttemptsOk
  <2>3. QED
    BY <2>1, <2>2
<1>12. AttemptsOk'
  BY <1>8, <1>9, <1>11 DEF AttemptsOk
<1>13. Forward
  <2>1. \A i \in 1 .. n : attempts[i].outcome # "open" => attempts'[i].outcome # "open"
    BY <1>9
  <2>2. \A i \in 1 .. n : attempts'[i].op = attempts[i].op
    BY <1>11
  <2>3. done <= done'
    BY <1>1, <1>2
  <2>4. Len(attempts) <= Len(attempts')
    <3>1. Len(attempts') = n
      BY <1>8
    <3>2. QED
      BY <1>2, <3>1
  <2>5. QED
    BY <1>2, <2>1, <2>2, <2>3, <2>4 DEF Forward
<1>14. QED
  BY <1>2, <1>3, <1>8, <1>9, <1>10, <1>12, <1>13

LEMMA Alone ==
  ASSUME CoordinatorOk, NEW p \in Slots, JournalFree \/ inv[p].pc \in Working
  PROVE  \A q \in Slots \ {p} : Spared(q)
BY DEF CoordinatorOk, OneWorker, JournalFree, Spared

\* Steps that leave the alerts alone, to a resting state and to another.
LEMMA Quiet ==
  ASSUME CoordinatorOk, NEW p \in Slots, NEW state, Become(p, state), UNCHANGED custody,
         inv[p].pc # "mailing"
  PROVE  /\ delivery'[p] = NoDelivery
         /\ inv'[p] = state
         /\ \A q \in Slots \ {p} : Mailing(q)'
<1>1. /\ inv'[p] = state
      /\ \A q \in Slots \ {p} : inv'[q] = inv[q]
  BY DEF Become, CoordinatorOk
<1>2. \A q \in Slots : delivery'[q] = delivery[q]
  BY DEF custody
<1>3. QED
  BY <1>1, <1>2 DEF CoordinatorOk, Mailing

LEMMA RestStep ==
  ASSUME CoordinatorOk, NEW p \in Slots, NEW key, Exit(p) \/ Alert(p, key),
         HostOk', AttemptsOk', Forward, \A q \in Slots \ {p} : Spared(q),
         UNCHANGED custody, inv[p].pc # "mailing"
  PROVE  CoordinatorOk'
<1>1. PICK state : Resting(state) /\ Become(p, state)
  BY Rests
<1>2. QED
  BY <1>1, Quiet, RestKeeps

LEMMA GoStep ==
  ASSUME CoordinatorOk, NEW p \in Slots, NEW state, Become(p, state),
         HostOk', AttemptsOk', Forward, \A q \in Slots \ {p} : Spared(q),
         UNCHANGED custody, inv[p].pc # "mailing", state.pc # "mailing",
         state.pc \in Working => inv[p].pc \in Working \/ JournalFree,
         InvOk(p)'
  PROVE  CoordinatorOk'
<1>1. Mailing(p)' /\ \A q \in Slots \ {p} : Mailing(q)'
  BY Quiet DEF Mailing
<1>2. QED
  BY <1>1, ProcessKeeps

\* The plan is made of what is done.
LEMMA PlanBehind ==
  ASSUME HostOk
  PROVE  /\ Plan.done \in 0 .. done
         /\ Plan.done + 1 \in Steps /\ Operations[Plan.done + 1] = "offline" =>
              Plan.done = done /\ (~ Plan.blocked => ~ partial)
<1>1. done \in Nat
  BY StepsAreNumbers DEF HostOk
<1>2. Plan.done \in 0 .. done
  BY <1>1, StepsAreNumbers DEF Plan
<1>3. ASSUME Operations[Plan.done + 1] = "offline"
      PROVE  Plan.done = done
  BY <1>1, <1>3, StepsAreNumbers DEF Plan
<1>4. ASSUME Operations[done + 1] = "offline", ~ Plan.blocked
      PROVE  ~ partial
  BY <1>4 DEF Plan
<1>5. QED
  BY <1>2, <1>3, <1>4

-----------------------------------------------------------------------------
(* The steps up to the decision.                                           *)

LEMMA StartKeeps ==
  ASSUME CoordinatorOk, NEW p \in Slots, NEW mode, Start(p, mode)
  PROVE  CoordinatorOk'
<1> DEFINE s == [inv[p] EXCEPT !.pc = "planned", !.mode = mode, !.plan = Plan,
                               !.checked = IF Acquiring(Plan) THEN now ELSE 0]
<1>1. Become(p, s) /\ inv[p] = Idle
  BY DEF Start
<1>2. /\ DOMAIN s = Fields /\ s.pc = "planned" /\ s.plan = Plan /\ s.op = 0
      /\ inv[p].pc = "idle"
  BY <1>1 DEF Idle, Fields
<1>3. inv'[p] = s
  BY <1>1 DEF Become, CoordinatorOk
<1>4. HostOk' /\ AttemptsOk' /\ Forward /\ \A q \in Slots : Spared(q)
  BY WorldStands DEF Start, CoordinatorOk
<1>5. (inv[p].plan.done \in 0 .. done)'
  BY <1>2, <1>3, PlanBehind DEF Start, world, CoordinatorOk
<1>6. InvOk(p)'
  BY <1>2, <1>3, <1>5 DEF InvOk, Calls, Acts, Recovers, Executed, Working
<1>7. UNCHANGED custody
  BY DEF Start
<1>8. QED
  BY <1>1, <1>2, <1>4, <1>6, <1>7, GoStep DEF Working

LEMMA SeesOpenAttemptKeeps ==
  ASSUME CoordinatorOk, NEW p \in Slots, SeesOpenAttempt(p)
  PROVE  CoordinatorOk'
<1> DEFINE s == [inv[p] EXCEPT !.pc = "routing", !.attempt = Len(attempts),
                               !.op = attempts[Len(attempts)].op]
<1>1. HostOk' /\ AttemptsOk' /\ Forward /\ \A q \in Slots : Spared(q)
  BY WorldStands DEF SeesOpenAttempt, CoordinatorOk
<1>2. inv[p].pc = "planned" /\ UNCHANGED custody
  BY DEF SeesOpenAttempt, Reads
<1>3. CASE inv[p].mode = "recover"
  <2>1. Become(p, s)
    BY <1>3 DEF SeesOpenAttempt
  <2>2. /\ DOMAIN s = Fields /\ s.pc = "routing" /\ s.plan = inv[p].plan
        /\ s.op = attempts[Len(attempts)].op /\ s.mode = "recover"
    BY <1>3 DEF CoordinatorOk, InvOk, Fields
  <2>3. attempts[Len(attempts)].op \in Nat
    <3>1. Len(attempts) \in DOMAIN attempts
      BY DEF SeesOpenAttempt, Pending, CoordinatorOk, AttemptsOk
    <3>2. attempts[Len(attempts)] \in Attempt
      BY <3>1 DEF CoordinatorOk, AttemptsOk
    <3>3. QED
      BY <3>2, StepsAreNumbers DEF Attempt
  <2>4. inv'[p] = s
    BY <2>1 DEF Become, CoordinatorOk
  <2>5. (inv[p].plan.done \in 0 .. done)'
    BY <2>2, <2>4 DEF SeesOpenAttempt, world, CoordinatorOk, InvOk
  <2>6. InvOk(p)'
    BY <2>2, <2>3, <2>4, <2>5 DEF InvOk, Calls, Acts, Recovers, Executed, Working
  <2>7. QED
    BY <1>1, <1>2, <2>1, <2>2, <2>6, GoStep DEF Working
<1>4. CASE inv[p].mode # "recover"
  <2>1. PICK key : Alert(p, key)
    BY <1>4 DEF SeesOpenAttempt
  <2>2. QED
    BY <1>1, <1>2, <2>1, RestStep
<1>5. QED
  BY <1>3, <1>4

LEMMA SeesBlockedPlanKeeps ==
  ASSUME CoordinatorOk, NEW p \in Slots, SeesBlockedPlan(p)
  PROVE  CoordinatorOk'
<1>1. HostOk' /\ AttemptsOk' /\ Forward /\ \A q \in Slots : Spared(q)
  BY WorldStands DEF SeesBlockedPlan, CoordinatorOk
<1>2. PICK key : Alert(p, key)
  BY DEF SeesBlockedPlan
<1>3. QED
  BY <1>1, <1>2, RestStep DEF SeesBlockedPlan, Reads

\* What plan and journal call for is not beyond the next operation: a fetch that the
\* journal has succeed is done, so its apply is the next.
LEMMA CalledIsNext ==
  ASSUME CoordinatorOk, NEW p \in Slots, inv[p].plan.done + 1 \in Steps
  PROVE  LET plan == inv[p].plan
         IN  /\ Called(plan) \in Steps /\ Called(plan) <= done + 1
             /\ Operations[plan.done + 1] # "fetch" => Called(plan) = plan.done + 1
             /\ Operations[plan.done + 1] = "fetch" => Operations[Called(plan)] # "offline"
<1> DEFINE plan == inv[p].plan
<1>1. done \in Nat /\ plan.done \in 0 .. done
  BY StepsAreNumbers DEF CoordinatorOk, HostOk, InvOk
<1>2. CASE Acquiring(plan) /\ Fetched(plan)
  <2>1. PICK i \in DOMAIN attempts : /\ attempts[i].op = plan.done + 1
                                     /\ attempts[i].outcome \in Successes
    BY <1>2 DEF Fetched, Fetches, Successes
  <2>2. plan.done + 1 <= done
    BY <2>1 DEF CoordinatorOk, AttemptsOk
  <2>3. Operations[plan.done + 1] = "fetch"
    BY <1>2 DEF Acquiring
  <2>4. plan.done + 2 \in Steps /\ Operations[plan.done + 2] = "apply"
    <3>1. (plan.done + 1) + 1 \in Steps /\ Operations[(plan.done + 1) + 1] = "apply"
      BY <2>3, StepsAreNumbers
    <3>2. (plan.done + 1) + 1 = plan.done + 2
      BY <1>1
    <3>3. QED
      BY <3>1, <3>2
  <2>5. Called(plan) = plan.done + 2
    BY <1>2 DEF Called
  <2>6. QED
    BY <1>1, <2>2, <2>3, <2>4, <2>5
<1>3. CASE ~ (Acquiring(plan) /\ Fetched(plan))
  BY <1>1, <1>3 DEF Called
<1>4. QED
  BY <1>2, <1>3

LEMMA SeesReviewKeeps ==
  ASSUME CoordinatorOk, NEW p \in Slots, SeesReview(p)
  PROVE  CoordinatorOk'
<1> DEFINE s == [inv[p] EXCEPT !.pc = "reserving", !.op = Called(inv[p].plan)]
<1>1. HostOk' /\ AttemptsOk' /\ Forward /\ \A q \in Slots : Spared(q)
  BY WorldStands DEF SeesReview, CoordinatorOk
<1>2. inv[p].pc = "planned" /\ UNCHANGED custody /\ UNCHANGED done
  BY DEF SeesReview, Ready, Reads, world
<1>3. CASE Family(p) = "review" /\ inv[p].mode = "review"
  <2>1. Become(p, s)
    BY <1>3 DEF SeesReview
  <2>2. /\ DOMAIN s = Fields /\ s.pc = "reserving" /\ s.plan = inv[p].plan
        /\ s.op = Called(inv[p].plan) /\ s.mode = "review"
    BY <1>3 DEF CoordinatorOk, InvOk, Fields
  <2>3. inv[p].plan.done + 1 \in Steps /\ Operations[inv[p].plan.done + 1] = "review"
    BY <1>3 DEF Family
  <2>4. s.op \in Steps /\ s.op <= done + 1 /\ Operations[s.op] # "offline" /\ s.op \in Nat
    BY <2>2, <2>3, CalledIsNext, StepsAreNumbers
  <2>5. inv'[p] = s
    BY <2>1 DEF Become, CoordinatorOk
  <2>6. (inv[p].plan.done \in 0 .. done)'
    BY <1>2, <2>2, <2>5 DEF CoordinatorOk, InvOk
  <2>7. InvOk(p)'
    BY <1>2, <2>2, <2>4, <2>5, <2>6 DEF InvOk, Calls, Acts, Recovers, Executed, Working
  <2>8. QED
    BY <1>1, <1>2, <2>1, <2>2, <2>7, GoStep DEF Working
<1>4. CASE ~ (Family(p) = "review" /\ inv[p].mode = "review")
  BY <1>1, <1>2, <1>4, RestStep DEF SeesReview
<1>5. QED
  BY <1>3, <1>4

LEMMA SeesOfflineKeeps ==
  ASSUME CoordinatorOk, NEW p \in Slots, SeesOffline(p)
  PROVE  CoordinatorOk'
<1> DEFINE s == [inv[p] EXCEPT !.pc = "starting", !.op = Called(inv[p].plan)]
<1>1. HostOk' /\ AttemptsOk' /\ Forward /\ \A q \in Slots : Spared(q)
  BY WorldStands DEF SeesOffline, CoordinatorOk
<1>2. /\ inv[p].pc = "planned" /\ ~ inv[p].plan.blocked
      /\ UNCHANGED custody /\ UNCHANGED done
  BY DEF SeesOffline, Ready, Reads, world
<1>3. CASE inv[p].mode = "authorized"
  <2>1. Become(p, s)
    BY <1>3 DEF SeesOffline
  <2>2. /\ DOMAIN s = Fields /\ s.pc = "starting" /\ s.plan = inv[p].plan
        /\ s.op = Called(inv[p].plan) /\ s.mode = "authorized"
    BY <1>3 DEF CoordinatorOk, InvOk, Fields
  <2>3. inv[p].plan.done + 1 \in Steps /\ Operations[inv[p].plan.done + 1] = "offline"
    BY DEF Family, SeesOffline
  <2>4. s.op \in Steps /\ s.op = s.plan.done + 1 /\ Operations[s.op] = "offline" /\ s.op \in Nat
    BY <2>2, <2>3, CalledIsNext, StepsAreNumbers
  <2>5. inv'[p] = s
    BY <2>1 DEF Become, CoordinatorOk
  <2>6. (inv[p].plan.done \in 0 .. done)'
    BY <1>2, <2>2, <2>5 DEF CoordinatorOk, InvOk
  <2>7. InvOk(p)'
    BY <1>2, <2>2, <2>4, <2>5, <2>6 DEF InvOk, Calls, Acts, Recovers, Executed, Working
  <2>8. QED
    BY <1>1, <1>2, <2>1, <2>2, <2>7, GoStep DEF Working
<1>4. CASE inv[p].mode # "authorized"
  BY <1>1, <1>2, <1>4, RestStep DEF SeesOffline
<1>5. QED
  BY <1>3, <1>4

LEMMA SeesAcquisitionKeeps ==
  ASSUME CoordinatorOk, NEW p \in Slots, SeesAcquisition(p)
  PROVE  CoordinatorOk'
<1> DEFINE fetches == Cardinality(Fetches(inv[p].plan))
           s == [inv[p] EXCEPT !.pc = "reserving", !.op = Called(inv[p].plan),
                               !.fetches = fetches]
<1>1. HostOk' /\ AttemptsOk' /\ Forward /\ \A q \in Slots : Spared(q)
  BY WorldStands DEF SeesAcquisition, CoordinatorOk
<1>2. inv[p].pc = "planned" /\ UNCHANGED custody /\ UNCHANGED done
  BY DEF SeesAcquisition, Ready, Reads, world
<1>3. CASE inv[p].mode = "authorized" /\ Become(p, s)
  <2>1. /\ DOMAIN s = Fields /\ s.pc = "reserving" /\ s.plan = inv[p].plan
        /\ s.op = Called(inv[p].plan) /\ s.mode = "authorized"
    BY <1>3 DEF CoordinatorOk, InvOk, Fields
  <2>2. inv[p].plan.done + 1 \in Steps /\ Operations[inv[p].plan.done + 1] = "fetch"
    BY DEF Family, SeesAcquisition
  <2>3. s.op \in Steps /\ s.op <= done + 1 /\ Operations[s.op] # "offline" /\ s.op \in Nat
    BY <2>1, <2>2, CalledIsNext, StepsAreNumbers
  <2>4. inv'[p] = s
    BY <1>3 DEF Become, CoordinatorOk
  <2>5. (inv[p].plan.done \in 0 .. done)'
    BY <1>2, <2>1, <2>4 DEF CoordinatorOk, InvOk
  <2>6. InvOk(p)'
    BY <1>2, <2>1, <2>3, <2>4, <2>5 DEF InvOk, Calls, Acts, Recovers, Executed, Working
  <2>7. QED
    BY <1>1, <1>2, <1>3, <2>1, <2>6, GoStep DEF Working
<1>4. ASSUME NEW key, Exit(p) \/ Alert(p, key)
      PROVE  CoordinatorOk'
  BY <1>1, <1>2, <1>4, RestStep
<1>5. \/ inv[p].mode = "authorized" /\ Become(p, s)
      \/ \E key : Exit(p) \/ Alert(p, key)
  BY DEF SeesAcquisition
<1>6. QED
  BY <1>3, <1>4, <1>5

LEMMA RejectedKeeps ==
  ASSUME CoordinatorOk, NEW p \in Slots, Rejected(p)
  PROVE  CoordinatorOk'
<1>1. HostOk' /\ AttemptsOk' /\ Forward /\ \A q \in Slots : Spared(q)
  BY WorldStands DEF Rejected, CoordinatorOk
<1>2. QED
  BY <1>1, RestStep DEF Rejected

-----------------------------------------------------------------------------
(* The steps of a capability.                                              *)

LEMMA ReserveKeeps ==
  ASSUME CoordinatorOk, NEW p \in Slots, Reserve(p)
  PROVE  CoordinatorOk'
<1> DEFINE s == [inv[p] EXCEPT !.pc = "calling", !.attempt = Len(attempts) + 1]
<1>1. /\ inv[p].pc = "reserving" /\ JournalFree
      /\ UNCHANGED custody /\ UNCHANGED world /\ UNCHANGED done
  BY DEF Reserve, world
<1>2. /\ inv[p].mode # "recover" /\ inv[p].op \in Steps /\ inv[p].op <= done + 1
      /\ Operations[inv[p].op] # "offline" /\ inv[p].op \in Nat
  BY <1>1 DEF CoordinatorOk, InvOk, Calls
<1>3. \A q \in Slots \ {p} : Spared(q)
  BY <1>1, Alone
<1>4. CASE Reservable(p)
  <2>1. Become(p, s) /\ Open(inv[p].op) /\ ~ Pending /\ Len(attempts) < MaxAttempts
    BY <1>4 DEF Reserve, Reservable
  <2>2. /\ HostOk' /\ AttemptsOk' /\ Forward
        /\ Len(attempts) + 1 \in DOMAIN attempts'
    BY <1>1, <1>2, <2>1, Opens DEF CoordinatorOk
  <2>3. /\ DOMAIN s = Fields /\ s.pc = "calling" /\ s.plan = inv[p].plan
        /\ s.op = inv[p].op /\ s.mode = inv[p].mode /\ s.attempt = Len(attempts) + 1
    BY DEF CoordinatorOk, InvOk, Fields
  <2>4. inv'[p] = s
    BY <2>1 DEF Become, CoordinatorOk
  <2>5. (inv[p].plan.done \in 0 .. done)'
    BY <1>1, <2>3, <2>4 DEF CoordinatorOk, InvOk
  <2>6. InvOk(p)'
    BY <1>1, <1>2, <2>2, <2>3, <2>4, <2>5 DEF InvOk, Calls, Acts, Recovers, Executed, Working
  <2>7. QED
    BY <1>1, <1>3, <2>1, <2>2, <2>3, <2>6, GoStep DEF Working
<1>5. CASE ~ Reservable(p)
  <2>1. Exit(p) /\ UNCHANGED attempts
    BY <1>5 DEF Reserve
  <2>2. HostOk' /\ AttemptsOk' /\ Forward
    BY <1>1, <2>1, WorldStands DEF CoordinatorOk
  <2>3. QED
    BY <1>1, <1>3, <2>1, <2>2, RestStep
<1>6. QED
  BY <1>4, <1>5

LEMMA PerformKeeps ==
  ASSUME CoordinatorOk, NEW p \in Slots, Perform(p)
  PROVE  CoordinatorOk'
<1> DEFINE s == [inv[p] EXCEPT !.pc = "answered", !.outcome = "succeeded"]
<1>1. /\ inv[p].pc = "calling" /\ done = inv[p].op - 1 /\ done' = inv[p].op
      /\ UNCHANGED custody /\ Become(p, s)
      /\ UNCHANGED <<now, partial, attempts>>
  BY DEF Perform
<1>2. /\ inv[p].mode # "recover" /\ inv[p].op \in Steps
      /\ Operations[inv[p].op] # "offline" /\ inv[p].op \in Nat
      /\ inv[p].attempt \in DOMAIN attempts
  BY <1>1 DEF CoordinatorOk, InvOk, Calls
<1>3. done \in Nat /\ done <= done'
  BY <1>1, <1>2, StepsAreNumbers DEF CoordinatorOk, HostOk
<1>4. HostOk'
  BY <1>1, <1>2 DEF HostOk, CoordinatorOk
<1>5. AttemptsOk'
  <2>1. attempts' \in Seq(Attempt) /\ attempts' = attempts
    BY <1>1 DEF CoordinatorOk, AttemptsOk
  <2>2. ASSUME NEW i \in DOMAIN attempts, attempts[i].outcome \in Successes
        PROVE  attempts[i].op <= done'
    <3>1. attempts[i] \in Attempt
      BY DEF CoordinatorOk, AttemptsOk
    <3>2. attempts[i].op \in Nat
      BY <3>1, StepsAreNumbers DEF Attempt
    <3>3. attempts[i].op <= done
      BY <2>2 DEF CoordinatorOk, AttemptsOk
    <3>4. QED
      BY <1>1, <1>2, <1>3, <3>2, <3>3
  <2>3. QED
    BY <2>1, <2>2 DEF CoordinatorOk, AttemptsOk
<1>6. Forward
  <2>1. Len(attempts) \in Nat
    BY DEF CoordinatorOk, AttemptsOk
  <2>2. QED
    BY <1>1, <1>3, <2>1 DEF Forward
<1>7. \A q \in Slots \ {p} : Spared(q)
  BY <1>1, <1>2 DEF Spared, CoordinatorOk, InvOk, Acts, Working
<1>8. /\ DOMAIN s = Fields /\ s.pc = "answered" /\ s.plan = inv[p].plan
      /\ s.op = inv[p].op /\ s.mode = inv[p].mode /\ s.attempt = inv[p].attempt
      /\ s.outcome = "succeeded"
  BY DEF CoordinatorOk, InvOk, Fields
<1>9. inv'[p] = s
  BY <1>1 DEF Become, CoordinatorOk
<1>10. (inv[p].plan.done \in 0 .. done)'
  BY <1>1, <1>2, <1>3, <1>8, <1>9 DEF CoordinatorOk, InvOk
<1>11. Calls(p)'
  BY <1>1, <1>2, <1>8, <1>9 DEF Calls
<1>12. InvOk(p)'
  BY <1>2, <1>8, <1>9, <1>10, <1>11 DEF InvOk, Acts, Recovers, Executed, Working
<1>13. QED
  BY <1>1, <1>4, <1>5, <1>6, <1>7, <1>8, <1>12, GoStep DEF Working

LEMMA CallFailsKeeps ==
  ASSUME CoordinatorOk, NEW p \in Slots, CallFails(p)
  PROVE  CoordinatorOk'
<1> DEFINE s(outcome) == [inv[p] EXCEPT !.pc = "answered", !.outcome = outcome]
<1>1. HostOk' /\ AttemptsOk' /\ Forward /\ \A q \in Slots : Spared(q)
  BY WorldStands DEF CallFails, CoordinatorOk
<1>2. inv[p].pc = "calling" /\ UNCHANGED custody /\ UNCHANGED done /\ UNCHANGED attempts
  BY DEF CallFails, world
<1>3. /\ inv[p].mode # "recover" /\ inv[p].op \in Steps /\ inv[p].op <= done + 1
      /\ Operations[inv[p].op] # "offline" /\ inv[p].op \in Nat
      /\ inv[p].attempt \in DOMAIN attempts
  BY <1>2 DEF CoordinatorOk, InvOk, Calls
<1>4. ASSUME NEW verdict \in {"waiting", "failed"}, Become(p, s(verdict))
      PROVE  CoordinatorOk'
  <2>1. /\ DOMAIN s(verdict) = Fields /\ s(verdict).pc = "answered"
        /\ s(verdict).plan = inv[p].plan /\ s(verdict).op = inv[p].op
        /\ s(verdict).mode = inv[p].mode /\ s(verdict).attempt = inv[p].attempt
        /\ s(verdict).outcome = verdict
    BY DEF CoordinatorOk, InvOk, Fields
  <2>2. inv'[p] = s(verdict)
    BY <1>4 DEF Become, CoordinatorOk
  <2>3. (inv[p].plan.done \in 0 .. done)'
    BY <1>2, <2>1, <2>2 DEF CoordinatorOk, InvOk
  <2>4. Calls(p)'
    BY <1>2, <1>3, <2>1, <2>2 DEF Calls
  <2>5. InvOk(p)'
    BY <1>3, <2>1, <2>2, <2>3, <2>4 DEF InvOk, Acts, Recovers, Executed, Working
  <2>6. QED
    BY <1>1, <1>2, <1>4, <2>1, <2>5, GoStep DEF Working
<1>5. CASE Exit(p)
  BY <1>1, <1>2, <1>5, RestStep
<1>6. Exit(p) \/ \E verdict \in {"waiting", "failed"} : Become(p, s(verdict))
  BY DEF CallFails
<1>7. QED
  BY <1>4, <1>5, <1>6

\* The process that closed the open attempt says that its transition was executed.
LEMMA ExecutedKeeps ==
  ASSUME CoordinatorOk, NEW p \in Slots, Pending, UNCHANGED world, UNCHANGED custody,
         NEW verdict \in Outcomes \ {"open"}, Close(verdict),
         verdict \in Successes => attempts[Len(attempts)].op <= done,
         JournalFree \/ inv[p].pc \in Working, inv[p].pc # "mailing",
         Become(p, [inv[p] EXCEPT !.pc = "executed", !.closed = Len(attempts)]),
         inv[p].attempt \in DOMAIN attempts,
         inv[p].mode = "recover" => inv[p].attempt = Len(attempts),
         inv[p].mode # "recover" => done >= inv[p].op
  PROVE  CoordinatorOk'
<1> DEFINE s == [inv[p] EXCEPT !.pc = "executed", !.closed = Len(attempts)]
<1>1. /\ HostOk' /\ AttemptsOk' /\ Forward
      /\ DOMAIN attempts' = DOMAIN attempts
      /\ \A i \in DOMAIN attempts : attempts'[i].outcome # "open"
  BY Closes DEF CoordinatorOk
<1>2. \A q \in Slots \ {p} : Spared(q)
  BY Alone
<1>3. /\ DOMAIN s = Fields /\ s.pc = "executed" /\ s.plan = inv[p].plan
      /\ s.op = inv[p].op /\ s.mode = inv[p].mode /\ s.attempt = inv[p].attempt
      /\ s.closed = Len(attempts)
  BY DEF CoordinatorOk, InvOk, Fields
<1>4. inv'[p] = s
  BY DEF Become, CoordinatorOk
<1>5. (inv[p].plan.done \in 0 .. done)' /\ (inv[p].op \in Nat)'
  BY <1>3, <1>4 DEF CoordinatorOk, InvOk, world
<1>6. UNCHANGED done
  BY DEF world
<1>7. Executed(p)'
  BY <1>1, <1>3, <1>4, <1>6 DEF Executed
<1>8. InvOk(p)'
  BY <1>3, <1>4, <1>5, <1>7 DEF InvOk, Calls, Acts, Recovers, Working
<1>9. QED
  BY <1>1, <1>2, <1>3, <1>8, GoStep DEF Working

LEMMA RecordKeeps ==
  ASSUME CoordinatorOk, NEW p \in Slots, Record(p)
  PROVE  CoordinatorOk'
<1> DEFINE n == Len(attempts)
<1>1. /\ inv[p].pc = "answered" /\ JournalFree
      /\ UNCHANGED custody /\ UNCHANGED world
  BY DEF Record
<1>2. /\ inv[p].mode # "recover" /\ inv[p].op \in Steps
      /\ inv[p].attempt \in DOMAIN attempts
      /\ inv[p].outcome \in {"succeeded", "waiting", "failed"}
  BY <1>1 DEF CoordinatorOk, InvOk, Calls
<1>3. \A q \in Slots \ {p} : Spared(q)
  BY <1>1, Alone
<1>4. CASE Pending /\ attempts[n].op = inv[p].op /\ Proven(p)
  <2>1. Close(inv[p].outcome)
    BY <1>4 DEF Record
  <2>2. inv[p].outcome \in Outcomes \ {"open"}
    BY <1>2 DEF Outcomes
  <2>3. inv[p].outcome \in Successes => inv[p].outcome = "succeeded"
    BY <1>2 DEF Successes
  <2>4. inv[p].outcome = "succeeded" => done >= inv[p].op
    BY <1>4 DEF Proven
  <2>5. inv[p].outcome \in Successes => attempts[n].op <= done
    BY <1>4, <2>3, <2>4
  <2>6. CASE inv[p].outcome = "succeeded"
    <3>1. Become(p, [inv[p] EXCEPT !.pc = "executed", !.closed = n])
      BY <1>4, <2>6 DEF Record
    <3>2. done >= inv[p].op
      BY <2>4, <2>6
    <3>3. QED
      BY <1>1, <1>2, <1>4, <2>1, <2>2, <2>5, <3>1, <3>2, ExecutedKeeps
  <2>7. CASE inv[p].outcome # "succeeded"
    <3>1. PICK key : Exit(p) \/ Alert(p, key)
      BY <1>2, <1>4, <2>7 DEF Record
    <3>2. HostOk' /\ AttemptsOk' /\ Forward
      BY <1>1, <1>4, <2>1, <2>2, <2>5, Closes DEF CoordinatorOk
    <3>3. QED
      BY <1>1, <1>3, <3>1, <3>2, RestStep
  <2>8. QED
    BY <2>6, <2>7
<1>5. CASE ~ (Pending /\ attempts[n].op = inv[p].op /\ Proven(p))
  <2>1. Exit(p) /\ UNCHANGED attempts
    BY <1>5 DEF Record
  <2>2. HostOk' /\ AttemptsOk' /\ Forward
    BY <1>1, <2>1, WorldStands DEF CoordinatorOk
  <2>3. QED
    BY <1>1, <1>3, <2>1, <2>2, RestStep
<1>6. QED
  BY <1>4, <1>5

-----------------------------------------------------------------------------
(* The steps of an offline action.                                         *)

\* Made again under the lock, the plan has not moved: the operation is the next one and
\* nothing of it is there.
LEMMA BeginsNext ==
  ASSUME CoordinatorOk, NEW p \in Slots, inv[p].pc = "starting", Plan = inv[p].plan
  PROVE  done = inv[p].op - 1 /\ ~ partial
<1>1. /\ inv[p].op = Plan.done + 1 /\ ~ Plan.blocked
      /\ inv[p].op \in Steps /\ Operations[inv[p].op] = "offline"
  BY DEF CoordinatorOk, InvOk, Acts
<1>2. Plan.done = done /\ ~ partial
  BY <1>1, PlanBehind DEF CoordinatorOk
<1>3. done \in Nat
  BY StepsAreNumbers DEF CoordinatorOk, HostOk
<1>4. QED
  BY <1>1, <1>2, <1>3

LEMMA BeginKeeps ==
  ASSUME CoordinatorOk, NEW p \in Slots, Begin(p)
  PROVE  CoordinatorOk'
<1> DEFINE s == [inv[p] EXCEPT !.pc = "writing", !.attempt = Len(attempts) + 1]
<1>1. /\ inv[p].pc = "starting" /\ JournalFree
      /\ UNCHANGED custody /\ UNCHANGED world /\ UNCHANGED done
  BY DEF Begin, world
<1>2. /\ inv[p].mode # "recover" /\ inv[p].op \in Steps
      /\ Operations[inv[p].op] = "offline" /\ inv[p].op \in Nat
  BY <1>1 DEF CoordinatorOk, InvOk, Acts
<1>3. \A q \in Slots \ {p} : Spared(q)
  BY <1>1, Alone
<1>4. CASE ~ Pending /\ Plan = inv[p].plan /\ Len(attempts) < MaxAttempts
  <2>1. Become(p, s) /\ Open(inv[p].op)
    BY <1>4 DEF Begin
  <2>2. /\ HostOk' /\ AttemptsOk' /\ Forward /\ Pending'
        /\ Len(attempts') = Len(attempts) + 1
        /\ attempts'[Len(attempts) + 1].op = inv[p].op
    BY <1>1, <1>2, <1>4, <2>1, Opens DEF CoordinatorOk
  <2>3. /\ DOMAIN s = Fields /\ s.pc = "writing" /\ s.plan = inv[p].plan
        /\ s.op = inv[p].op /\ s.mode = inv[p].mode /\ s.attempt = Len(attempts) + 1
    BY DEF CoordinatorOk, InvOk, Fields
  <2>4. inv'[p] = s
    BY <2>1 DEF Become, CoordinatorOk
  <2>5. (inv[p].plan.done \in 0 .. done)'
    BY <1>1, <2>3, <2>4 DEF CoordinatorOk, InvOk
  <2>6. done' = inv[p].op - 1
    BY <1>1, <1>4, BeginsNext
  <2>7. Acts(p)'
    BY <1>2, <2>2, <2>3, <2>4, <2>6 DEF Acts, Working
  <2>8. InvOk(p)'
    BY <1>2, <2>3, <2>4, <2>5, <2>7 DEF InvOk, Calls, Recovers, Executed
  <2>9. QED
    BY <1>1, <1>3, <2>1, <2>2, <2>3, <2>8, GoStep DEF Working
<1>5. CASE ~ (~ Pending /\ Plan = inv[p].plan /\ Len(attempts) < MaxAttempts)
  <2>1. Exit(p) /\ UNCHANGED attempts
    BY <1>5 DEF Begin
  <2>2. HostOk' /\ AttemptsOk' /\ Forward
    BY <1>1, <2>1, WorldStands DEF CoordinatorOk
  <2>3. QED
    BY <1>1, <1>3, <2>1, <2>2, RestStep
<1>6. QED
  BY <1>4, <1>5

LEMMA FillKeeps ==
  ASSUME CoordinatorOk, NEW p \in Slots, Fill(p)
  PROVE  CoordinatorOk'
<1> DEFINE s == [inv[p] EXCEPT !.pc = "filling"]
<1>1. /\ inv[p].pc = "writing" /\ Become(p, s)
      /\ UNCHANGED custody /\ UNCHANGED <<now, done, attempts>>
  BY DEF Fill
<1>2. partial' = TRUE
  BY DEF Fill
<1>3. HostOk'
  <2>1. partial' \in BOOLEAN
    BY <1>2
  <2>2. QED
    BY <1>1, <2>1 DEF HostOk, CoordinatorOk
<1>4. AttemptsOk' /\ Forward /\ \A q \in Slots : Spared(q)
  <2>1. done \in Nat /\ Len(attempts) \in Nat
    BY StepsAreNumbers DEF CoordinatorOk, HostOk, AttemptsOk
  <2>2. QED
    BY <1>1, <2>1 DEF CoordinatorOk, AttemptsOk, Forward, Spared
<1>5. /\ DOMAIN s = Fields /\ s.pc = "filling" /\ s.plan = inv[p].plan
      /\ s.op = inv[p].op /\ s.mode = inv[p].mode /\ s.attempt = inv[p].attempt
  BY DEF CoordinatorOk, InvOk, Fields
<1>6. inv'[p] = s
  BY <1>1 DEF Become, CoordinatorOk
<1>7. (inv[p].plan.done \in 0 .. done)' /\ (inv[p].op \in Nat)'
  BY <1>1, <1>5, <1>6 DEF CoordinatorOk, InvOk
<1>8. Acts(p)'
  BY <1>1, <1>5, <1>6 DEF CoordinatorOk, InvOk, Acts, Working, Pending
<1>9. InvOk(p)'
  BY <1>5, <1>6, <1>7, <1>8 DEF InvOk, Calls, Recovers, Executed
<1>10. QED
  BY <1>1, <1>3, <1>4, <1>5, <1>9, GoStep DEF Working

LEMMA CompleteKeeps ==
  ASSUME CoordinatorOk, NEW p \in Slots, Complete(p)
  PROVE  CoordinatorOk'
<1> DEFINE s == [inv[p] EXCEPT !.pc = "written"]
<1>1. /\ inv[p].pc = "filling" /\ Become(p, s) /\ done' = inv[p].op
      /\ UNCHANGED custody /\ UNCHANGED <<now, attempts>>
  BY DEF Complete
<1>2. partial' = FALSE
  BY DEF Complete
<1>3. done = inv[p].op - 1 /\ inv[p].op \in Steps /\ inv[p].op \in Nat
  BY <1>1 DEF CoordinatorOk, InvOk, Acts, Working
<1>4. done \in Nat /\ done <= done'
  BY <1>1, <1>3, StepsAreNumbers DEF CoordinatorOk, HostOk
<1>5. HostOk'
  <2>1. partial' \in BOOLEAN
    BY <1>2
  <2>2. QED
    BY <1>1, <1>3, <2>1 DEF HostOk, CoordinatorOk
<1>6. AttemptsOk'
  <2>1. attempts' \in Seq(Attempt) /\ attempts' = attempts
    BY <1>1 DEF CoordinatorOk, AttemptsOk
  <2>2. ASSUME NEW i \in DOMAIN attempts, attempts[i].outcome \in Successes
        PROVE  attempts[i].op <= done'
    <3>1. attempts[i] \in Attempt
      BY DEF CoordinatorOk, AttemptsOk
    <3>2. attempts[i].op \in Nat
      BY <3>1, StepsAreNumbers DEF Attempt
    <3>3. attempts[i].op <= done
      BY <2>2 DEF CoordinatorOk, AttemptsOk
    <3>4. QED
      BY <1>1, <1>3, <1>4, <3>2, <3>3
  <2>3. QED
    BY <2>1, <2>2 DEF CoordinatorOk, AttemptsOk
<1>7. Forward
  <2>1. Len(attempts) \in Nat
    BY DEF CoordinatorOk, AttemptsOk
  <2>2. QED
    BY <1>1, <1>4, <2>1 DEF Forward
<1>8. \A q \in Slots \ {p} : Spared(q)
  BY <1>1, Alone DEF Working
<1>9. /\ DOMAIN s = Fields /\ s.pc = "written" /\ s.plan = inv[p].plan
      /\ s.op = inv[p].op /\ s.mode = inv[p].mode /\ s.attempt = inv[p].attempt
  BY DEF CoordinatorOk, InvOk, Fields
<1>10. inv'[p] = s
  BY <1>1 DEF Become, CoordinatorOk
<1>11. (inv[p].plan.done \in 0 .. done)' /\ (inv[p].op \in Nat)'
  BY <1>1, <1>3, <1>4, <1>9, <1>10 DEF CoordinatorOk, InvOk
<1>12. Acts(p)'
  BY <1>1, <1>3, <1>9, <1>10 DEF CoordinatorOk, InvOk, Acts, Working, Pending
<1>13. InvOk(p)'
  BY <1>9, <1>10, <1>11, <1>12 DEF InvOk, Calls, Recovers, Executed
<1>14. QED
  BY <1>1, <1>5, <1>6, <1>7, <1>8, <1>9, <1>13, GoStep DEF Working

LEMMA ActionFailsKeeps ==
  ASSUME CoordinatorOk, NEW p \in Slots, ActionFails(p)
  PROVE  CoordinatorOk'
<1>1. /\ inv[p].pc \in Working /\ inv[p].pc # "mailing" /\ Close("failed")
      /\ UNCHANGED custody /\ UNCHANGED world
  BY DEF ActionFails, Working
<1>2. Pending
  BY <1>1 DEF CoordinatorOk, InvOk, Acts
<1>3. HostOk' /\ AttemptsOk' /\ Forward
  BY <1>1, <1>2, Closes DEF CoordinatorOk, Outcomes, Successes
<1>4. \A q \in Slots \ {p} : Spared(q)
  BY <1>1, Alone
<1>5. PICK key : Alert(p, key)
  BY DEF ActionFails
<1>6. QED
  BY <1>1, <1>3, <1>4, <1>5, RestStep

LEMMA FinishKeeps ==
  ASSUME CoordinatorOk, NEW p \in Slots, Finish(p)
  PROVE  CoordinatorOk'
<1>1. /\ inv[p].pc = "written" /\ Close("succeeded")
      /\ UNCHANGED custody /\ UNCHANGED world
      /\ Become(p, [inv[p] EXCEPT !.pc = "executed", !.closed = Len(attempts)])
  BY DEF Finish
<1>2. /\ Pending /\ inv[p].attempt = Len(attempts)
      /\ attempts[Len(attempts)].op = inv[p].op /\ done >= inv[p].op
      /\ inv[p].op \in Nat /\ done \in Nat
  BY <1>1, StepsAreNumbers DEF CoordinatorOk, InvOk, Acts, Working, HostOk
<1>3. inv[p].attempt \in DOMAIN attempts
  BY <1>2 DEF Pending, CoordinatorOk, AttemptsOk
<1>4. "succeeded" \in Outcomes \ {"open"} /\ attempts[Len(attempts)].op <= done
  BY <1>2 DEF Outcomes
<1>5. QED
  BY <1>1, <1>2, <1>3, <1>4, ExecutedKeeps DEF Working

-----------------------------------------------------------------------------
(* The steps of the router.                                                *)

LEMMA RouteKeeps ==
  ASSUME CoordinatorOk, NEW p \in Slots, Route(p)
  PROVE  CoordinatorOk'
<1> DEFINE s == [inv[p] EXCEPT !.pc = "recovering"]
<1>1. HostOk' /\ AttemptsOk' /\ Forward /\ \A q \in Slots : Spared(q)
  BY WorldStands DEF Route, CoordinatorOk
<1>2. inv[p].pc = "routing" /\ UNCHANGED custody /\ UNCHANGED done
  BY DEF Route, world
<1>3. CASE Become(p, s)
  <2>1. /\ DOMAIN s = Fields /\ s.pc = "recovering" /\ s.plan = inv[p].plan
        /\ s.op = inv[p].op /\ s.mode = "recover"
    BY <1>2 DEF CoordinatorOk, InvOk, Fields, Recovers
  <2>2. inv'[p] = s
    BY <1>3 DEF Become, CoordinatorOk
  <2>3. (inv[p].plan.done \in 0 .. done)' /\ (inv[p].op \in Nat)'
    BY <1>2, <2>1, <2>2 DEF CoordinatorOk, InvOk
  <2>4. InvOk(p)'
    BY <2>1, <2>2, <2>3 DEF InvOk, Calls, Acts, Recovers, Executed, Working
  <2>5. QED
    BY <1>1, <1>2, <1>3, <2>1, <2>4, GoStep DEF Working
<1>4. CASE Exit(p)
  BY <1>1, <1>2, <1>4, RestStep
<1>5. QED
  BY <1>3, <1>4 DEF Route

LEMMA RecoverKeeps ==
  ASSUME CoordinatorOk, NEW p \in Slots, Recover(p)
  PROVE  CoordinatorOk'
<1> DEFINE n == Len(attempts)
           verdict == Recovered(attempts[n].op)
<1>1. /\ inv[p].pc = "recovering" /\ JournalFree
      /\ UNCHANGED custody /\ UNCHANGED world
  BY DEF Recover
<1>2. inv[p].mode = "recover"
  BY <1>1 DEF CoordinatorOk, InvOk, Recovers
<1>3. \A q \in Slots \ {p} : Spared(q)
  BY <1>1, Alone
<1>4. CASE Pending /\ Matches(attempts[n].op, inv[p].op)
  <2>1. Close(verdict)
    BY <1>4 DEF Recover
  <2>2. n \in DOMAIN attempts /\ attempts[n].op \in Nat /\ done \in Nat
    <3>1. n \in DOMAIN attempts
      BY <1>4 DEF Pending, CoordinatorOk, AttemptsOk
    <3>2. attempts[n] \in Attempt
      BY <3>1 DEF CoordinatorOk, AttemptsOk
    <3>3. QED
      BY <3>1, <3>2, StepsAreNumbers DEF Attempt, CoordinatorOk, HostOk
  <2>3. /\ verdict \in Outcomes \ {"open"}
        /\ verdict \in Successes => attempts[n].op <= done
    BY <2>2 DEF Recovered, Outcomes, Successes
  <2>4. CASE Become(p, [inv[p] EXCEPT !.pc = "executed", !.closed = n]) /\ Evidenced(p)
    BY <1>1, <1>2, <1>4, <2>1, <2>2, <2>3, <2>4, ExecutedKeeps DEF Evidenced
  <2>5. ASSUME NEW key, Exit(p) \/ Alert(p, key)
        PROVE  CoordinatorOk'
    <3>1. HostOk' /\ AttemptsOk' /\ Forward
      BY <1>1, <1>4, <2>1, <2>3, Closes DEF CoordinatorOk
    <3>2. QED
      BY <1>1, <1>3, <2>5, <3>1, RestStep
  <2>6. QED
    BY <1>4, <2>4, <2>5 DEF Recover
<1>5. CASE ~ (Pending /\ Matches(attempts[n].op, inv[p].op))
  <2>1. Exit(p) /\ UNCHANGED attempts
    BY <1>5 DEF Recover
  <2>2. HostOk' /\ AttemptsOk' /\ Forward
    BY <1>1, <2>1, WorldStands DEF CoordinatorOk
  <2>3. QED
    BY <1>1, <1>3, <2>1, <2>2, RestStep
<1>6. QED
  BY <1>4, <1>5

-----------------------------------------------------------------------------
(* The alert, and the end of the command.                                  *)

LEMMA NotSentKeeps ==
  ASSUME CoordinatorOk, NEW p \in Slots, NotSent(p) \/ Report(p)
  PROVE  CoordinatorOk'
<1>1. HostOk' /\ AttemptsOk' /\ Forward /\ \A q \in Slots : Spared(q)
  BY WorldStands DEF NotSent, Report, CoordinatorOk
<1>2. QED
  BY <1>1, RestStep DEF NotSent, Report

\* Only the delivery of p changes.
LEMMA DeliveryOf ==
  ASSUME IInv, NEW p \in Slots, NEW d, delivery' = [delivery EXCEPT ![p] = d],
         \A q \in Slots \ {p} : inv'[q] = inv[q]
  PROVE  delivery'[p] = d /\ \A q \in Slots \ {p} : Mailing(q)'
BY DEF IInv, CustodyOk, CoordinatorOk, Mailing

LEMMA EndsDelivery ==
  ASSUME IInv, NEW p \in Slots, Exit(p), UNCHANGED <<now, done, attempts>>,
         partial' \in BOOLEAN, delivery' = [delivery EXCEPT ![p] = NoDelivery]
  PROVE  CoordinatorOk'
<1>1. PICK state : Resting(state) /\ Become(p, state)
  BY Rests
<1>2. \A q \in Slots \ {p} : inv'[q] = inv[q]
  BY <1>1 DEF Become, IInv, CoordinatorOk
<1>3. HostOk' /\ AttemptsOk'
  BY DEF IInv, CoordinatorOk, HostOk, AttemptsOk
<1>4. Forward /\ \A q \in Slots : Spared(q)
  <2>1. done \in Nat /\ Len(attempts) \in Nat
    BY StepsAreNumbers DEF IInv, CoordinatorOk, HostOk, AttemptsOk
  <2>2. QED
    BY <2>1 DEF Forward, Spared
<1>5. QED
  BY <1>1, <1>2, <1>3, <1>4, DeliveryOf, RestKeeps DEF IInv

LEMMA DeliverKeeps ==
  ASSUME IInv, NEW p \in Slots, Deliver(p)
  PROVE  CoordinatorOk'
<1> DEFINE s == [inv[p] EXCEPT !.pc = "mailing"]
<1>1. /\ inv[p].pc = "alerting" /\ UNCHANGED <<world, attempts>>
      /\ UNCHANGED <<now, done, attempts>>
  BY DEF Deliver, world
<1>2. partial' \in BOOLEAN
  BY DEF Deliver, world, IInv, CoordinatorOk, HostOk
<1>3. HostOk' /\ AttemptsOk' /\ Forward /\ \A q \in Slots : Spared(q)
  BY <1>1, WorldStands DEF IInv, CoordinatorOk
<1>4. CASE OpenDelivery(p, inv[p].key) /\ Become(p, s)
  <2>1. /\ inv'[p] = s
        /\ \A q \in Slots \ {p} : inv'[q] = inv[q]
    BY <1>4 DEF Become, IInv, CoordinatorOk
  <2>2. /\ delivery'[p] = [step |-> "calling", key |-> inv[p].key]
        /\ \A q \in Slots \ {p} : Mailing(q)'
    BY <1>4, <2>1, DeliveryOf DEF OpenDelivery
  <2>3. /\ DOMAIN s = Fields /\ s.pc = "mailing" /\ s.plan = inv[p].plan /\ s.op = inv[p].op
    BY DEF IInv, CoordinatorOk, InvOk, Fields
  <2>4. Mailing(p)'
    BY <2>1, <2>2, <2>3 DEF Mailing, NoDelivery
  <2>5. (inv[p].plan.done \in 0 .. done)' /\ (inv[p].op \in Nat)'
    BY <1>1, <2>1, <2>3 DEF IInv, CoordinatorOk, InvOk
  <2>6. InvOk(p)'
    BY <2>1, <2>3, <2>5 DEF InvOk, Calls, Acts, Recovers, Executed, Working
  <2>7. QED
    BY <1>3, <1>4, <2>2, <2>3, <2>4, <2>6, ProcessKeeps DEF IInv, Working
<1>5. CASE TearStart(p, inv[p].key) /\ Exit(p)
  <2>1. UNCHANGED delivery /\ delivery[p] = NoDelivery
    BY <1>1, <1>5 DEF TearStart, IInv, CoordinatorOk, Mailing
  <2>2. delivery' = [delivery EXCEPT ![p] = NoDelivery]
    BY <2>1 DEF IInv, CustodyOk
  <2>3. QED
    BY <1>1, <1>2, <1>5, <2>2, EndsDelivery
<1>6. QED
  BY <1>4, <1>5 DEF Deliver

LEMMA MailingKeeps ==
  ASSUME IInv, NEW p \in Slots, Mail(p)
  PROVE  CoordinatorOk'
<1>1. inv[p].pc = "mailing" /\ UNCHANGED <<now, done, attempts>> /\ UNCHANGED partial
  BY DEF Mail, world
<1>2. partial' \in BOOLEAN
  BY DEF Mail, world, IInv, CoordinatorOk, HostOk
<1>3. CASE (RejectMail(p) \/ AcceptMail(p)) /\ UNCHANGED inv
  <2>1. delivery[p] = [step |-> delivery[p].step, key |-> delivery[p].key]
    BY <1>1, HolderFinds DEF IInv, CoordinatorOk, Mailing
  <2>2. PICK step \in {"failed", "delivered"} : delivery' = [delivery EXCEPT ![p].step = step]
    BY <1>3 DEF RejectMail, AcceptMail
  <2>3. delivery' = [delivery EXCEPT ![p] = [step |-> step, key |-> delivery[p].key]]
    <3>1. [delivery[p] EXCEPT !.step = step] = [step |-> step, key |-> delivery[p].key]
      BY <2>1
    <3>2. QED
      BY <2>2, <3>1
  <2>4. /\ delivery'[p] = [step |-> step, key |-> delivery[p].key]
        /\ \A q \in Slots \ {p} : Mailing(q)'
    BY <1>3, <2>3, DeliveryOf
  <2>5. Mailing(p)'
    BY <1>1, <1>3, <2>4 DEF Mailing, NoDelivery
  <2>6. HostOk' /\ AttemptsOk' /\ OneWorker' /\ \A q \in Slots : InvOk(q)'
    BY <1>1, <1>2, <1>3 DEF IInv, CoordinatorOk, HostOk, AttemptsOk, OneWorker, InvOk, Calls,
                            Acts, Recovers, Executed, Pending
  <2>7. QED
    BY <1>3, <2>4, <2>5, <2>6 DEF IInv, CoordinatorOk
<1>4. CASE (LoseAnswer(p) \/ Settle(p)) /\ Exit(p)
  BY <1>1, <1>2, <1>4, EndsDelivery DEF LoseAnswer, Settle
<1>5. QED
  BY <1>3, <1>4 DEF Mail

LEMMA KillKeeps ==
  ASSUME IInv, NEW p \in Slots, Kill(p)
  PROVE  CoordinatorOk'
<1>1. /\ Exit(p) /\ UNCHANGED <<now, done, attempts>>
      /\ delivery' = [delivery EXCEPT ![p] = NoDelivery]
  BY DEF Kill, Abandon
<1>2. partial' \in BOOLEAN
  BY DEF Kill, IInv, CoordinatorOk, HostOk
<1>3. QED
  BY <1>1, <1>2, EndsDelivery

\* Around the command, only the clock and what is left half done change.
LEMMA AroundKeeps ==
  ASSUME CoordinatorOk, Clear \/ Tick \/ UNCHANGED vars
  PROVE  CoordinatorOk'
<1>1. UNCHANGED <<done, attempts, inv>> /\ UNCHANGED delivery
  BY DEF Clear, Tick, vars, custody
<1>2. partial' \in BOOLEAN
  BY DEF Clear, Tick, vars, CoordinatorOk, HostOk
<1>3. now' \in 0 .. MaxTime
  <2>1. now' = now \/ (now < MaxTime /\ now' = now + 1)
    BY DEF Clear, Tick, vars
  <2>2. QED
    BY <2>1, StepsAreNumbers DEF CoordinatorOk, HostOk
<1>4. HostOk' /\ AttemptsOk' /\ OneWorker'
  BY <1>1, <1>2, <1>3 DEF CoordinatorOk, HostOk, AttemptsOk, OneWorker
<1>5. \A q \in Slots : InvOk(q)' /\ Mailing(q)'
  BY <1>1 DEF CoordinatorOk, InvOk, Calls, Acts, Recovers, Executed, Pending, Mailing
<1>6. QED
  BY <1>1, <1>4, <1>5 DEF CoordinatorOk

LEMMA IInvStep == IInv /\ [Next]_vars => IInv'
<1> SUFFICES ASSUME IInv, [Next]_vars PROVE CoordinatorOk'
  BY CustodyStep DEF IInv
<1>1. ASSUME NEW p \in Slots, Proceeds(p) PROVE CoordinatorOk'
  <2> USE DEF IInv
  <2>1. CASE SeesOpenAttempt(p) \/ SeesBlockedPlan(p) \/ SeesReview(p) \/ SeesOffline(p)
             \/ SeesAcquisition(p) \/ Rejected(p)
    BY <2>1, SeesOpenAttemptKeeps, SeesBlockedPlanKeeps, SeesReviewKeeps, SeesOfflineKeeps,
       SeesAcquisitionKeeps, RejectedKeeps
  <2>2. CASE Reserve(p) \/ Perform(p) \/ CallFails(p) \/ Record(p)
    BY <2>2, ReserveKeeps, PerformKeeps, CallFailsKeeps, RecordKeeps
  <2>3. CASE Begin(p) \/ Fill(p) \/ Complete(p) \/ ActionFails(p) \/ Finish(p)
    BY <2>3, BeginKeeps, FillKeeps, CompleteKeeps, ActionFailsKeeps, FinishKeeps
  <2>4. CASE Route(p) \/ Recover(p) \/ NotSent(p) \/ Report(p)
    BY <2>4, RouteKeeps, RecoverKeeps, NotSentKeeps
  <2>5. CASE Deliver(p) \/ Mail(p)
    BY <2>5, DeliverKeeps, MailingKeeps
  <2>6. QED
    BY <1>1, <2>1, <2>2, <2>3, <2>4, <2>5 DEF Proceeds
<1>2. ASSUME NEW p \in Slots, NEW mode \in ModesOf[p], Start(p, mode) PROVE CoordinatorOk'
  BY <1>2, StartKeeps DEF IInv
<1>3. ASSUME NEW p \in Slots, Kill(p) PROVE CoordinatorOk'
  BY <1>3, KillKeeps
<1>4. CASE Clear \/ Tick \/ UNCHANGED vars
  BY <1>4, AroundKeeps DEF IInv
<1>5. QED
  BY <1>1, <1>2, <1>3, <1>4 DEF Next

-----------------------------------------------------------------------------
(* The theorems.                                                           *)

\* IInv holds throughout: of the alerts, CustodyOk; of commands and journal, CoordinatorOk.
THEOREM Invariance == Spec => []IInv
BY CoordinatorStarts, IInvStep, PTL DEF Spec

\* The state of every command, of the journal and of the alerts stays well formed: in
\* particular, who works offline has the one open attempt, and who mails the alert lock.
THEOREM TypeCorrect == Spec => []TypeOK
<1>1. IInv => TypeOK
  <2> SUFFICES ASSUME IInv PROVE TypeOK
    OBVIOUS
  <2>1. /\ now \in 0 .. MaxTime /\ done \in {0} \cup Steps /\ partial \in BOOLEAN
        /\ Len(attempts) <= MaxAttempts
    BY DEF IInv, CoordinatorOk, HostOk
  <2>2. ASSUME NEW i \in DOMAIN attempts
        PROVE  attempts[i].op \in Steps /\ (attempts[i].outcome = "open" => i = Len(attempts))
    <3>1. attempts[i] \in Attempt
      BY DEF IInv, CoordinatorOk, AttemptsOk
    <3>2. attempts[i].op \in Steps
      BY <3>1 DEF Attempt
    <3>3. QED
      BY <3>2 DEF IInv, CoordinatorOk, AttemptsOk
  <2>3. ASSUME NEW p \in Slots
        PROVE  /\ inv[p].pc \in Working => Pending /\ inv[p].attempt = Len(attempts)
               /\ inv[p].pc = "mailing" <=> delivery[p] # NoDelivery
    BY DEF IInv, CoordinatorOk, InvOk, Acts, Mailing
  <2>4. ASSUME NEW k \in DOMAIN alerts
        PROVE  alerts[k].journal \in {"torn", "started", "delivered", "failed"}
    BY DEF IInv, CustodyOk, AlertOk
  <2>5. QED
    BY <2>1, <2>2, <2>3, <2>4 DEF TypeOK
<1>2. QED
  BY <1>1, Invariance, PTL

\* What a command prints of its transition is so: the attempt is closed, a recovery
\* closed that attempt and no other, and of any other command the result is in place
\* (_capability_result, _evidence of the router).
THEOREM ReportsTheTruth == Spec => []ExecutedIsTrue
<1>1. IInv => ExecutedIsTrue
  BY DEF IInv, CoordinatorOk, InvOk, Executed, ExecutedIsTrue
<1>2. QED
  BY <1>1, Invariance, PTL

\* Whatever was read without the lock, an attempt that is opened is at the next
\* operation, of which nothing is there (execute_daily_eod_action, the reservations).
THEOREM NextIsStarted == Spec => StartsNextOnly
<1> DEFINE Opened == Len(attempts') > Len(attempts)
           Is == attempts'[Len(attempts')].op = done + 1 /\ ~ partial
<1>1. ASSUME IInv, NEW p \in Slots, Reserve(p), Opened PROVE Is
  <2>1. inv[p].pc = "reserving" /\ UNCHANGED world
    BY <1>1 DEF Reserve
  <2>2. inv[p].op \in Steps /\ inv[p].op <= done + 1 /\ inv[p].op \in Nat /\ done \in Nat
    BY <1>1, <2>1, StepsAreNumbers DEF IInv, CoordinatorOk, HostOk, InvOk, Calls
  <2>3. Len(attempts) \in Nat
    BY <1>1 DEF IInv, CoordinatorOk, AttemptsOk
  <2>4. Reservable(p)
    BY <1>1, <2>3 DEF Reserve
  <2>5. /\ Open(inv[p].op) /\ done < inv[p].op /\ ~ partial
        /\ ~ Pending /\ Len(attempts) < MaxAttempts
    BY <1>1, <2>4 DEF Reserve, Reservable
  <2>6. attempts'[Len(attempts')].op = inv[p].op
    BY <1>1, <2>1, <2>2, <2>5, Opens DEF IInv, CoordinatorOk
  <2>7. inv[p].op = done + 1
    BY <2>2, <2>5
  <2>8. QED
    BY <2>5, <2>6, <2>7
<1>2. ASSUME IInv, NEW p \in Slots, Begin(p), Opened PROVE Is
  <2>1. inv[p].pc = "starting" /\ UNCHANGED world
    BY <1>2 DEF Begin
  <2>2. Len(attempts) \in Nat
    BY <1>2 DEF IInv, CoordinatorOk, AttemptsOk
  <2>3. /\ ~ Pending /\ Plan = inv[p].plan /\ Len(attempts) < MaxAttempts
        /\ Open(inv[p].op)
    BY <1>2, <2>2 DEF Begin
  <2>4. inv[p].op \in Steps /\ inv[p].op \in Nat
    BY <1>2, <2>1 DEF IInv, CoordinatorOk, InvOk, Acts
  <2>5. done = inv[p].op - 1 /\ ~ partial
    BY <1>2, <2>1, <2>3, BeginsNext DEF IInv
  <2>6. attempts'[Len(attempts')].op = inv[p].op
    BY <1>2, <2>1, <2>3, <2>4, Opens DEF IInv, CoordinatorOk
  <2>7. inv[p].op = done + 1
    BY <2>4, <2>5
  <2>8. QED
    BY <2>5, <2>6, <2>7
<1>3. ASSUME IInv, NEW outcome, Close(outcome) PROVE ~ Opened
  <2>1. DOMAIN attempts' = DOMAIN attempts /\ attempts \in Seq(Attempt)
    BY <1>3 DEF Close, IInv, CoordinatorOk, AttemptsOk
  <2>2. Len(attempts') = Len(attempts) /\ Len(attempts) \in Nat
    BY <1>3 DEF Close, IInv, CoordinatorOk, AttemptsOk
  <2>3. QED
    BY <2>2
<1>4. ASSUME IInv, UNCHANGED attempts PROVE ~ Opened
  BY <1>4 DEF IInv, CoordinatorOk, AttemptsOk
<1>5. ASSUME IInv, NEW p \in Slots, Proceeds(p), Opened PROVE Is
  <2>1. CASE SeesOpenAttempt(p) \/ SeesBlockedPlan(p) \/ SeesReview(p) \/ SeesOffline(p)
             \/ SeesAcquisition(p) \/ Rejected(p) \/ Route(p) \/ NotSent(p) \/ Report(p)
    BY <1>4, <1>5, <2>1 DEF SeesOpenAttempt, SeesBlockedPlan, SeesReview, SeesOffline,
                            SeesAcquisition, Rejected, Route, NotSent, Report
  <2>2. CASE Perform(p) \/ CallFails(p) \/ Fill(p) \/ Complete(p) \/ Deliver(p) \/ Mail(p)
    BY <1>4, <1>5, <2>2 DEF Perform, CallFails, Fill, Complete, Deliver, Mail
  <2>3. CASE Record(p) \/ Recover(p) \/ ActionFails(p) \/ Finish(p)
    BY <1>3, <1>4, <1>5, <2>3 DEF Record, Recover, ActionFails, Finish
  <2>4. QED
    BY <1>1, <1>2, <1>5, <2>1, <2>2, <2>3 DEF Proceeds
<1>6. IInv /\ [Next]_vars => [Opened => Is]_vars
  <2> SUFFICES ASSUME IInv, Next, Opened PROVE Is
    OBVIOUS
  <2>1. CASE Clear \/ Tick
    BY <1>4, <2>1 DEF Clear, Tick
  <2>2. ASSUME NEW p \in Slots, Kill(p) PROVE Is
    BY <1>4, <2>2 DEF Kill
  <2>3. ASSUME NEW p \in Slots, NEW mode \in ModesOf[p], Start(p, mode) PROVE Is
    BY <1>4, <2>3 DEF Start
  <2>4. QED
    BY <1>5, <2>1, <2>2, <2>3 DEF Next
<1>7. QED
  BY <1>6, Invariance, PTL DEF Spec, StartsNextOnly
=============================================================================
