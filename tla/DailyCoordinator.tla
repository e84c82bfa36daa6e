--------------------------- MODULE DailyCoordinator ---------------------------
(***************************************************************************)
(* The command that makes one transition of the daily run: the coordinator *)
(* (daily_eod_coordinator.py) with the capabilities it may be given, the   *)
(* recovery router (daily_eod_recovery_router.py), and the alert its       *)
(* result calls for (daily_eod_alerting.py), which AlertCustody delivers   *)
(* (composed in daily_eod_coordinator_cli.py).                             *)
(*                                                                         *)
(* The command plans before it looks at the journal, looks at the journal  *)
(* before it acts, and holds no lock in between; several may be running,   *)
(* and any may be killed.  What an operation does is told by how far the   *)
(* run has got and whether the next operation is half done; the custody    *)
(* of each family is modelled in Acquisition, CanonicalApply, DailyChain,  *)
(* PointerPublication and OciDeployment.                                   *)
(***************************************************************************)
EXTENDS AlertCustody, Sequences, FiniteSets

CONSTANTS
  ModesOf,      \* how each process may be started
  Operations,   \* the operations of the run by family, each fetch before its apply
  HandMade,     \* operations that may be done by hand before the first command
  Due,          \* when the first fetch is due
  Deadline,     \* close_at + deadline_after_close_seconds
  RetryDelay,   \* retry_delay_seconds
  MaxFetches,   \* maximum_attempt_count
  MaxTime,      \* bound: the clock stops here
  MaxAttempts,  \* bound: attempts in the journal
  MaxFaults      \* bound: processes killed, operations and mails that fail

Steps == DOMAIN Operations
Families == {"fetch", "apply", "offline", "review"}

ASSUME CoordinatorAssumption ==
  /\ ModesOf \in [Slots -> SUBSET {"observe", "recover", "authorized", "review"}]
  /\ Operations \in Seq(Families)
  /\ \A k \in Steps : Operations[k] = "fetch" => k + 1 \in Steps /\ Operations[k + 1] = "apply"
  /\ HandMade \subseteq {0} \cup {k \in Steps : Operations[k] # "fetch"}
  /\ Due \in Nat /\ Deadline \in Nat /\ RetryDelay \in Nat
  /\ MaxFetches \in Nat \ {0} /\ MaxTime \in Nat /\ MaxAttempts \in Nat /\ MaxFaults \in Nat

VARIABLES
  now,       \* the host's clock
  done,      \* the last operation whose result is in place
  partial,   \* the next operation left something half done
  attempts,  \* the journal: attempts, an open one last
  inv,       \* the invocation each process is in
  faults     \* of those, so far

vars == <<now, done, partial, attempts, inv, faults, custody>>
world == <<now, done, partial>>

NoPlan == [done |-> 0, blocked |-> FALSE]
Idle == [pc |-> "idle", mode |-> "observe", checked |-> 0, plan |-> NoPlan, fetches |-> 0,
         op |-> 0, attempt |-> 0, closed |-> 0, outcome |-> "none", key |-> NoKey]

-----------------------------------------------------------------------------
(* What the command reads.                                                 *)

\* plan_daily_eod_automation: a package or what custody half did is not seen; an
\* offline artifact half written blocks.
Plan ==
  [done |-> IF done \in Steps /\ Operations[done] = "fetch" THEN done - 1 ELSE done,
   blocked |-> partial /\ Operations[done + 1] = "offline"]

Pending == attempts # <<>> /\ attempts[Len(attempts)].outcome = "open"

\* A process is in an offline action, which keeps the journal lock throughout.
Working == {"writing", "filling", "written"}
JournalFree == \A p \in Slots : inv[p].pc \notin Working

\* acquisition_attempts_from_events, for the action the plan stands at.
Fetches(plan) == {i \in DOMAIN attempts : attempts[i].op = plan.done + 1}
Fetched(plan) ==
  \E i \in Fetches(plan) : attempts[i].outcome \in {"succeeded", "recovered_succeeded"}

\* The plan stands where a session is to be acquired.
Acquiring(plan) == plan.done + 1 \in Steps /\ Operations[plan.done + 1] = "fetch"

\* The one operation that plan and journal call for.
Called(plan) == IF Acquiring(plan) /\ Fetched(plan) THEN plan.done + 2 ELSE plan.done + 1

\* plan_daily_eod_readiness, short of operator reviews.
Readiness(plan, checked) ==
  LET n == Cardinality(Fetches(plan))
      last == CHOOSE i \in Fetches(plan) : \A j \in Fetches(plan) : j <= i
  IN  IF checked < Due THEN "wait"
      ELSE IF Fetched(plan) THEN "apply"
      ELSE IF n = 0 THEN "fetch"
      ELSE IF attempts[last].outcome \in {"failed", "recovery_blocked"} \/ n >= MaxFetches
      THEN "diagnosis"
      ELSE IF checked < attempts[last].at + RetryDelay THEN "wait"
      ELSE "fetch"

-----------------------------------------------------------------------------
(* coordinate_daily_eod_transition up to its decision.                     *)

Fault == faults < MaxFaults /\ faults' = faults + 1
Become(p, state) == inv' = [inv EXCEPT ![p] = state]
Exit(p) == Become(p, Idle)

\* The CLI is started and the planner runs; checked_at is the time of the call, and
\* only readiness asks for it.
Start(p, mode) ==
  /\ inv[p] = Idle
  /\ mode \in ModesOf[p]
  /\ Become(p, [inv[p] EXCEPT !.pc = "planned", !.mode = mode, !.plan = Plan,
                           !.checked = IF Acquiring(Plan) THEN now ELSE 0])
  /\ UNCHANGED <<world, attempts, faults, custody>>

\* The identity of an alert: what the result's fingerprint covers.  No wall clock,
\* but the readiness plan, whose own fingerprint covers checked_at.
Key(category, plan, op, attempt) ==
  [category |-> category, plan |-> plan, op |-> op, attempt |-> attempt,
   checked |-> 0, fetches |-> 0]
ReadinessKey(category, plan, attempt, checked, fetches) ==
  [Key(category, plan, 0, attempt) EXCEPT !.checked = checked, !.fetches = fetches]

\* plan_daily_eod_alert.  The review modes cannot be given an email.
Alert(p, key) ==
  IF inv[p].mode = "review" THEN Exit(p)
  ELSE Become(p, [Idle EXCEPT !.pc = "alerting", !.key = key])

\* _read_journal_events, under the lock for as long as it takes to read.
Reads(p) == inv[p].pc = "planned" /\ JournalFree
Ready(p) == Reads(p) /\ ~ Pending /\ ~ inv[p].plan.blocked
Family(p) ==
  IF inv[p].plan.done + 1 \in Steps THEN Operations[inv[p].plan.done + 1] ELSE "none"

\* An open attempt: reported, or recovered when that was asked for.
SeesOpenAttempt(p) ==
  LET last == Len(attempts)
  IN  /\ Reads(p)
      /\ Pending
      /\ IF inv[p].mode = "recover"
         THEN Become(p, [inv[p] EXCEPT !.pc = "routing", !.attempt = last,
                                     !.op = attempts[last].op])
         ELSE Alert(p, Key("interrupted", inv[p].plan, attempts[last].op, 0))
      /\ UNCHANGED <<world, attempts, faults, custody>>

\* Mutant of SeesBlockedPlan: the plan is looked at before the journal.
SeesBlockedPlanFirst(p) ==
  /\ Reads(p)
  /\ inv[p].plan.blocked
  /\ Alert(p, Key("blocked", inv[p].plan, 0, 0))
  /\ UNCHANGED <<world, attempts, faults, custody>>

SeesBlockedPlan(p) ==
  /\ Reads(p)
  /\ ~ Pending
  /\ inv[p].plan.blocked
  /\ Alert(p, Key("blocked", inv[p].plan, 0, 0))
  /\ UNCHANGED <<world, attempts, faults, custody>>

\* At a review boundary, or past the last: only the review mode acts, and only there.
SeesReview(p) ==
  /\ Ready(p)
  /\ Family(p) \in {"review", "none"}
  /\ IF Family(p) = "review" /\ inv[p].mode = "review"
     THEN Become(p, [inv[p] EXCEPT !.pc = "reserving", !.op = Called(inv[p].plan)])
     ELSE Exit(p)
  /\ UNCHANGED <<world, attempts, faults, custody>>

SeesOffline(p) ==
  /\ Ready(p)
  /\ Family(p) = "offline"
  /\ IF inv[p].mode = "authorized"
     THEN Become(p, [inv[p] EXCEPT !.pc = "starting", !.op = Called(inv[p].plan)])
     ELSE Exit(p)
  /\ UNCHANGED <<world, attempts, faults, custody>>

\* At an acquisition the readiness policy decides, on the events just read.
SeesAcquisition(p) ==
  LET checked == inv[p].checked
      due == Readiness(inv[p].plan, checked)
      fetches == Cardinality(Fetches(inv[p].plan))
  IN  /\ Ready(p)
      /\ Family(p) = "fetch"
      /\ IF inv[p].mode = "review" \/ due = "wait" THEN Exit(p)
         ELSE IF due = "diagnosis"
         THEN Alert(p, ReadinessKey("blocked", inv[p].plan, 0, checked, fetches))
         ELSE IF inv[p].mode = "authorized"
         THEN Become(p, [inv[p] EXCEPT !.pc = "reserving", !.op = Called(inv[p].plan),
                                     !.fetches = fetches])
         ELSE IF due = "fetch" /\ checked > Deadline
         THEN Alert(p, ReadinessKey("missed_session", inv[p].plan, 0, checked, fetches))
         ELSE Exit(p)
      /\ UNCHANGED <<world, attempts, faults, custody>>

\* The journal lock is held elsewhere: the command is rejected.
Rejected(p) ==
  /\ ~ JournalFree
  /\ inv[p].pc \in {"planned", "routing", "recovering", "reserving", "answered", "starting"}
  /\ Exit(p)
  /\ UNCHANGED <<world, attempts, faults, custody>>

-----------------------------------------------------------------------------
(* A capability: reserve, act without the lock, record.                    *)

Open(op) ==
  attempts' = Append(attempts, [op |-> op, outcome |-> "open",
                                at |-> IF Operations[op] = "fetch" THEN now ELSE 0])

\* Append the terminal event of the attempt now open.
Close(outcome) == attempts' = [attempts EXCEPT ![Len(attempts)].outcome = outcome]

\* Mutant of Reservable: an open attempt does not stand in the way.
ReservableOverPending(p) ==
  LET op == inv[p].op
  IN  /\ done < op
      /\ ~ partial
      /\ Operations[op] \in {"fetch", "apply"} =>
           Cardinality(Fetches(inv[p].plan)) = inv[p].fetches
      /\ Operations[op] # "fetch" => Plan = inv[p].plan
      /\ Len(attempts) < MaxAttempts

\* Under the lock: nothing is open, the result is not there, nothing half done is in
\* its way, and the plan or the readiness made again is the one read before.
Reservable(p) ==
  LET op == inv[p].op
  IN  /\ ~ Pending
      /\ done < op
      /\ ~ partial
      /\ Operations[op] \in {"fetch", "apply"} =>
           Cardinality(Fetches(inv[p].plan)) = inv[p].fetches
      /\ Operations[op] # "fetch" => Plan = inv[p].plan
      /\ Len(attempts) < MaxAttempts

Reserve(p) ==
  /\ inv[p].pc = "reserving"
  /\ JournalFree
  /\ IF Reservable(p)
     THEN /\ Open(inv[p].op)
          /\ Become(p, [inv[p] EXCEPT !.pc = "calling", !.attempt = Len(attempts) + 1])
     ELSE Exit(p) /\ UNCHANGED attempts
  /\ UNCHANGED <<world, faults, custody>>

\* The operation does what it is for, unless another has done it.
Perform(p) ==
  /\ inv[p].pc = "calling"
  /\ done = inv[p].op - 1
  /\ ~ partial
  /\ done' = inv[p].op
  /\ Become(p, [inv[p] EXCEPT !.pc = "answered", !.outcome = "succeeded"])
  /\ UNCHANGED <<now, partial, attempts, faults, custody>>

\* A fetch that fails is recorded as such; any other failure leaves the attempt open.
CallFails(p) ==
  /\ inv[p].pc = "calling"
  /\ \/ /\ Operations[inv[p].op] = "fetch"
        /\ Become(p, [inv[p] EXCEPT !.pc = "answered", !.outcome = "waiting"])
        /\ UNCHANGED faults
     \/ /\ Fault
        /\ IF Operations[inv[p].op] = "fetch"
           THEN Become(p, [inv[p] EXCEPT !.pc = "answered", !.outcome = "failed"])
           ELSE Exit(p)
  /\ UNCHANGED <<world, attempts, custody>>

\* The result is looked for before success is recorded, its absence before failure.
Proven(p) ==
  IF inv[p].outcome = "succeeded" THEN done >= inv[p].op ELSE done < inv[p].op /\ ~ partial

\* The recorders compare the inputs of the open attempt, which every attempt at this
\* operation shares, not the attempt.
Record(p) ==
  /\ inv[p].pc = "answered"
  /\ JournalFree
  /\ IF Pending /\ attempts[Len(attempts)].op = inv[p].op /\ Proven(p)
     THEN /\ Close(inv[p].outcome)
          /\ CASE inv[p].outcome = "succeeded" ->
                    Become(p, [inv[p] EXCEPT !.pc = "executed", !.closed = Len(attempts)])
               [] inv[p].outcome = "waiting" -> Exit(p)
               [] inv[p].outcome = "failed" ->
                    Alert(p, ReadinessKey("blocked", inv[p].plan, Len(attempts),
                                          inv[p].checked, inv[p].fetches))
     ELSE Exit(p) /\ UNCHANGED attempts
  /\ UNCHANGED <<world, faults, custody>>

-----------------------------------------------------------------------------
(* An offline action: execute_daily_eod_action, in one hold of the lock.   *)

\* Mutant of Begin: the caller's plan is not made again under the lock.
BeginAsPlanned(p) ==
  /\ inv[p].pc = "starting"
  /\ JournalFree
  /\ IF ~ Pending /\ Len(attempts) < MaxAttempts
     THEN /\ Open(inv[p].op)
          /\ Become(p, [inv[p] EXCEPT !.pc = "writing", !.attempt = Len(attempts) + 1])
     ELSE Exit(p) /\ UNCHANGED attempts
  /\ UNCHANGED <<world, faults, custody>>

Begin(p) ==
  /\ inv[p].pc = "starting"
  /\ JournalFree
  /\ IF ~ Pending /\ Plan = inv[p].plan /\ Len(attempts) < MaxAttempts
     THEN /\ Open(inv[p].op)
          /\ Become(p, [inv[p] EXCEPT !.pc = "writing", !.attempt = Len(attempts) + 1])
     ELSE Exit(p) /\ UNCHANGED attempts
  /\ UNCHANGED <<world, faults, custody>>

Fill(p) ==
  /\ inv[p].pc = "writing"
  /\ partial' = TRUE
  /\ Become(p, [inv[p] EXCEPT !.pc = "filling"])
  /\ UNCHANGED <<now, done, attempts, faults, custody>>

Complete(p) ==
  /\ inv[p].pc = "filling"
  /\ partial' = FALSE
  /\ done' = inv[p].op
  /\ Become(p, [inv[p] EXCEPT !.pc = "written"])
  /\ UNCHANGED <<now, attempts, faults, custody>>

ActionFails(p) ==
  /\ inv[p].pc \in {"writing", "filling"}
  /\ Fault
  /\ Close("failed")
  /\ Alert(p, Key("blocked", inv[p].plan, 0, Len(attempts)))
  /\ UNCHANGED <<world, custody>>

Finish(p) ==
  /\ inv[p].pc = "written"
  /\ Close("succeeded")
  /\ Become(p, [inv[p] EXCEPT !.pc = "executed", !.closed = Len(attempts)])
  /\ UNCHANGED <<world, faults, custody>>

-----------------------------------------------------------------------------
(* The recovery router.                                                    *)

\* The open attempt is still the one the coordinator saw.
Route(p) ==
  /\ inv[p].pc = "routing"
  /\ JournalFree
  /\ IF Pending /\ Len(attempts) = inv[p].attempt
     THEN Become(p, [inv[p] EXCEPT !.pc = "recovering"])
     ELSE Exit(p)
  /\ UNCHANGED <<world, attempts, faults, custody>>

\* What each family finds of operation op, without doing it again.
Recovered(op) ==
  IF done >= op THEN "recovered_succeeded"
  ELSE IF partial THEN "recovery_blocked"
  ELSE "recovered_not_completed"

\* The recoverer finds the open attempt one that its own inputs match; offline actions
\* share theirs.
Matches(open, seen) ==
  \/ open = seen
  \/ Operations[open] = "offline" /\ Operations[seen] = "offline"

\* Mutant of Evidenced: the attempt that was closed is not compared.
AnyEvidence(p) == TRUE

\* _evidence: what was closed is the attempt the coordinator saw.
Evidenced(p) == Len(attempts) = inv[p].attempt

\* The recoverer takes the lock again; only then is its evidence compared.
Recover(p) ==
  LET last == Len(attempts)
      outcome == Recovered(attempts[last].op)
  IN  /\ inv[p].pc = "recovering"
      /\ JournalFree
      /\ IF Pending /\ Matches(attempts[last].op, inv[p].op)
         THEN /\ Close(outcome)
              /\ IF ~ Evidenced(p) THEN Exit(p)
                 ELSE IF outcome = "recovery_blocked"
                 THEN Alert(p, Key("blocked", inv[p].plan, 0, last))
                 ELSE Become(p, [inv[p] EXCEPT !.pc = "executed", !.closed = Len(attempts)])
         ELSE Exit(p) /\ UNCHANGED attempts
      /\ UNCHANGED <<world, faults, custody>>

-----------------------------------------------------------------------------
(* The alert, and the end of the command.                                  *)

\* Mailed already, refused, or the alert lock is held: nothing is sent.
NotSent(p) ==
  /\ inv[p].pc = "alerting"
  /\ Refused(inv[p].key)
  /\ Exit(p)
  /\ UNCHANGED <<world, attempts, faults, custody>>

Deliver(p) ==
  /\ inv[p].pc = "alerting"
  /\ \/ /\ OpenDelivery(p, inv[p].key)
        /\ Become(p, [inv[p] EXCEPT !.pc = "mailing"])
        /\ UNCHANGED faults
     \/ TearStart(p, inv[p].key) /\ Exit(p) /\ Fault
  /\ UNCHANGED <<world, attempts>>

Mail(p) ==
  /\ inv[p].pc = "mailing"
  /\ \/ RejectMail(p) /\ Fault /\ UNCHANGED inv
     \/ AcceptMail(p) /\ UNCHANGED <<inv, faults>>
     \/ LoseAnswer(p) /\ Fault /\ Exit(p)
     \/ Settle(p) /\ Exit(p) /\ UNCHANGED faults
  /\ UNCHANGED <<world, attempts>>

\* transition_executed is printed.
Report(p) ==
  /\ inv[p].pc = "executed"
  /\ Exit(p)
  /\ UNCHANGED <<world, attempts, faults, custody>>

\* The process dies.  An operation between its reservation and its record may be half
\* done.
Kill(p) ==
  /\ inv[p].pc \notin {"idle", "executed"}
  /\ Fault
  /\ Exit(p)
  /\ \/ UNCHANGED partial
     \/ inv[p].pc = "calling" /\ done = inv[p].op - 1 /\ partial' = TRUE
  /\ Abandon(p)
  /\ UNCHANGED <<now, done, attempts>>

-----------------------------------------------------------------------------
(* Around the command.                                                     *)

\* The operator clears what a dead process left half done.
Clear ==
  /\ partial
  /\ \A p \in Slots : inv[p].pc \notin Working
  /\ partial' = FALSE
  /\ UNCHANGED <<now, done, attempts, inv, faults, custody>>

Tick ==
  /\ now < MaxTime
  /\ now' = now + 1
  /\ UNCHANGED <<done, partial, attempts, inv, faults, custody>>

Init ==
  /\ now = 0
  /\ done \in HandMade
  /\ partial = FALSE
  /\ attempts = <<>>
  /\ inv = [p \in Slots |-> Idle]
  /\ faults = 0
  /\ CustodyInit

Proceeds(p) ==
  \/ SeesOpenAttempt(p) \/ SeesBlockedPlan(p) \/ SeesReview(p) \/ SeesOffline(p)
  \/ SeesAcquisition(p) \/ Rejected(p)
  \/ Reserve(p) \/ Perform(p) \/ CallFails(p) \/ Record(p)
  \/ Begin(p) \/ Fill(p) \/ Complete(p) \/ ActionFails(p) \/ Finish(p)
  \/ Route(p) \/ Recover(p)
  \/ NotSent(p) \/ Deliver(p) \/ Mail(p) \/ Report(p)

Next ==
  \/ Tick \/ Clear
  \/ \E p \in Slots : Proceeds(p) \/ Kill(p) \/ \E mode \in ModesOf[p] : Start(p, mode)

\* A process goes on with its command until it ends.  Nothing in the repository starts
\* the command: the timer of ADR 0078 and ADR 0079 runs a planner that only reads, and
\* the wake bridge of ADR 0077 delivers no alert.
Fairness == \A p \in Slots : WF_vars(Proceeds(p))

Spec == Init /\ [][Next]_vars /\ Fairness

-----------------------------------------------------------------------------
(* Properties.                                                             *)

TypeOK ==
  /\ now \in 0 .. MaxTime /\ done \in {0} \cup Steps /\ partial \in BOOLEAN
  /\ \A i \in DOMAIN attempts :
       /\ attempts[i].op \in Steps
       /\ attempts[i].outcome = "open" => i = Len(attempts)
  /\ Len(attempts) <= MaxAttempts
  /\ \A p \in Slots :
       /\ inv[p].pc \in Working => Pending /\ inv[p].attempt = Len(attempts)
       /\ inv[p].pc = "mailing" <=> delivery[p] # NoDelivery
  /\ \A k \in DOMAIN alerts : alerts[k].journal \in {"torn", "started", "delivered", "failed"}

\* transition_executed is true: the attempt it names is closed; a recovery has closed
\* that very attempt, and an action finds its result in place.
ExecutedIsTrue ==
  \A p \in Slots : inv[p].pc = "executed" =>
    LET a == attempts[inv[p].attempt]
    IN  /\ a.outcome # "open"
        /\ inv[p].mode = "recover" => inv[p].closed = inv[p].attempt
        /\ inv[p].mode # "recover" => done >= inv[p].op

\* Plan and journal are read without a lock and may be stale by the time an attempt is
\* opened; yet it is at the next operation, not done by anyone and not half done.
StartsNextOnly ==
  [][Len(attempts') > Len(attempts) =>
       attempts'[Len(attempts')].op = done + 1 /\ ~ partial]_vars

\* The command is started again and again to observe: an assumption about whoever
\* operates it.
Asked == []<><<\E p \in Slots : Start(p, "observe")>>_vars

\* An alert that the operation of the open attempt is interrupted.
Tells(key) == key.category = "interrupted" /\ key.op = attempts[Len(attempts)].op

\* There is none, nor is one on its way: earlier attempts at the operation, if any, were
\* closed unnoticed.
Unheard ==
  /\ Pending
  /\ \A k \in DOMAIN alerts : ~ Tells(k)
  /\ \A p \in Slots : ~ Tells(inv[p].key)

Mailed == \E k \in DOMAIN alerts : Tells(k) /\ alerts[k].mails = 1

\* The one delivery of the alert came to nothing: its start or terminal event was cut
\* short, the mail was rejected, or the process has gone without an answer.
Spoilt ==
  \E k \in DOMAIN alerts :
    /\ Tells(k)
    /\ \/ alerts[k].journal \in {"torn", "failed"}
       \/ alerts[k].journal = "started" /\ \A p \in Slots : delivery[p].key # k

\* If someone keeps asking, then held locks, commands that act instead and processes
\* killed only delay the news of an open attempt: either the attempt is closed, or the
\* server takes a mail about it, or the one delivery there is fails.
InterruptionIsMailed == Asked => (Unheard ~> (~ Pending \/ Mailed \/ Spoilt))

\* What ADR 0039 says of its keys: seeing the same formal state again, later, gives
\* the same key.
SameStateSameKey ==
  \A j, k \in DOMAIN alerts :
    [j EXCEPT !.checked = 0] = [k EXCEPT !.checked = 0] => j = k
=============================================================================
