------------------------------ MODULE Acquisition ------------------------------
(***************************************************************************)
(* One session's provider fetch under custody: the readiness policy        *)
(* (daily_eod_readiness.py), reserve / record / recover                    *)
(* (daily_eod_acquisition_custody.py), the operator review, the capability *)
(* that fetches between reserve and record without any lock, and the       *)
(* package it publishes (providers/massive/same_day_catchup.py).           *)
(*                                                                         *)
(* An operation under the journal lock is one step here: RunJournal shows  *)
(* that its append is one step of a serial ledger.  The journal is kept as *)
(* what the custody projects from it, attempts and reviews.  Outcomes that *)
(* the policy treats alike are one: "retry" is not_ready, rate_limited and *)
(* transient_failure, "failed" is permanent_failure and quality_failure.   *)
(***************************************************************************)
EXTENDS Integers, Sequences

CONSTANTS
  Operators,      \* coordinator processes, any of which may be left running
  Close,          \* session_close
  Stabilization,  \* stabilization_delay_seconds
  Deadline,       \* close_at + deadline_after_close_seconds
  MaxAttempts,    \* maximum_attempt_count
  RetryDelay,     \* retry_delay_seconds
  RetryAfters,    \* Retry-After values a rate-limited response may carry
  MaxRetryAfter,  \* maximum_retry_after_seconds, also the bound that custody has
  BasicProfile,   \* it is the expected session's EOD under the basic profile: its
                  \* release window needs an operator review
  MaxPlanAge,     \* MAXIMUM_PLAN_AGE
  MaxReviewLead,  \* how far ahead a review may set not_before
  MaxTime         \* bound: the clock stops here

ASSUME PolicyAssumption ==
  /\ Close \in Nat \ {0} /\ Stabilization \in Nat /\ Deadline \in Nat
  /\ MaxAttempts \in Nat \ {0}
  /\ RetryDelay \in [1 .. MaxAttempts - 1 -> Nat \ {0}]
  /\ RetryAfters \subseteq Nat /\ 0 \in RetryAfters /\ MaxRetryAfter \in Nat
  /\ BasicProfile \in BOOLEAN
  /\ MaxPlanAge \in Nat /\ MaxReviewLead \in Nat /\ MaxTime \in Nat

VARIABLES
  now,        \* the host's clock
  lastEvent,  \* observed_at of the journal's last event
  attempts,   \* the acquisition attempts in the journal, an open one last
  reviews,    \* per attempt (0: before the first) its operator review
  package,    \* fetched_at of the published package, 0 when there is none
  staging,    \* the staging directory exists
  op,         \* what each operator process is doing
  sent        \* provider requests made

vars == <<now, lastEvent, attempts, reviews, package, staging, op, sent>>

Earliest == Close + Stabilization
Outcomes == {"retry", "failed", "ready"}
NoPlan == [checked |-> 0, status |-> "none", attempts |-> 0, reviews |-> {}]
Idle == [phase |-> "idle", plan |-> NoPlan, attempt |-> 0, outcome |-> "pending",
         retryAfter |-> 0, fetchedAt |-> 0]
NoReview == [at |-> 0, allows |-> FALSE, notBefore |-> 0]

Later(a, b) == IF a > b THEN a ELSE b
Pending == attempts # <<>> /\ attempts[Len(attempts)].outcome = "pending"
Reviewed == {i \in 0 .. MaxAttempts : reviews[i] # NoReview}

-----------------------------------------------------------------------------
(* plan_daily_eod_readiness                                                *)

\* A failed attempt needs a review that allows one more.
Forbidden(i) == attempts[i].outcome = "failed" /\ ~ reviews[i].allows

\* The bounded backoff behind attempt i.
BackoffEnds(i) == attempts[i].start + Later(RetryDelay[i], attempts[i].retryAfter)
RetryAt(i) ==
  IF attempts[i].outcome = "failed" THEN Later(BackoffEnds(i), reviews[i].notBefore)
  ELSE BackoffEnds(i)

\* Only a rate-limited answer has a Retry-After, and no more than the bound: asked of
\* an outcome before it is recorded and of every attempt before a plan.
RetryAfterOk(r) == r.retryAfter # 0 => r.outcome = "retry" /\ r.retryAfter <= MaxRetryAfter

\* _validate_attempts: whether attempt i may stand where it does.
AttemptOk(i, checked) ==
  LET a == attempts[i]
  IN  /\ a.start >= Earliest
      /\ a.start <= checked
      /\ RetryAfterOk(a)
      /\ i > 1 =>
           /\ attempts[i - 1].outcome # "ready"
           /\ ~ Forbidden(i - 1)
           /\ attempts[i - 1].outcome = "failed" => a.start >= reviews[i - 1].notBefore
           /\ a.start > attempts[i - 1].start
           /\ a.start >= attempts[i - 1].start
                         + Later(RetryDelay[i - 1], attempts[i - 1].retryAfter)

\* _validate_operator_reviews
ReviewOk(i, checked) ==
  LET r == reviews[i]
  IN  r # NoReview =>
        /\ r.at <= checked
        /\ r.notBefore >= r.at
        /\ r.notBefore <= r.at + MaxReviewLead
        /\ i > 0 => i \in DOMAIN attempts /\ attempts[i].outcome = "failed"
                                          /\ r.at >= attempts[i].start

HistoryOk(checked) ==
  /\ \A i \in DOMAIN attempts : AttemptOk(i, checked)
  /\ \A i \in 0 .. MaxAttempts : ReviewOk(i, checked)

DueStatus(checked) == IF checked > Deadline THEN "missedSession" ELSE "readyForFetch"

\* The decision before the first attempt.
FirstStatus(checked) ==
  IF reviews[0] = NoReview
  THEN IF BasicProfile THEN "awaitingReview" ELSE DueStatus(checked)
  ELSE IF ~ reviews[0].allows THEN "blocked"
  ELSE IF checked < reviews[0].notBefore THEN "waiting"
  ELSE DueStatus(checked)

\* Mutant of NextStatus: the attempt budget is off by one.
NextStatusOneMore(checked) ==
  LET n == Len(attempts)
  IN  IF attempts[n].outcome = "ready" THEN "readyForApply"
      ELSE IF n > MaxAttempts \/ Forbidden(n) THEN "blocked"
      ELSE IF n = MaxAttempts THEN DueStatus(checked)
      ELSE IF checked < RetryAt(n) THEN "waiting"
      ELSE DueStatus(checked)

\* _decision_after_attempts
NextStatus(checked) ==
  LET n == Len(attempts)
  IN  IF attempts[n].outcome = "ready" THEN "readyForApply"
      ELSE IF n >= MaxAttempts \/ Forbidden(n) THEN "blocked"
      ELSE IF checked < RetryAt(n) THEN "waiting"
      ELSE DueStatus(checked)

Status(checked) ==
  IF checked < Close THEN "waitingForClose"
  ELSE IF checked < Earliest THEN "stabilizing"
  ELSE IF attempts = <<>> THEN FirstStatus(checked)
  ELSE NextStatus(checked)

\* The plan as its logical_content_fingerprint tells plans apart.
Readiness(checked) ==
  [checked |-> checked, status |-> Status(checked), attempts |-> Len(attempts),
   reviews |-> Reviewed]
FetchDue == {"readyForFetch", "missedSession"}

-----------------------------------------------------------------------------
(* The coordinator and the capability it calls, one process per operator.  *)

Proceed(p, phase) == op' = [op EXCEPT ![p].phase = phase]

Tick ==
  /\ now < MaxTime
  /\ now' = now + 1
  /\ UNCHANGED <<lastEvent, attempts, reviews, package, staging, op, sent>>

\* coordinate_daily_eod_transition: read the events, find a fetch due.
PlanFetch(p) ==
  /\ op[p].phase = "idle"
  /\ ~ Pending
  /\ HistoryOk(now)
  /\ Status(now) \in FetchDue
  /\ op' = [op EXCEPT ![p] = [Idle EXCEPT !.phase = "planned", !.plan = Readiness(now)]]
  /\ UNCHANGED <<now, lastEvent, attempts, reviews, package, staging, sent>>

\* _validate_config(require_new_package): before the journal lock is taken.
CheckTarget(p) ==
  /\ op[p].phase = "planned"
  /\ package = 0
  /\ ~ staging
  /\ Proceed(p, "checked")
  /\ UNCHANGED <<now, lastEvent, attempts, reviews, package, staging, sent>>

\* Mutant of Unchanged: the plan is not made again under the lock.
PlanTrusted(plan) == ~ Pending

\* Under the lock, the same checked_at gives the same plan as before.
Unchanged(plan) == ~ Pending /\ HistoryOk(plan.checked) /\ Readiness(plan.checked) = plan

\* reserve_acquisition_attempt.  observed_at was read before the lock.
Reserve(p) ==
  LET plan == op[p].plan
  IN  /\ op[p].phase = "checked"
      /\ Unchanged(plan)
      /\ \E at \in plan.checked .. now :
          /\ at - plan.checked <= MaxPlanAge
          /\ at >= lastEvent
          /\ attempts' = Append(attempts, [start |-> at, outcome |-> "pending",
                                           retryAfter |-> 0, closer |-> 0])
          /\ lastEvent' = at
      /\ op' = [op EXCEPT ![p] = [Idle EXCEPT !.phase = "reserved",
                                              !.attempt = Len(attempts) + 1]]
      /\ UNCHANGED <<now, reviews, package, staging, sent>>

\* Mutant of Answer: Retry-After is kept in the wrong unit, beyond its bound.
AnswerInMinutes(p, outcome, retryAfter, fetchedAt) ==
  op' = [op EXCEPT ![p] =
           [@ EXCEPT !.phase = IF outcome = "ready" THEN "received" ELSE "answered",
                     !.outcome = outcome, !.retryAfter = 60 * retryAfter, !.fetchedAt = fetchedAt]]

\* What the capability will record.
Answer(p, outcome, retryAfter, fetchedAt) ==
  op' = [op EXCEPT ![p] =
           [@ EXCEPT !.phase = IF outcome = "ready" THEN "received" ELSE "answered",
                     !.outcome = outcome, !.retryAfter = retryAfter, !.fetchedAt = fetchedAt]]

\* The credential cannot be loaded, or the package already exists: no request.
RefuseRequest(p) ==
  /\ op[p].phase = "reserved"
  /\ Answer(p, "failed", 0, 0)
  /\ UNCHANGED <<now, lastEvent, attempts, reviews, package, staging, sent>>

\* The provider answers, with data or with an error the capability classifies.
Request(p) ==
  /\ op[p].phase = "reserved"
  /\ package = 0
  /\ sent' = sent + 1
  /\ \/ Answer(p, "ready", 0, now)
     \/ \E r \in RetryAfters : Answer(p, "retry", r, 0)
     \/ Answer(p, "failed", 0, 0)
  /\ UNCHANGED <<now, lastEvent, attempts, reviews, package, staging>>

\* _publish_fetch_package: mkdir of the staging directory, which may exist.
Stage(p) ==
  /\ op[p].phase = "received"
  /\ IF staging THEN Answer(p, "failed", 0, 0) ELSE Proceed(p, "staging")
  /\ staging' = TRUE
  /\ UNCHANGED <<now, lastEvent, attempts, reviews, package, sent>>

\* The rename of the finished staging directory onto the package path.
Publish(p) ==
  /\ op[p].phase = "staging"
  /\ package = 0
  /\ package' = op[p].fetchedAt
  /\ staging' = FALSE
  /\ Proceed(p, "answered")
  /\ UNCHANGED <<now, lastEvent, attempts, reviews, sent>>

\* Any error while staging, the rename onto an existing package among them, is
\* cleaned up and leaves the capability: the attempt stays open.
FailStaging(p) ==
  /\ op[p].phase = "staging"
  /\ staging' = FALSE
  /\ op' = [op EXCEPT ![p] = Idle]
  /\ UNCHANGED <<now, lastEvent, attempts, reviews, package, sent>>

\* Mutant of PackageCurrent: any formally valid package will do.
PackageExists == package # 0

\* _validate_package_evidence: the package was fetched within the open attempt.
PackageCurrent == package # 0 /\ package >= attempts[Len(attempts)].start /\ package <= now

\* Append the terminal event of the attempt now open, whoever opened it.
CloseAttempt(p, outcome, retryAfter) ==
  /\ Pending
  /\ now >= lastEvent
  /\ attempts' = [attempts EXCEPT ![Len(attempts)] =
                     [@ EXCEPT !.outcome = outcome, !.retryAfter = retryAfter,
                               !.closer = op[p].attempt]]
  /\ lastEvent' = now
  /\ op' = [op EXCEPT ![p] = Idle]
  /\ UNCHANGED <<now, reviews, package, staging, sent>>

\* Mutant of OutcomeValid: whatever the response said is recorded.
OutcomeUnbounded(p) == TRUE

\* _validate_outcome: a Retry-After beyond the bound is not recorded, and the attempt
\* stays open for recovery.
OutcomeValid(p) == RetryAfterOk(op[p])

\* record_acquisition_outcome
Record(p) ==
  /\ op[p].phase = "answered"
  /\ OutcomeValid(p)
  /\ Pending
  /\ IF op[p].outcome = "ready" THEN PackageCurrent ELSE package = 0 /\ ~ staging
  /\ CloseAttempt(p, op[p].outcome, op[p].retryAfter)

\* The recovery router reads the open attempt under a lock it then releases.
RouteRecovery(p) ==
  /\ op[p].phase = "idle"
  /\ Pending
  /\ op' = [op EXCEPT ![p] = [Idle EXCEPT !.phase = "routed", !.attempt = Len(attempts)]]
  /\ UNCHANGED <<now, lastEvent, attempts, reviews, package, staging, sent>>

\* recover_acquisition_attempt: classify what is on disk.
Recover(p) ==
  /\ op[p].phase = "routed"
  /\ Pending
  /\ CloseAttempt(p, IF package # 0 THEN IF PackageCurrent THEN "ready" ELSE "failed"
                     ELSE IF staging THEN "failed" ELSE "retry", 0)

\* record_acquisition_operator_review: one per gate, for the last failure or
\* before the first attempt.  observed_at was read before the lock.
Review ==
  LET n == Len(attempts)
  IN  /\ ~ Pending
      /\ n > 0 => attempts[n].outcome = "failed"
      /\ reviews[n] = NoReview
      /\ \E at \in lastEvent .. now, lead \in 0 .. MaxReviewLead, allows \in BOOLEAN :
          /\ at > 0
          /\ HistoryOk(at)
          /\ reviews' = [reviews EXCEPT ![n] = [at |-> at, allows |-> allows,
                                                notBefore |-> at + lead]]
          /\ lastEvent' = at
      /\ UNCHANGED <<now, attempts, package, staging, op, sent>>

\* A process gives up on a refusal or an error, or is killed.
Stop(p) ==
  /\ op[p].phase # "idle"
  /\ op' = [op EXCEPT ![p] = Idle]
  /\ UNCHANGED <<now, lastEvent, attempts, reviews, package, staging, sent>>

Init ==
  /\ now = 1
  /\ lastEvent = 0
  /\ attempts = <<>>
  /\ reviews = [i \in 0 .. MaxAttempts |-> NoReview]
  /\ package = 0
  /\ staging = FALSE
  /\ op = [p \in Operators |-> Idle]
  /\ sent = 0

Next ==
  \/ Tick
  \/ Review
  \/ \E p \in Operators :
      \/ PlanFetch(p) \/ CheckTarget(p) \/ Reserve(p)
      \/ RefuseRequest(p) \/ Request(p)
      \/ Stage(p) \/ Publish(p) \/ FailStaging(p)
      \/ Record(p) \/ RouteRecovery(p) \/ Recover(p)
      \/ Stop(p)

Spec == Init /\ [][Next]_vars

-----------------------------------------------------------------------------
(* Properties.                                                             *)

\* The shape of the state.
TypeOK ==
  /\ now \in Nat \ {0} /\ lastEvent \in Nat /\ package \in Nat /\ sent \in Nat
  /\ attempts \in Seq([start : Nat, outcome : Outcomes \cup {"pending"},
                       retryAfter : RetryAfters, closer : Nat])
  /\ reviews \in [0 .. MaxAttempts -> [at : Nat, allows : BOOLEAN, notBefore : Nat]]
  /\ staging \in BOOLEAN
  /\ op \in [Operators ->
       [phase : {"idle", "planned", "checked", "reserved", "received", "staging",
                 "answered", "routed"},
        plan : [checked : Nat, status : FetchDue \cup {"none"}, attempts : Nat,
                reviews : SUBSET (0 .. MaxAttempts)],
        attempt : Nat, outcome : Outcomes \cup {"pending"},
        retryAfter : RetryAfters, fetchedAt : Nat]]

\* The retry budget survives crashes, recoveries and processes left running:
\* never more attempts than the policy allows, and no request without one.
BudgetKept == sent <= Len(attempts) /\ Len(attempts) <= MaxAttempts

\* What custody wrote, the readiness policy accepts: no interleaving leaves a
\* history (backoff, Retry-After, reviews, nothing after success) that every
\* later plan would reject as invalid.
HistoryStaysAcceptable == HistoryOk(now)

\* An attempt that ended ready is the last one, and the package on disk was
\* fetched between its reservation and its terminal event.
ReadyPackageIsCurrent ==
  \A i \in DOMAIN attempts :
    attempts[i].outcome = "ready" =>
      /\ i = Len(attempts)
      /\ package \in attempts[i].start .. lastEvent
      /\ package # 0
=============================================================================
