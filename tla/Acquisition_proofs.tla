-------------------------- MODULE Acquisition_proofs --------------------------
(***************************************************************************)
(* Proofs about one session's provider fetch under custody, for any policy *)
(* (budget, backoffs, Retry-After values, review lead, plan age), any      *)
(* number of operator processes left running, and any clock.               *)
(*                                                                         *)
(* What custody appends is judged by the policy at the time it was planned *)
(* for, at most the time it is dated; dates only grow along the journal;   *)
(* and an operator process spends its reservation at the first request.    *)
(***************************************************************************)
EXTENDS Acquisition, FiniteSetTheorems, TLAPS

-----------------------------------------------------------------------------
(* The inductive invariant.                                                *)

Attempt == [start : Nat, outcome : Outcomes \cup {"pending"}, retryAfter : RetryAfters,
            closer : Nat]
Plan == [checked : Nat, status : FetchDue \cup {"none"}, attempts : Nat,
         reviews : SUBSET (0 .. MaxAttempts)]
Ops == [phase : {"idle", "planned", "checked", "reserved", "received", "staging",
                 "answered", "routed"},
        plan : Plan, attempt : Nat, outcome : Outcomes \cup {"pending"},
        retryAfter : RetryAfters, fetchedAt : Nat]
ReviewRecords == [at : Nat, allows : BOOLEAN, notBefore : Nat]

\* The operators that hold a reservation they made no request with.
Unspent == {p \in Operators : op[p].phase = "reserved"}
Spending == IsFiniteSet(Unspent) /\ sent + Cardinality(Unspent) <= Len(attempts)

\* A plan a process may come back with is for a fetch that was due by now.
PlanOk(p) ==
  op[p].phase \in {"planned", "checked"} =>
    op[p].plan.status \in FetchDue /\ op[p].plan.checked <= now

Dated == \A i \in DOMAIN attempts : attempts[i].start <= lastEvent

IInv ==
  /\ TypeOK
  /\ \A p \in Operators : PlanOk(p)
  /\ Spending /\ Len(attempts) <= MaxAttempts
  /\ Dated
  /\ HistoryStaysAcceptable
  /\ ReadyPackageIsCurrent

-----------------------------------------------------------------------------
(* Constants and the shape of the state.                                   *)

LEMMA Constants ==
  /\ Earliest \in Nat \ {0} /\ Close \in Nat \ {0} /\ Deadline \in Nat
  /\ MaxAttempts \in Nat \ {0}
  /\ \A i \in 1 .. MaxAttempts - 1 : RetryDelay[i] \in Nat \ {0}
  /\ RetryAfters \subseteq Nat /\ 0 \in RetryAfters
  /\ MaxPlanAge \in Nat /\ MaxReviewLead \in Nat /\ MaxTime \in Nat
BY PolicyAssumption DEF Earliest

LEMMA Shape ==
  ASSUME TypeOK
  PROVE  /\ now \in Nat \ {0} /\ lastEvent \in Nat /\ package \in Nat /\ sent \in Nat
         /\ attempts \in Seq(Attempt) /\ Len(attempts) \in Nat
         /\ DOMAIN attempts = 1 .. Len(attempts)
         /\ \A i \in 1 .. Len(attempts) :
              /\ attempts[i] \in Attempt /\ attempts[i].start \in Nat
              /\ attempts[i].retryAfter \in Nat
         /\ reviews \in [0 .. MaxAttempts -> ReviewRecords]
         /\ \A i \in 0 .. MaxAttempts : reviews[i].at \in Nat /\ reviews[i].notBefore \in Nat
         /\ op \in [Operators -> Ops]
<1>1. attempts \in Seq(Attempt)
  BY DEF TypeOK, Attempt
<1>2. Len(attempts) \in Nat /\ DOMAIN attempts = 1 .. Len(attempts)
      /\ \A i \in 1 .. Len(attempts) : attempts[i] \in Attempt
  BY <1>1
<1>3. \A i \in 1 .. Len(attempts) : attempts[i].start \in Nat /\ attempts[i].retryAfter \in Nat
  BY <1>2, Constants DEF Attempt
<1>4. reviews \in [0 .. MaxAttempts -> ReviewRecords]
  BY DEF TypeOK, ReviewRecords
<1>5. \A i \in 0 .. MaxAttempts : reviews[i].at \in Nat /\ reviews[i].notBefore \in Nat
  BY <1>4 DEF ReviewRecords
<1>6. op \in [Operators -> Ops]
  BY DEF TypeOK, Ops, Plan
<1>7. QED
  BY <1>1, <1>2, <1>3, <1>4, <1>5, <1>6 DEF TypeOK

LEMMA IdleTyped ==
  /\ NoPlan \in Plan /\ Idle \in Ops /\ Idle.phase = "idle"
  /\ \A phase, plan, attempt :
       /\ [Idle EXCEPT !.phase = phase, !.plan = plan].phase = phase
       /\ [Idle EXCEPT !.phase = phase, !.plan = plan].plan = plan
       /\ [Idle EXCEPT !.phase = phase, !.attempt = attempt].phase = phase
<1>1. NoPlan \in Plan
  BY DEF NoPlan, Plan
<1>2. Idle \in Ops
  BY <1>1, Constants DEF Idle, Ops
<1>3. QED
  BY <1>1, <1>2 DEF Idle

LEMMA Initially == Init => IInv
<1> SUFFICES ASSUME Init PROVE IInv
  OBVIOUS
<1>1. attempts = <<>> /\ Len(attempts) = 0 /\ DOMAIN attempts = {}
  BY DEF Init
<1>2. \A i \in 0 .. MaxAttempts : reviews[i] = NoReview
  BY DEF Init
<1>3. op \in [Operators -> Ops] /\ \A p \in Operators : op[p] = Idle
  BY IdleTyped DEF Init
<1>4. reviews \in [0 .. MaxAttempts -> ReviewRecords]
  BY DEF Init, NoReview, ReviewRecords
<1>5. TypeOK
  <2>1. attempts \in Seq(Attempt)
    BY <1>1
  <2>2. now = 1 /\ lastEvent = 0 /\ package = 0 /\ sent = 0 /\ staging \in BOOLEAN
    BY DEF Init
  <2>3. QED
    BY <1>3, <1>4, <2>1, <2>2 DEF TypeOK, Attempt, Ops, Plan, ReviewRecords
<1>6. Spending
  <2>1. Unspent = {}
    BY <1>3, IdleTyped DEF Unspent
  <2>2. QED
    BY <1>1, <2>1, FS_EmptySet DEF Spending, Init
<1>7. HistoryStaysAcceptable
  BY <1>1, <1>2 DEF HistoryStaysAcceptable, HistoryOk, ReviewOk
<1>8. Dated /\ ReadyPackageIsCurrent
  BY <1>1 DEF Dated, ReadyPackageIsCurrent
<1>9. \A p \in Operators : PlanOk(p)
  BY <1>3, IdleTyped DEF PlanOk
<1>10. QED
  BY <1>1, <1>5, <1>6, <1>7, <1>8, <1>9, Constants DEF IInv

-----------------------------------------------------------------------------
(* What each step does to the journal.                                     *)

\* A plan for a fetch that is due: the policy allows one more attempt at its time.
LEMMA DueMeans ==
  ASSUME IInv, NEW at \in Nat, Status(at) \in FetchDue
  PROVE  /\ at >= Earliest /\ Len(attempts) < MaxAttempts
         /\ Len(attempts) > 0 =>
              LET n == Len(attempts)
              IN  /\ attempts[n].outcome # "ready" /\ ~ Forbidden(n) /\ at >= RetryAt(n)
<1>1. at >= Close /\ at >= Earliest
  BY Constants DEF Status, FetchDue
<1>2. CASE attempts = <<>>
  BY <1>1, <1>2, Constants
<1>3. CASE attempts # <<>>
  <2>1. Len(attempts) \in Nat /\ Len(attempts) > 0 /\ MaxAttempts \in Nat
    BY <1>3, Shape, Constants DEF IInv
  <2>2. Status(at) = NextStatus(at)
    BY <1>1, <1>3, Constants DEF Status
  <2>3. /\ attempts[Len(attempts)].outcome # "ready"
        /\ ~ (Len(attempts) >= MaxAttempts) /\ ~ Forbidden(Len(attempts))
        /\ ~ (at < RetryAt(Len(attempts)))
    BY <2>2 DEF NextStatus, FetchDue
  <2>4. RetryAt(Len(attempts)) \in Nat
    <3> DEFINE n == Len(attempts)
    <3>1. n \in 1 .. MaxAttempts - 1 /\ n \in 1 .. Len(attempts) /\ n \in 0 .. MaxAttempts
      BY <2>1, <2>3
    <3>2. /\ attempts[n].start \in Nat /\ attempts[n].retryAfter \in Nat
          /\ reviews[n].notBefore \in Nat /\ RetryDelay[n] \in Nat
      BY <3>1, Shape, Constants DEF IInv
    <3>3. QED
      BY <3>2 DEF RetryAt, BackoffEnds, Later
  <2>5. QED
    BY <1>1, <2>1, <2>3, <2>4
<1>4. QED
  BY <1>2, <1>3

\* What a reservation appends.
LEMMA Reserving ==
  ASSUME IInv, NEW p \in Operators, Reserve(p)
  PROVE  \E at \in Nat :
           /\ lastEvent <= at /\ at <= now /\ lastEvent' = at
           /\ attempts' = Append(attempts, [start |-> at, outcome |-> "pending",
                                            retryAfter |-> 0, closer |-> 0])
           /\ at >= Earliest /\ Len(attempts) < MaxAttempts
           /\ Len(attempts) > 0 =>
                LET n == Len(attempts)
                IN  /\ attempts[n].outcome # "ready" /\ ~ Forbidden(n) /\ at >= RetryAt(n)
           /\ UNCHANGED <<now, reviews, package, sent>>
<1> DEFINE plan == op[p].plan
<1>1. op[p] \in Ops /\ plan \in Plan /\ plan.checked \in Nat /\ plan.status \in FetchDue
      /\ plan.checked <= now
  BY Shape DEF IInv, PlanOk, Reserve, Ops, Plan
<1>2. Status(plan.checked) = plan.status
  BY DEF Reserve, Unchanged, Readiness
<1>3. PICK at \in plan.checked .. now :
        /\ at >= lastEvent /\ lastEvent' = at
        /\ attempts' = Append(attempts, [start |-> at, outcome |-> "pending",
                                         retryAfter |-> 0, closer |-> 0])
  BY DEF Reserve
<1>4. at \in Nat /\ at >= plan.checked /\ at <= now /\ lastEvent <= at
  BY <1>1, <1>3, Shape DEF IInv
<1>5. /\ plan.checked >= Earliest /\ Len(attempts) < MaxAttempts
      /\ Len(attempts) > 0 =>
           LET n == Len(attempts)
           IN  attempts[n].outcome # "ready" /\ ~ Forbidden(n) /\ plan.checked >= RetryAt(n)
  BY <1>1, <1>2, DueMeans
<1>6. Len(attempts) > 0 => RetryAt(Len(attempts)) \in Nat
  <2>1. SUFFICES ASSUME Len(attempts) > 0 PROVE RetryAt(Len(attempts)) \in Nat
    OBVIOUS
  <2> DEFINE n == Len(attempts)
  <2>2. n \in 1 .. MaxAttempts - 1 /\ n \in 1 .. Len(attempts) /\ n \in 0 .. MaxAttempts
    BY <1>5, <2>1, Shape, Constants DEF IInv
  <2>3. /\ attempts[n].start \in Nat /\ attempts[n].retryAfter \in Nat
        /\ reviews[n].notBefore \in Nat /\ RetryDelay[n] \in Nat
    BY <2>2, Shape, Constants DEF IInv
  <2>4. QED
    BY <2>3 DEF RetryAt, BackoffEnds, Later
<1> HIDE DEF plan
<1>7. at >= Earliest /\ (Len(attempts) > 0 => at >= RetryAt(Len(attempts)))
  BY <1>1, <1>4, <1>5, <1>6, Constants
<1>8. UNCHANGED <<now, reviews, package, sent>>
  BY DEF Reserve
<1>9. QED
  BY <1>3, <1>4, <1>5, <1>7, <1>8

\* What the end of an attempt changes: the last attempt only, and not its start; its
\* Retry-After is within the bound.
Closed(outcome) ==
  /\ Len(attempts) \in 1 .. MaxAttempts /\ attempts[Len(attempts)].outcome = "pending"
  /\ attempts' \in Seq(Attempt) /\ Len(attempts') = Len(attempts)
  /\ \A i \in 1 .. Len(attempts) :
       /\ attempts'[i].start = attempts[i].start
       /\ i < Len(attempts) => attempts'[i] = attempts[i]
  /\ attempts'[Len(attempts)].outcome = outcome /\ RetryAfterOk(attempts'[Len(attempts)])
  /\ lastEvent <= lastEvent' /\ lastEvent' = now
  /\ UNCHANGED <<now, reviews, package, sent>>

LEMMA Closing ==
  ASSUME IInv, NEW p \in Operators, NEW outcome \in Outcomes \cup {"pending"},
         NEW retryAfter \in RetryAfters, CloseAttempt(p, outcome, retryAfter),
         retryAfter # 0 => outcome = "retry" /\ retryAfter <= MaxRetryAfter
  PROVE  Closed(outcome)
<1> DEFINE n == Len(attempts)
           r == [attempts[n] EXCEPT !.outcome = outcome, !.retryAfter = retryAfter,
                                    !.closer = op[p].attempt]
<1>1. /\ attempts \in Seq(Attempt) /\ n \in 1 .. MaxAttempts /\ attempts[n] \in Attempt
      /\ DOMAIN attempts = 1 .. n /\ attempts[n].outcome = "pending" /\ op[p].attempt \in Nat
  <2>1. attempts \in Seq(Attempt) /\ op[p] \in Ops /\ MaxAttempts \in Nat
    BY Shape, Constants DEF IInv
  <2>2. n \in Nat /\ n > 0
    BY <2>1 DEF CloseAttempt, Pending
  <2>3. QED
    BY <2>1, <2>2 DEF CloseAttempt, Pending, IInv, Ops
<1>2. /\ r \in Attempt /\ r.start = attempts[n].start /\ r.outcome = outcome
      /\ r.retryAfter = retryAfter
  <2> DEFINE a == attempts[n]
  <2>1. a \in Attempt /\ op[p].attempt \in Nat
    BY <1>1
  <2> HIDE DEF a
  <2>2. /\ [a EXCEPT !.outcome = outcome, !.retryAfter = retryAfter,
                     !.closer = op[p].attempt] \in Attempt
        /\ [a EXCEPT !.outcome = outcome, !.retryAfter = retryAfter,
                     !.closer = op[p].attempt].start = a.start
        /\ [a EXCEPT !.outcome = outcome, !.retryAfter = retryAfter,
                     !.closer = op[p].attempt].outcome = outcome
        /\ [a EXCEPT !.outcome = outcome, !.retryAfter = retryAfter,
                     !.closer = op[p].attempt].retryAfter = retryAfter
    BY <2>1 DEF Attempt
  <2>3. QED
    BY <2>2 DEF a
<1>3. attempts' = [attempts EXCEPT ![n] = r]
  BY <1>1 DEF CloseAttempt
<1> HIDE DEF r
<1>4. /\ attempts' \in Seq(Attempt) /\ Len(attempts') = n
      /\ \A i \in 1 .. n : attempts'[i] = IF i = n THEN r ELSE attempts[i]
  BY <1>1, <1>2, <1>3
<1>5. lastEvent <= lastEvent' /\ lastEvent' = now /\ UNCHANGED <<now, reviews, package, sent>>
  BY Shape DEF CloseAttempt, IInv
<1>6. /\ \A i \in 1 .. n : /\ attempts'[i].start = attempts[i].start
                           /\ i < n => attempts'[i] = attempts[i]
      /\ attempts'[n].outcome = outcome /\ RetryAfterOk(attempts'[n])
  <2> HIDE DEF n
  <2>1. n \in Nat /\ n \in 1 .. n
    BY <1>1, Constants
  <2>2. attempts'[n] = r /\ \A i \in 1 .. n : i # n => attempts'[i] = attempts[i]
    BY <1>4, <2>1
  <2>3. QED
    BY <1>2, <2>1, <2>2 DEF RetryAfterOk
<1>7. QED
  BY <1>1, <1>4, <1>5, <1>6 DEF Closed

\* What a review changes.
LEMMA Reviewing ==
  ASSUME IInv, Review
  PROVE  \E at \in Nat : \E allows \in BOOLEAN : \E lead \in 0 .. MaxReviewLead :
           LET n == Len(attempts)
           IN  /\ lastEvent <= at /\ at <= now /\ lastEvent' = at
               /\ n \in 0 .. MaxAttempts
               /\ n > 0 => attempts[n].outcome = "failed"
               /\ reviews[n] = NoReview
               /\ reviews' = [reviews EXCEPT ![n] = [at |-> at, allows |-> allows,
                                                     notBefore |-> at + lead]]
               /\ UNCHANGED <<now, attempts, package, sent>>
<1>1. PICK at \in lastEvent .. now, lead \in 0 .. MaxReviewLead, allows \in BOOLEAN :
        /\ reviews' = [reviews EXCEPT ![Len(attempts)] = [at |-> at, allows |-> allows,
                                                          notBefore |-> at + lead]]
        /\ lastEvent' = at
  BY DEF Review
<1>2. at \in Nat /\ lastEvent <= at /\ at <= now
  BY <1>1, Shape DEF IInv
<1>3. Len(attempts) \in 0 .. MaxAttempts
  BY Shape, Constants DEF IInv
<1>4. QED
  BY <1>1, <1>2, <1>3 DEF Review

\* Who writes the journal.
LEMMA StepJournals ==
  ASSUME IInv, NEW p \in Operators,
         \/ PlanFetch(p) \/ CheckTarget(p) \/ RefuseRequest(p) \/ Request(p)
         \/ Stage(p) \/ Publish(p) \/ FailStaging(p) \/ RouteRecovery(p) \/ Stop(p)
  PROVE  UNCHANGED <<attempts, reviews, lastEvent, now>>
<1>1. CASE PlanFetch(p) \/ CheckTarget(p) \/ RefuseRequest(p) \/ Request(p)
  BY <1>1 DEF PlanFetch, CheckTarget, RefuseRequest, Request
<1>2. CASE Stage(p) \/ Publish(p) \/ FailStaging(p) \/ RouteRecovery(p) \/ Stop(p)
  BY <1>2 DEF Stage, Publish, FailStaging, RouteRecovery, Stop
<1>3. QED
  BY <1>1, <1>2

\* What an attempt may be closed with: a package of its own time, if it is ready.
LEMMA Ending ==
  ASSUME IInv, NEW p \in Operators, Record(p) \/ Recover(p)
  PROVE  \E outcome \in Outcomes \cup {"pending"} :
           /\ Closed(outcome)
           /\ outcome = "ready" => PackageCurrent
           /\ op' = [op EXCEPT ![p] = Idle]
<1>1. op[p].outcome \in Outcomes \cup {"pending"} /\ op[p].retryAfter \in RetryAfters
  BY Shape DEF IInv, Ops
<1>2. CASE Record(p)
  <2>1. /\ CloseAttempt(p, op[p].outcome, op[p].retryAfter)
        /\ op[p].outcome = "ready" => PackageCurrent
    BY <1>2 DEF Record
  <2>2. Closed(op[p].outcome)
    BY <1>1, <1>2, <2>1, Closing DEF Record, OutcomeValid, RetryAfterOk
  <2>3. QED
    BY <1>1, <2>1, <2>2 DEF CloseAttempt
<1>3. CASE Recover(p)
  <2> DEFINE found == IF package # 0 THEN IF PackageCurrent THEN "ready" ELSE "failed"
                      ELSE IF staging THEN "failed" ELSE "retry"
  <2>1. CloseAttempt(p, found, 0)
    BY <1>3 DEF Recover
  <2>2. found \in Outcomes \cup {"pending"} /\ (found = "ready" => PackageCurrent)
    BY DEF Outcomes
  <2> HIDE DEF found
  <2>3. Closed(found)
    BY <2>1, <2>2, Constants, Closing
  <2>4. QED
    BY <2>1, <2>2, <2>3 DEF CloseAttempt
<1>4. QED
  BY <1>2, <1>3

LEMMA Journaling ==
  ASSUME IInv, [Next]_vars
  PROVE  \/ UNCHANGED <<attempts, reviews, lastEvent, now>> \/ Tick \/ Review
         \/ \E p \in Operators : Reserve(p) \/ Record(p) \/ Recover(p)
BY StepJournals DEF Next, vars

-----------------------------------------------------------------------------
(* The history stays acceptable.                                           *)

LEMMA AttemptsKept ==
  ASSUME IInv, [Next]_vars
  PROVE  /\ attempts' \in Seq(Attempt) /\ Len(attempts) <= Len(attempts')
         /\ Len(attempts') <= MaxAttempts /\ Dated'
         /\ lastEvent' \in Nat /\ lastEvent <= lastEvent' /\ now' \in Nat \ {0} /\ now <= now'
<1>1. /\ attempts \in Seq(Attempt) /\ Len(attempts) \in Nat /\ Len(attempts) <= MaxAttempts
      /\ DOMAIN attempts = 1 .. Len(attempts)
      /\ \A i \in 1 .. Len(attempts) : attempts[i].start \in Nat /\ attempts[i].start <= lastEvent
      /\ lastEvent \in Nat /\ now \in Nat \ {0} /\ MaxAttempts \in Nat
  BY Shape, Constants DEF IInv, Dated
<1>2. CASE UNCHANGED <<attempts, lastEvent, now>>
  BY <1>1, <1>2 DEF Dated
<1>3. CASE Tick
  BY <1>1, <1>3 DEF Tick, Dated
<1>4. CASE Review
  BY <1>1, <1>4, Reviewing DEF Dated
<1>5. ASSUME NEW p \in Operators, Reserve(p)
      PROVE  /\ attempts' \in Seq(Attempt) /\ Len(attempts') = Len(attempts) + 1
             /\ Len(attempts) < MaxAttempts /\ Dated'
             /\ lastEvent' \in Nat /\ lastEvent <= lastEvent' /\ now' = now
  <2>1. PICK at \in Nat :
           /\ lastEvent <= at /\ lastEvent' = at /\ now' = now /\ Len(attempts) < MaxAttempts
           /\ attempts' = Append(attempts, [start |-> at, outcome |-> "pending",
                                            retryAfter |-> 0, closer |-> 0])
    BY <1>5, Reserving
  <2> DEFINE a == [start |-> at, outcome |-> "pending", retryAfter |-> 0, closer |-> 0]
  <2>2. a \in Attempt /\ a.start = at
    BY Constants DEF Attempt
  <2> HIDE DEF a
  <2>3. /\ attempts' \in Seq(Attempt) /\ Len(attempts') = Len(attempts) + 1
        /\ DOMAIN attempts' = 1 .. Len(attempts) + 1
        /\ \A i \in 1 .. Len(attempts) : attempts'[i] = attempts[i]
        /\ attempts'[Len(attempts) + 1] = a
    BY <1>1, <2>1, <2>2 DEF a
  <2>4. \A i \in 1 .. Len(attempts) + 1 : attempts'[i].start <= at
    BY <1>1, <2>1, <2>2, <2>3
  <2>5. QED
    BY <2>1, <2>3, <2>4 DEF Dated
<1>6. ASSUME NEW p \in Operators, Record(p) \/ Recover(p)
      PROVE  /\ attempts' \in Seq(Attempt) /\ Len(attempts') = Len(attempts) /\ Dated'
             /\ lastEvent' \in Nat /\ lastEvent <= lastEvent' /\ now' = now
  <2>1. PICK outcome : Closed(outcome)
    BY <1>6, Ending
  <2>2. /\ attempts' \in Seq(Attempt) /\ Len(attempts') = Len(attempts)
        /\ \A i \in 1 .. Len(attempts) : attempts'[i].start = attempts[i].start
        /\ lastEvent <= lastEvent' /\ lastEvent' = now /\ now' = now
    BY <2>1 DEF Closed
  <2>3. DOMAIN attempts' = 1 .. Len(attempts)
    BY <2>2
  <2>4. QED
    BY <1>1, <2>2, <2>3 DEF Dated
<1>7. QED
  BY <1>1, <1>2, <1>3, <1>4, <1>5, <1>6, Journaling

\* The reviews keep their shape, too.
LEMMA ReviewsTyped ==
  ASSUME IInv, [Next]_vars
  PROVE  reviews' \in [0 .. MaxAttempts -> ReviewRecords]
<1>1. reviews \in [0 .. MaxAttempts -> ReviewRecords]
  BY Shape DEF IInv
<1>2. CASE Review
  <2>1. PICK at \in Nat, allows \in BOOLEAN, lead \in 0 .. MaxReviewLead :
          reviews' = [reviews EXCEPT ![Len(attempts)] = [at |-> at, allows |-> allows,
                                                         notBefore |-> at + lead]]
    BY <1>2, Reviewing
  <2>2. at + lead \in Nat
    BY Constants
  <2>3. [at |-> at, allows |-> allows, notBefore |-> at + lead] \in ReviewRecords
    BY <2>2 DEF ReviewRecords
  <2>4. QED
    BY <1>1, <2>1, <2>3
<1>3. ASSUME NEW p \in Operators, Reserve(p) \/ Record(p) \/ Recover(p)
      PROVE  reviews' = reviews
  BY <1>3, Reserving, Ending DEF Closed
<1>4. QED
  BY <1>1, <1>2, <1>3, Journaling DEF Tick

\* An entry that did not change, nor the one before it, is acceptable ever after.
LEMMA AttemptStays ==
  ASSUME IInv, [Next]_vars, NEW i \in 1 .. Len(attempts),
         attempts'[i].start = attempts[i].start,
         attempts'[i] = attempts[i] \/ RetryAfterOk(attempts'[i]),
         i > 1 => attempts'[i - 1] = attempts[i - 1] /\ reviews'[i - 1] = reviews[i - 1]
  PROVE  AttemptOk(i, now)'
<1>1. AttemptOk(i, now) /\ now <= now' /\ now \in Nat /\ now' \in Nat
      /\ attempts[i].start \in Nat
  BY AttemptsKept, Shape DEF IInv, HistoryStaysAcceptable, HistoryOk
<1>2. i > 1 => (Forbidden(i - 1)' <=> Forbidden(i - 1))
  BY DEF Forbidden
<1>3. attempts[i].start <= now'
  BY <1>1 DEF AttemptOk
<1>4. RetryAfterOk(attempts'[i])
  BY <1>1 DEF AttemptOk
<1>5. QED
  BY <1>1, <1>2, <1>3, <1>4 DEF AttemptOk, RetryAfterOk

\* The attempt a reservation appends is acceptable.
LEMMA AttemptAppended ==
  ASSUME IInv, [Next]_vars, NEW p \in Operators, Reserve(p),
         NEW n \in Nat, n = Len(attempts), NEW k, k = n + 1
  PROVE  AttemptOk(k, now)'
<1>1. PICK at \in Nat :
        /\ at <= now /\ at >= Earliest /\ n < MaxAttempts
        /\ attempts' = Append(attempts, [start |-> at, outcome |-> "pending",
                                         retryAfter |-> 0, closer |-> 0])
        /\ n > 0 => attempts[n].outcome # "ready" /\ ~ Forbidden(n) /\ at >= RetryAt(n)
        /\ UNCHANGED <<now, reviews>>
  BY Reserving
<1>2. attempts \in Seq(Attempt) /\ n \in Nat
  BY Shape DEF IInv
<1>3. attempts'[n + 1].start = at /\ attempts'[n + 1].retryAfter = 0 /\ (n > 0 => attempts'[n] = attempts[n])
  BY <1>1, <1>2
<1>4. ASSUME n > 0
      PROVE  /\ attempts[n].outcome = "failed" => at >= reviews[n].notBefore
             /\ at > attempts[n].start
             /\ at >= attempts[n].start + Later(RetryDelay[n], attempts[n].retryAfter)
  <2>1. n \in 1 .. MaxAttempts - 1 /\ n \in 1 .. Len(attempts) /\ n \in 0 .. MaxAttempts
    BY <1>1, <1>2, <1>4, Constants
  <2>2. /\ attempts[n].start \in Nat /\ attempts[n].retryAfter \in Nat
        /\ reviews[n].notBefore \in Nat /\ RetryDelay[n] \in Nat \ {0}
    BY <2>1, Shape, Constants DEF IInv
  <2>3. /\ Later(RetryDelay[n], attempts[n].retryAfter) \in Nat
        /\ Later(RetryDelay[n], attempts[n].retryAfter) >= 1
    BY <2>2 DEF Later
  <2>4. /\ BackoffEnds(n) = attempts[n].start + Later(RetryDelay[n], attempts[n].retryAfter)
        /\ BackoffEnds(n) \in Nat
    BY <2>2, <2>3 DEF BackoffEnds
  <2>5. /\ RetryAt(n) >= BackoffEnds(n) /\ RetryAt(n) \in Nat
        /\ attempts[n].outcome = "failed" => RetryAt(n) >= reviews[n].notBefore
    BY <2>2, <2>4 DEF RetryAt, Later
  <2>6. at >= RetryAt(n)
    BY <1>1, <1>4
  <2>7. QED
    BY <2>2, <2>3, <2>4, <2>5, <2>6
<1>5. n > 0 => (Forbidden(n)' <=> Forbidden(n))
  BY <1>1, <1>3 DEF Forbidden
<1>6. now' = now /\ reviews' = reviews /\ (k > 1 => n > 0) /\ k - 1 = n
  BY <1>1, <1>2
<1>7. attempts'[k].start = at /\ attempts'[k].retryAfter = 0
  BY <1>3
<1>8. QED
  BY <1>1, <1>3, <1>4, <1>5, <1>6, <1>7 DEF AttemptOk, RetryAfterOk

\* A review that did not change stays, as what it is about does.
LEMMA ReviewStays ==
  ASSUME IInv, [Next]_vars, NEW i \in 0 .. MaxAttempts, reviews'[i] = reviews[i],
         i > 0 /\ i \in 1 .. Len(attempts) /\ attempts[i].outcome = "failed" =>
           attempts'[i] = attempts[i]
  PROVE  ReviewOk(i, now)'
<1>1. ReviewOk(i, now) /\ now <= now' /\ now \in Nat /\ now' \in Nat /\ reviews[i].at \in Nat
      /\ Len(attempts) \in Nat /\ Len(attempts) <= Len(attempts')
      /\ DOMAIN attempts = 1 .. Len(attempts) /\ DOMAIN attempts' = 1 .. Len(attempts')
  BY AttemptsKept, Shape DEF IInv, HistoryStaysAcceptable, HistoryOk
<1>2. i \in DOMAIN attempts => i \in DOMAIN attempts'
  BY <1>1
<1>3. QED
  BY <1>1, <1>2 DEF ReviewOk

LEMMA HistoryKept ==
  ASSUME IInv, [Next]_vars
  PROVE  HistoryStaysAcceptable'
<1>1. /\ attempts' \in Seq(Attempt) /\ Len(attempts) \in Nat /\ Len(attempts) <= MaxAttempts
      /\ DOMAIN attempts = 1 .. Len(attempts) /\ DOMAIN attempts' = 1 .. Len(attempts')
      /\ attempts \in Seq(Attempt) /\ MaxAttempts \in Nat
  BY AttemptsKept, Shape, Constants DEF IInv
<1>2. CASE attempts' = attempts /\ reviews' = reviews
  BY <1>1, <1>2, AttemptStays, ReviewStays DEF HistoryStaysAcceptable, HistoryOk
<1>3. ASSUME NEW p \in Operators, Reserve(p)
      PROVE  HistoryStaysAcceptable'
  <2>1. /\ Len(attempts') = Len(attempts) + 1
        /\ \A i \in 1 .. Len(attempts) : attempts'[i] = attempts[i]
        /\ reviews' = reviews
    <3>1. PICK at : attempts' = Append(attempts, [start |-> at, outcome |-> "pending",
                                                 retryAfter |-> 0, closer |-> 0])
                    /\ reviews' = reviews
      BY <1>3, Reserving
    <3>2. QED
      BY <1>1, <3>1
  <2>2. \A i \in 1 .. Len(attempts) : AttemptOk(i, now)'
    <3>1. \A i \in 1 .. Len(attempts) : i > 1 => i - 1 \in 1 .. Len(attempts)
      BY <1>1
    <3>2. QED
      BY <2>1, <3>1, AttemptStays
  <2>3. \A i \in 1 .. Len(attempts) + 1 : i \in 1 .. Len(attempts) \/ i = Len(attempts) + 1
    BY <1>1
  <2>4. \A i \in DOMAIN attempts' : AttemptOk(i, now)'
    BY <1>1, <1>3, <2>1, <2>2, <2>3, AttemptAppended
  <2>5. \A i \in 0 .. MaxAttempts : ReviewOk(i, now)'
    BY <2>1, ReviewStays
  <2>6. QED
    BY <2>4, <2>5 DEF HistoryStaysAcceptable, HistoryOk
<1>4. ASSUME NEW outcome, Closed(outcome)
      PROVE  HistoryStaysAcceptable'
  <2>1. /\ Len(attempts') = Len(attempts) /\ attempts[Len(attempts)].outcome = "pending"
        /\ \A i \in 1 .. Len(attempts) : /\ attempts'[i].start = attempts[i].start
                                         /\ i < Len(attempts) => attempts'[i] = attempts[i]
        /\ reviews' = reviews /\ RetryAfterOk(attempts'[Len(attempts)])
    BY <1>4 DEF Closed
  <2>2. \A i \in 1 .. Len(attempts) :
          /\ i > 1 => i - 1 \in 1 .. Len(attempts) /\ i - 1 < Len(attempts)
          /\ i < Len(attempts) \/ i = Len(attempts)
    <3>1. \A n \in Nat : \A i \in 1 .. n :
            (i > 1 => i - 1 \in 1 .. n /\ i - 1 < n) /\ (i < n \/ i = n)
      OBVIOUS
    <3>2. QED
      BY <1>1, <3>1
  <2>3. \A i \in DOMAIN attempts' : AttemptOk(i, now)'
    BY <1>1, <2>1, <2>2, AttemptStays
  <2>4. \A i \in 0 .. MaxAttempts : ReviewOk(i, now)'
    BY <2>1, <2>2, ReviewStays
  <2>5. QED
    BY <2>3, <2>4 DEF HistoryStaysAcceptable, HistoryOk
<1>5. CASE Review
  <2> SUFFICES ASSUME NEW n, n = Len(attempts) PROVE HistoryStaysAcceptable'
    OBVIOUS
  <2>1. PICK at \in Nat, allows \in BOOLEAN, lead \in 0 .. MaxReviewLead :
          /\ lastEvent <= at /\ at <= now /\ n \in 0 .. MaxAttempts
          /\ n > 0 => attempts[n].outcome = "failed"
          /\ reviews' = [reviews EXCEPT ![n] = [at |-> at, allows |-> allows,
                                                notBefore |-> at + lead]]
          /\ attempts' = attempts /\ now' = now
    BY <1>5, Reviewing
  <2>2. \A i \in 0 .. MaxAttempts : i # n => reviews'[i] = reviews[i]
    BY <2>1
  <2>3. \A i \in 1 .. n : i > 1 => i - 1 \in 0 .. MaxAttempts /\ i - 1 # n
    BY <1>1
  <2>4. \A i \in DOMAIN attempts' : AttemptOk(i, now)'
    BY <1>1, <2>1, <2>2, <2>3, AttemptStays
  <2>5. ReviewOk(n, now)'
    <3>1. reviews'[n] = [at |-> at, allows |-> allows, notBefore |-> at + lead]
      BY <2>1, Shape DEF IInv
    <3>2. reviews'[n].at = at /\ reviews'[n].notBefore = at + lead
      BY <3>1
    <3>3. n > 0 => n \in 1 .. Len(attempts) /\ at >= attempts[n].start
      BY <1>1, <2>1, Shape DEF IInv, Dated
    <3>4. lead \in Nat /\ lead <= MaxReviewLead /\ MaxReviewLead \in Nat
      BY Constants
    <3>5. now' = now /\ attempts' = attempts /\ (n > 0 => n \in DOMAIN attempts)
      BY <1>1, <2>1, <3>3
    <3>6. at + lead >= at /\ at + lead <= at + MaxReviewLead
      BY <3>4
    <3>7. QED
      BY <2>1, <3>2, <3>3, <3>5, <3>6 DEF ReviewOk
  <2>6. \A i \in 0 .. MaxAttempts : ReviewOk(i, now)'
    BY <2>1, <2>2, <2>5, ReviewStays
  <2>7. QED
    BY <2>4, <2>6 DEF HistoryStaysAcceptable, HistoryOk
<1>6. QED
  BY <1>2, <1>3, <1>4, <1>5, Ending, Journaling DEF Tick

-----------------------------------------------------------------------------
(* The package.                                                            *)

\* What a reservation promised: a package is published once.
LEMMA PackageOnce ==
  ASSUME IInv, [Next]_vars
  PROVE  /\ package' \in Nat /\ sent' \in Nat /\ staging' \in BOOLEAN
         /\ package # 0 => package' = package
<1>1. package \in Nat /\ sent \in Nat /\ staging \in BOOLEAN /\ now \in Nat
  BY Shape DEF IInv, TypeOK
<1>2. ASSUME NEW p \in Operators, Publish(p)
      PROVE  /\ package' \in Nat /\ sent' = sent /\ staging' \in BOOLEAN /\ package = 0
  BY <1>2, Shape DEF Publish, IInv, Ops
<1>3. ASSUME NEW p \in Operators,
             \/ PlanFetch(p) \/ CheckTarget(p) \/ Reserve(p) \/ RefuseRequest(p) \/ Request(p)
             \/ Stage(p) \/ FailStaging(p) \/ RouteRecovery(p) \/ Stop(p)
      PROVE  /\ package' = package /\ sent' \in Nat /\ staging' \in BOOLEAN
  <2>1. CASE PlanFetch(p) \/ CheckTarget(p) \/ Reserve(p) \/ RefuseRequest(p)
    BY <1>1, <2>1 DEF PlanFetch, CheckTarget, Reserve, RefuseRequest
  <2>2. CASE Request(p)
    BY <1>1, <2>2 DEF Request
  <2>3. CASE Stage(p) \/ FailStaging(p) \/ RouteRecovery(p) \/ Stop(p)
    BY <1>1, <2>3 DEF Stage, FailStaging, RouteRecovery, Stop
  <2>4. QED
    BY <1>3, <2>1, <2>2, <2>3
<1>4. ASSUME NEW p \in Operators, Record(p) \/ Recover(p)
      PROVE  UNCHANGED <<package, sent, staging>>
  BY <1>4 DEF Record, Recover, CloseAttempt
<1>5. Tick \/ Review \/ UNCHANGED vars => UNCHANGED <<package, sent, staging>>
  BY DEF Tick, Review, vars
<1>6. QED
  BY <1>1, <1>2, <1>3, <1>4, <1>5 DEF Next

LEMMA PackageKept ==
  ASSUME IInv, [Next]_vars
  PROVE  ReadyPackageIsCurrent'
<1>1. /\ attempts \in Seq(Attempt) /\ attempts' \in Seq(Attempt) /\ Len(attempts) \in Nat
      /\ DOMAIN attempts = 1 .. Len(attempts) /\ DOMAIN attempts' = 1 .. Len(attempts')
      /\ lastEvent \in Nat /\ lastEvent' \in Nat /\ lastEvent <= lastEvent'
      /\ package \in Nat /\ (package # 0 => package' = package)
      /\ \A i \in 1 .. Len(attempts) : attempts[i].start \in Nat
  BY AttemptsKept, PackageOnce, Shape DEF IInv
<1>2. \A i \in 1 .. Len(attempts) : attempts[i].outcome = "ready" =>
        /\ i = Len(attempts) /\ package # 0 /\ package' = package
        /\ package \in attempts[i].start .. lastEvent /\ package \in attempts[i].start .. lastEvent'
  <2>1. \A a, b, c \in Nat : b <= c => a .. b \subseteq a .. c
    OBVIOUS
  <2>2. \A i \in 1 .. Len(attempts) : attempts[i].outcome = "ready" =>
          /\ i = Len(attempts) /\ package # 0 /\ package \in attempts[i].start .. lastEvent
    BY <1>1 DEF IInv, ReadyPackageIsCurrent
  <2>3. \A i \in 1 .. Len(attempts) :
          attempts[i].start .. lastEvent \subseteq attempts[i].start .. lastEvent'
    BY <1>1, <2>1
  <2>4. QED
    BY <1>1, <2>2, <2>3
<1>3. CASE attempts' = attempts
  BY <1>1, <1>2, <1>3 DEF ReadyPackageIsCurrent
<1>4. ASSUME NEW p \in Operators, Reserve(p)
      PROVE  ReadyPackageIsCurrent'
  <2>1. PICK at :
          /\ attempts' = Append(attempts, [start |-> at, outcome |-> "pending",
                                           retryAfter |-> 0, closer |-> 0])
          /\ Len(attempts) > 0 => attempts[Len(attempts)].outcome # "ready"
    BY <1>4, Reserving
  <2>2. /\ Len(attempts') = Len(attempts) + 1
        /\ \A i \in 1 .. Len(attempts) : attempts'[i] = attempts[i]
        /\ attempts'[Len(attempts) + 1].outcome = "pending"
    BY <1>1, <2>1
  <2>3. \A i \in 1 .. Len(attempts) : attempts[i].outcome # "ready"
    <3>1. \A n \in Nat : \A i \in 1 .. n : n > 0
      OBVIOUS
    <3>2. QED
      BY <1>1, <1>2, <2>1, <3>1
  <2>4. \A i \in 1 .. Len(attempts') : attempts'[i].outcome # "ready"
    BY <1>1, <2>2, <2>3
  <2>5. QED
    BY <1>1, <2>4 DEF ReadyPackageIsCurrent
<1>5. ASSUME NEW p \in Operators, Record(p) \/ Recover(p)
      PROVE  ReadyPackageIsCurrent'
  <2>1. PICK outcome : Closed(outcome) /\ (outcome = "ready" => PackageCurrent)
    BY <1>5, Ending
  <2>2. /\ Len(attempts') = Len(attempts) /\ attempts'[Len(attempts)].outcome = outcome
        /\ \A i \in 1 .. Len(attempts) : /\ attempts'[i].start = attempts[i].start
                                         /\ i < Len(attempts) => attempts'[i] = attempts[i]
        /\ lastEvent' = now /\ package' = package
    BY <2>1 DEF Closed
  <2>3. \A i \in 1 .. Len(attempts) : i < Len(attempts) => attempts[i].outcome # "ready"
    <3>1. \A n \in Nat : ~ (n < n)
      OBVIOUS
    <3>2. QED
      BY <1>1, <1>2, <3>1
  <2>4. outcome = "ready" =>
          package # 0 /\ package \in attempts[Len(attempts)].start .. now
    <3>1. /\ attempts[Len(attempts)].start \in Nat /\ package \in Nat /\ now \in Nat
          /\ Len(attempts) \in 1 .. MaxAttempts
      BY <2>1, <1>1, Shape, Constants DEF Closed, IInv
    <3>2. QED
      BY <2>1, <3>1 DEF PackageCurrent
  <2>5. \A i \in 1 .. Len(attempts) : i < Len(attempts) \/ i = Len(attempts)
    <3>1. \A n \in Nat : \A i \in 1 .. n : i < n \/ i = n
      OBVIOUS
    <3>2. QED
      BY <1>1, <3>1
  <2>6. QED
    BY <1>1, <2>2, <2>3, <2>4, <2>5 DEF ReadyPackageIsCurrent
<1>6. QED
  BY <1>3, <1>4, <1>5, Journaling, Reviewing DEF Tick

-----------------------------------------------------------------------------
(* The operators and the budget.                                           *)

\* What a process goes on with.
LEMMA Going ==
  ASSUME IInv, [Next]_vars
  PROVE  \/ op' = op /\ sent' = sent /\ attempts' = attempts
         \/ \E p \in Operators : \E r \in Ops :
              /\ op' = [op EXCEPT ![p] = r]
              /\ r.phase \in {"planned", "checked"} =>
                   r.plan.status \in FetchDue /\ r.plan.checked <= now
              /\ \/ r.phase # "reserved" /\ sent' = sent /\ Len(attempts') = Len(attempts)
                 \/ /\ op[p].phase = "reserved" /\ r.phase # "reserved" /\ sent' = sent + 1
                    /\ attempts' = attempts
                 \/ /\ op[p].phase = "checked" /\ r.phase = "reserved" /\ sent' = sent
                    /\ Len(attempts') = Len(attempts) + 1
<1>1. op \in [Operators -> Ops] /\ now \in Nat /\ attempts \in Seq(Attempt)
      /\ Len(attempts) \in Nat
  BY Shape DEF IInv
<1>2. ASSUME NEW p \in Operators, PlanFetch(p)
      PROVE  \E r \in Ops :
               /\ op' = [op EXCEPT ![p] = r]
               /\ r.phase = "planned" /\ r.plan.status \in FetchDue /\ r.plan.checked <= now
               /\ sent' = sent /\ attempts' = attempts
  <2> DEFINE r == [Idle EXCEPT !.phase = "planned", !.plan = Readiness(now)]
  <2>1. /\ Readiness(now) \in Plan /\ Readiness(now).status \in FetchDue
        /\ Readiness(now).checked = now
    BY <1>1, <1>2 DEF PlanFetch, Readiness, Plan, Reviewed
  <2>2. r \in Ops /\ r.phase = "planned" /\ r.plan.status \in FetchDue /\ r.plan.checked <= now
    <3>1. r \in Ops /\ r.phase = "planned" /\ r.plan = Readiness(now)
      BY <2>1, IdleTyped DEF Ops
    <3>2. now <= now
      BY <1>1
    <3> HIDE DEF r
    <3>3. QED
      BY <2>1, <3>1, <3>2, Zenon
  <2>3. op' = [op EXCEPT ![p] = r] /\ sent' = sent /\ attempts' = attempts
    BY <1>2 DEF PlanFetch
  <2> HIDE DEF r
  <2>4. QED
    BY <2>2, <2>3
<1>3. ASSUME NEW p \in Operators, CheckTarget(p)
      PROVE  \E r \in Ops :
               /\ op' = [op EXCEPT ![p] = r]
               /\ r.phase = "checked" /\ r.plan.status \in FetchDue /\ r.plan.checked <= now
               /\ sent' = sent /\ attempts' = attempts
  <2> DEFINE r == [op[p] EXCEPT !.phase = "checked"]
  <2>1. op[p] \in Ops /\ op[p].plan.status \in FetchDue /\ op[p].plan.checked <= now
    BY <1>1, <1>3 DEF CheckTarget, IInv, PlanOk
  <2>2. r \in Ops /\ r.phase = "checked" /\ r.plan = op[p].plan
    BY <2>1 DEF Ops
  <2>3. op' = [op EXCEPT ![p] = r] /\ sent' = sent /\ attempts' = attempts
    BY <1>3 DEF CheckTarget, Proceed
  <2> HIDE DEF r
  <2>4. QED
    BY <2>1, <2>2, <2>3
<1>4. ASSUME NEW p \in Operators, Reserve(p)
      PROVE  \E r \in Ops :
               /\ op' = [op EXCEPT ![p] = r]
               /\ op[p].phase = "checked" /\ r.phase = "reserved" /\ sent' = sent
               /\ Len(attempts') = Len(attempts) + 1
  <2> DEFINE r == [Idle EXCEPT !.phase = "reserved", !.attempt = Len(attempts) + 1]
  <2>1. r \in Ops /\ r.phase = "reserved"
    <3>1. Len(attempts) + 1 \in Nat
      BY <1>1
    <3>2. QED
      BY <3>1, IdleTyped DEF Ops
  <2>2. op' = [op EXCEPT ![p] = r] /\ sent' = sent /\ op[p].phase = "checked"
    BY <1>4 DEF Reserve
  <2>3. Len(attempts') = Len(attempts) + 1
    <3>1. PICK at : attempts' = Append(attempts, [start |-> at, outcome |-> "pending",
                                                  retryAfter |-> 0, closer |-> 0])
      BY <1>4, Reserving
    <3>2. QED
      BY <1>1, <3>1
  <2> HIDE DEF r
  <2>4. QED
    BY <2>1, <2>2, <2>3
<1>5. ASSUME NEW p \in Operators, NEW outcome \in Outcomes, NEW retryAfter \in RetryAfters,
             NEW fetchedAt \in Nat, Answer(p, outcome, retryAfter, fetchedAt)
      PROVE  \E r \in Ops :
               op' = [op EXCEPT ![p] = r] /\ r.phase \in {"received", "answered"}
  <2> DEFINE phase == IF outcome = "ready" THEN "received" ELSE "answered"
             r == [op[p] EXCEPT !.phase = phase, !.outcome = outcome,
                                !.retryAfter = retryAfter, !.fetchedAt = fetchedAt]
  <2>1. op[p] \in Ops /\ phase \in {"received", "answered"}
    BY <1>1
  <2>2. op' = [op EXCEPT ![p] = r]
    BY <1>5 DEF Answer
  <2> HIDE DEF phase
  <2>3. r \in Ops /\ r.phase = phase
    BY <2>1 DEF Ops
  <2> HIDE DEF r
  <2>4. QED
    BY <2>1, <2>2, <2>3
<1>6. ASSUME NEW p \in Operators, RefuseRequest(p) \/ Request(p)
      PROVE  \E r \in Ops :
               /\ op' = [op EXCEPT ![p] = r] /\ r.phase \in {"received", "answered"}
               /\ op[p].phase = "reserved" /\ sent' \in {sent, sent + 1} /\ attempts' = attempts
  <2>1. /\ op[p].phase = "reserved" /\ sent' \in {sent, sent + 1} /\ attempts' = attempts
        /\ \/ Answer(p, "failed", 0, 0) \/ Answer(p, "ready", 0, now)
           \/ \E r \in RetryAfters : Answer(p, "retry", r, 0)
    BY <1>6 DEF RefuseRequest, Request
  <2>2. 0 \in RetryAfters /\ {"failed", "ready", "retry"} \subseteq Outcomes
    BY Constants DEF Outcomes
  <2>3. \E r \in Ops : op' = [op EXCEPT ![p] = r] /\ r.phase \in {"received", "answered"}
    BY <1>1, <1>5, <2>1, <2>2
  <2>4. QED
    BY <2>1, <2>3
<1>7. ASSUME NEW p \in Operators, NEW phase \in {"staging", "answered"}, Proceed(p, phase)
      PROVE  \E r \in Ops : op' = [op EXCEPT ![p] = r] /\ r.phase = phase
  <2>1. op[p] \in Ops
    BY <1>1
  <2>2. [op[p] EXCEPT !.phase = phase] \in Ops /\ [op[p] EXCEPT !.phase = phase].phase = phase
    BY <2>1 DEF Ops
  <2>3. QED
    BY <1>7, <2>2 DEF Proceed
<1>8. ASSUME NEW p \in Operators, Stage(p) \/ Publish(p)
      PROVE  \E r \in Ops :
               /\ op' = [op EXCEPT ![p] = r] /\ r.phase \in {"staging", "answered", "received"}
               /\ sent' = sent /\ attempts' = attempts
  <2>1. /\ sent' = sent /\ attempts' = attempts
        /\ Answer(p, "failed", 0, 0) \/ Proceed(p, "staging") \/ Proceed(p, "answered")
    BY <1>8 DEF Stage, Publish
  <2>2. 0 \in RetryAfters /\ "failed" \in Outcomes
    BY Constants DEF Outcomes
  <2>3. \E r \in Ops :
          op' = [op EXCEPT ![p] = r] /\ r.phase \in {"staging", "answered", "received"}
    BY <1>5, <1>7, <2>1, <2>2
  <2>4. QED
    BY <2>1, <2>3
<1>9. ASSUME NEW p \in Operators, RouteRecovery(p)
      PROVE  \E r \in Ops :
               /\ op' = [op EXCEPT ![p] = r] /\ r.phase = "routed"
               /\ sent' = sent /\ attempts' = attempts
  <2>1. /\ [Idle EXCEPT !.phase = "routed", !.attempt = Len(attempts)] \in Ops
        /\ [Idle EXCEPT !.phase = "routed", !.attempt = Len(attempts)].phase = "routed"
    BY <1>1, IdleTyped DEF Ops
  <2>2. QED
    BY <1>9, <2>1 DEF RouteRecovery
<1>10. ASSUME NEW p \in Operators, FailStaging(p) \/ Stop(p) \/ Record(p) \/ Recover(p)
       PROVE  /\ op' = [op EXCEPT ![p] = Idle] /\ sent' = sent
              /\ Len(attempts') = Len(attempts)
  <2>1. CASE FailStaging(p) \/ Stop(p)
    BY <2>1 DEF FailStaging, Stop
  <2>2. CASE Record(p) \/ Recover(p)
    BY <2>2, Ending DEF Closed
  <2>3. QED
    BY <1>10, <2>1, <2>2
<1>11. CASE Tick \/ Review \/ UNCHANGED vars
  BY <1>11 DEF Tick, Review, vars
<1>12. QED
  <2>1. ASSUME NEW p \in Operators, NEW r \in Ops, op' = [op EXCEPT ![p] = r], sent' = sent,
               Len(attempts') = Len(attempts),
               r.phase \in {"idle", "received", "staging", "answered", "routed"}
        PROVE  \E q \in Operators : \E s \in Ops :
                 /\ op' = [op EXCEPT ![q] = s]
                 /\ s.phase \in {"planned", "checked"} =>
                      s.plan.status \in FetchDue /\ s.plan.checked <= now
                 /\ s.phase # "reserved" /\ sent' = sent /\ Len(attempts') = Len(attempts)
    BY <2>1
  <2>2. ASSUME NEW p \in Operators, FailStaging(p) \/ Stop(p) \/ Record(p) \/ Recover(p)
        PROVE  \E q \in Operators : \E s \in Ops :
                 /\ op' = [op EXCEPT ![q] = s]
                 /\ s.phase \in {"planned", "checked"} =>
                      s.plan.status \in FetchDue /\ s.plan.checked <= now
                 /\ s.phase # "reserved" /\ sent' = sent /\ Len(attempts') = Len(attempts)
    BY <1>10, <2>1, <2>2, IdleTyped
  <2>3. ASSUME NEW p \in Operators, Stage(p) \/ Publish(p) \/ RouteRecovery(p)
        PROVE  \E q \in Operators : \E s \in Ops :
                 /\ op' = [op EXCEPT ![q] = s]
                 /\ s.phase \in {"planned", "checked"} =>
                      s.plan.status \in FetchDue /\ s.plan.checked <= now
                 /\ s.phase # "reserved" /\ sent' = sent /\ Len(attempts') = Len(attempts)
    BY <1>8, <1>9, <2>1, <2>3
  <2>4. QED
    BY <1>2, <1>3, <1>4, <1>6, <1>11, <2>2, <2>3 DEF Next

\* A reservation is spent at most once.
LEMMA SpendingKept ==
  ASSUME IInv, [Next]_vars
  PROVE  Spending'
<1>1. /\ IsFiniteSet(Unspent) /\ Cardinality(Unspent) \in Nat /\ sent \in Nat
      /\ sent + Cardinality(Unspent) <= Len(attempts) /\ Len(attempts) \in Nat
      /\ op \in [Operators -> Ops]
  BY Shape, FS_CardinalityType DEF IInv, Spending
<1>2. CASE op' = op /\ sent' = sent /\ attempts' = attempts
  <2>1. Unspent' = Unspent
    BY <1>2 DEF Unspent
  <2>2. QED
    BY <1>1, <1>2, <2>1 DEF Spending
<1>3. ASSUME NEW p \in Operators, NEW r \in Ops, op' = [op EXCEPT ![p] = r],
             \/ r.phase # "reserved" /\ sent' = sent /\ Len(attempts') = Len(attempts)
             \/ /\ op[p].phase = "reserved" /\ r.phase # "reserved" /\ sent' = sent + 1
                /\ attempts' = attempts
             \/ /\ op[p].phase = "checked" /\ r.phase = "reserved" /\ sent' = sent
                /\ Len(attempts') = Len(attempts) + 1
      PROVE  Spending'
  <2>1. op'[p] = r /\ \A q \in Operators : q # p => op'[q] = op[q]
    BY <1>1, <1>3
  <2>2. CASE r.phase # "reserved"
    <3>1. Unspent' = Unspent \ {p}
      BY <2>1, <2>2 DEF Unspent
    <3>2. /\ IsFiniteSet(Unspent') /\ Cardinality(Unspent') \in Nat
          /\ Cardinality(Unspent') =
               IF p \in Unspent THEN Cardinality(Unspent) - 1 ELSE Cardinality(Unspent)
      BY <1>1, <3>1, FS_RemoveElement, FS_CardinalityType
    <3>3. op[p].phase = "reserved" => p \in Unspent
      BY DEF Unspent
    <3>4. sent' + Cardinality(Unspent') <= Len(attempts')
      BY <1>1, <1>3, <2>2, <3>2, <3>3
    <3>5. QED
      BY <3>2, <3>4 DEF Spending
  <2>3. CASE r.phase = "reserved"
    <3>1. /\ Unspent' = Unspent \cup {p} /\ p \notin Unspent
          /\ sent' = sent /\ Len(attempts') = Len(attempts) + 1
      BY <1>3, <2>1, <2>3 DEF Unspent
    <3>2. IsFiniteSet(Unspent') /\ Cardinality(Unspent') = Cardinality(Unspent) + 1
      BY <1>1, <3>1, FS_AddElement
    <3>3. sent' + Cardinality(Unspent') <= Len(attempts')
      BY <1>1, <3>1, <3>2
    <3>4. QED
      BY <3>2, <3>3 DEF Spending
  <2>4. QED
    BY <2>2, <2>3
<1>4. QED
  BY <1>2, <1>3, Going

LEMMA OpsKept ==
  ASSUME IInv, [Next]_vars
  PROVE  op' \in [Operators -> Ops] /\ \A q \in Operators : PlanOk(q)'
<1>1. /\ op \in [Operators -> Ops] /\ now \in Nat /\ now' \in Nat /\ now <= now'
      /\ \A q \in Operators : PlanOk(q) /\ op[q].plan.checked \in Nat
  BY Shape, AttemptsKept DEF IInv, Ops, Plan
<1>2. CASE op' = op
  BY <1>1, <1>2 DEF PlanOk
<1>3. ASSUME NEW p \in Operators, NEW r \in Ops, op' = [op EXCEPT ![p] = r],
             r.phase \in {"planned", "checked"} =>
               r.plan.status \in FetchDue /\ r.plan.checked <= now
      PROVE  op' \in [Operators -> Ops] /\ \A q \in Operators : PlanOk(q)'
  <2>1. op' \in [Operators -> Ops] /\ op'[p] = r /\ r.plan.checked \in Nat
    BY <1>1, <1>3 DEF Ops, Plan
  <2>2. PlanOk(p)'
    BY <1>1, <1>3, <2>1 DEF PlanOk
  <2>3. \A q \in Operators : q # p => PlanOk(q)'
    BY <1>1, <1>3 DEF PlanOk
  <2>4. QED
    BY <2>1, <2>2, <2>3
<1>4. QED
  BY <1>2, <1>3, Going

LEMMA TypeKept ==
  ASSUME IInv, [Next]_vars
  PROVE  TypeOK'
<1>1. /\ attempts' \in Seq(Attempt) /\ reviews' \in [0 .. MaxAttempts -> ReviewRecords]
      /\ op' \in [Operators -> Ops]
  BY AttemptsKept, ReviewsTyped, OpsKept
<1>2. /\ now' \in Nat \ {0} /\ lastEvent' \in Nat /\ package' \in Nat /\ sent' \in Nat
      /\ staging' \in BOOLEAN
  BY AttemptsKept, PackageOnce
<1>3. QED
  BY <1>1, <1>2 DEF TypeOK, Attempt, ReviewRecords, Ops, Plan

LEMMA InvKept == IInv /\ [Next]_vars => IInv'
<1> SUFFICES ASSUME IInv, [Next]_vars PROVE IInv'
  OBVIOUS
<1>1. TypeOK' /\ \A p \in Operators : PlanOk(p)'
  BY TypeKept, OpsKept
<1>2. Spending' /\ Len(attempts') <= MaxAttempts /\ Dated'
  BY SpendingKept, AttemptsKept
<1>3. HistoryStaysAcceptable' /\ ReadyPackageIsCurrent'
  BY HistoryKept, PackageKept
<1>4. QED
  BY <1>1, <1>2, <1>3 DEF IInv

-----------------------------------------------------------------------------
(* The theorems.                                                           *)

LEMMA Invariant == Spec => []IInv
<1>1. Init => IInv
  BY Initially
<1>2. IInv /\ [Next]_vars => IInv'
  BY InvKept
<1>3. QED
  BY <1>1, <1>2, PTL DEF Spec

\* The state keeps its shape: what the capability answers is what the policy's
\* readers accept.
THEOREM TypeCorrect == Spec => []TypeOK
<1>1. IInv => TypeOK
  BY DEF IInv
<1>2. QED
  BY <1>1, Invariant, PTL

\* However many coordinators run, crash, stay behind or are recovered from, the
\* provider gets no more requests than reserve_acquisition_attempt reserved, and
\* these are no more than maximum_attempt_count.
THEOREM Budget == Spec => []BudgetKept
<1>1. IInv => BudgetKept
  <2> SUFFICES ASSUME IInv PROVE BudgetKept
    OBVIOUS
  <2>1. Cardinality(Unspent) \in Nat /\ sent \in Nat /\ Len(attempts) \in Nat
    BY Shape, FS_CardinalityType DEF IInv, Spending
  <2>2. QED
    BY <2>1 DEF IInv, Spending, BudgetKept
<1>2. QED
  BY <1>1, Invariant, PTL

\* Whatever custody appends between two plans, _validate_attempts and
\* _validate_operator_reviews accept the journal ever after.
THEOREM Acceptable == Spec => []HistoryStaysAcceptable
<1>1. IInv => HistoryStaysAcceptable
  BY DEF IInv
<1>2. QED
  BY <1>1, Invariant, PTL

\* An attempt recorded or recovered as ready is the last, and its package was fetched
\* between its reservation and its end, whoever fetched it.
THEOREM PackageIsCurrent == Spec => []ReadyPackageIsCurrent
<1>1. IInv => ReadyPackageIsCurrent
  BY DEF IInv
<1>2. QED
  BY <1>1, Invariant, PTL
=============================================================================
