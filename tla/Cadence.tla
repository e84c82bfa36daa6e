------------------------------ MODULE Cadence ------------------------------
(***************************************************************************)
(* The bounded cadence of one session: a runner plans a wake from the      *)
(* wakes retained in the run journal (daily_eod_pipeline_cadence),         *)
(* reserves it, invokes one transition without the journal lock and        *)
(* records the known result (daily_eod_pipeline_runtime and                *)
(* daily_eod_cadence_evidence).                                            *)
(*                                                                         *)
(* Plans are made by any number of processes, each under a policy of its   *)
(* own no wider than the limits, and are used any time later.  The journal *)
(* lock makes Reserve and Record single steps.  Names that DailyChain has  *)
(* too are prefixed, so that one module can hold the proofs of both.       *)
(***************************************************************************)
EXTENDS Integers, Sequences

CONSTANTS
  Runners,        \* processes that wake the pipeline
  Policies,       \* policies a caller may select
  WakeLimit,      \* MAXIMUM_WAKE_LIMIT
  WindowLimit,    \* MAXIMUM_WINDOW_SECONDS
  IntervalFloor,  \* MINIMUM_INTERVAL_FLOOR_SECONDS
  MaxTime         \* bound: the clock

\* _validate_policy
PolicyOk(policy) ==
  /\ policy.wakes \in 1 .. WakeLimit
  /\ policy.interval >= IntervalFloor
  /\ policy.window \in policy.interval .. WindowLimit

ASSUME CadenceAssumption ==
  /\ WakeLimit \in Nat /\ WindowLimit \in Nat /\ IntervalFloor \in Nat /\ MaxTime \in Nat
  /\ Policies \subseteq [wakes : Nat, window : Nat, interval : Nat]
  /\ \A policy \in Policies : PolicyOk(policy)

VARIABLES
  now,       \* the clock
  retained,  \* the recorded wakes of the session, in order
  openWake,   \* the set of open reservations: none or one
  run,       \* what each runner does
  invoked    \* the transitions that began: the wake of each, and when (history)

cadenceVars == <<now, retained, openWake, run, invoked>>

Time == 0 .. MaxTime
NoTime == -1
NoWakePlan == [policy |-> CHOOSE policy \in Policies : TRUE, start |-> NoTime,
           checked |-> NoTime, used |-> 0]
Idle == [pc |-> "idle", plan |-> NoWakePlan, wake |-> 0, started |-> NoTime,
         looked |-> NoTime, completed |-> NoTime, outcome |-> "unknown", eligible |-> NoTime]

Last == retained[Len(retained)]

-----------------------------------------------------------------------------
(* Planning.                                                               *)

\* _validate_evidence_chain
ChainOk(policy, start) ==
  \A i \in DOMAIN retained :
    /\ retained[i].plan.start = start
    /\ i > 1 => retained[i].started >= retained[i - 1].completed + policy.interval
    /\ i < Len(retained) => retained[i].outcome # "failed"

\* _interval_boundary
IntervalBoundary(policy) ==
  LET minimum == Last.completed + policy.interval
  IN  IF Last.eligible > minimum THEN Last.eligible ELSE minimum

\* plan_bounded_pipeline_cadence, where it says that a wake is ready; every other
\* plan stops or waits and changes nothing.
PlanWake(p, policy, start) ==
  /\ run[p] = Idle
  /\ start <= now
  /\ ChainOk(policy, start)
  /\ retained # <<>> => Last.outcome # "failed" /\ now >= IntervalBoundary(policy)
  /\ Len(retained) < policy.wakes
  /\ now < start + policy.window
  /\ run' = [run EXCEPT ![p].pc = "planned",
               ![p].plan = [policy |-> policy, start |-> start, checked |-> now,
                            used |-> Len(retained)]]
  /\ UNCHANGED <<now, retained, openWake, invoked>>

-----------------------------------------------------------------------------
(* Custody of the wake.                                                    *)

\* Mutant of PlanFits: a plan made before another wake is still good.
PlanNeverStale(plan, started) ==
  /\ started >= plan.checked
  /\ started < plan.start + plan.policy.window

\* _validate_invocation_plans and _validate_retained_cadence_plan
PlanFits(plan, started) ==
  /\ plan.used = Len(retained)
  /\ started >= plan.checked
  /\ started < plan.start + plan.policy.window

\* _validate_retention_boundary
WithinLimits(plan, started) ==
  /\ Len(retained) < WakeLimit
  /\ started < plan.start + WindowLimit
  /\ retained # <<>> =>
       /\ Last.outcome # "failed"
       /\ started >= Last.completed + IntervalFloor
       /\ Last.plan.start = plan.start

\* Mutant of Reserve: an open reservation does not stop the next.
ReserveOverPending(p, started) ==
  /\ run[p].pc = "planned"
  /\ PlanFits(run[p].plan, started)
  /\ WithinLimits(run[p].plan, started)
  /\ openWake' = {[wake |-> Len(retained) + 1, plan |-> run[p].plan, started |-> started]}
  /\ run' = [run EXCEPT ![p].pc = "reserved", ![p].wake = Len(retained) + 1,
                        ![p].started = started]
  /\ UNCHANGED <<now, retained, invoked>>

\* reserve_cadence_wake: the caller sampled the time some while ago.
Reserve(p, started) ==
  /\ run[p].pc = "planned"
  /\ openWake = {}
  /\ PlanFits(run[p].plan, started)
  /\ WithinLimits(run[p].plan, started)
  /\ openWake' = {[wake |-> Len(retained) + 1, plan |-> run[p].plan, started |-> started]}
  /\ run' = [run EXCEPT ![p].pc = "reserved", ![p].wake = Len(retained) + 1,
                        ![p].started = started]
  /\ UNCHANGED <<now, retained, invoked>>

\* The one transition begins, after the lock is released.
Invoke(p) ==
  /\ run[p].pc = "reserved"
  /\ run' = [run EXCEPT ![p].pc = "running", ![p].looked = now]
  /\ invoked' = Append(invoked, [wake |-> run[p].wake, at |-> now])
  /\ UNCHANGED <<now, retained, openWake>>

\* The transition returns.  A coordinator that waits gives the time of the next check,
\* which was ahead when it looked.
Return(p, outcome, eligible) ==
  /\ run[p].pc = "running"
  /\ eligible # NoTime => outcome = "no_change" /\ eligible > run[p].looked
  /\ run' = [run EXCEPT ![p].pc = "returned", ![p].outcome = outcome,
                        ![p].completed = now, ![p].eligible = eligible]
  /\ UNCHANGED <<now, retained, openWake, invoked>>

\* record_cadence_wake_evidence
EvidenceOk(r) ==
  /\ r.completed >= r.started
  /\ r.eligible # NoTime => r.outcome = "no_change" /\ r.eligible >= r.completed

\* Mutant of Record: the reservation is not closed.
RecordLeavesOpen(p) ==
  /\ run[p].pc = "returned"
  /\ EvidenceOk(run[p])
  /\ openWake = {[wake |-> run[p].wake, plan |-> run[p].plan, started |-> run[p].started]}
  /\ retained' = Append(retained,
       [plan |-> run[p].plan, started |-> run[p].started, completed |-> run[p].completed,
        outcome |-> run[p].outcome, eligible |-> run[p].eligible])
  /\ run' = [run EXCEPT ![p] = Idle]
  /\ UNCHANGED <<now, openWake, invoked>>

\* resolve_cadence_wake
Record(p) ==
  /\ run[p].pc = "returned"
  /\ EvidenceOk(run[p])
  /\ openWake = {[wake |-> run[p].wake, plan |-> run[p].plan, started |-> run[p].started]}
  /\ openWake' = {}
  /\ retained' = Append(retained,
       [plan |-> run[p].plan, started |-> run[p].started, completed |-> run[p].completed,
        outcome |-> run[p].outcome, eligible |-> run[p].eligible])
  /\ run' = [run EXCEPT ![p] = Idle]
  /\ UNCHANGED <<now, invoked>>

\* Mutant of Lose: a failure takes the reservation back.
LoseAndRelease(p) ==
  /\ run[p] # Idle
  /\ run' = [run EXCEPT ![p] = Idle]
  /\ openWake' = {}
  /\ UNCHANGED <<now, retained, invoked>>

\* Any refusal, an exception of the transition, a result that is not accepted, the
\* end of the process: a reservation it made stays open.
Lose(p) ==
  /\ run[p] # Idle
  /\ run' = [run EXCEPT ![p] = Idle]
  /\ UNCHANGED <<now, retained, openWake, invoked>>

Tick ==
  /\ now < MaxTime
  /\ now' = now + 1
  /\ UNCHANGED <<retained, openWake, run, invoked>>

-----------------------------------------------------------------------------
CadenceInit ==
  /\ now = 0 /\ retained = <<>> /\ openWake = {} /\ invoked = <<>>
  /\ run = [p \in Runners |-> Idle]

Step(p) ==
  \/ \E policy \in Policies, start \in Time : PlanWake(p, policy, start)
  \/ \E started \in 0 .. now : Reserve(p, started)
  \/ Invoke(p)
  \/ \E outcome \in {"advanced", "no_change", "failed"}, eligible \in {NoTime} \cup Time :
       Return(p, outcome, eligible)
  \/ Record(p) \/ Lose(p)

CadenceNext == Tick \/ \E p \in Runners : Step(p)

CadenceSpec == CadenceInit /\ [][CadenceNext]_cadenceVars

-----------------------------------------------------------------------------
(* Properties.                                                             *)

Plans == [policy : Policies, start : Time, checked : Time, used : 0 .. WakeLimit]
Wakes == [plan : Plans, started : Time, completed : Time,
          outcome : {"advanced", "no_change", "failed"}, eligible : Time \cup {NoTime}]
Reservations == [wake : 1 .. WakeLimit, plan : Plans, started : Time]

\* The shape of the state; no event of a wake is ahead of the clock.
CadenceTypeOK ==
  /\ now \in Time
  /\ retained \in Seq(Wakes)
  /\ openWake \subseteq Reservations
  /\ run \in [Runners ->
       [pc : {"idle", "planned", "reserved", "running", "returned"},
        plan : Plans \cup {NoWakePlan}, wake : 0 .. WakeLimit, started : Time \cup {NoTime}, looked : Time \cup {NoTime},
        completed : Time \cup {NoTime},
        outcome : {"unknown", "advanced", "no_change", "failed"}, eligible : Time \cup {NoTime}]]
  /\ invoked \in Seq([wake : 1 .. WakeLimit, at : Time])
  /\ \A r \in openWake : r.wake = Len(retained) + 1 /\ r.started <= now

\* No wake is invoked twice, and none is invoked unless every wake before it is
\* recorded and did not fail: no retry and no replay, by whichever process.
NoReplay ==
  /\ \A i, j \in DOMAIN invoked : invoked[i].wake = invoked[j].wake => i = j
  /\ \A i \in DOMAIN invoked : \A wake \in 1 .. invoked[i].wake - 1 :
       wake \in DOMAIN retained /\ retained[wake].outcome # "failed"

\* At most one transition runs for a session at a time.
OneAtATime ==
  \A p, q \in Runners :
    run[p].pc \in {"reserved", "running"} /\ run[q].pc \in {"reserved", "running"} => p = q

\* Every wake keeps the policy it was planned under, though the plan was made earlier,
\* perhaps while another process was about to wake: its budget, its window, the
\* interval after the wake before it and the time that one said to come back.
KeepsItsPolicy ==
  \A i \in DOMAIN retained :
    LET policy == retained[i].plan.policy IN
    /\ i <= policy.wakes
    /\ retained[i].started < retained[i].plan.start + policy.window
    /\ i > 1 =>
         /\ retained[i].plan.start = retained[1].plan.start
         /\ retained[i].started >= retained[i - 1].completed + policy.interval
         /\ retained[i].started >= retained[i - 1].eligible
=============================================================================
