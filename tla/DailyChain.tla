------------------------------ MODULE DailyChain ------------------------------
(***************************************************************************)
(* One session's daily chain: the read-only planner                        *)
(* (daily_eod_automation.py) that names the one next action from what is   *)
(* on disk, the executor that runs one offline action under the journal    *)
(* lock and the recovery that classifies an interrupted one                *)
(* (daily_eod_executor.py), and how the administrators it calls write      *)
(* their artifacts.                                                        *)
(*                                                                         *)
(* A fingerprint is the attempt that made the artifact: what is recomputed *)
(* differs from what it replaces, the case in which mixing the two would   *)
(* matter.  The canonical Apply and the two publications are single steps  *)
(* here, because a custody of their own brackets them.  The operator may   *)
(* remove an artifact, which is how a blocked plan is unblocked, without   *)
(* taking the journal lock.                                                *)
(***************************************************************************)
EXTENDS Integers, Sequences

CONSTANTS
  MaxAttempts,   \* bound: executor attempts
  MaxChanges     \* bound: changes and pointer moves from outside the chain

ASSUME BoundsAssumption == MaxAttempts \in Nat \ {0} /\ MaxChanges \in Nat

VARIABLES
  artifact,   \* what is on disk for each stage
  active,     \* which plan each production pointer names, 0: another session's
  pending,    \* the action_started event no terminal event has closed
  runner,     \* the process that holds the journal lock and runs the action
  builder,    \* a bundle build whose parent process died under it
  event,      \* the last terminal event
  attempts,   \* action_started events so far
  changes,    \* changes and pointer moves so far
  disturbed   \* something failed, crashed or was removed

vars == <<artifact, active, pending, runner, builder, event, attempts, changes, disturbed>>

\* The order in which the planner inspects.
Order == <<"identity", "eod", "phase1a", "sector_rotation", "phase1b", "candidate",
           "entry_geometry", "phase2", "preview", "strategy_channels", "visual_context",
           "publication_plan", "market_intelligence_active", "snapshot_plan",
           "dashboard_snapshot_active", "serving_bundle">>
Position(s) == CHOOSE k \in DOMAIN Order : Order[k] = s

PlanOf == [market_intelligence_active |-> "publication_plan",
           dashboard_snapshot_active |-> "snapshot_plan"]
Pointers == DOMAIN PlanOf
Canonical == {"identity", "eod"}
Stages == {Order[k] : k \in DOMAIN Order} \ Pointers
Offline == Stages \ (Canonical \cup {"sector_rotation"})

\* What each stage's writer reads of this session and records as its source.
Reads(s) ==
  CASE s = "identity" -> {}
    [] s = "eod" -> {"identity"}
    [] s = "phase1a" -> {"identity", "eod"}
    [] s \in {"sector_rotation", "phase1b"} -> {"phase1a"}
    [] s = "candidate" -> {"phase1b"}
    [] s = "entry_geometry" -> {"candidate"}
    [] s = "phase2" -> {"phase1a", "phase1b"}
    [] s = "preview" -> {"phase1a", "phase1b", "phase2"}
    [] s \in {"strategy_channels", "visual_context"} -> {"candidate", "entry_geometry"}
    [] s = "publication_plan" -> {"phase1a", "sector_rotation", "phase1b", "phase2", "preview",
                                  "candidate", "entry_geometry"}
    [] s = "snapshot_plan" -> {"publication_plan", "sector_rotation", "strategy_channels",
                               "visual_context"}
    [] s = "serving_bundle" -> {"snapshot_plan"}

\* The sources the planner compares: all but Candidate's Phase 1b.
Compared(s) == IF s = "candidate" THEN {} ELSE Reads(s)

\* Writers that rename a finished directory into place; the others make their
\* target first, or leave one of two files behind.
Renamed == {"sector_rotation", "candidate", "strategy_channels", "visual_context"}

NoSources == [s \in Stages |-> 0]
Absent == [state |-> "absent", by |-> 0, from |-> NoSources]
Sources(s) == [r \in Stages |-> IF r \in Reads(s) THEN artifact[r].by ELSE 0]

-----------------------------------------------------------------------------
(* plan_daily_eod_automation                                               *)

\* _inspect, with the formal readers as the corruption boundary.  The bundle is
\* looked for under its plan's release, so another plan's is unexpected.
Observed(s) ==
  IF s \in Pointers
  THEN IF active[s] = artifact[PlanOf[s]].by THEN "completed" ELSE "missing"
  ELSE CASE artifact[s].state = "absent" -> "missing"
         [] artifact[s].state = "partial" -> "invalid"
         [] artifact[s].state = "complete" ->
              IF s = "serving_bundle" /\ artifact[s].from # Sources(s) THEN "invalid"
              ELSE "completed"

Bound(s) ==
  s \in Stages => \A r \in Compared(s) : artifact[s].from[r] = artifact[r].by

Passed(s) == Observed(s) = "completed" /\ Bound(s)

\* Where the inspection stops: the first stage not passed, or past the end.
Stop ==
  CHOOSE k \in 1 .. Len(Order) + 1 :
    /\ k \in DOMAIN Order => ~ Passed(Order[k])
    /\ \A j \in 1 .. k - 1 : Passed(Order[j])

\* Mutant of DownstreamExists: later artifacts are not looked for.
NothingDownstream(s) == FALSE

\* _downstream_existing
DownstreamExists(s) ==
  \E k \in DOMAIN Order :
    k > Position(s) /\ Order[k] \in Stages /\ artifact[Order[k]].state # "absent"

Blocked == [status |-> "blocked", action |-> "operator_diagnosis"]

\* _stop_before_stage, and what each later inspection returns of its own.
Decision(s) ==
  IF s \in Pointers THEN [status |-> "analytics_ready", action |-> s]
  ELSE IF Observed(s) # "missing" \/ s = "sector_rotation" THEN Blocked
  ELSE IF s \in {"publication_plan", "snapshot_plan", "serving_bundle"}
  THEN [status |-> "ready", action |-> s]
  ELSE IF DownstreamExists(s) THEN Blocked
  ELSE [status |-> IF s \in Canonical THEN "waiting" ELSE "ready", action |-> s]

\* The plan, with what its fingerprint covers of the stages inspected.
Plan ==
  [decision |-> IF Stop \in DOMAIN Order THEN Decision(Order[Stop])
                ELSE [status |-> "analytics_ready", action |-> "deployment"],
   seen |-> [k \in 1 .. Stop - 1 |-> IF Order[k] \in Stages THEN artifact[Order[k]].by
                                     ELSE active[Order[k]]]]
NextAction == Plan.decision.action

\* _stage_completed: the observation alone, before any binding is compared.
StageCompleted(s) == Position(s) <= Stop /\ Observed(s) = "completed"

-----------------------------------------------------------------------------
(* The executor.                                                           *)

NoPlan == [decision |-> [status |-> "none", action |-> "none"], seen |-> <<>>]
NoAction == [stage |-> "none", plan |-> NoPlan, attempt |-> 0]
NoRunner == [phase |-> "idle", from |-> NoSources]
NoEvent == [outcome |-> "none", stage |-> "none", attempt |-> 0]
NoBuilder == [phase |-> "idle", from |-> NoSources, attempt |-> 0]

Terminal(outcome) ==
  /\ event' = [outcome |-> outcome, stage |-> pending.stage, attempt |-> pending.attempt]
  /\ pending' = NoAction

\* execute_daily_eod_action up to the call of the administrator, which reads its
\* inputs first.  The caller's plan must be the one made again under the lock, so
\* only a caller who has read this very plan gets here.
Begin ==
  /\ pending = NoAction
  /\ attempts < MaxAttempts
  /\ Plan.decision.status = "ready"
  /\ attempts' = attempts + 1
  /\ pending' = [stage |-> NextAction, plan |-> Plan, attempt |-> attempts + 1]
  /\ runner' = [phase |-> "writing", from |-> Sources(NextAction)]
  /\ UNCHANGED <<artifact, active, builder, event, changes, disturbed>>

Write(s, state, from, attempt) ==
  artifact' = [artifact EXCEPT ![s] = [state |-> state, by |-> attempt, from |-> from]]

\* A writer makes its target, which must not exist, and then fills it.
StartTarget ==
  LET s == pending.stage
  IN  /\ runner.phase = "writing"
      /\ s \notin Renamed
      /\ artifact[s].state = "absent"
      /\ Write(s, "partial", runner.from, pending.attempt)
      /\ runner' = [runner EXCEPT !.phase = "filling"]
      /\ UNCHANGED <<active, pending, builder, event, attempts, changes, disturbed>>

\* Mutant of CompleteTarget: the administrator leaves Sector Rotation out.
CompleteTargetAlone ==
  LET s == pending.stage
  IN  /\ runner.phase = IF s \in Renamed THEN "writing" ELSE "filling"
      /\ s \in Renamed => artifact[s].state = "absent"
      /\ Write(s, "complete", runner.from, pending.attempt)
      /\ runner' = [runner EXCEPT !.phase = "written"]
      /\ UNCHANGED <<active, pending, builder, event, attempts, changes, disturbed>>

\* The artifact is complete: its manifest, written last, or the final rename.
CompleteTarget ==
  LET s == pending.stage
  IN  /\ runner.phase = IF s \in Renamed THEN "writing" ELSE "filling"
      /\ s \in Renamed => artifact[s].state = "absent"
      /\ Write(s, "complete", runner.from, pending.attempt)
      /\ runner' = [runner EXCEPT !.phase = IF s = "phase1a" THEN "sector" ELSE "written"]
      /\ UNCHANGED <<active, pending, builder, event, attempts, changes, disturbed>>

\* The Phase 1a administrator goes on to Sector Rotation, whose writer rereads
\* the Phase 1a audit it has just written.
CompleteSector ==
  /\ runner.phase = "sector"
  /\ artifact["sector_rotation"].state = "absent"
  /\ artifact["phase1a"].state = "complete"
  /\ Write("sector_rotation", "complete", Sources("sector_rotation"), pending.attempt)
  /\ runner' = [runner EXCEPT !.phase = "written"]
  /\ UNCHANGED <<active, pending, builder, event, attempts, changes, disturbed>>

\* A failing bundle script removes its staging directory, unless it was killed.
Cleaned == artifact' = [artifact EXCEPT !["serving_bundle"] = Absent]

\* The administrator raises, reports failure or times out; what it wrote stays.
ActionRaises ==
  /\ runner.phase # "idle"
  /\ Terminal("failed")
  /\ runner' = NoRunner
  /\ disturbed' = TRUE
  /\ \/ UNCHANGED artifact
     \/ pending.stage = "serving_bundle" /\ runner.phase = "filling" /\ Cleaned
  /\ UNCHANGED <<active, builder, attempts, changes>>

\* Plan again and record success only when the stage is complete and the next
\* action is another one.
Finish ==
  /\ runner.phase = "written"
  /\ Terminal(IF StageCompleted(pending.stage) /\ NextAction # pending.stage
              THEN "succeeded" ELSE "failed")
  /\ runner' = NoRunner
  /\ UNCHANGED <<artifact, active, builder, attempts, changes, disturbed>>

\* The process dies.  A bundle build is a child process and may live on; one
\* such orphan at a time.
Crash ==
  /\ runner.phase # "idle"
  /\ runner' = NoRunner
  /\ disturbed' = TRUE
  /\ \/ UNCHANGED builder
     \/ /\ pending.stage = "serving_bundle" /\ runner.phase # "written"
        /\ builder = NoBuilder
        /\ builder' = [phase |-> runner.phase, from |-> runner.from,
                       attempt |-> pending.attempt]
  /\ UNCHANGED <<artifact, active, pending, event, attempts, changes>>

\* The orphaned build makes its staging directory.
OrphanStarts ==
  /\ builder.phase = "writing"
  /\ artifact["serving_bundle"].state = "absent"
  /\ Write("serving_bundle", "partial", builder.from, builder.attempt)
  /\ builder' = [builder EXCEPT !.phase = "filling"]
  /\ UNCHANGED <<active, pending, runner, event, attempts, changes, disturbed>>

\* It moves its staging directory into place, fails, or is killed.
OrphanEnds ==
  /\ builder # NoBuilder
  /\ builder' = NoBuilder
  /\ \/ /\ builder.phase = "filling"
        /\ \/ Write("serving_bundle", "complete", builder.from, builder.attempt)
           \/ Cleaned
     \/ UNCHANGED artifact
  /\ UNCHANGED <<active, pending, runner, event, attempts, changes, disturbed>>

\* Mutant of Recovered: the next action alone decides.
RecoveredByNextAction ==
  IF NextAction # pending.stage THEN "recovered_succeeded"
  ELSE IF Plan = pending.plan THEN "recovered_not_completed" ELSE "recovery_blocked"

Recovered ==
  IF StageCompleted(pending.stage) /\ NextAction # pending.stage THEN "recovered_succeeded"
  ELSE IF Plan = pending.plan THEN "recovered_not_completed"
  ELSE "recovery_blocked"

\* Mutant of Recover: recovery does not take the journal lock.
RecoverUnlocked ==
  /\ pending # NoAction
  /\ Terminal(Recovered)
  /\ UNCHANGED <<artifact, active, runner, builder, attempts, changes, disturbed>>

\* recover_daily_eod_action
Recover ==
  /\ pending # NoAction
  /\ runner.phase = "idle"
  /\ Terminal(Recovered)
  /\ UNCHANGED <<artifact, active, runner, builder, attempts, changes, disturbed>>

-----------------------------------------------------------------------------
(* What happens around the executor.                                       *)

\* A custodied canonical Apply.
ApplyCanonical ==
  /\ pending = NoAction
  /\ Plan.decision.status = "waiting"
  /\ Write(NextAction, "complete", Sources(NextAction), 1)
  /\ UNCHANGED <<active, pending, runner, builder, event, attempts, changes, disturbed>>

\* A custodied publication moves its pointer to the reviewed plan.
Publish ==
  /\ pending = NoAction
  /\ NextAction \in Pointers
  /\ active' = [active EXCEPT ![NextAction] = artifact[PlanOf[NextAction]].by]
  /\ UNCHANGED <<artifact, pending, runner, builder, event, attempts, changes, disturbed>>

\* Another session is published, or the pointer is rolled back.
PointerMoves ==
  /\ changes < MaxChanges
  /\ \E p \in Pointers : active[p] # 0 /\ active' = [active EXCEPT ![p] = 0]
  /\ changes' = changes + 1
  /\ UNCHANGED <<artifact, pending, runner, builder, event, attempts, disturbed>>

\* The operator removes an artifact that nothing is writing.
Remove ==
  /\ changes < MaxChanges
  /\ \E s \in Stages \ Canonical :
      /\ artifact[s].state # "absent"
      /\ runner.phase # "idle" => s # pending.stage
      /\ runner.phase = "sector" \/ (runner.phase = "written" /\ pending.stage = "phase1a")
           => s # "sector_rotation"
      /\ s = "serving_bundle" => builder.phase # "filling"
      /\ artifact' = [artifact EXCEPT ![s] = Absent]
  /\ changes' = changes + 1
  /\ disturbed' = TRUE
  /\ UNCHANGED <<active, pending, runner, builder, event, attempts>>

Init ==
  /\ artifact = [s \in Stages |-> Absent]
  /\ active = [p \in Pointers |-> 0]
  /\ pending = NoAction
  /\ runner = NoRunner
  /\ builder = NoBuilder
  /\ event = NoEvent
  /\ attempts = 0
  /\ changes = 0
  /\ disturbed = FALSE

Next ==
  \/ Begin \/ StartTarget \/ CompleteTarget \/ CompleteSector
  \/ ActionRaises \/ Finish \/ Crash \/ OrphanStarts \/ OrphanEnds \/ Recover
  \/ ApplyCanonical \/ Publish \/ PointerMoves \/ Remove

Spec == Init /\ [][Next]_vars

-----------------------------------------------------------------------------
(* Properties.                                                             *)

Runs == 0 .. MaxAttempts
StageNames == Offline \cup {"none"}

\* The shape of the state.
TypeOK ==
  /\ artifact \in [Stages -> [state : {"absent", "partial", "complete"}, by : Runs,
                             from : [Stages -> Runs]]]
  /\ active \in [Pointers -> Runs]
  /\ pending.stage \in StageNames /\ pending.attempt \in Runs
  /\ pending # NoAction =>
       pending.plan.decision = [status |-> "ready", action |-> pending.stage]
  /\ runner.phase \in {"idle", "writing", "filling", "sector", "written"}
  /\ runner.phase # "idle" => pending # NoAction
  /\ builder.phase \in {"idle", "writing", "filling"} /\ builder.attempt \in Runs
  /\ event \in [outcome : {"none", "succeeded", "failed", "recovered_succeeded",
                           "recovered_not_completed", "recovery_blocked"},
                stage : StageNames, attempt : Runs]
  /\ attempts \in Runs /\ changes \in 0 .. MaxChanges /\ disturbed \in BOOLEAN

\* What the planner has passed descends from what is on disk now, link by link,
\* the one link it does not compare included: however artifacts are removed,
\* crashed over and recomputed, nothing is run, published or deployed from two
\* lineages at once.
PassedIsOneLineage ==
  \A k \in 1 .. Stop - 1 :
    Order[k] \in Stages =>
      \A r \in Reads(Order[k]) : artifact[Order[k]].from[r] = artifact[r].by

\* What the journal says of an attempt is true of the disk: an artifact recorded
\* as made is there, complete and made from what its sources are now; only
\* recovery may credit an attempt with the work of another, which an orphaned
\* build can have finished in its place; and an attempt said not to have
\* completed has left nothing behind.
JournalTellsTheTruth ==
  [][event' # event =>
       LET s == event'.stage
       IN  /\ event'.outcome \in {"succeeded", "recovered_succeeded"} =>
                /\ artifact[s].state = "complete"
                /\ artifact[s].from = Sources(s)
           /\ event'.outcome = "succeeded" => artifact[s].by = event'.attempt
           /\ event'.outcome = "recovered_not_completed" => artifact[s].state = "absent"]_vars

\* The planner accepts what the administrators write: as long as nothing fails,
\* crashes or is removed, the plan is never blocked between two transitions.
UndisturbedNeverBlocked ==
  ~ disturbed /\ runner.phase = "idle" => Plan.decision # Blocked
=============================================================================
