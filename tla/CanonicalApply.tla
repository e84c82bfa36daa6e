---------------------------- MODULE CanonicalApply ----------------------------
(***************************************************************************)
(* The canonical Apply of one session: the custody that reserves it,       *)
(* records its success and recovers it (daily_eod_canonical_apply_custody), *)
(* and the publication it brackets (apply_approved_plan of                 *)
(* same_day_catchup.py), which moves one target directory after another    *)
(* into place, the completion marker last.                                 *)
(*                                                                         *)
(* The journal lock is held only while reserving, recording or recovering, *)
(* so these are single steps; the publication lock is held while targets   *)
(* are published.  The same publication can be started by hand, without a  *)
(* reservation, to apply a plan or to complete a partial one.              *)
(***************************************************************************)
EXTENDS Integers, Sequences

CONSTANTS
  Appliers,      \* processes that may apply a plan
  NTargets,      \* target directories of a plan, the marker being the last
  MaxPlans,      \* bound: approval plans built
  MaxAttempts,   \* bound: reservations
  MaxForeign,    \* bound: writes of others to the data root
  RecoverLive    \* recovery may be asked for while the reserving process runs

ASSUME AppliersAssumption == "free" \notin Appliers

ASSUME BoundsAssumption ==
  /\ NTargets \in Nat \ {0}
  /\ MaxPlans \in Nat /\ MaxAttempts \in Nat /\ MaxForeign \in Nat
  /\ RecoverLive \in BOOLEAN

VARIABLES
  foreign,   \* version of everything else in the data root
  target,    \* for each target the plan that published it, 0: absent
  staging,   \* staging directories, by plan and target, with or without files
  plans,     \* for each approval plan, the inventory it expects
  lock,      \* the process that holds the publication lock, or none
  proc,      \* the appliers
  pending,   \* the unresolved canonical_apply_started event
  outcome,   \* the terminal event of each attempt
  wrote      \* attempts under which some target was published

vars == <<foreign, target, staging, plans, lock, proc, pending, outcome, wrote>>
disk == <<foreign, target, staging>>
journal == <<pending, outcome>>

Targets == 1 .. NTargets
PlanIds == 1 .. MaxPlans
Free == "free"
NoTargets == [k \in Targets |-> 0]
NoAttempt == [attempt |-> 0, plan |-> 0]
Idle == [pc |-> "idle", mode |-> "apply", plan |-> 0, attempt |-> 0, next |-> 1]

\* inventory_fingerprint: the files of the data root, not its directories, so a
\* staging directory shows only once it has a file.
Inventory ==
  [foreign |-> foreign, target |-> target,
   staged |-> {<<s.plan, s.target>> : s \in {t \in staging : t.files}}]

\* Mutant of Slot: the completion marker first.
MarkerFirst(n) == NTargets + 1 - n

\* The order in which targets are published: the marker is the last.
Slot(n) == n

Attempted == Len(outcome)

\* What the planner's formal readers accept as a completed canonical stage.
StageCompleted == target[NTargets] # 0 /\ \A k \in Targets : target[k] = target[NTargets]

-----------------------------------------------------------------------------
(* The custody.                                                            *)

\* _write_plan: an approval plan freezes the inventory it was built against.
BuildPlan ==
  /\ Len(plans) < MaxPlans
  /\ plans' = Append(plans, Inventory)
  /\ UNCHANGED <<foreign, target, staging, lock, proc, pending, outcome, wrote>>

\* reserve_canonical_apply
Reserve(p, i) ==
  /\ proc[p] = Idle
  /\ pending = NoAttempt
  /\ Attempted < MaxAttempts
  /\ Inventory = plans[i]
  /\ target = NoTargets
  /\ pending' = [attempt |-> Attempted + 1, plan |-> i]
  /\ outcome' = Append(outcome, "open")
  /\ proc' = [proc EXCEPT ![p] = [pc |-> "waiting", mode |-> "apply", plan |-> i,
                                  attempt |-> Attempted + 1, next |-> 1]]
  /\ UNCHANGED <<disk, plans, lock, wrote>>

Terminal(kind) ==
  /\ outcome' = [outcome EXCEPT ![pending.attempt] = kind]
  /\ pending' = NoAttempt

\* record_canonical_apply_success: _pending_apply compares the inputs of the
\* reservation, which every attempt at one plan shares, not the attempt.
RecordSuccess(p) ==
  /\ proc[p].pc = "applied"
  /\ pending # NoAttempt /\ pending.plan = proc[p].plan
  /\ StageCompleted
  /\ Terminal("succeeded")
  /\ proc' = [proc EXCEPT ![p] = Idle]
  /\ UNCHANGED <<disk, plans, lock, wrote>>

\* Mutant of Recovered: a target that is there counts as completion.
RecoveredByPresence ==
  IF target # NoTargets THEN "recovered_succeeded"
  ELSE IF Inventory = plans[pending.plan] THEN "recovered_not_completed"
  ELSE "recovery_blocked"

\* Mutant of Recovered: whatever is not complete may be retried.
RecoveredUnlessComplete ==
  IF StageCompleted THEN "recovered_succeeded" ELSE "recovered_not_completed"

Recovered ==
  IF StageCompleted THEN "recovered_succeeded"
  ELSE IF target = NoTargets /\ Inventory = plans[pending.plan] THEN "recovered_not_completed"
  ELSE "recovery_blocked"

\* recover_canonical_apply
Recover ==
  /\ pending # NoAttempt
  /\ RecoverLive \/ \A p \in Appliers : proc[p].attempt # pending.attempt
  /\ Terminal(Recovered)
  /\ UNCHANGED <<disk, plans, lock, proc, wrote>>

-----------------------------------------------------------------------------
(* The publication, apply_approved_plan.                                   *)

\* The command line runs it without a reservation; only a plan of several
\* targets can be completed.
BeginByHand(p, i, mode) ==
  /\ proc[p] = Idle
  /\ mode = "complete" => NTargets > 1
  /\ proc' = [proc EXCEPT ![p] = [pc |-> "waiting", mode |-> mode, plan |-> i,
                                  attempt |-> 0, next |-> 1]]
  /\ UNCHANGED <<disk, plans, lock, journal, wrote>>

\* The state the publication lock must find.
Admitted(p) ==
  IF proc[p].mode = "apply"
  THEN Inventory = plans[proc[p].plan] /\ target = NoTargets
  ELSE /\ target[NTargets] = 0
       /\ \A k \in Targets : target[k] \in {0, proc[p].plan}
       /\ [Inventory EXCEPT !.target = NoTargets] = plans[proc[p].plan]

\* The lock is waited for; a state that changed meanwhile ends the run.
Lock(p) ==
  /\ proc[p].pc = "waiting"
  /\ lock = Free
  /\ \/ /\ Admitted(p)
        /\ lock' = p
        /\ proc' = [proc EXCEPT ![p].pc = "publishing"]
     \/ /\ ~ Admitted(p)
        /\ lock' = Free
        /\ proc' = [proc EXCEPT ![p] = Idle]
  /\ UNCHANGED <<disk, plans, journal, wrote>>

Staged(p) == [plan |-> proc[p].plan, target |-> Slot(proc[p].next), files |-> FALSE]
Filled(p) == [Staged(p) EXCEPT !.files = TRUE]

\* _publish_target_directory makes the staging directory, which must be new, ...
StageTarget(p) ==
  /\ proc[p].pc = "publishing" /\ proc[p].next <= NTargets
  /\ target[Slot(proc[p].next)] = 0
  /\ {Staged(p), Filled(p)} \cap staging = {}
  /\ staging' = staging \cup {Staged(p)}
  /\ proc' = [proc EXCEPT ![p].pc = "staging"]
  /\ UNCHANGED <<foreign, target, plans, lock, journal, wrote>>

\* ... copies the artifacts into it ...
FillStaging(p) ==
  /\ proc[p].pc = "staging"
  /\ staging' = (staging \ {Staged(p)}) \cup {Filled(p)}
  /\ proc' = [proc EXCEPT ![p].pc = "filled"]
  /\ UNCHANGED <<foreign, target, plans, lock, journal, wrote>>

\* ... and renames it, which fails over a directory that has files.
PublishTarget(p) ==
  /\ proc[p].pc = "filled"
  /\ target[Slot(proc[p].next)] = 0
  /\ staging' = staging \ {Filled(p)}
  /\ target' = [target EXCEPT ![Slot(proc[p].next)] = proc[p].plan]
  /\ wrote' = IF proc[p].attempt = 0 THEN wrote ELSE wrote \cup {proc[p].attempt}
  /\ proc' = [proc EXCEPT ![p].pc = "publishing", ![p].next = @ + 1]
  /\ UNCHANGED <<foreign, plans, lock, journal>>

\* A completion run verifies a target that is there and goes on.
SkipTarget(p) ==
  /\ proc[p].pc = "publishing" /\ proc[p].next <= NTargets
  /\ proc[p].mode = "complete"
  /\ target[Slot(proc[p].next)] = proc[p].plan
  /\ proc' = [proc EXCEPT ![p].next = @ + 1]
  /\ UNCHANGED <<disk, plans, lock, journal, wrote>>

\* Mutant of EndApply: the publication lock is not released.
EndApplyLocked(p) ==
  /\ proc[p].pc = "publishing" /\ proc[p].next = NTargets + 1
  /\ \A k \in Targets : target[k] = proc[p].plan
  /\ proc' = [proc EXCEPT ![p] = IF proc[p].attempt = 0 THEN Idle ELSE [@ EXCEPT !.pc = "applied"]]
  /\ UNCHANGED <<disk, plans, lock, journal, wrote>>

\* Every target is verified and the dataset formally reread.
EndApply(p) ==
  /\ proc[p].pc = "publishing" /\ proc[p].next = NTargets + 1
  /\ \A k \in Targets : target[k] = proc[p].plan
  /\ lock' = Free
  /\ proc' = [proc EXCEPT ![p] = IF proc[p].attempt = 0 THEN Idle ELSE [@ EXCEPT !.pc = "applied"]]
  /\ UNCHANGED <<disk, plans, journal, wrote>>

\* An exception at any point: the staging directory this call made is removed,
\* the reservation stays open.
Fail(p) ==
  /\ proc[p].pc # "idle"
  /\ staging' = IF proc[p].pc \in {"staging", "filled"} THEN staging \ {Staged(p), Filled(p)}
                ELSE staging
  /\ lock' = IF lock = p THEN Free ELSE lock
  /\ proc' = [proc EXCEPT ![p] = Idle]
  /\ UNCHANGED <<foreign, target, plans, journal, wrote>>

\* The process is killed; its lock goes, its staging directory stays.
Die(p) ==
  /\ proc[p].pc # "idle"
  /\ lock' = IF lock = p THEN Free ELSE lock
  /\ proc' = [proc EXCEPT ![p] = Idle]
  /\ UNCHANGED <<disk, plans, journal, wrote>>

-----------------------------------------------------------------------------
(* The rest of the host.                                                   *)

\* Another writer of the data root; publications take other locks.
ForeignWrite ==
  /\ foreign < MaxForeign
  /\ foreign' = foreign + 1
  /\ UNCHANGED <<target, staging, plans, lock, proc, journal, wrote>>

\* The operator removes staging directories left behind, when nothing publishes.
ClearStaging ==
  /\ lock = Free
  /\ staging # {}
  /\ staging' = {}
  /\ UNCHANGED <<foreign, target, plans, lock, proc, journal, wrote>>

Init ==
  /\ foreign = 0
  /\ target = NoTargets
  /\ staging = {}
  /\ plans = <<>>
  /\ lock = Free
  /\ proc = [p \in Appliers |-> Idle]
  /\ pending = NoAttempt
  /\ outcome = <<>>
  /\ wrote = {}

Step(p) ==
  \/ \E i \in 1 .. Len(plans) :
       Reserve(p, i) \/ \E mode \in {"apply", "complete"} : BeginByHand(p, i, mode)
  \/ Lock(p) \/ StageTarget(p) \/ FillStaging(p) \/ PublishTarget(p) \/ SkipTarget(p)
  \/ EndApply(p) \/ RecordSuccess(p) \/ Fail(p) \/ Die(p)

Next ==
  \/ BuildPlan \/ Recover \/ ForeignWrite \/ ClearStaging
  \/ \E p \in Appliers : Step(p)

Spec == Init /\ [][Next]_vars

-----------------------------------------------------------------------------
(* Properties.                                                             *)

Inside == {"publishing", "staging", "filled"}
Attempts == 1 .. MaxAttempts
Success == {"succeeded", "recovered_succeeded"}
Outcomes == Success \cup {"open", "recovered_not_completed", "recovery_blocked"}

\* The shape of the state; the publication lock is held exactly by the process
\* that publishes.
TypeOK ==
  /\ foreign \in 0 .. MaxForeign
  /\ target \in [Targets -> 0 .. MaxPlans]
  /\ staging \subseteq [plan : PlanIds, target : Targets, files : BOOLEAN]
  /\ Len(plans) \in 0 .. MaxPlans /\ Len(outcome) \in 0 .. MaxAttempts
  /\ proc \in [Appliers -> [pc : {"idle", "waiting", "applied"} \cup Inside,
                            mode : {"apply", "complete"}, plan : 0 .. MaxPlans,
                            attempt : 0 .. MaxAttempts, next : 1 .. NTargets + 1]]
  /\ pending \in [attempt : 0 .. MaxAttempts, plan : 0 .. MaxPlans]
  /\ \A a \in DOMAIN outcome : outcome[a] \in Outcomes
  /\ wrote \subseteq Attempts
  /\ lock \in Appliers \cup {Free}
  /\ \A p \in Appliers : lock = p <=> proc[p].pc \in Inside

\* Whatever is on disk is a prefix of one plan, in its order, however many
\* processes apply, complete, crash and are recovered meanwhile: plans never mix,
\* and a partial publication can always be completed with the plan that began it.
PrefixOfOnePlan ==
  \A j, k \in Targets : j < k /\ target[k] # 0 => target[j] = target[k]

\* An attempt the journal calls succeeded leaves the stage whole for good.
SucceededIsWhole ==
  \A a \in DOMAIN outcome : outcome[a] \in Success => StageCompleted

\* A reader that takes the marker for completion sees one atomic publication.
Visible == IF target[NTargets] = 0 THEN NoTargets ELSE target
Reader == INSTANCE AtomicDataset
            WITH Plans <- PlanIds, Components <- Targets, NoDataset <- NoTargets,
                 dataset <- Visible
ImplementsAtomicDataset == Reader!Spec

\* An attempt recovered as not completed has published nothing, and never will.
\* It holds when recovery waits for the end of the process (RecoverLive = FALSE),
\* which the code leaves to the operator.
NotCompletedWroteNothing ==
  \A a \in DOMAIN outcome : outcome[a] = "recovered_not_completed" => a \notin wrote
=============================================================================
