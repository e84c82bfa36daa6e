-------------------------- MODULE PointerPublication --------------------------
(***************************************************************************)
(* The publication of the two consumers of the daily chain, Market         *)
(* Intelligence and the Dashboard Snapshot (market_intelligence_active.py, *)
(* dashboard_snapshot_active.py): immutable release directories and one    *)
(* active pointer each, switched by publish_and_activate, verify_then_link *)
(* and rollback under the one lock of the data root, which nobody waits    *)
(* for; and the custody that reserves, records and recovers an Apply       *)
(* (daily_eod_market_intelligence_apply_custody.py and its twin).          *)
(*                                                                         *)
(* The two differ in what an approval plan is compared with: Market        *)
(* Intelligence with the inventory of the whole data root, the Snapshot    *)
(* with the pointer of the universe Activation.  The journal lock is held  *)
(* only while reserving, recording or recovering: those are single steps.  *)
(***************************************************************************)
EXTENDS Integers, Sequences, FiniteSets

CONSTANTS
  Publishers,    \* processes that publish, link or roll back
  MaxPlans,      \* bound: approval plans built, by consumer
  MaxAttempts,   \* bound: reservations
  MaxUndos,      \* bound: rollbacks of the pointer, by consumer
  MaxResidue,    \* bound: staging directories left behind at a time
  MaxOutside,    \* bound: writes of others and switches of the Activation
  RecoverLive    \* recovery may be asked for while the reserving process runs

ASSUME PublishersAssumption == "free" \notin Publishers

Consumers == {"intelligence", "snapshot"}

ASSUME BoundsAssumption ==
  /\ MaxPlans \in [Consumers -> Nat] /\ MaxUndos \in [Consumers -> Nat]
  /\ \A bound \in {MaxAttempts, MaxResidue, MaxOutside} : bound \in Nat
  /\ RecoverLive \in BOOLEAN

VARIABLES
  pointer,     \* the active pointer of each consumer
  release,     \* the completed release directories, by plan
  staging,     \* staging directories, with or without files
  outside,     \* version of all other files of the data root
  activation,  \* version of the universe Activation pointer
  undone,      \* rollbacks so far: the time of a rollback's switch
  plans,       \* the approval plans of each consumer
  draft,       \* the approval plan being built
  lock,        \* the process that holds the data root's lock, or none
  proc,        \* the publishers
  pending,     \* the unresolved apply_started event
  outcome,     \* the terminal event of each attempt
  activated,   \* plans whose pointer was ever written
  wrote        \* attempts under which the release was completed

data == <<pointer, release, staging, outside, activation, undone, activated, wrote>>
planning == <<plans, draft>>
journal == <<pending, outcome>>
vars == <<data, planning, lock, proc, journal>>

PlanIds == UNION {1 .. MaxPlans[c] : c \in Consumers}
Free == "free"

\* Before the first publication the Snapshot serves a legacy release and Market
\* Intelligence none.
Base == 0
NoPointer == [active |-> Base, rollback |-> Base, at |-> 0]

NoAttempt == [consumer |-> "none", plan |-> 0, attempt |-> 0]
Idle == [pc |-> "idle", op |-> "none", consumer |-> "none", plan |-> 0, attempt |-> 0,
         approved |-> NoPointer]
NoDraft == [step |-> "none"]

\* inventory_fingerprint of the data root: its files, so a staging directory
\* counts only once it has one.
InventoryBut(releases) ==
  [pointer |-> pointer, release |-> releases, outside |-> outside, activation |-> activation,
   staged |-> {s \in staging : s.files}]
Inventory == InventoryBut(release)

\* What an approval plan of each consumer is compared with, besides the pointer.
World(c) == IF c = "intelligence" THEN Inventory ELSE activation

\* The pointer a plan will write; switched_at is the time the plan was made.
Planned(c, i) == [active |-> i, rollback |-> plans[c][i].rollback, at |-> 0]

\* Mutant of UndonePointer: switched_at is not renewed.
UndonePointerUntimed(c) ==
  [active |-> pointer[c].rollback, rollback |-> pointer[c].active, at |-> pointer[c].at]

\* The pointer a rollback writes.
UndonePointer(c) ==
  [active |-> pointer[c].rollback, rollback |-> pointer[c].active, at |-> undone[c] + 1]

Residue(c, i) == {s \in staging : s.consumer = c /\ s.plan = i}

\* The number of times a pointer was switched.
Switches(c) == Cardinality(activated[c]) + undone[c]

-----------------------------------------------------------------------------
(* build_approval_plan, which takes no lock.                               *)

\* The inventory, or the Activation pointer, is read first ...
ReadWorld(c) ==
  /\ draft = NoDraft
  /\ Len(plans[c]) < MaxPlans[c]
  /\ draft' = [step |-> "world", consumer |-> c, world |-> World(c)]
  /\ UNCHANGED <<data, plans, lock, proc, journal>>

\* ... then the active pointer, for the rollback reference ...
ReadRollback ==
  LET c == draft.consumer
  IN  /\ draft.step = "world"
      /\ draft' = [step |-> "rollback", consumer |-> c, world |-> draft.world,
                   rollback |-> pointer[c].active, expect |-> pointer[c], base |-> Switches(c)]
      /\ UNCHANGED <<data, plans, lock, proc, journal>>

\* Mutant of Expected: the state is read again for every consumer.
ExpectedReread == pointer[draft.consumer]

\* The state the plan expects: Market Intelligence reads its pointer again, the
\* Snapshot derives it from the one it read for the rollback reference.
Expected == IF draft.consumer = "intelligence" THEN pointer["intelligence"] ELSE draft.expect

\* ... then the plan is written.
WritePlan ==
  /\ draft.step = "rollback"
  /\ plans' = [plans EXCEPT ![draft.consumer] =
                 Append(@, [world |-> draft.world, rollback |-> draft.rollback,
                            expect |-> Expected, base |-> draft.base])]
  /\ draft' = NoDraft
  /\ UNCHANGED <<data, lock, proc, journal>>

-----------------------------------------------------------------------------
(* The custody of an Apply.                                                *)

\* _require_new_target
NewTarget(c, i) == i \notin release[c] /\ Residue(c, i) = {}

\* The state an approval plan was made for.
Approved(c, i) == World(c) = plans[c][i].world /\ pointer[c] = plans[c][i].expect

\* reserve_market_intelligence_apply, reserve_dashboard_snapshot_apply
Reserve(p, c, i) ==
  /\ proc[p] = Idle
  /\ pending = NoAttempt
  /\ Len(outcome) < MaxAttempts
  /\ Approved(c, i) /\ NewTarget(c, i)
  /\ pending' = [consumer |-> c, plan |-> i, attempt |-> Len(outcome) + 1]
  /\ outcome' = Append(outcome, "open")
  /\ proc' = [proc EXCEPT ![p] = [pc |-> "ready", op |-> "publish", consumer |-> c, plan |-> i,
                                  attempt |-> Len(outcome) + 1, approved |-> NoPointer]]
  /\ UNCHANGED <<data, planning, lock>>

Terminal(kind) ==
  /\ outcome' = [outcome EXCEPT ![pending.attempt] = kind]
  /\ pending' = NoAttempt

\* record_..._apply_success: the inputs of the reservation and the active
\* pointer must be those of the plan; the attempt is not compared.
RecordSuccess(p) ==
  LET c == proc[p].consumer
  IN  /\ proc[p].pc = "published"
      /\ pending.consumer = c /\ pending.plan = proc[p].plan
      /\ pointer[c] = Planned(c, proc[p].plan)
      /\ Terminal("succeeded")
      /\ proc' = [proc EXCEPT ![p] = Idle]
      /\ UNCHANGED <<data, planning, lock>>

\* Mutant of Verdict: a completed release counts as success.
VerdictByTarget(c, i) ==
  IF i \in release[c] THEN "recovered_succeeded"
  ELSE IF NewTarget(c, i) /\ Approved(c, i) THEN "recovered_not_completed"
  ELSE "recovery_blocked"

\* Mutant of Verdict: an unchanged pointer shows that nothing was written.
VerdictByPointer(c, i) ==
  IF pointer[c] = Planned(c, i) THEN "recovered_succeeded"
  ELSE IF pointer[c] = plans[c][i].expect THEN "recovered_not_completed"
  ELSE "recovery_blocked"

Verdict(c, i) ==
  IF pointer[c] = Planned(c, i) THEN "recovered_succeeded"
  ELSE IF /\ i \notin release[c]
          /\ c = "snapshot" => Residue(c, i) = {}
          /\ Approved(c, i)
       THEN "recovered_not_completed"
  ELSE "recovery_blocked"

\* recover_market_intelligence_apply, recover_dashboard_snapshot_apply
Recover ==
  /\ pending # NoAttempt
  /\ RecoverLive \/ \A p \in Publishers : proc[p].attempt # pending.attempt
  /\ Terminal(Verdict(pending.consumer, pending.plan))
  /\ UNCHANGED <<data, planning, lock, proc>>

-----------------------------------------------------------------------------
(* The publication.                                                        *)

\* Whether there is something to go back to.
MayUndo(c) ==
  /\ pointer[c] # NoPointer
  /\ c = "intelligence" => pointer[c].rollback # Base

\* The dry run of rollback names the pointer the operator then approves.
DryRunRollback(p, c) ==
  /\ proc[p] = Idle
  /\ MayUndo(c)
  /\ undone[c] < MaxUndos[c]
  /\ proc' = [proc EXCEPT ![p] = [pc |-> "ready", op |-> "rollback", consumer |-> c, plan |-> 0,
                                  attempt |-> 0, approved |-> pointer[c]]]
  /\ UNCHANGED <<data, planning, lock, journal>>

\* What each operation must find once it holds the lock.  Market Intelligence
\* links a release if nothing else changed; the Snapshot compares its pointer
\* only, and not the Activation.
Admitted(r) ==
  LET c == r.consumer
      i == r.plan
  IN  \/ r.op = "publish" /\ Approved(c, i) /\ NewTarget(c, i)
      \/ /\ r.op = "link"
         /\ i \in release[c]
         /\ pointer[c] = plans[c][i].expect
         /\ c = "intelligence" =>
              InventoryBut([release EXCEPT ![c] = @ \ {i}]) = plans[c][i].world
      \/ r.op = "rollback" /\ pointer[c] = r.approved

\* A lock that is held, or a state that changed, ends the run.
Enter(p) ==
  /\ proc[p].pc = "ready"
  /\ \/ /\ lock = Free /\ Admitted(proc[p])
        /\ lock' = p
        /\ proc' = [proc EXCEPT ![p].pc = "locked"]
     \/ /\ lock # Free \/ ~ Admitted(proc[p])
        /\ proc' = [proc EXCEPT ![p] = Idle]
        /\ UNCHANGED lock
  /\ UNCHANGED <<data, planning, journal>>

\* The command lines run publication and link recovery without a reservation:
\* nothing they read before they hold the lock is used under it.
EnterByHand(p, c, i, op) ==
  LET run == [pc |-> "locked", op |-> op, consumer |-> c, plan |-> i, attempt |-> 0,
              approved |-> NoPointer]
  IN  /\ proc[p] = Idle
      /\ lock = Free /\ Admitted(run)
      /\ lock' = p
      /\ proc' = [proc EXCEPT ![p] = run]
      /\ UNCHANGED <<data, planning, journal>>

Staged(p) == [consumer |-> proc[p].consumer, plan |-> proc[p].plan, files |-> FALSE]
Filled(p) == [Staged(p) EXCEPT !.files = TRUE]

\* The staging directory is made ...
Stage(p) ==
  /\ proc[p].pc = "locked" /\ proc[p].op = "publish"
  /\ staging' = staging \cup {Staged(p)}
  /\ proc' = [proc EXCEPT ![p].pc = "staged"]
  /\ UNCHANGED <<pointer, release, outside, activation, undone, activated, wrote,
                 planning, lock, journal>>

\* ... the approved files copied and reread ...
Fill(p) ==
  /\ proc[p].pc = "staged"
  /\ staging' = (staging \ {Staged(p)}) \cup {Filled(p)}
  /\ proc' = [proc EXCEPT ![p].pc = "filled"]
  /\ UNCHANGED <<pointer, release, outside, activation, undone, activated, wrote,
                 planning, lock, journal>>

\* ... and renamed: the release is complete, and not yet served.
Complete(p) ==
  /\ proc[p].pc = "filled"
  /\ staging' = staging \ {Filled(p)}
  /\ release' = [release EXCEPT ![proc[p].consumer] = @ \cup {proc[p].plan}]
  /\ wrote' = IF proc[p].attempt = 0 THEN wrote ELSE wrote \cup {proc[p].attempt}
  /\ proc' = [proc EXCEPT ![p].pc = "completed"]
  /\ UNCHANGED <<pointer, outside, activation, undone, activated, planning, lock, journal>>

\* Mutant of SwitchPoint: the pointer is written before the release is complete.
SwitchPointEarly == {<<"publish", "filled">>, <<"publish", "completed">>, <<"link", "locked">>}

\* Where an operation comes to write the planned pointer.
SwitchPoint == {<<"publish", "completed">>, <<"link", "locked">>}

\* _write_pointer with the planned pointer; Market Intelligence compares the
\* pointer once more before it publishes.
Switch(p) ==
  LET c == proc[p].consumer
      i == proc[p].plan
  IN  /\ <<proc[p].op, proc[p].pc>> \in SwitchPoint
      /\ c = "intelligence" /\ proc[p].op = "publish" => pointer[c] = plans[c][i].expect
      /\ pointer' = [pointer EXCEPT ![c] = Planned(c, i)]
      /\ activated' = [activated EXCEPT ![c] = @ \cup {i}]
      /\ proc' = [proc EXCEPT ![p].pc = "switched"]
      /\ UNCHANGED <<release, staging, outside, activation, undone, wrote, planning, lock, journal>>

\* _write_pointer with active and rollback exchanged.
Undo(p) ==
  LET c == proc[p].consumer
  IN  /\ proc[p].op = "rollback" /\ proc[p].pc = "locked"
      /\ undone[c] < MaxUndos[c]
      /\ pointer' = [pointer EXCEPT ![c] = UndonePointer(c)]
      /\ undone' = [undone EXCEPT ![c] = @ + 1]
      /\ proc' = [proc EXCEPT ![p].pc = "switched"]
      /\ UNCHANGED <<release, staging, outside, activation, activated, wrote, planning, lock, journal>>

\* Mutant of Release: the data root's lock is kept.
ReleaseNothing(p) ==
  /\ proc[p].pc = "switched"
  /\ proc' = [proc EXCEPT ![p] = IF proc[p].attempt = 0 THEN Idle
                                 ELSE [proc[p] EXCEPT !.pc = "published"]]
  /\ UNCHANGED <<data, planning, lock, journal>>

\* The lock is released; what is active is reread after that.
Release(p) ==
  /\ proc[p].pc = "switched"
  /\ lock' = Free
  /\ proc' = [proc EXCEPT ![p] = IF proc[p].attempt = 0 THEN Idle
                                 ELSE [proc[p] EXCEPT !.pc = "published"]]
  /\ UNCHANGED <<data, planning, journal>>

\* An exception: the staging directory is removed, a completed release kept, a
\* reservation left open.
Fail(p) ==
  /\ proc[p].pc # "idle"
  /\ staging' = IF proc[p].pc \in {"staged", "filled"} THEN staging \ {Staged(p), Filled(p)}
                ELSE staging
  /\ lock' = IF lock = p THEN Free ELSE lock
  /\ proc' = [proc EXCEPT ![p] = Idle]
  /\ UNCHANGED <<pointer, release, outside, activation, undone, activated, wrote, planning, journal>>

\* The process is killed; the kernel drops its lock, its staging directory stays.
Die(p) ==
  /\ proc[p].pc # "idle"
  /\ Cardinality(staging) <= MaxResidue
  /\ lock' = IF lock = p THEN Free ELSE lock
  /\ proc' = [proc EXCEPT ![p] = Idle]
  /\ UNCHANGED <<data, planning, journal>>

-----------------------------------------------------------------------------
(* The rest of the host.                                                   *)

\* A writer of the data root that takes another lock, such as a canonical Apply.
OutsideWrite ==
  /\ outside + activation < MaxOutside
  /\ outside' = outside + 1
  /\ UNCHANGED <<pointer, release, staging, activation, undone, activated, wrote,
                 planning, lock, proc, journal>>

\* The universe Activation is switched or rolled back, under the same lock.
SwitchActivation ==
  /\ lock = Free
  /\ outside + activation < MaxOutside
  /\ activation' = activation + 1
  /\ UNCHANGED <<pointer, release, staging, outside, undone, activated, wrote,
                 planning, lock, proc, journal>>

\* The operator removes staging directories left behind, when nothing publishes.
ClearStaging ==
  /\ lock = Free
  /\ staging # {}
  /\ staging' = {}
  /\ UNCHANGED <<pointer, release, outside, activation, undone, activated, wrote,
                 planning, lock, proc, journal>>

Init ==
  /\ pointer = [c \in Consumers |-> NoPointer]
  /\ release = [c \in Consumers |-> {}]
  /\ staging = {}
  /\ outside = 0 /\ activation = 0
  /\ undone = [c \in Consumers |-> 0]
  /\ plans = [c \in Consumers |-> <<>>]
  /\ draft = NoDraft
  /\ lock = Free
  /\ proc = [p \in Publishers |-> Idle]
  /\ pending = NoAttempt
  /\ outcome = <<>>
  /\ activated = [c \in Consumers |-> {}]
  /\ wrote = {}

Step(p) ==
  \/ \E c \in Consumers :
       \/ DryRunRollback(p, c)
       \/ \E i \in 1 .. Len(plans[c]) :
            Reserve(p, c, i) \/ \E op \in {"publish", "link"} : EnterByHand(p, c, i, op)
  \/ Enter(p) \/ Stage(p) \/ Fill(p) \/ Complete(p) \/ Switch(p) \/ Undo(p)
  \/ Release(p) \/ RecordSuccess(p) \/ Fail(p) \/ Die(p)

Next ==
  \/ \E c \in Consumers : ReadWorld(c)
  \/ ReadRollback \/ WritePlan
  \/ Recover \/ OutsideWrite \/ SwitchActivation \/ ClearStaging
  \/ \E p \in Publishers : Step(p)

Spec == Init /\ [][Next]_vars

-----------------------------------------------------------------------------
(* Properties.                                                             *)

Inside == {"locked", "staged", "filled", "completed", "switched"}
Success == {"succeeded", "recovered_succeeded"}
Outcomes == Success \cup {"open", "recovered_not_completed", "recovery_blocked"}
PlanIdsOrBase == PlanIds \cup {Base}
Pointers == [active : PlanIdsOrBase, rollback : PlanIdsOrBase, at : Nat]

\* The shape of the state; the data root's lock is held exactly by the process
\* that publishes, links or rolls back.
TypeOK ==
  /\ pointer \in [Consumers -> Pointers]
  /\ release \in [Consumers -> SUBSET PlanIds]
  /\ staging \subseteq [consumer : Consumers, plan : PlanIds, files : BOOLEAN]
  /\ outside \in 0 .. MaxOutside /\ activation \in 0 .. MaxOutside
  /\ \A c \in Consumers : undone[c] \in 0 .. MaxUndos[c] /\ Len(plans[c]) \in 0 .. MaxPlans[c]
  /\ proc \in [Publishers -> [pc : {"idle", "ready", "published"} \cup Inside,
                              op : {"none", "publish", "link", "rollback"},
                              consumer : Consumers \cup {"none"}, plan : PlanIdsOrBase,
                              attempt : 0 .. MaxAttempts, approved : Pointers]]
  /\ pending \in [consumer : Consumers \cup {"none"}, plan : PlanIdsOrBase,
                  attempt : 0 .. MaxAttempts]
  /\ Len(outcome) \in 0 .. MaxAttempts /\ \A a \in DOMAIN outcome : outcome[a] \in Outcomes
  /\ activated \in [Consumers -> SUBSET PlanIds]
  /\ wrote \subseteq 1 .. MaxAttempts
  /\ lock \in Publishers \cup {Free}
  /\ \A p \in Publishers : lock = p <=> proc[p].pc \in Inside

\* A pointer always names complete releases, the one it serves and the one it
\* can go back to, wherever publishers fail, die or overtake each other.
ServesComplete ==
  \A c \in Consumers : {pointer[c].active, pointer[c].rollback} \subseteq release[c] \cup {Base}

\* A plan is activated only while the pointer is the very one it was approved
\* against: a pointer that came back to the same release by rollbacks is another.
ActivatedAsApproved ==
  [][\A c \in Consumers : \A i \in DOMAIN plans[c] :
       pointer'[c] # pointer[c] /\ pointer'[c] = Planned(c, i)
         => Switches(c) = plans[c][i].base]_vars

\* An attempt the journal calls succeeded did put its plan in front of readers.
SuccessWasServed ==
  [][\A a \in DOMAIN outcome :
       outcome[a] = "open" /\ outcome'[a] \in Success
         => pending.plan \in activated[pending.consumer]]_vars

\* An attempt recovered as not completed has completed no release, and never
\* will.  It holds when recovery waits for the end of the process (RecoverLive =
\* FALSE), which the code leaves to the operator.
NotCompletedWroteNothing ==
  \A a \in DOMAIN outcome : outcome[a] = "recovered_not_completed" => a \notin wrote

\* What readers are served changes to a release never served before, or back to
\* the one before: plans built while a pointer moves, replayed plans, recovery by
\* link and rollbacks of rollbacks never produce anything else.
Intelligence == INSTANCE ServedRelease
  WITH Releases <- PlanIds, BaseServes <- FALSE, active <- pointer["intelligence"].active,
       previous <- pointer["intelligence"].rollback, used <- activated["intelligence"]
Snapshot == INSTANCE ServedRelease
  WITH Releases <- PlanIds, BaseServes <- TRUE, active <- pointer["snapshot"].active,
       previous <- pointer["snapshot"].rollback, used <- activated["snapshot"]
ImplementsServedRelease == Intelligence!Spec /\ Snapshot!Spec
=============================================================================
