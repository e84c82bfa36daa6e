----------------------- MODULE PointerPublication_proofs -----------------------
(***************************************************************************)
(* Proofs about the publication of the two consumers, for any publishers   *)
(* and any number of plans, attempts, rollbacks and residues.              *)
(*                                                                         *)
(* The argument about stale plans: no pointer ever has the same value      *)
(* twice, as a plan is activated once and a rollback counts up the time of *)
(* its switch; so a plan that finds the pointer it was approved against    *)
(* finds it never switched since, not only brought back.                   *)
(***************************************************************************)
EXTENDS PointerPublication, FiniteSetTheorems, TLAPS

-----------------------------------------------------------------------------
(* The inductive invariants.                                               *)

Stagings == [consumer : Consumers, plan : PlanIds, files : BOOLEAN]
Inventories == [pointer : [Consumers -> Pointers], release : [Consumers -> SUBSET PlanIds],
                outside : Nat, activation : Nat, staged : SUBSET Stagings]
Worlds == Inventories \cup Nat
Plan == [world : Worlds, rollback : PlanIdsOrBase, expect : Pointers, base : Nat]
Drafts == {NoDraft}
  \cup [step : {"world"}, consumer : Consumers, world : Worlds]
  \cup [step : {"rollback"}, consumer : Consumers, world : Worlds, rollback : PlanIdsOrBase,
        expect : Pointers, base : Nat]
Procs == [pc : {"idle", "ready", "published"} \cup Inside,
          op : {"none", "publish", "link", "rollback"}, consumer : Consumers \cup {"none"},
          plan : PlanIdsOrBase, attempt : 0 .. MaxAttempts, approved : Pointers]
Pendings == [consumer : Consumers \cup {"none"}, plan : PlanIdsOrBase, attempt : 0 .. MaxAttempts]

DataTyped ==
  /\ pointer \in [Consumers -> Pointers]
  /\ release \in [Consumers -> SUBSET PlanIds]
  /\ staging \subseteq Stagings
  /\ outside \in 0 .. MaxOutside /\ activation \in 0 .. MaxOutside
  /\ undone \in [Consumers -> Nat] /\ \A c \in Consumers : undone[c] <= MaxUndos[c]
  /\ activated \in [Consumers -> SUBSET PlanIds]

PlansTyped ==
  /\ plans \in [Consumers -> Seq(Plan)] /\ \A c \in Consumers : Len(plans[c]) <= MaxPlans[c]
  /\ draft \in Drafts
  /\ draft # NoDraft => Len(plans[draft.consumer]) < MaxPlans[draft.consumer]

JournalOk ==
  /\ pending \in Pendings
  /\ outcome \in Seq(Outcomes) /\ Len(outcome) <= MaxAttempts
  /\ wrote \subseteq 1 .. Len(outcome)
  /\ \A p \in Publishers : proc[p].attempt <= Len(outcome)
  /\ pending # NoAttempt =>
       /\ pending.attempt = Len(outcome) /\ pending.attempt # 0
       /\ outcome[pending.attempt] = "open"
       /\ pending.consumer \in Consumers /\ pending.plan \in 1 .. Len(plans[pending.consumer])

LockOk ==
  /\ lock \in Publishers \cup {Free}
  /\ \A p \in Publishers : lock = p <=> proc[p].pc \in Inside

\* What a pointer names was activated, and what was activated is complete.
ServedOk(c) ==
  /\ {pointer[c].active, pointer[c].rollback} \subseteq activated[c] \cup {Base}
  /\ activated[c] \subseteq release[c] /\ activated[c] \subseteq 1 .. Len(plans[c])
  /\ pointer[c].at <= undone[c]
  /\ activated[c] = {} => pointer[c] = NoPointer

\* A pointer the consumer had.
Had(c, seen) ==
  seen \in Pointers /\ seen.active \in activated[c] \cup {Base} /\ seen.at <= undone[c]

\* The pointer that a plan, or a draft, is compared with by its value.
Key(c, d) == IF c = "intelligence" THEN d.world.pointer[c] ELSE d.expect

\* If the pointer has that value, it was not switched since; and if it was not, it
\* serves what the plan will name to go back to.
Recorded(c, d) ==
  /\ Had(c, Key(c, d)) /\ d.rollback \in activated[c] \cup {Base}
  /\ d.base <= Switches(c)
  /\ pointer[c] = Key(c, d) => d.base = Switches(c)
  /\ d.base = Switches(c) => pointer[c].active = d.rollback

PlanOk(c, i) ==
  Recorded(c, plans[c][i]) /\ (i \in activated[c] => plans[c][i].base < Switches(c))

DraftOk ==
  /\ draft.step = "world" /\ draft.consumer = "intelligence" =>
       Had("intelligence", draft.world.pointer["intelligence"])
  /\ draft.step = "rollback" => Recorded(draft.consumer, draft)

\* The operation of a process, of what it is about, ...
RunOk(p) ==
  /\ proc[p].pc = "idle" => proc[p] = Idle
  /\ proc[p].pc # "idle" => proc[p].consumer \in Consumers
  /\ proc[p].pc # "idle" /\ proc[p].op # "rollback" =>
       /\ proc[p].op \in {"publish", "link"}
       /\ proc[p].plan \in 1 .. Len(plans[proc[p].consumer])
  /\ proc[p].pc \in {"staged", "filled", "completed"} => proc[p].op = "publish"
  /\ proc[p].pc = "published" => proc[p].attempt # 0
  /\ proc[p].op = "rollback" =>
       /\ proc[p].attempt = 0 /\ proc[p].approved # NoPointer
       /\ proc[p].consumer = "intelligence" => proc[p].approved.rollback # Base

\* ... and what it found under the lock, which holds until it switches the pointer.
FoundOk(p) ==
  /\ proc[p].pc = "completed" \/ (proc[p].pc = "locked" /\ proc[p].op = "link") =>
       proc[p].plan \in release[proc[p].consumer]
  /\ proc[p].pc = "locked" /\ proc[p].op = "rollback" => pointer[proc[p].consumer] = proc[p].approved
  /\ proc[p].pc \in Inside \ {"switched"} /\ proc[p].op # "rollback" =>
       /\ plans[proc[p].consumer][proc[p].plan].base = Switches(proc[p].consumer)
       /\ proc[p].plan \notin activated[proc[p].consumer]

\* Where recovery waits: whoever has an attempt has the open one, alone.
Mine(p) ==
  proc[p].attempt # 0 =>
    /\ proc[p].attempt = pending.attempt
    /\ proc[p].consumer = pending.consumer /\ proc[p].plan = pending.plan
AttemptsOk ==
  /\ \A p \in Publishers : Mine(p)
  /\ \A p, q \in Publishers : proc[p].attempt # 0 /\ proc[q].attempt # 0 => p = q
  /\ pending.attempt \in wrote => pending.plan \in release[pending.consumer]
  /\ NotCompletedWroteNothing

ProcOk == proc \in [Publishers -> Procs] /\ \A p \in Publishers : RunOk(p)

IInv ==
  /\ DataTyped /\ PlansTyped /\ JournalOk /\ ProcOk /\ LockOk
  /\ \A c \in Consumers : ServedOk(c)
  /\ \A c \in Consumers : \A i \in 1 .. Len(plans[c]) : PlanOk(c, i)
  /\ DraftOk
  /\ \A p \in Publishers : FoundOk(p)

-----------------------------------------------------------------------------
(* Constants and records.                                                  *)

LEMMA Constants ==
  /\ Free \notin Publishers /\ Consumers = {"intelligence", "snapshot"}
  /\ MaxAttempts \in Nat /\ MaxResidue \in Nat /\ MaxOutside \in Nat
  /\ \A c \in Consumers : MaxPlans[c] \in Nat /\ MaxUndos[c] \in Nat
  /\ PlanIds \subseteq Nat \ {0} /\ Base = 0
<1>1. MaxPlans \in [Consumers -> Nat] /\ MaxUndos \in [Consumers -> Nat]
  BY BoundsAssumption
<1>2. PlanIds \subseteq Nat \ {0}
  BY <1>1 DEF PlanIds
<1>3. QED
  BY <1>1, <1>2, PublishersAssumption, BoundsAssumption DEF Free, Consumers, Base

LEMMA Nulls ==
  /\ NoPointer \in Pointers /\ NoPointer.active = 0 /\ NoPointer.rollback = 0 /\ NoPointer.at = 0
  /\ NoAttempt \in Pendings /\ NoAttempt.attempt = 0 /\ NoAttempt.plan = 0
  /\ Idle \in Procs /\ Idle.pc = "idle" /\ Idle.op = "none" /\ Idle.attempt = 0
  /\ NoDraft.step = "none"
<1>1. 0 \in PlanIdsOrBase /\ 0 \in Nat /\ 0 \in 0 .. MaxAttempts
  BY Constants DEF PlanIdsOrBase
<1>2. NoPointer \in Pointers /\ NoPointer.active = 0 /\ NoPointer.rollback = 0 /\ NoPointer.at = 0
  BY <1>1 DEF NoPointer, Pointers, Base
<1>3. QED
  BY <1>1, <1>2 DEF NoAttempt, Pendings, Idle, Procs, NoDraft

\* A plan of a consumer is one of the plan ids.
LEMMA PlanIdOf ==
  ASSUME NEW c \in Consumers, NEW i \in 1 .. MaxPlans[c]
  PROVE  i \in PlanIds /\ i # Base
BY Constants DEF PlanIds, Base

LEMMA SwitchesTyped ==
  ASSUME IInv, NEW c \in Consumers
  PROVE  /\ Switches(c) \in Nat /\ IsFiniteSet(activated[c])
         /\ \A i : i \notin activated[c] =>
              Cardinality(activated[c] \cup {i}) = Cardinality(activated[c]) + 1
<1>1. Len(plans[c]) \in Nat /\ activated[c] \subseteq 1 .. Len(plans[c]) /\ undone[c] \in Nat
  BY DEF IInv, ServedOk, PlansTyped, DataTyped
<1>2. IsFiniteSet(1 .. Len(plans[c]))
  <2>1. \A n \in Int : IsFiniteSet(1 .. n)
    BY FS_Interval
  <2>2. QED
    BY <1>1, <2>1
<1>3. IsFiniteSet(activated[c])
  BY <1>1, <1>2, FS_Subset
<1>4. Cardinality(activated[c]) \in Nat
  BY <1>3, FS_CardinalityType
<1>5. QED
  BY <1>1, <1>3, <1>4, FS_AddElement DEF Switches

LEMMA Initially == Init => IInv /\ AttemptsOk
<1> SUFFICES ASSUME Init PROVE IInv /\ AttemptsOk
  OBVIOUS
<1>1. /\ \A c \in Consumers : /\ pointer[c] = NoPointer /\ release[c] = {} /\ activated[c] = {}
                              /\ undone[c] = 0 /\ plans[c] = <<>> /\ Len(plans[c]) = 0
      /\ \A p \in Publishers : proc[p] = Idle
      /\ draft = NoDraft /\ pending = NoAttempt /\ outcome = <<>> /\ wrote = {} /\ lock = Free
  BY DEF Init
<1>2. DataTyped
  BY <1>1, Constants, Nulls DEF Init, DataTyped
<1>3. PlansTyped
  BY <1>1, Constants DEF Init, PlansTyped, Drafts
<1>4. JournalOk
  BY <1>1, Constants, Nulls DEF JournalOk
<1>5. ProcOk
  BY <1>1, Nulls DEF Init, ProcOk, RunOk
<1>6. LockOk
  BY <1>1, Constants, Nulls DEF LockOk, Inside
<1>7. \A c \in Consumers : ServedOk(c)
  BY <1>1, Nulls DEF ServedOk, Base
<1>8. \A c \in Consumers : \A i \in 1 .. Len(plans[c]) : PlanOk(c, i)
  BY <1>1
<1>9. DraftOk
  BY <1>1, Nulls DEF DraftOk
<1>10. \A p \in Publishers : FoundOk(p)
  BY <1>1, Nulls DEF FoundOk, Inside
<1>11. AttemptsOk
  BY <1>1, Nulls DEF AttemptsOk, Mine, NotCompletedWroteNothing
<1>12. QED
  BY <1>2, <1>3, <1>4, <1>5, <1>6, <1>7, <1>8, <1>9, <1>10, <1>11 DEF IInv

-----------------------------------------------------------------------------
(* What is planned.                                                        *)

\* What a plan is compared with.
LEMMA WorldTyped ==
  ASSUME DataTyped, NEW c \in Consumers
  PROVE  World(c) \in Worlds /\ (c = "intelligence" => World(c).pointer = pointer)
<1>1. outside \in Nat /\ activation \in Nat
  BY Constants DEF DataTyped
<1>2. Inventory \in Inventories /\ Inventory.pointer = pointer
  BY <1>1 DEF DataTyped, Inventory, InventoryBut, Inventories
<1>3. QED
  BY <1>1, <1>2 DEF World, Worlds

\* Who plans.
LEMMA StepPlansNothing ==
  ASSUME NEW p \in Publishers, Step(p)
  PROVE  UNCHANGED planning
<1>1. ASSUME NEW c \in Consumers, NEW i \in 1 .. Len(plans[c]), NEW op,
             Reserve(p, c, i) \/ EnterByHand(p, c, i, op) \/ DryRunRollback(p, c)
      PROVE  UNCHANGED planning
  BY <1>1 DEF Reserve, EnterByHand, DryRunRollback
<1>2. CASE Enter(p) \/ Stage(p) \/ Fill(p) \/ Complete(p)
  BY <1>2 DEF Enter, Stage, Fill, Complete
<1>3. CASE Switch(p) \/ Undo(p)
  BY <1>3 DEF Switch, Undo
<1>4. CASE Release(p) \/ RecordSuccess(p) \/ Fail(p) \/ Die(p)
  BY <1>4 DEF Release, RecordSuccess, Fail, Die
<1>5. CASE \E c \in Consumers : DryRunRollback(p, c)
  BY <1>5 DEF DryRunRollback
<1>6. QED
  BY <1>1, <1>2, <1>3, <1>4, <1>5 DEF Step

LEMMA Planning ==
  ASSUME [Next]_vars
  PROVE  \/ UNCHANGED planning \/ ReadRollback \/ WritePlan
         \/ \E c \in Consumers : ReadWorld(c)
<1>1. Recover \/ OutsideWrite \/ SwitchActivation \/ ClearStaging \/ UNCHANGED vars =>
        UNCHANGED planning
  BY DEF Recover, OutsideWrite, SwitchActivation, ClearStaging, vars
<1>2. QED
  BY <1>1, StepPlansNothing DEF Next

\* Plans are written once.
LEMMA PlanSteps ==
  ASSUME IInv, [Next]_vars
  PROVE  /\ PlansTyped'
         /\ \A c \in Consumers :
              /\ Len(plans[c]) \in Nat /\ Len(plans[c]) <= Len(plans'[c])
              /\ \A i \in 1 .. Len(plans[c]) : plans'[c][i] = plans[c][i]
<1>1. /\ plans \in [Consumers -> Seq(Plan)] /\ draft \in Drafts /\ DataTyped
      /\ \A c \in Consumers : Len(plans[c]) <= MaxPlans[c]
  BY DEF IInv, PlansTyped
<1>2. ASSUME plans' = plans, draft' \in Drafts,
             draft' # NoDraft => Len(plans[draft'.consumer]) < MaxPlans[draft'.consumer]
      PROVE  /\ PlansTyped'
             /\ \A c \in Consumers :
                  /\ Len(plans[c]) \in Nat /\ Len(plans[c]) <= Len(plans'[c])
                  /\ \A i \in 1 .. Len(plans[c]) : plans'[c][i] = plans[c][i]
  BY <1>1, <1>2 DEF PlansTyped
<1>3. ASSUME NEW c \in Consumers, ReadWorld(c)
      PROVE  /\ plans' = plans /\ draft' \in Drafts
             /\ Len(plans[draft'.consumer]) < MaxPlans[draft'.consumer]
  BY <1>3, <1>1, WorldTyped DEF ReadWorld, Drafts
<1>4. ASSUME ReadRollback
      PROVE  /\ plans' = plans /\ draft' \in Drafts
             /\ Len(plans[draft'.consumer]) < MaxPlans[draft'.consumer]
  <2>1. draft \in [step : {"world"}, consumer : Consumers, world : Worlds]
    BY <1>1, <1>4, Nulls DEF ReadRollback, Drafts
  <2>2. /\ pointer[draft.consumer] \in Pointers /\ pointer[draft.consumer].active \in PlanIdsOrBase
        /\ Switches(draft.consumer) \in Nat
    BY <1>1, <2>1, SwitchesTyped DEF DataTyped, Pointers
  <2>3. draft # NoDraft
    BY <2>1 DEF NoDraft
  <2>4. QED
    BY <1>4, <2>1, <2>2, <2>3 DEF ReadRollback, Drafts, IInv, PlansTyped
<1>5. ASSUME WritePlan
      PROVE  /\ PlansTyped'
             /\ \A c \in Consumers :
                  /\ Len(plans[c]) \in Nat /\ Len(plans[c]) <= Len(plans'[c])
                  /\ \A i \in 1 .. Len(plans[c]) : plans'[c][i] = plans[c][i]
  <2> DEFINE k == draft.consumer
             new == [world |-> draft.world, rollback |-> draft.rollback,
                     expect |-> Expected, base |-> draft.base]
  <2>1. draft \in [step : {"rollback"}, consumer : Consumers, world : Worlds,
                   rollback : PlanIdsOrBase, expect : Pointers, base : Nat]
    BY <1>1, <1>5, Nulls DEF WritePlan, Drafts
  <2>2. Expected \in Pointers
    BY <1>1, <2>1, Constants DEF Expected, DataTyped
  <2>3. new \in Plan /\ k \in Consumers /\ draft # NoDraft
    BY <2>1, <2>2, Nulls DEF Plan
  <2>4. /\ plans' = [plans EXCEPT ![k] = Append(plans[k], new)] /\ draft' = NoDraft
        /\ Len(plans[k]) < MaxPlans[k]
    BY <1>5, <2>3 DEF WritePlan, IInv, PlansTyped
  <2> HIDE DEF k, new
  <2>5. /\ Append(plans[k], new) \in Seq(Plan) /\ Len(Append(plans[k], new)) = Len(plans[k]) + 1
        /\ \A i \in 1 .. Len(plans[k]) : Append(plans[k], new)[i] = plans[k][i]
    BY <1>1, <2>3
  <2>6. /\ plans' \in [Consumers -> Seq(Plan)] /\ plans'[k] = Append(plans[k], new)
        /\ \A c \in Consumers : c # k => plans'[c] = plans[c]
    BY <1>1, <2>3, <2>4, <2>5
  <2>7. \A c \in Consumers : Len(plans[c]) \in Nat
    BY <1>1
  <2>8. \A c \in Consumers : Len(plans'[c]) <= MaxPlans[c]
    BY <1>1, <2>3, <2>4, <2>5, <2>6, <2>7, Constants
  <2>9. PlansTyped'
    BY <2>4, <2>6, <2>8 DEF PlansTyped, Drafts
  <2>10. QED
    BY <2>5, <2>6, <2>7, <2>9
<1>6. CASE UNCHANGED planning
  BY <1>1, <1>2, <1>6 DEF planning, IInv, PlansTyped
<1>7. QED
  BY <1>2, <1>3, <1>4, <1>5, <1>6, Planning

-----------------------------------------------------------------------------
(* What is served.                                                         *)

\* What the switch of a plan does: the plan was approved against the pointer it
\* replaces, was never activated, and is complete.
LEMMA SwitchIs ==
  ASSUME IInv, NEW p \in Publishers, Switch(p)
  PROVE  \E c \in Consumers : \E i \in 1 .. Len(plans[c]) :
           /\ c = proc[p].consumer /\ i = proc[p].plan /\ proc[p].pc \in Inside
           /\ i \in release[c] /\ i \notin activated[c] /\ i \in PlanIds /\ i # Base
           /\ plans[c][i].base = Switches(c) /\ plans[c][i].rollback = pointer[c].active
           /\ pointer' = [pointer EXCEPT ![c] = Planned(c, i)]
           /\ activated' = [activated EXCEPT ![c] = activated[c] \cup {i}]
           /\ UNCHANGED <<undone, release, plans, draft, lock, pending, outcome, wrote>>
<1> DEFINE c == proc[p].consumer
           i == proc[p].plan
<1>1. /\ proc[p].op \in {"publish", "link"} /\ proc[p].pc \in {"completed", "locked"}
      /\ proc[p].pc = "locked" => proc[p].op = "link"
  BY DEF Switch, SwitchPoint
<1>2. c \in Consumers /\ i \in 1 .. Len(plans[c])
  BY <1>1 DEF IInv, ProcOk, RunOk
<1>3. i \in release[c] /\ i \notin activated[c] /\ plans[c][i].base = Switches(c)
  BY <1>1 DEF IInv, FoundOk, Inside
<1>4. i \in PlanIds /\ i # Base
  BY <1>2, <1>3, Constants DEF IInv, DataTyped, Base
<1>5. plans[c][i].rollback = pointer[c].active
  BY <1>2, <1>3 DEF IInv, PlanOk, Recorded
<1>6. /\ pointer' = [pointer EXCEPT ![c] = Planned(c, i)]
      /\ activated' = [activated EXCEPT ![c] = activated[c] \cup {i}]
      /\ UNCHANGED <<undone, release, plans, draft, lock, pending, outcome, wrote>>
  BY DEF Switch, planning, journal
<1>7. proc[p].pc \in Inside
  BY <1>1 DEF Inside
<1>8. QED
  BY <1>2, <1>3, <1>4, <1>5, <1>6, <1>7

\* What a rollback of the pointer does.
LEMMA UndoIs ==
  ASSUME IInv, NEW p \in Publishers, Undo(p)
  PROVE  \E c \in Consumers :
           /\ c = proc[p].consumer /\ proc[p].pc \in Inside
           /\ pointer[c] # NoPointer /\ (c = "intelligence" => pointer[c].rollback # Base)
           /\ activated[c] # {}
           /\ pointer' = [pointer EXCEPT ![c] = UndonePointer(c)]
           /\ undone' = [undone EXCEPT ![c] = undone[c] + 1] /\ undone[c] < MaxUndos[c]
           /\ UNCHANGED <<activated, release, plans, draft, lock, pending, outcome, wrote>>
<1> DEFINE c == proc[p].consumer
<1>1. proc[p].op = "rollback" /\ proc[p].pc = "locked"
  BY DEF Undo
<1>2. /\ c \in Consumers /\ pointer[c] = proc[p].approved /\ pointer[c] # NoPointer
      /\ c = "intelligence" => pointer[c].rollback # Base
  BY <1>1 DEF IInv, ProcOk, RunOk, FoundOk
<1>3. activated[c] # {}
  BY <1>2 DEF IInv, ServedOk
<1>4. /\ pointer' = [pointer EXCEPT ![c] = UndonePointer(c)]
      /\ undone' = [undone EXCEPT ![c] = undone[c] + 1] /\ undone[c] < MaxUndos[c]
      /\ UNCHANGED <<activated, release, plans, draft, lock, pending, outcome, wrote>>
  BY DEF Undo, planning, journal
<1>5. proc[p].pc \in Inside
  BY <1>1 DEF Inside
<1>6. QED
  BY <1>2, <1>3, <1>4, <1>5

\* Whoever does not switch leaves the pointers; only Complete adds a release.
LEMMA StepServesNothing ==
  ASSUME NEW p \in Publishers, Step(p)
  PROVE  /\ UNCHANGED <<pointer, activated, undone>> \/ Switch(p) \/ Undo(p)
         /\ UNCHANGED release \/ Complete(p)
         /\ UNCHANGED <<outside, activation>>
<1>1. CASE \E c \in Consumers :
             \/ DryRunRollback(p, c)
             \/ \E i \in 1 .. Len(plans[c]) :
                  Reserve(p, c, i) \/ \E op \in {"publish", "link"} : EnterByHand(p, c, i, op)
  BY <1>1 DEF Reserve, EnterByHand, DryRunRollback, data
<1>2. CASE Enter(p) \/ Stage(p) \/ Fill(p) \/ Complete(p)
  BY <1>2 DEF Enter, Stage, Fill, Complete, data
<1>3. CASE Switch(p) \/ Undo(p)
  BY <1>3 DEF Switch, Undo
<1>4. CASE Release(p) \/ RecordSuccess(p) \/ Fail(p) \/ Die(p)
  BY <1>4 DEF Release, RecordSuccess, Fail, Die, data
<1>5. QED
  BY <1>1, <1>2, <1>3, <1>4 DEF Step

LEMMA Serving ==
  ASSUME [Next]_vars
  PROVE  /\ \/ UNCHANGED <<pointer, activated, undone>>
            \/ \E p \in Publishers : Switch(p) \/ Undo(p)
         /\ UNCHANGED release \/ \E p \in Publishers : Complete(p)
<1>1. \/ \E c \in Consumers : ReadWorld(c)
      \/ ReadRollback \/ WritePlan \/ Recover \/ OutsideWrite \/ SwitchActivation
      \/ ClearStaging \/ UNCHANGED vars
      => UNCHANGED <<pointer, activated, undone, release>>
  BY DEF ReadWorld, ReadRollback, WritePlan, Recover, OutsideWrite, SwitchActivation,
         ClearStaging, vars, data
<1>2. QED
  BY <1>1, StepServesNothing DEF Next

\* What a consumer serves: as before, or a plan never activated with the release
\* before it to go back to, or the release before it.
LEMMA Switching ==
  ASSUME IInv, [Next]_vars, NEW c \in Consumers
  PROVE  \/ pointer'[c] = pointer[c] /\ activated'[c] = activated[c] /\ undone'[c] = undone[c]
         \/ \E i \in 1 .. Len(plans[c]) :
              /\ i \in release[c] /\ i \notin activated[c] /\ i \in PlanIds /\ i # Base
              /\ plans[c][i].base = Switches(c)
              /\ pointer'[c] = [active |-> i, rollback |-> pointer[c].active, at |-> 0]
              /\ pointer'[c] = Planned(c, i)
              /\ activated'[c] = activated[c] \cup {i} /\ undone'[c] = undone[c]
         \/ /\ pointer[c] # NoPointer /\ (c = "intelligence" => pointer[c].rollback # Base)
            /\ activated[c] # {} /\ activated'[c] = activated[c]
            /\ pointer'[c] = [active |-> pointer[c].rollback, rollback |-> pointer[c].active,
                              at |-> undone[c] + 1]
            /\ undone'[c] = undone[c] + 1
<1>1. /\ pointer \in [Consumers -> Pointers] /\ activated \in [Consumers -> SUBSET PlanIds]
      /\ undone \in [Consumers -> Nat]
  BY DEF IInv, DataTyped
<1>2. CASE UNCHANGED <<pointer, activated, undone>>
  BY <1>2
<1>3. CASE \E p \in Publishers : Switch(p)
  <2>1. PICK p \in Publishers : Switch(p)
    BY <1>3
  <2>2. PICK k \in Consumers : \E i \in 1 .. Len(plans[k]) :
           /\ i \in release[k] /\ i \notin activated[k] /\ i \in PlanIds /\ i # Base
           /\ plans[k][i].base = Switches(k) /\ plans[k][i].rollback = pointer[k].active
           /\ pointer' = [pointer EXCEPT ![k] = Planned(k, i)]
           /\ activated' = [activated EXCEPT ![k] = activated[k] \cup {i}]
           /\ UNCHANGED undone
    BY <2>1, SwitchIs
  <2>3. CASE k = c
    BY <1>1, <2>2, <2>3 DEF Planned
  <2>4. CASE k # c
    BY <1>1, <2>2, <2>4
  <2>5. QED
    BY <2>3, <2>4
<1>4. CASE \E p \in Publishers : Undo(p)
  <2>1. PICK p \in Publishers : Undo(p)
    BY <1>4
  <2>2. PICK k \in Consumers :
           /\ pointer[k] # NoPointer /\ (k = "intelligence" => pointer[k].rollback # Base)
           /\ activated[k] # {}
           /\ pointer' = [pointer EXCEPT ![k] = UndonePointer(k)]
           /\ undone' = [undone EXCEPT ![k] = undone[k] + 1]
           /\ UNCHANGED activated
    BY <2>1, UndoIs
  <2>3. CASE k = c
    BY <1>1, <2>2, <2>3 DEF UndonePointer
  <2>4. CASE k # c
    BY <1>1, <2>2, <2>4
  <2>5. QED
    BY <2>3, <2>4
<1>5. QED
  BY <1>2, <1>3, <1>4, Serving

\* Each switch and each rollback is counted.
LEMMA Counting ==
  ASSUME IInv, [Next]_vars, NEW c \in Consumers
  PROVE  /\ Switches(c) \in Nat
         /\ \/ Switches(c)' = Switches(c) /\ pointer'[c] = pointer[c]
               /\ activated'[c] = activated[c] /\ undone'[c] = undone[c]
            \/ /\ Switches(c)' = Switches(c) + 1
               /\ pointer'[c].active \in activated'[c] \cup {Base}
               /\ activated[c] \subseteq activated'[c] /\ undone[c] <= undone'[c]
               /\ \A seen : Had(c, seen) => seen # pointer'[c]
<1>1. /\ Switches(c) \in Nat /\ undone[c] \in Nat /\ Cardinality(activated[c]) + undone[c] \in Nat
      /\ \A i : i \notin activated[c] =>
           Cardinality(activated[c] \cup {i}) = Cardinality(activated[c]) + 1
      /\ Cardinality(activated[c]) \in Nat
  BY SwitchesTyped, FS_CardinalityType DEF IInv, DataTyped, Switches
<1>2. {pointer[c].active, pointer[c].rollback} \subseteq activated[c] \cup {Base}
  BY DEF IInv, ServedOk
<1>3. CASE pointer'[c] = pointer[c] /\ activated'[c] = activated[c] /\ undone'[c] = undone[c]
  BY <1>1, <1>3 DEF Switches
<1>4. ASSUME NEW i \in 1 .. Len(plans[c]), i \notin activated[c], i # Base,
             pointer'[c] = [active |-> i, rollback |-> pointer[c].active, at |-> 0],
             activated'[c] = activated[c] \cup {i}, undone'[c] = undone[c]
      PROVE  /\ Switches(c)' = Switches(c) + 1
             /\ pointer'[c].active \in activated'[c] \cup {Base}
             /\ activated[c] \subseteq activated'[c] /\ undone[c] <= undone'[c]
             /\ \A seen : Had(c, seen) => seen # pointer'[c]
  <2>1. Cardinality(activated'[c]) = Cardinality(activated[c]) + 1
    BY <1>1, <1>4
  <2>2. Switches(c)' = Switches(c) + 1
    BY <1>1, <1>4, <2>1 DEF Switches
  <2>3. pointer'[c].active = i
    BY <1>4
  <2>4. QED
    BY <1>1, <1>4, <2>2, <2>3 DEF Had
<1>5. ASSUME activated'[c] = activated[c], undone'[c] = undone[c] + 1,
             pointer'[c] = [active |-> pointer[c].rollback, rollback |-> pointer[c].active,
                            at |-> undone[c] + 1]
      PROVE  /\ Switches(c)' = Switches(c) + 1
             /\ pointer'[c].active \in activated'[c] \cup {Base}
             /\ activated[c] \subseteq activated'[c] /\ undone[c] <= undone'[c]
             /\ \A seen : Had(c, seen) => seen # pointer'[c]
  <2>1. Switches(c)' = Switches(c) + 1
    BY <1>1, <1>5 DEF Switches
  <2>2. pointer'[c].at = undone[c] + 1 /\ pointer'[c].active = pointer[c].rollback
    BY <1>5
  <2>3. \A seen : Had(c, seen) => seen.at < undone[c] + 1
    BY <1>1 DEF Had, Pointers
  <2>4. QED
    BY <1>1, <1>2, <1>5, <2>1, <2>2, <2>3
<1>6. QED
  BY <1>1, <1>3, <1>4, <1>5, Switching

\* Complete releases stay.
LEMMA ReleaseGrows ==
  ASSUME IInv, [Next]_vars
  PROVE  /\ release' \in [Consumers -> SUBSET PlanIds]
         /\ \A c \in Consumers : release[c] \subseteq release'[c]
<1>1. release \in [Consumers -> SUBSET PlanIds]
  BY DEF IInv, DataTyped
<1>2. ASSUME NEW p \in Publishers, Complete(p)
      PROVE  release' \in [Consumers -> SUBSET PlanIds]
             /\ \A c \in Consumers : release[c] \subseteq release'[c]
  <2>1. proc[p].op = "publish" /\ proc[p].pc = "filled"
    BY <1>2 DEF Complete, IInv, ProcOk, RunOk
  <2>2. /\ proc[p].consumer \in Consumers
        /\ proc[p].plan \in 1 .. Len(plans[proc[p].consumer])
    BY <2>1 DEF IInv, ProcOk, RunOk
  <2>3. proc[p].plan \in 1 .. MaxPlans[proc[p].consumer]
    BY <2>2, Constants DEF IInv, PlansTyped
  <2>4. proc[p].plan \in PlanIds
    BY <2>2, <2>3, PlanIdOf
  <2>5. QED
    BY <1>1, <1>2, <2>2, <2>4 DEF Complete
<1>3. QED
  BY <1>1, <1>2, Serving

LEMMA ServedKept ==
  ASSUME IInv, [Next]_vars, NEW c \in Consumers
  PROVE  ServedOk(c)'
<1>1. /\ release[c] \subseteq release'[c] /\ Len(plans[c]) \in Nat /\ Len(plans'[c]) \in Nat
      /\ Len(plans[c]) <= Len(plans'[c]) /\ undone[c] \in Nat
  BY ReleaseGrows, PlanSteps DEF IInv, DataTyped, PlansTyped
<1>2. /\ {pointer[c].active, pointer[c].rollback} \subseteq activated[c] \cup {Base}
      /\ activated[c] \subseteq release'[c] /\ activated[c] \subseteq 1 .. Len(plans'[c])
      /\ pointer[c].at <= undone[c] /\ (activated[c] = {} => pointer[c] = NoPointer)
  BY <1>1 DEF IInv, ServedOk
<1>3. CASE pointer'[c] = pointer[c] /\ activated'[c] = activated[c] /\ undone'[c] = undone[c]
  BY <1>2, <1>3 DEF ServedOk
<1>4. ASSUME NEW i \in 1 .. Len(plans[c]), i \in release[c],
             pointer'[c] = [active |-> i, rollback |-> pointer[c].active, at |-> 0],
             activated'[c] = activated[c] \cup {i}, undone'[c] = undone[c]
      PROVE  ServedOk(c)'
  <2>1. pointer'[c].active = i /\ pointer'[c].rollback = pointer[c].active /\ pointer'[c].at = 0
    BY <1>4
  <2>2. i \in 1 .. Len(plans'[c])
    BY <1>1
  <2>3. QED
    BY <1>1, <1>2, <1>4, <2>1, <2>2 DEF ServedOk
<1>5. ASSUME activated[c] # {}, activated'[c] = activated[c], undone'[c] = undone[c] + 1,
             pointer'[c] = [active |-> pointer[c].rollback, rollback |-> pointer[c].active,
                            at |-> undone[c] + 1]
      PROVE  ServedOk(c)'
  <2>1. /\ pointer'[c].active = pointer[c].rollback /\ pointer'[c].rollback = pointer[c].active
        /\ pointer'[c].at = undone[c] + 1
    BY <1>5
  <2>2. QED
    BY <1>1, <1>2, <1>5, <2>1 DEF ServedOk
<1>6. QED
  BY <1>3, <1>4, <1>5, Switching

\* What a plan, or a draft, remembers stays true of the pointer, whatever it does.
LEMMA HadStays ==
  ASSUME IInv, [Next]_vars, NEW c \in Consumers, NEW seen, Had(c, seen)
  PROVE  Had(c, seen)'
<1>1. activated[c] \subseteq activated'[c] /\ undone[c] <= undone'[c]
      /\ undone[c] \in Nat /\ undone'[c] \in Nat
  <2>1. undone[c] \in Nat
    BY DEF IInv, DataTyped
  <2>2. undone'[c] \in {undone[c], undone[c] + 1} /\ activated[c] \subseteq activated'[c]
    BY Switching
  <2>3. QED
    BY <2>1, <2>2
<1>2. seen \in Pointers /\ seen.at \in Nat
  BY DEF Had, Pointers
<1>3. QED
  BY <1>1, <1>2 DEF Had

LEMMA RecordedStays ==
  ASSUME IInv, [Next]_vars, NEW c \in Consumers, NEW d, d.base \in Nat, Recorded(c, d)
  PROVE  Recorded(c, d)'
<1> DEFINE k == Key(c, d)
<1>1. Had(c, k) /\ d.rollback \in activated[c] \cup {Base} /\ d.base <= Switches(c)
      /\ (pointer[c] = k => d.base = Switches(c))
      /\ (d.base = Switches(c) => pointer[c].active = d.rollback)
  BY DEF Recorded
<1>2. Had(c, k)'
  <2>1. \A seen : Had(c, seen) => Had(c, seen)'
    BY HadStays
  <2>2. k' = k
    BY DEF Key
  <2> HIDE DEF k
  <2>3. QED
    BY <1>1, <2>1, <2>2 DEF Had
<1>3. /\ d.rollback \in activated'[c] \cup {Base} /\ d.base <= Switches(c)'
      /\ (pointer'[c] = k => d.base = Switches(c)')
      /\ (d.base = Switches(c)' => pointer'[c].active = d.rollback)
  <2> HIDE DEF k
  <2>1. CASE /\ Switches(c)' = Switches(c) /\ pointer'[c] = pointer[c]
             /\ activated'[c] = activated[c]
    BY <1>1, <2>1
  <2>2. CASE /\ Switches(c)' = Switches(c) + 1 /\ activated[c] \subseteq activated'[c]
             /\ \A seen : Had(c, seen) => seen # pointer'[c]
    BY <1>1, <2>2, Counting
  <2>3. QED
    BY <2>1, <2>2, Counting
<1>4. Key(c, d)' = k
  BY DEF Key
<1>5. QED
  BY <1>2, <1>3, <1>4 DEF Recorded

\* Plan i of a consumer after a step is plan i before it, or was just written.
LEMMA PlanKept ==
  ASSUME IInv, [Next]_vars, NEW c \in Consumers, NEW i \in 1 .. Len(plans[c])
  PROVE  PlanOk(c, i)'
<1>1. /\ plans'[c][i] = plans[c][i] /\ plans[c][i].base \in Nat
      /\ Recorded(c, plans[c][i]) /\ (i \in activated[c] => plans[c][i].base < Switches(c))
  <2>1. PlanOk(c, i)
    BY DEF IInv
  <2>2. plans[c] \in Seq(Plan)
    BY DEF IInv, PlansTyped
  <2>3. plans[c][i] \in Plan
    BY <2>2
  <2>4. plans'[c][i] = plans[c][i]
    BY PlanSteps
  <2>5. QED
    BY <2>1, <2>3, <2>4 DEF PlanOk, Plan
<1>2. Recorded(c, plans[c][i])'
  <2>1. \A d : d.base \in Nat /\ Recorded(c, d) => Recorded(c, d)'
    BY RecordedStays
  <2>2. QED
    BY <1>1, <2>1 DEF Recorded, Key, Had
<1>3. i \in activated'[c] => plans[c][i].base < Switches(c)'
  <2>1. Switches(c) \in Nat /\ Switches(c)' \in {Switches(c), Switches(c) + 1}
    BY Counting
  <2>2. CASE i \in activated[c]
    BY <1>1, <2>1, <2>2
  <2>3. CASE i \notin activated[c] /\ i \in activated'[c]
    <3>1. Switches(c)' = Switches(c) + 1
      BY <2>3, Counting
    <3>2. plans[c][i].base <= Switches(c)
      BY <1>1 DEF Recorded
    <3>3. QED
      BY <1>1, <2>1, <3>1, <3>2
  <2>4. QED
    BY <2>2, <2>3
<1>4. QED
  BY <1>1, <1>2, <1>3 DEF PlanOk

\* The plan that is written is as the draft remembers it.
LEMMA NewPlan ==
  ASSUME IInv, [Next]_vars, NEW c \in Consumers,
         NEW i \in 1 .. Len(plans'[c]), i \notin 1 .. Len(plans[c])
  PROVE  PlanOk(c, i)'
<1>1. WritePlan
  BY Planning DEF planning, ReadRollback, ReadWorld
<1>2. draft \in [step : {"rollback"}, consumer : Consumers, world : Worlds,
                 rollback : PlanIdsOrBase, expect : Pointers, base : Nat]
  BY <1>1, Nulls DEF IInv, PlansTyped, WritePlan, Drafts
<1> DEFINE new == [world |-> draft.world, rollback |-> draft.rollback,
                   expect |-> Expected, base |-> draft.base]
<1>3. plans' = [plans EXCEPT ![draft.consumer] = Append(@, new)]
  BY <1>1 DEF WritePlan
<1>4. UNCHANGED <<pointer, activated, undone>>
  BY <1>1 DEF WritePlan, data
<1>5. c = draft.consumer /\ plans'[c][i] = new
  <2> HIDE DEF new
  <2>1. plans[c] \in Seq(Plan) /\ plans \in [Consumers -> Seq(Plan)]
    BY DEF IInv, PlansTyped
  <2>2. c = draft.consumer
    BY <1>3, <2>1
  <2>3. plans'[c] = Append(plans[c], new)
    BY <1>3, <2>1, <2>2
  <2>4. i = Len(plans[c]) + 1
    BY <2>1, <2>3
  <2>5. QED
    BY <2>1, <2>2, <2>3, <2>4
<1>6. Recorded(c, draft)
  BY <1>2, <1>5 DEF IInv, DraftOk
<1>7. Key(c, new) = Key(c, draft) /\ new.rollback = draft.rollback /\ new.base = draft.base
  BY <1>2, <1>5, Constants DEF Key, Expected
<1>8. Recorded(c, plans[c][i])'
  <2> HIDE DEF new
  <2>1. Key(c, plans[c][i])' = Key(c, new)
    BY <1>5 DEF Key
  <2>2. QED
    BY <1>4, <1>5, <1>6, <1>7, <2>1 DEF Recorded, Had, Switches
<1>9. i \notin activated'[c]
  BY <1>4 DEF IInv, ServedOk
<1>10. QED
  BY <1>8, <1>9 DEF PlanOk

LEMMA DraftKept ==
  ASSUME IInv, [Next]_vars
  PROVE  DraftOk'
<1>1. draft \in Drafts /\ PlansTyped /\ DataTyped
  BY DEF IInv, PlansTyped
<1>2. CASE UNCHANGED planning
  <2>1. draft' = draft
    BY <1>2 DEF planning
  <2>2. ASSUME draft.step = "world", draft.consumer = "intelligence"
        PROVE  Had("intelligence", draft.world.pointer["intelligence"])'
    <3>1. Had("intelligence", draft.world.pointer["intelligence"])
      BY <2>2 DEF IInv, DraftOk
    <3>2. \A seen : Had("intelligence", seen) => Had("intelligence", seen)'
      BY HadStays, Constants
    <3>3. QED
      BY <2>1, <3>1, <3>2 DEF Had
  <2>3. ASSUME draft.step = "rollback"
        PROVE  Recorded(draft.consumer, draft)'
    <3>1. /\ Recorded(draft.consumer, draft) /\ draft.consumer \in Consumers
          /\ draft.base \in Nat
      BY <1>1, <2>3, Nulls DEF IInv, DraftOk, Drafts
    <3>2. \A c \in Consumers : \A d : d.base \in Nat /\ Recorded(c, d) => Recorded(c, d)'
      BY RecordedStays
    <3>3. QED
      BY <2>1, <3>1, <3>2 DEF Recorded, Key, Had, Switches
  <2>4. QED
    BY <2>1, <2>2, <2>3 DEF DraftOk
<1>3. CASE \E c \in Consumers : ReadWorld(c)
  <2>1. PICK c \in Consumers : ReadWorld(c)
    BY <1>3
  <2>2. /\ draft' = [step |-> "world", consumer |-> c, world |-> World(c)]
        /\ UNCHANGED <<pointer, activated, undone>>
    BY <2>1 DEF ReadWorld, data
  <2>3. ASSUME c = "intelligence"
        PROVE  Had(c, World(c).pointer[c])
    <3>1. World(c).pointer[c] = pointer[c]
      BY <1>1, <2>3, WorldTyped
    <3>2. QED
      BY <1>1, <3>1 DEF Had, IInv, ServedOk, DataTyped
  <2>4. QED
    BY <2>2, <2>3 DEF DraftOk, Had
<1>4. CASE ReadRollback
  <2> DEFINE c == draft.consumer
  <2>1. draft \in [step : {"world"}, consumer : Consumers, world : Worlds]
    BY <1>1, <1>4, Nulls DEF ReadRollback, Drafts
  <2>2. /\ draft' = [step |-> "rollback", consumer |-> c, world |-> draft.world,
                     rollback |-> pointer[c].active, expect |-> pointer[c],
                     base |-> Switches(c)]
        /\ UNCHANGED <<pointer, activated, undone>>
    BY <1>4 DEF ReadRollback, data
  <2>3. Switches(c)' = Switches(c) /\ Switches(c) \in Nat
    BY <2>1, <2>2, SwitchesTyped DEF Switches
  <2>4. /\ pointer[c] \in Pointers /\ pointer[c].active \in activated[c] \cup {Base}
        /\ pointer[c].at <= undone[c]
    BY <1>1, <2>1 DEF DataTyped, IInv, ServedOk
  <2>5. Had(c, Key(c, draft'))
    <3>1. CASE c = "intelligence"
      BY <2>1, <2>2, <3>1 DEF IInv, DraftOk, Key
    <3>2. CASE c # "intelligence"
      BY <2>2, <2>4, <3>2 DEF Key, Had
    <3>3. QED
      BY <3>1, <3>2
  <2>6. draft'.consumer = c /\ draft'.base = Switches(c) /\ draft'.rollback = pointer[c].active
        /\ draft'.step = "rollback"
    BY <2>2
  <2>7. Recorded(draft.consumer, draft)'
    <3> HIDE DEF c
    <3>1. Key(draft.consumer, draft)' = Key(c, draft')
      BY <2>6 DEF Key
    <3>2. QED
      BY <2>2, <2>3, <2>4, <2>5, <2>6, <3>1 DEF Recorded, Had, Switches
  <2>8. QED
    BY <2>6, <2>7 DEF DraftOk
<1>5. CASE WritePlan
  BY <1>5, Nulls DEF WritePlan, DraftOk
<1>6. QED
  BY <1>2, <1>3, <1>4, <1>5, Planning

-----------------------------------------------------------------------------
(* The processes.                                                          *)

\* A step is a step of one process.
LEMMA OthersStay ==
  ASSUME ProcOk, NEW p \in Publishers, Step(p)
  PROVE  \A q \in Publishers : q # p => proc'[q] = proc[q]
<1>1. proc \in [Publishers -> Procs]
  BY DEF ProcOk
<1>2. CASE \E c \in Consumers :
             \/ DryRunRollback(p, c)
             \/ \E i \in 1 .. Len(plans[c]) :
                  Reserve(p, c, i) \/ \E op \in {"publish", "link"} : EnterByHand(p, c, i, op)
  BY <1>1, <1>2 DEF Reserve, EnterByHand, DryRunRollback
<1>3. CASE Enter(p) \/ Stage(p) \/ Fill(p) \/ Complete(p)
  BY <1>1, <1>3 DEF Enter, Stage, Fill, Complete
<1>4. CASE Switch(p) \/ Undo(p)
  BY <1>1, <1>4 DEF Switch, Undo
<1>5. CASE Release(p) \/ RecordSuccess(p) \/ Fail(p) \/ Die(p)
  BY <1>1, <1>5 DEF Release, RecordSuccess, Fail, Die
<1>6. QED
  BY <1>2, <1>3, <1>4, <1>5 DEF Step

LEMMA OnlySteps ==
  ASSUME [Next]_vars
  PROVE  UNCHANGED <<proc, lock>> \/ \E p \in Publishers : Step(p)
BY DEF Next, ReadWorld, ReadRollback, WritePlan, Recover, OutsideWrite, SwitchActivation,
       ClearStaging, vars

\* A process goes on with what it does.
Goes(p, pc) == proc' = [proc EXCEPT ![p].pc = pc]
Ends(p) == proc' = [proc EXCEPT ![p] = Idle]

LEMMA GoesOn ==
  ASSUME ProcOk, NEW p \in Publishers, NEW pc \in Inside \cup {"published"}, Goes(p, pc)
  PROVE  /\ proc' \in [Publishers -> Procs] /\ proc'[p].pc = pc
         /\ proc'[p].op = proc[p].op /\ proc'[p].consumer = proc[p].consumer
         /\ proc'[p].plan = proc[p].plan /\ proc'[p].attempt = proc[p].attempt
         /\ proc'[p].approved = proc[p].approved
<1>1. proc \in [Publishers -> Procs] /\ proc[p] \in Procs
  BY DEF ProcOk
<1>2. [proc[p] EXCEPT !.pc = pc] \in Procs
  BY <1>1 DEF Procs
<1>3. proc'[p] = [proc[p] EXCEPT !.pc = pc] /\ proc' \in [Publishers -> Procs]
  BY <1>1, <1>2 DEF Goes
<1>4. QED
  BY <1>1, <1>3 DEF Procs

\* The run stays well formed if it goes on as its operation does.
LEMMA GoesOk ==
  ASSUME IInv, [Next]_vars, NEW p \in Publishers, proc[p].pc # "idle",
         NEW pc \in Inside \cup {"published"}, Goes(p, pc),
         pc \in {"staged", "filled", "completed"} => proc[p].op = "publish",
         pc = "published" => proc[p].attempt # 0
  PROVE  proc' \in [Publishers -> Procs] /\ RunOk(p)'
<1>1. /\ proc' \in [Publishers -> Procs] /\ proc'[p].pc = pc
      /\ proc'[p].op = proc[p].op /\ proc'[p].consumer = proc[p].consumer
      /\ proc'[p].plan = proc[p].plan /\ proc'[p].attempt = proc[p].attempt
      /\ proc'[p].approved = proc[p].approved
  BY GoesOn DEF IInv
<1>2. pc # "idle"
  BY DEF Inside
<1>3. RunOk(p)
  BY DEF IInv, ProcOk
<1>4. proc[p].op # "rollback" => proc[p].plan \in 1 .. Len(plans'[proc[p].consumer])
  <2>1. \A c \in Consumers : Len(plans[c]) \in Nat /\ Len(plans'[c]) \in Nat
                             /\ Len(plans[c]) <= Len(plans'[c])
    BY PlanSteps DEF PlansTyped
  <2>2. QED
    BY <1>3, <2>1 DEF RunOk
<1>5. QED
  BY <1>1, <1>2, <1>3, <1>4 DEF RunOk

LEMMA EndsOk ==
  ASSUME IInv, NEW p \in Publishers, Ends(p)
  PROVE  proc' \in [Publishers -> Procs] /\ proc'[p] = Idle /\ RunOk(p)'
<1>1. proc' \in [Publishers -> Procs] /\ proc'[p] = Idle
  BY Nulls DEF Ends, IInv, ProcOk
<1>2. QED
  BY <1>1, Nulls DEF RunOk

\* A run begins.
LEMMA BeginsOk ==
  ASSUME IInv, [Next]_vars, NEW p \in Publishers, NEW r \in Procs,
         proc' = [proc EXCEPT ![p] = r], r.pc \in {"ready", "locked"}, r.consumer \in Consumers,
         \/ r.op \in {"publish", "link"} /\ r.plan \in 1 .. Len(plans[r.consumer])
         \/ /\ r.op = "rollback" /\ r.attempt = 0 /\ r.approved # NoPointer
            /\ r.consumer = "intelligence" => r.approved.rollback # Base
  PROVE  proc' \in [Publishers -> Procs] /\ RunOk(p)'
<1>1. proc' \in [Publishers -> Procs] /\ proc'[p] = r
  BY DEF IInv, ProcOk
<1>2. r.op # "rollback" => r.plan \in 1 .. Len(plans'[r.consumer])
  BY PlanSteps DEF PlansTyped
<1>3. QED
  BY <1>1, <1>2 DEF RunOk

LEMMA RunKept ==
  ASSUME IInv, [Next]_vars, NEW p \in Publishers, Step(p)
  PROVE  proc' \in [Publishers -> Procs] /\ RunOk(p)'
<1>1. ProcOk /\ proc[p] \in Procs /\ RunOk(p) /\ DataTyped /\ PlansTyped /\ JournalOk
  BY DEF IInv, ProcOk
<1>2. ASSUME NEW c \in Consumers, NEW i \in 1 .. Len(plans[c])
      PROVE  i \in PlanIdsOrBase
  <2>1. i \in 1 .. MaxPlans[c]
    BY <1>1, Constants DEF PlansTyped
  <2>2. QED
    BY <2>1, PlanIdOf DEF PlanIdsOrBase
<1>3. 0 \in PlanIdsOrBase /\ 0 \in 0 .. MaxAttempts
  BY Constants DEF PlanIdsOrBase
<1>4. ASSUME NEW c \in Consumers, DryRunRollback(p, c)
      PROVE  proc' \in [Publishers -> Procs] /\ RunOk(p)'
  <2> DEFINE r == [pc |-> "ready", op |-> "rollback", consumer |-> c, plan |-> 0,
                   attempt |-> 0, approved |-> pointer[c]]
  <2>1. proc' = [proc EXCEPT ![p] = r] /\ MayUndo(c)
    BY <1>4 DEF DryRunRollback
  <2>2. r \in Procs
    BY <1>1, <1>3 DEF Procs, DataTyped
  <2>3. /\ r.pc = "ready" /\ r.consumer = c /\ r.op = "rollback" /\ r.attempt = 0
        /\ r.approved # NoPointer /\ (c = "intelligence" => r.approved.rollback # Base)
    BY <2>1 DEF MayUndo
  <2> HIDE DEF r
  <2>4. QED
    BY <2>1, <2>2, <2>3, BeginsOk
<1>5. ASSUME NEW c \in Consumers, NEW i \in 1 .. Len(plans[c]), Reserve(p, c, i)
      PROVE  proc' \in [Publishers -> Procs] /\ RunOk(p)'
  <2> DEFINE r == [pc |-> "ready", op |-> "publish", consumer |-> c, plan |-> i,
                   attempt |-> Len(outcome) + 1, approved |-> NoPointer]
  <2>1. proc' = [proc EXCEPT ![p] = r] /\ Len(outcome) < MaxAttempts
    BY <1>5 DEF Reserve
  <2>2. Len(outcome) + 1 \in 0 .. MaxAttempts
    BY <1>1, <2>1, Constants DEF JournalOk
  <2>3. r \in Procs
    BY <1>2, <2>2, Nulls DEF Procs
  <2>4. r.pc = "ready" /\ r.consumer = c /\ r.op = "publish" /\ r.plan = i
    OBVIOUS
  <2> HIDE DEF r
  <2>5. QED
    BY <2>1, <2>3, <2>4, BeginsOk
<1>6. ASSUME NEW c \in Consumers, NEW i \in 1 .. Len(plans[c]), NEW op \in {"publish", "link"},
             EnterByHand(p, c, i, op)
      PROVE  proc' \in [Publishers -> Procs] /\ RunOk(p)'
  <2> DEFINE r == [pc |-> "locked", op |-> op, consumer |-> c, plan |-> i, attempt |-> 0,
                   approved |-> NoPointer]
  <2>1. proc' = [proc EXCEPT ![p] = r]
    BY <1>6 DEF EnterByHand
  <2>2. r \in Procs
    BY <1>2, <1>3, Nulls DEF Procs, Inside
  <2>3. r.pc = "locked" /\ r.consumer = c /\ r.op = op /\ r.plan = i
    OBVIOUS
  <2> HIDE DEF r
  <2>4. QED
    BY <2>1, <2>2, <2>3, BeginsOk
<1>7. CASE Ends(p)
  BY <1>7, EndsOk
<1>8. CASE Enter(p)
  <2>1. proc[p].pc = "ready" /\ (Goes(p, "locked") \/ Ends(p))
    BY <1>8 DEF Enter, Goes, Ends
  <2>2. QED
    BY <1>7, <2>1, GoesOk DEF Inside
<1>9. CASE Stage(p) \/ Fill(p) \/ Complete(p)
  <2>1. /\ Goes(p, "staged") \/ Goes(p, "filled") \/ Goes(p, "completed")
        /\ proc[p].op = "publish" /\ proc[p].pc # "idle"
    BY <1>1, <1>9 DEF Stage, Fill, Complete, Goes, RunOk
  <2>2. QED
    BY <2>1, GoesOk DEF Inside
<1>10. CASE Switch(p) \/ Undo(p)
  <2>1. Goes(p, "switched") /\ proc[p].pc # "idle"
    BY <1>10 DEF Switch, SwitchPoint, Undo, Goes
  <2>2. QED
    BY <2>1, GoesOk DEF Inside
<1>11. CASE Release(p)
  <2>1. CASE proc[p].attempt = 0
    BY <1>7, <1>11, <2>1 DEF Release, Ends
  <2>2. CASE proc[p].attempt # 0
    <3>1. Goes(p, "published") /\ proc[p].pc # "idle"
      BY <1>1, <1>11, <2>2 DEF Release, Goes, ProcOk
    <3>2. QED
      BY <2>2, <3>1, GoesOk
  <2>3. QED
    BY <2>1, <2>2
<1>12. CASE RecordSuccess(p) \/ Fail(p) \/ Die(p)
  BY <1>7, <1>12 DEF RecordSuccess, Fail, Die, Ends
<1>13. QED
  BY <1>4, <1>5, <1>6, <1>8, <1>9, <1>10, <1>11, <1>12 DEF Step

LEMMA ProcKept ==
  ASSUME IInv, [Next]_vars
  PROVE  ProcOk'
<1>1. ASSUME NEW q \in Publishers, proc'[q] = proc[q]
      PROVE  RunOk(q)'
  <2>1. RunOk(q)
    BY DEF IInv, ProcOk
  <2>2. \A c \in Consumers : \A i \in 1 .. Len(plans[c]) : i \in 1 .. Len(plans'[c])
    BY PlanSteps DEF PlansTyped
  <2>3. QED
    BY <1>1, <2>1, <2>2 DEF RunOk
<1>2. CASE UNCHANGED proc
  BY <1>1, <1>2 DEF IInv, ProcOk
<1>3. ASSUME NEW p \in Publishers, Step(p)
      PROVE  ProcOk'
  BY <1>1, <1>3, RunKept, OthersStay DEF IInv, ProcOk
<1>4. QED
  BY <1>2, <1>3, OnlySteps

-----------------------------------------------------------------------------
(* The lock of the data root.                                              *)

LEMMA LockMoves ==
  ASSUME IInv, NEW p \in Publishers, Step(p)
  PROVE  \/ lock' = lock /\ (proc'[p].pc \in Inside <=> proc[p].pc \in Inside)
         \/ lock = Free /\ lock' = p /\ proc'[p].pc \in Inside
         \/ lock = p /\ lock' = Free /\ proc'[p].pc \notin Inside
<1>1. proc \in [Publishers -> Procs] /\ (lock = p <=> proc[p].pc \in Inside) /\ ProcOk
  BY DEF IInv, ProcOk, LockOk
<1>2. Idle.pc \notin Inside /\ "ready" \notin Inside /\ "published" \notin Inside
      /\ {"locked", "staged", "filled", "completed", "switched"} = Inside
  BY Nulls DEF Inside
<1>3. CASE Ends(p) /\ lock' = IF lock = p THEN Free ELSE lock
  <2>1. proc'[p] = Idle
    BY <1>1, <1>3 DEF Ends
  <2>2. QED
    BY <1>1, <1>2, <1>3, <2>1
<1>4. ASSUME NEW pc \in Inside, Goes(p, pc), proc[p].pc \in Inside, lock' = lock
      PROVE  proc'[p].pc \in Inside /\ proc[p].pc \in Inside /\ lock' = lock
  BY <1>1, <1>4, GoesOn
<1>5. CASE \E c \in Consumers :
             DryRunRollback(p, c) \/ \E i \in 1 .. Len(plans[c]) : Reserve(p, c, i)
  <2>1. proc[p].pc \notin Inside /\ proc'[p].pc \notin Inside /\ lock' = lock
    BY <1>1, <1>2, <1>5 DEF DryRunRollback, Reserve
  <2>2. QED
    BY <2>1
<1>6. CASE \E c \in Consumers : \E i \in 1 .. Len(plans[c]) :
             \E op \in {"publish", "link"} : EnterByHand(p, c, i, op)
  BY <1>1, <1>2, <1>6 DEF EnterByHand
<1>7. CASE Enter(p)
  <2>1. proc[p].pc = "ready"
    BY <1>7 DEF Enter
  <2>2. CASE lock = Free /\ lock' = p /\ Goes(p, "locked")
    BY <1>1, <1>2, <2>2, GoesOn
  <2>3. CASE lock' = lock /\ Ends(p)
    BY <1>1, <1>2, <1>3, <2>1, <2>3
  <2>4. QED
    BY <1>7, <2>2, <2>3 DEF Enter, Goes, Ends
<1>8. CASE Stage(p) \/ Fill(p) \/ Complete(p)
  <2>1. /\ Goes(p, "staged") \/ Goes(p, "filled") \/ Goes(p, "completed")
        /\ proc[p].pc \in Inside /\ lock' = lock
    BY <1>2, <1>8 DEF Stage, Fill, Complete, Goes
  <2>2. QED
    BY <1>2, <1>4, <2>1
<1>9. CASE Switch(p) \/ Undo(p)
  <2>1. Goes(p, "switched") /\ proc[p].pc \in Inside /\ lock' = lock
    BY <1>2, <1>9 DEF Switch, SwitchPoint, Undo, Goes
  <2>2. QED
    BY <1>2, <1>4, <2>1
<1>10. CASE Release(p)
  <2>1. lock = p /\ lock' = Free
    BY <1>1, <1>2, <1>10 DEF Release
  <2>2. proc'[p].pc \notin Inside
    <3>1. CASE Ends(p)
      BY <1>1, <1>2, <3>1 DEF Ends
    <3>2. CASE Goes(p, "published")
      BY <1>1, <1>2, <3>2, GoesOn
    <3>3. QED
      BY <1>10, <3>1, <3>2 DEF Release, Ends, Goes
  <2>3. QED
    BY <2>1, <2>2
<1>11. CASE RecordSuccess(p)
  <2>1. Ends(p) /\ lock' = lock /\ proc[p].pc = "published"
    BY <1>11 DEF RecordSuccess, Ends
  <2>2. QED
    BY <1>1, <1>2, <1>3, <2>1
<1>12. CASE Fail(p) \/ Die(p)
  BY <1>3, <1>12 DEF Fail, Die, Ends
<1>13. QED
  BY <1>5, <1>6, <1>7, <1>8, <1>9, <1>10, <1>11, <1>12 DEF Step

LEMMA LockKept ==
  ASSUME IInv, [Next]_vars
  PROVE  LockOk'
<1>1. LockOk /\ Free \notin Publishers
  BY Constants DEF IInv
<1>2. CASE UNCHANGED <<proc, lock>>
  BY <1>1, <1>2 DEF LockOk
<1>3. ASSUME NEW p \in Publishers, Step(p)
      PROVE  LockOk'
  <2>1. \A q \in Publishers : q # p => proc'[q] = proc[q]
    BY <1>3, OthersStay DEF IInv
  <2>2. QED
    BY <1>1, <1>3, <2>1, LockMoves DEF LockOk
<1>4. QED
  BY <1>2, <1>3, OnlySteps

\* What an operation finds when it is admitted.
LEMMA AdmittedFound ==
  ASSUME IInv, NEW r, NEW c \in Consumers, NEW i, r.consumer = c, r.plan = i, Admitted(r),
         r.op # "rollback" => i \in 1 .. Len(plans[c])
  PROVE  /\ r.op = "link" => i \in release[c]
         /\ r.op = "rollback" => pointer[c] = r.approved
         /\ r.op # "rollback" => plans[c][i].base = Switches(c) /\ i \notin activated[c]
<1>1. r.op = "rollback" => pointer[c] = r.approved
  BY DEF Admitted
<1>2. ASSUME r.op # "rollback"
      PROVE  /\ r.op = "link" => i \in release[c]
             /\ plans[c][i].base = Switches(c) /\ i \notin activated[c]
  <2>1. \/ r.op = "publish" /\ Approved(c, i) /\ NewTarget(c, i)
        \/ /\ r.op = "link" /\ i \in release[c] /\ pointer[c] = plans[c][i].expect
           /\ c = "intelligence" =>
                InventoryBut([release EXCEPT ![c] = @ \ {i}]) = plans[c][i].world
    BY <1>2 DEF Admitted
  <2>2. pointer[c] = Key(c, plans[c][i])
    <3>1. CASE c = "intelligence"
      <4>1. \A s : InventoryBut(s).pointer = pointer
        BY DEF InventoryBut
      <4>2. plans[c][i].world.pointer = pointer
        BY <2>1, <3>1, <4>1 DEF Approved, World, Inventory
      <4>3. QED
        BY <3>1, <4>2 DEF Key
    <3>2. CASE c # "intelligence"
      BY <2>1, <3>2 DEF Approved, Key
    <3>3. QED
      BY <3>1, <3>2
  <2>3. PlanOk(c, i) /\ Switches(c) \in Nat
    BY <1>2, SwitchesTyped DEF IInv
  <2>4. plans[c][i].base = Switches(c)
    BY <2>2, <2>3 DEF PlanOk, Recorded
  <2>5. i \notin activated[c]
    BY <2>3, <2>4 DEF PlanOk
  <2>6. QED
    BY <2>1, <2>4, <2>5
<1>3. QED
  BY <1>1, <1>2

\* While an operation holds the lock and does not move, no pointer moves.
LEMMA HeldStill ==
  ASSUME IInv, [Next]_vars, NEW q \in Publishers, proc[q].pc \in Inside, proc'[q] = proc[q]
  PROVE  UNCHANGED <<pointer, activated, undone>>
<1>1. lock = q
  BY DEF IInv, LockOk
<1>2. ASSUME NEW p \in Publishers, Switch(p) \/ Undo(p)
      PROVE  FALSE
  <2>1. proc[p].pc \in Inside
    BY <1>2 DEF Switch, Undo, SwitchPoint, Inside
  <2>2. p = q
    BY <1>1, <2>1 DEF IInv, LockOk
  <2>3. Goes(p, "switched") /\ proc[p].pc # "switched"
    BY <1>2 DEF Switch, Undo, SwitchPoint, Goes
  <2>4. proc'[p].pc = "switched"
    BY <2>3, GoesOn DEF IInv, Inside
  <2>5. QED
    BY <2>2, <2>3, <2>4
<1>3. QED
  BY <1>2, Serving

LEMMA FoundStays ==
  ASSUME IInv, [Next]_vars, NEW q \in Publishers, proc'[q] = proc[q]
  PROVE  FoundOk(q)'
<1>1. CASE proc[q].pc \notin Inside
  BY <1>1 DEF FoundOk, Inside
<1>2. CASE proc[q].pc \in Inside
  <2>1. UNCHANGED <<pointer, activated, undone>>
    BY <1>2, HeldStill
  <2>2. proc[q].consumer \in Consumers
    BY <1>2 DEF IInv, ProcOk, RunOk, Inside
  <2>3. release[proc[q].consumer] \subseteq release'[proc[q].consumer]
    BY <2>2, ReleaseGrows
  <2>4. proc[q].op # "rollback" =>
          plans'[proc[q].consumer][proc[q].plan] = plans[proc[q].consumer][proc[q].plan]
    BY <1>2, <2>2, PlanSteps DEF IInv, ProcOk, RunOk, Inside
  <2>5. QED
    BY <2>1, <2>2, <2>3, <2>4 DEF IInv, FoundOk, Switches
<1>3. QED
  BY <1>1, <1>2

\* An operation that stays under the lock keeps what it found.
LEMMA FoundGoes ==
  ASSUME IInv, NEW p \in Publishers, Stage(p) \/ Fill(p) \/ Complete(p)
  PROVE  FoundOk(p)'
<1>1. /\ UNCHANGED <<pointer, activated, undone, plans>>
      /\ Goes(p, "staged") \/ Goes(p, "filled") \/ Goes(p, "completed")
      /\ proc[p].pc \in Inside \ {"switched"} /\ proc[p].op = "publish"
      /\ Complete(p) \/ Goes(p, "staged") \/ Goes(p, "filled")
  BY DEF Stage, Fill, Complete, Goes, planning, Inside, IInv, ProcOk, RunOk
<1>2. /\ proc'[p].op = proc[p].op /\ proc'[p].consumer = proc[p].consumer
      /\ proc'[p].plan = proc[p].plan
  BY <1>1, GoesOn DEF IInv, Inside
<1>3. proc'[p].pc \in {"staged", "filled", "completed"}
  BY <1>1, GoesOn DEF IInv, Inside
<1>4. /\ plans[proc[p].consumer][proc[p].plan].base = Switches(proc[p].consumer)
      /\ proc[p].plan \notin activated[proc[p].consumer] /\ proc[p].consumer \in Consumers
  BY <1>1 DEF IInv, FoundOk, ProcOk, RunOk, Inside
<1>5. proc'[p].pc = "completed" => proc[p].plan \in release'[proc[p].consumer]
  <2>1. Goes(p, "staged") \/ Goes(p, "filled") => proc'[p].pc # "completed"
    BY GoesOn DEF IInv, Inside
  <2>2. Complete(p) => proc[p].plan \in release'[proc[p].consumer]
    BY <1>4 DEF Complete, IInv, DataTyped
  <2>3. QED
    BY <1>1, <2>1, <2>2
<1>6. QED
  BY <1>1, <1>2, <1>3, <1>4, <1>5 DEF FoundOk, Switches

LEMMA FoundKept ==
  ASSUME IInv, [Next]_vars, NEW q \in Publishers
  PROVE  FoundOk(q)'
<1>1. CASE UNCHANGED <<proc, lock>>
  BY <1>1, FoundStays
<1>2. ASSUME NEW p \in Publishers, Step(p), q # p
      PROVE  FoundOk(q)'
  BY <1>2, OthersStay, FoundStays DEF IInv
<1>3. CASE proc'[q].pc \notin Inside \/ proc'[q].pc = "switched"
  BY <1>3 DEF FoundOk, Inside
<1>4. ASSUME NEW r, NEW c \in Consumers, NEW i, r.consumer = c, r.plan = i, Admitted(r),
             r.op # "rollback" => i \in 1 .. Len(plans[c]),
             proc'[q].pc = "locked", proc'[q].op = r.op, proc'[q].consumer = c,
             proc'[q].plan = i, proc'[q].approved = r.approved, UNCHANGED <<data, planning>>
      PROVE  FoundOk(q)'
  <2>1. /\ r.op = "link" => i \in release[c]
        /\ r.op = "rollback" => pointer[c] = r.approved
        /\ r.op # "rollback" => plans[c][i].base = Switches(c) /\ i \notin activated[c]
    BY <1>4, AdmittedFound
  <2>2. UNCHANGED <<pointer, release, activated, undone, plans>>
    BY <1>4 DEF data, planning
  <2>3. QED
    BY <1>4, <2>1, <2>2 DEF FoundOk, Switches
<1>5. ASSUME NEW c \in Consumers, NEW i \in 1 .. Len(plans[c]), NEW op \in {"publish", "link"},
             EnterByHand(q, c, i, op)
      PROVE  FoundOk(q)'
  <2> DEFINE r == [pc |-> "locked", op |-> op, consumer |-> c, plan |-> i, attempt |-> 0,
                   approved |-> NoPointer]
  <2>1. Admitted(r) /\ proc'[q] = r /\ UNCHANGED <<data, planning>>
    BY <1>5 DEF EnterByHand, IInv, ProcOk
  <2>2. r.consumer = c /\ r.plan = i /\ r.pc = "locked"
    OBVIOUS
  <2> HIDE DEF r
  <2>3. QED
    BY <1>4, <2>1, <2>2
<1>6. CASE Enter(q)
  <2>1. CASE lock = Free /\ Admitted(proc[q]) /\ Goes(q, "locked")
    <3>1. UNCHANGED <<data, planning>> /\ proc[q].pc = "ready"
      BY <1>6 DEF Enter
    <3>2. /\ proc'[q].pc = "locked" /\ proc'[q].op = proc[q].op
          /\ proc'[q].consumer = proc[q].consumer /\ proc'[q].plan = proc[q].plan
          /\ proc'[q].approved = proc[q].approved
      BY <2>1, GoesOn DEF IInv, Inside
    <3>3. /\ proc[q].consumer \in Consumers
          /\ proc[q].op # "rollback" => proc[q].plan \in 1 .. Len(plans[proc[q].consumer])
      BY <3>1 DEF IInv, ProcOk, RunOk
    <3>4. QED
      BY <1>4, <2>1, <3>1, <3>2, <3>3
  <2>2. CASE Ends(q)
    BY <1>3, <2>2, EndsOk, Nulls DEF Inside
  <2>3. QED
    BY <1>6, <2>1, <2>2 DEF Enter, Goes, Ends
<1>7. ASSUME Step(q), ~ Enter(q), ~ Stage(q), ~ Fill(q), ~ Complete(q),
             ~ \E c \in Consumers : \E i \in 1 .. Len(plans[c]) :
                  \E op \in {"publish", "link"} : EnterByHand(q, c, i, op)
      PROVE  FoundOk(q)'
  <2>1. CASE Switch(q) \/ Undo(q)
    <3>1. Goes(q, "switched")
      BY <2>1 DEF Switch, Undo, Goes
    <3>2. QED
      BY <1>3, <3>1, GoesOn DEF IInv, Inside
  <2>2. CASE Release(q)
    <3>1. CASE Ends(q)
      BY <1>3, <3>1, EndsOk, Nulls DEF Inside
    <3>2. CASE Goes(q, "published")
      BY <1>3, <3>2, GoesOn DEF IInv, Inside
    <3>3. QED
      BY <2>2, <3>1, <3>2 DEF Release, Ends, Goes
  <2>3. CASE RecordSuccess(q) \/ Fail(q) \/ Die(q)
    <3>1. Ends(q)
      BY <2>3 DEF RecordSuccess, Fail, Die, Ends
    <3>2. QED
      BY <1>3, <3>1, EndsOk, Nulls DEF Inside
  <2>4. CASE \E c \in Consumers :
               DryRunRollback(q, c) \/ \E i \in 1 .. Len(plans[c]) : Reserve(q, c, i)
    <3>1. proc'[q].pc = "ready"
      BY <2>4 DEF DryRunRollback, Reserve, IInv, ProcOk
    <3>2. QED
      BY <1>3, <3>1 DEF Inside
  <2>5. QED
    BY <1>7, <2>1, <2>2, <2>3, <2>4 DEF Step
<1>8. QED
  BY <1>1, <1>2, <1>5, <1>6, <1>7, FoundGoes, OnlySteps

-----------------------------------------------------------------------------
(* The data root.                                                          *)

LEMMA StagingKept ==
  ASSUME IInv, [Next]_vars
  PROVE  staging' \subseteq Stagings
<1>1. staging \subseteq Stagings
  BY DEF IInv, DataTyped
<1>2. ASSUME NEW p \in Publishers, proc[p].op = "publish", proc[p].pc # "idle"
      PROVE  Staged(p) \in Stagings /\ Filled(p) \in Stagings
  <2>1. /\ proc[p].consumer \in Consumers
        /\ proc[p].plan \in 1 .. Len(plans[proc[p].consumer])
    BY <1>2 DEF IInv, ProcOk, RunOk
  <2>2. proc[p].plan \in 1 .. MaxPlans[proc[p].consumer]
    BY <2>1, Constants DEF IInv, PlansTyped
  <2>3. proc[p].plan \in PlanIds
    BY <2>1, <2>2, PlanIdOf
  <2>4. QED
    BY <2>1, <2>3 DEF Staged, Filled, Stagings
<1>3. ASSUME NEW p \in Publishers, Stage(p) \/ Fill(p)
      PROVE  staging' \subseteq Stagings
  <2>1. proc[p].op = "publish" /\ proc[p].pc # "idle"
    BY <1>3 DEF Stage, Fill, IInv, ProcOk, RunOk
  <2>2. QED
    BY <1>1, <1>2, <1>3, <2>1 DEF Stage, Fill
<1>4. ASSUME NEW p \in Publishers, Step(p), ~ Stage(p), ~ Fill(p)
      PROVE  staging' \subseteq staging
  <2>1. CASE \E c \in Consumers :
               \/ DryRunRollback(p, c)
               \/ \E i \in 1 .. Len(plans[c]) :
                    Reserve(p, c, i) \/ \E op \in {"publish", "link"} : EnterByHand(p, c, i, op)
    BY <2>1 DEF Reserve, EnterByHand, DryRunRollback, data
  <2>2. CASE Enter(p) \/ Complete(p) \/ Switch(p) \/ Undo(p)
    BY <2>2 DEF Enter, Complete, Switch, Undo, data
  <2>3. CASE Release(p) \/ RecordSuccess(p) \/ Fail(p) \/ Die(p)
    BY <2>3 DEF Release, RecordSuccess, Fail, Die, data
  <2>4. QED
    BY <1>4, <2>1, <2>2, <2>3 DEF Step
<1>5. \/ \E c \in Consumers : ReadWorld(c)
      \/ ReadRollback \/ WritePlan \/ Recover \/ OutsideWrite \/ SwitchActivation
      \/ ClearStaging \/ UNCHANGED vars
      => staging' \subseteq staging
  BY DEF ReadWorld, ReadRollback, WritePlan, Recover, OutsideWrite, SwitchActivation,
         ClearStaging, vars, data
<1>6. QED
  BY <1>1, <1>3, <1>4, <1>5 DEF Next

LEMMA OutsideKept ==
  ASSUME IInv, [Next]_vars
  PROVE  outside' \in 0 .. MaxOutside /\ activation' \in 0 .. MaxOutside
<1>1. outside \in 0 .. MaxOutside /\ activation \in 0 .. MaxOutside /\ MaxOutside \in Nat
  BY Constants DEF IInv, DataTyped
<1>2. CASE OutsideWrite
  BY <1>1, <1>2 DEF OutsideWrite
<1>3. CASE SwitchActivation
  BY <1>1, <1>3 DEF SwitchActivation
<1>4. \/ \E c \in Consumers : ReadWorld(c)
      \/ ReadRollback \/ WritePlan \/ Recover \/ ClearStaging \/ UNCHANGED vars
      => UNCHANGED <<outside, activation>>
  BY DEF ReadWorld, ReadRollback, WritePlan, Recover, ClearStaging, vars, data
<1>5. QED
  BY <1>1, <1>2, <1>3, <1>4, StepServesNothing DEF Next

LEMMA DataKept ==
  ASSUME IInv, [Next]_vars
  PROVE  DataTyped'
<1>1. /\ pointer \in [Consumers -> Pointers] /\ activated \in [Consumers -> SUBSET PlanIds]
      /\ undone \in [Consumers -> Nat] /\ \A c \in Consumers : undone[c] <= MaxUndos[c]
  BY DEF IInv, DataTyped
<1>2. /\ pointer' \in [Consumers -> Pointers] /\ activated' \in [Consumers -> SUBSET PlanIds]
      /\ undone' \in [Consumers -> Nat] /\ \A c \in Consumers : undone'[c] <= MaxUndos[c]
  <2>1. CASE UNCHANGED <<pointer, activated, undone>>
    BY <1>1, <2>1
  <2>2. ASSUME NEW p \in Publishers, Switch(p)
        PROVE  /\ pointer' \in [Consumers -> Pointers]
               /\ activated' \in [Consumers -> SUBSET PlanIds] /\ undone' = undone
    <3>1. PICK c \in Consumers : \E i \in 1 .. Len(plans[c]) :
             /\ i \in PlanIds /\ plans[c][i].rollback = pointer[c].active
             /\ pointer' = [pointer EXCEPT ![c] = Planned(c, i)]
             /\ activated' = [activated EXCEPT ![c] = activated[c] \cup {i}]
             /\ UNCHANGED undone
      BY <2>2, SwitchIs
    <3>2. PICK i \in 1 .. Len(plans[c]) :
             /\ i \in PlanIds /\ plans[c][i].rollback = pointer[c].active
             /\ pointer' = [pointer EXCEPT ![c] = Planned(c, i)]
             /\ activated' = [activated EXCEPT ![c] = activated[c] \cup {i}]
             /\ UNCHANGED undone
      BY <3>1
    <3>3. Planned(c, i) \in Pointers
      BY <1>1, <3>2 DEF Planned, Pointers, PlanIdsOrBase
    <3>4. QED
      BY <1>1, <3>2, <3>3
  <2>3. ASSUME NEW p \in Publishers, Undo(p)
        PROVE  /\ pointer' \in [Consumers -> Pointers] /\ activated' = activated
               /\ undone' \in [Consumers -> Nat]
               /\ \A c \in Consumers : undone'[c] <= MaxUndos[c]
    <3>1. PICK c \in Consumers :
             /\ pointer' = [pointer EXCEPT ![c] = UndonePointer(c)]
             /\ undone' = [undone EXCEPT ![c] = undone[c] + 1] /\ undone[c] < MaxUndos[c]
             /\ UNCHANGED activated
      BY <2>3, UndoIs
    <3>2. UndonePointer(c) \in Pointers
      BY <1>1 DEF UndonePointer, Pointers
    <3>3. pointer' \in [Consumers -> Pointers] /\ undone' \in [Consumers -> Nat]
      BY <1>1, <3>1, <3>2
    <3>4. \A k \in Consumers : undone'[k] <= MaxUndos[k]
      BY <1>1, <3>1, Constants
    <3>5. QED
      BY <3>1, <3>3, <3>4
  <2>4. QED
    BY <1>1, <2>1, <2>2, <2>3, Serving
<1>3. QED
  BY <1>2, ReleaseGrows, StagingKept, OutsideKept DEF DataTyped

-----------------------------------------------------------------------------
(* The journal.                                                            *)

LEMMA JournalFrame ==
  ASSUME [Next]_vars
  PROVE  /\ \/ UNCHANGED journal \/ Recover
            \/ \E p \in Publishers : RecordSuccess(p) \/
                 \E c \in Consumers : \E i \in 1 .. Len(plans[c]) : Reserve(p, c, i)
         /\ wrote' = wrote \/ \E p \in Publishers : Complete(p)
<1>1. ASSUME NEW p \in Publishers, Step(p)
      PROVE  /\ \/ UNCHANGED journal \/ RecordSuccess(p)
                \/ \E c \in Consumers : \E i \in 1 .. Len(plans[c]) : Reserve(p, c, i)
             /\ wrote' = wrote \/ Complete(p)
  <2>1. CASE \E c \in Consumers :
               \/ DryRunRollback(p, c)
               \/ \E i \in 1 .. Len(plans[c]) :
                    Reserve(p, c, i) \/ \E op \in {"publish", "link"} : EnterByHand(p, c, i, op)
    BY <2>1 DEF Reserve, EnterByHand, DryRunRollback, data
  <2>2. CASE Enter(p) \/ Stage(p) \/ Fill(p) \/ Complete(p)
    BY <2>2 DEF Enter, Stage, Fill, Complete, data
  <2>3. CASE Switch(p) \/ Undo(p)
    BY <2>3 DEF Switch, Undo
  <2>4. CASE Release(p) \/ RecordSuccess(p) \/ Fail(p) \/ Die(p)
    BY <2>4 DEF Release, RecordSuccess, Fail, Die, data
  <2>5. QED
    BY <1>1, <2>1, <2>2, <2>3, <2>4 DEF Step
<1>2. \/ \E c \in Consumers : ReadWorld(c)
      \/ ReadRollback \/ WritePlan \/ OutsideWrite \/ SwitchActivation
      \/ ClearStaging \/ UNCHANGED vars
      => UNCHANGED journal /\ wrote' = wrote
  BY DEF ReadWorld, ReadRollback, WritePlan, OutsideWrite, SwitchActivation,
         ClearStaging, vars, data, journal
<1>3. Recover => wrote' = wrote
  BY DEF Recover, data
<1>4. QED
  BY <1>1, <1>2, <1>3 DEF Next

\* A process keeps the attempt it has, with its plan, until it is idle.
LEMMA AttemptMoves ==
  ASSUME IInv, NEW p \in Publishers, Step(p)
  PROVE  \/ proc'[p].attempt = 0
         \/ /\ proc'[p].attempt = proc[p].attempt /\ proc'[p].consumer = proc[p].consumer
            /\ proc'[p].plan = proc[p].plan
         \/ \E c \in Consumers : \E i \in 1 .. Len(plans[c]) : Reserve(p, c, i)
<1>1. ProcOk /\ proc \in [Publishers -> Procs]
  BY DEF IInv, ProcOk
<1>2. ASSUME NEW c \in Consumers, NEW i, NEW op,
             DryRunRollback(p, c) \/ EnterByHand(p, c, i, op)
      PROVE  proc'[p].attempt = 0
  <2>1. CASE DryRunRollback(p, c)
    BY <1>1, <2>1 DEF DryRunRollback
  <2>2. CASE EnterByHand(p, c, i, op)
    BY <1>1, <2>2 DEF EnterByHand
  <2>3. QED
    BY <1>2, <2>1, <2>2
<1>3. CASE Ends(p)
  BY <1>3, EndsOk, Nulls
<1>4. ASSUME NEW pc \in Inside \cup {"published"}, Goes(p, pc)
      PROVE  /\ proc'[p].attempt = proc[p].attempt /\ proc'[p].consumer = proc[p].consumer
             /\ proc'[p].plan = proc[p].plan
  BY <1>1, <1>4, GoesOn
<1>5. CASE Enter(p) \/ Release(p)
  <2>1. Ends(p) \/ Goes(p, "locked") \/ Goes(p, "published")
    BY <1>5 DEF Enter, Release, Ends, Goes
  <2>2. QED
    BY <1>3, <1>4, <2>1 DEF Inside
<1>6. CASE Stage(p) \/ Fill(p) \/ Complete(p) \/ Switch(p) \/ Undo(p)
  <2>1. \/ Goes(p, "staged") \/ Goes(p, "filled") \/ Goes(p, "completed")
        \/ Goes(p, "switched")
    BY <1>6 DEF Stage, Fill, Complete, Switch, Undo, Goes
  <2>2. QED
    BY <1>4, <2>1 DEF Inside
<1>7. CASE RecordSuccess(p) \/ Fail(p) \/ Die(p)
  BY <1>3, <1>7 DEF RecordSuccess, Fail, Die, Ends
<1>8. QED
  BY <1>2, <1>5, <1>6, <1>7 DEF Step

\* A terminal event closes the open attempt, and no other.
LEMMA Closing ==
  ASSUME IInv, pending # NoAttempt, NEW kind \in Outcomes, Terminal(kind)
  PROVE  /\ pending' = NoAttempt
         /\ outcome' \in Seq(Outcomes) /\ Len(outcome') = Len(outcome)
         /\ \A a \in 1 .. Len(outcome) :
              outcome'[a] = IF a = pending.attempt THEN kind ELSE outcome[a]
<1>1. outcome \in Seq(Outcomes) /\ pending.attempt \in 1 .. Len(outcome)
  BY Constants DEF IInv, JournalOk, Pendings
<1>2. outcome' = [outcome EXCEPT ![pending.attempt] = kind] /\ pending' = NoAttempt
  BY DEF Terminal
<1>3. QED
  BY <1>1, <1>2

\* A reservation opens one.
LEMMA Opening ==
  ASSUME IInv, NEW p \in Publishers, NEW c \in Consumers, NEW i \in 1 .. Len(plans[c]),
         Reserve(p, c, i)
  PROVE  /\ pending = NoAttempt /\ Len(outcome) \in Nat /\ Len(outcome) < MaxAttempts
         /\ outcome' \in Seq(Outcomes) /\ Len(outcome') = Len(outcome) + 1
         /\ \A a \in 1 .. Len(outcome) : outcome'[a] = outcome[a]
         /\ outcome'[Len(outcome) + 1] = "open"
         /\ pending'.consumer = c /\ pending'.plan = i /\ pending'.attempt = Len(outcome) + 1
         /\ pending' \in Pendings
         /\ proc'[p].attempt = Len(outcome) + 1 /\ proc'[p].consumer = c /\ proc'[p].plan = i
         /\ NewTarget(c, i) /\ UNCHANGED <<plans, release, wrote>>
<1>1. outcome \in Seq(Outcomes) /\ Len(outcome) \in Nat /\ "open" \in Outcomes
  BY DEF IInv, JournalOk, Outcomes
<1>2. /\ pending = NoAttempt /\ Len(outcome) < MaxAttempts /\ outcome' = Append(outcome, "open")
      /\ pending' = [consumer |-> c, plan |-> i, attempt |-> Len(outcome) + 1]
      /\ NewTarget(c, i) /\ UNCHANGED <<plans, release, wrote>>
  BY DEF Reserve, data, planning
<1>3. /\ outcome' \in Seq(Outcomes) /\ Len(outcome') = Len(outcome) + 1
      /\ \A a \in 1 .. Len(outcome) : outcome'[a] = outcome[a]
      /\ outcome'[Len(outcome) + 1] = "open"
  BY <1>1, <1>2
<1>4. i \in PlanIdsOrBase
  <2>1. i \in 1 .. MaxPlans[c]
    BY Constants DEF IInv, PlansTyped
  <2>2. QED
    BY <2>1, PlanIdOf DEF PlanIdsOrBase
<1>5. Len(outcome) + 1 \in 0 .. MaxAttempts
  BY <1>1, <1>2, Constants
<1>6. pending' \in Pendings
  BY <1>2, <1>4, <1>5 DEF Pendings
<1>7. proc'[p].attempt = Len(outcome) + 1 /\ proc'[p].consumer = c /\ proc'[p].plan = i
  BY DEF Reserve, IInv, ProcOk
<1>8. QED
  BY <1>1, <1>2, <1>3, <1>6, <1>7

LEMMA Verdicts ==
  ASSUME NEW c, NEW i
  PROVE  /\ Verdict(c, i) \in Outcomes
         /\ Verdict(c, i) = "recovered_not_completed" => i \notin release[c]
         /\ Verdict(c, i) \in Success => pointer[c] = Planned(c, i)
BY DEF Verdict, Outcomes, Success

LEMMA JournalKept ==
  ASSUME IInv, [Next]_vars
  PROVE  JournalOk'
<1>1. /\ JournalOk /\ Len(outcome) \in Nat /\ MaxAttempts \in Nat
      /\ \A p \in Publishers : proc[p].attempt \in Nat
  BY Constants DEF IInv, JournalOk, ProcOk, Procs
<1>2. \A c \in Consumers : \A i \in 1 .. Len(plans[c]) : i \in 1 .. Len(plans'[c])
  BY PlanSteps DEF PlansTyped
<1>3. \A p \in Publishers : \/ proc'[p].attempt = 0
                            \/ proc'[p].attempt = proc[p].attempt
                            \/ \E c \in Consumers : \E i \in 1 .. Len(plans[c]) : Reserve(p, c, i)
  BY AttemptMoves, OthersStay, OnlySteps DEF IInv
<1>4. wrote' \subseteq 1 .. Len(outcome)
  <2>1. ASSUME NEW p \in Publishers, Complete(p), proc[p].attempt # 0
        PROVE  proc[p].attempt \in 1 .. Len(outcome)
    BY <1>1, <2>1 DEF JournalOk
  <2>2. QED
    BY <1>1, <2>1, JournalFrame DEF JournalOk, Complete
<1>5. ASSUME NEW p \in Publishers, NEW c \in Consumers, NEW i \in 1 .. Len(plans[c]),
             Reserve(p, c, i)
      PROVE  JournalOk'
  <2>1. /\ Len(outcome) < MaxAttempts
        /\ outcome' \in Seq(Outcomes) /\ Len(outcome') = Len(outcome) + 1
        /\ outcome'[Len(outcome) + 1] = "open"
        /\ pending'.consumer = c /\ pending'.plan = i /\ pending'.attempt = Len(outcome) + 1
        /\ pending' \in Pendings
    BY <1>5, Opening
  <2>2. \A q \in Publishers : proc'[q].attempt <= Len(outcome) + 1
    <3>1. \A q \in Publishers : proc[q].attempt <= Len(outcome)
      BY <1>1 DEF JournalOk
    <3>2. ASSUME NEW q \in Publishers, NEW d \in Consumers, NEW j \in 1 .. Len(plans[d]),
                 Reserve(q, d, j)
          PROVE  proc'[q].attempt = Len(outcome) + 1
      BY <3>2, Opening
    <3>3. QED
      BY <1>1, <1>3, <3>1, <3>2
  <2>3. i \in 1 .. Len(plans'[c])
    BY <1>2
  <2>4. QED
    BY <1>1, <1>4, <2>1, <2>2, <2>3 DEF JournalOk
<1>6. ASSUME ~ \E p \in Publishers : \E c \in Consumers : \E i \in 1 .. Len(plans[c]) :
                  Reserve(p, c, i)
      PROVE  \A p \in Publishers : proc'[p].attempt <= Len(outcome)
  BY <1>1, <1>3, <1>6 DEF JournalOk
<1>7. ASSUME NEW kind \in Outcomes, pending # NoAttempt, Terminal(kind)
      PROVE  JournalOk'
  <2>1. /\ pending' = NoAttempt
        /\ outcome' \in Seq(Outcomes) /\ Len(outcome') = Len(outcome)
    BY <1>7, Closing
  <2>2. ~ \E p \in Publishers : \E c \in Consumers : \E i \in 1 .. Len(plans[c]) :
               Reserve(p, c, i)
    BY <1>7 DEF Reserve
  <2>3. QED
    BY <1>1, <1>4, <1>6, <2>1, <2>2, Nulls DEF JournalOk
<1>8. ASSUME NEW p \in Publishers, RecordSuccess(p)
      PROVE  JournalOk'
  <2>1. pending # NoAttempt /\ Terminal("succeeded") /\ "succeeded" \in Outcomes
    <3>1. proc[p].consumer \in Consumers /\ pending.consumer = proc[p].consumer
      BY <1>8 DEF RecordSuccess, IInv, ProcOk, RunOk
    <3>2. NoAttempt.consumer \notin Consumers
      BY DEF NoAttempt, Consumers
    <3>3. QED
      BY <1>8, <3>1, <3>2 DEF RecordSuccess, Outcomes, Success
  <2>2. QED
    BY <1>7, <2>1
<1>9. CASE Recover
  <2>1. /\ pending # NoAttempt /\ Terminal(Verdict(pending.consumer, pending.plan))
        /\ Verdict(pending.consumer, pending.plan) \in Outcomes
    BY <1>9, Verdicts DEF Recover
  <2>2. QED
    BY <1>7, <2>1
<1>10. CASE UNCHANGED journal /\ ~ \E p \in Publishers : \E c \in Consumers :
               \E i \in 1 .. Len(plans[c]) : Reserve(p, c, i)
  <2>1. pending' = pending /\ outcome' = outcome
    BY <1>10 DEF journal
  <2>2. QED
    BY <1>1, <1>2, <1>4, <1>6, <1>10, <2>1 DEF JournalOk
<1>11. QED
  BY <1>5, <1>8, <1>9, <1>10, JournalFrame

LEMMA InvKept == IInv /\ [Next]_vars => IInv'
<1> SUFFICES ASSUME IInv, [Next]_vars PROVE IInv'
  OBVIOUS
<1>1. \A c \in Consumers : \A i \in 1 .. Len(plans'[c]) : PlanOk(c, i)'
  BY PlanKept, NewPlan
<1>2. PlansTyped'
  BY PlanSteps
<1>3. \A c \in Consumers : ServedOk(c)'
  BY ServedKept
<1>4. \A p \in Publishers : FoundOk(p)'
  BY FoundKept
<1>5. QED
  BY <1>1, <1>2, <1>3, <1>4, DataKept, JournalKept, ProcKept, LockKept, DraftKept DEF IInv

-----------------------------------------------------------------------------
(* Attempts, where recovery waits for the end of the process.              *)

LEMMA AttemptsStay ==
  ASSUME IInv, AttemptsOk, [Next]_vars, pending' = pending, outcome' = outcome,
         ~ \E p \in Publishers : \E c \in Consumers : \E i \in 1 .. Len(plans[c]) :
              Reserve(p, c, i)
  PROVE  AttemptsOk'
<1>1. \A p \in Publishers :
        \/ proc'[p].attempt = 0
        \/ /\ proc'[p].attempt = proc[p].attempt /\ proc'[p].consumer = proc[p].consumer
           /\ proc'[p].plan = proc[p].plan
  BY AttemptMoves, OthersStay, OnlySteps DEF IInv
<1>2. /\ \A p \in Publishers : Mine(p)'
      /\ \A p, q \in Publishers : proc'[p].attempt # 0 /\ proc'[q].attempt # 0 => p = q
  BY <1>1 DEF AttemptsOk, Mine
<1>3. CASE wrote' = wrote
  <2>1. pending.attempt \in wrote => pending.consumer \in Consumers
    BY Nulls DEF IInv, JournalOk
  <2>2. pending.attempt \in wrote => pending.plan \in release'[pending.consumer]
    BY <2>1, ReleaseGrows DEF AttemptsOk
  <2>3. QED
    BY <1>2, <1>3, <2>2 DEF AttemptsOk, NotCompletedWroteNothing
<1>4. ASSUME NEW p \in Publishers, Complete(p), proc[p].attempt # 0
      PROVE  AttemptsOk'
  <2>1. /\ proc[p].attempt = pending.attempt /\ proc[p].consumer = pending.consumer
        /\ proc[p].plan = pending.plan
    BY <1>4 DEF AttemptsOk, Mine
  <2>2. pending # NoAttempt /\ outcome[pending.attempt] = "open" /\ pending.consumer \in Consumers
    BY <1>4, <2>1, Nulls DEF IInv, JournalOk
  <2>3. wrote' = wrote \cup {pending.attempt} /\ pending.plan \in release'[pending.consumer]
    BY <1>4, <2>1, <2>2 DEF Complete, IInv, DataTyped
  <2>4. NotCompletedWroteNothing'
    BY <2>2, <2>3 DEF AttemptsOk, NotCompletedWroteNothing
  <2>5. QED
    BY <1>2, <2>3, <2>4 DEF AttemptsOk
<1>5. QED
  BY <1>3, <1>4, JournalFrame DEF Complete

LEMMA AttemptsOpen ==
  ASSUME IInv, AttemptsOk, [Next]_vars, NEW p \in Publishers, NEW c \in Consumers,
         NEW i \in 1 .. Len(plans[c]), Reserve(p, c, i)
  PROVE  AttemptsOk'
<1>1. /\ pending = NoAttempt /\ Len(outcome) \in Nat
      /\ outcome \in Seq(Outcomes) /\ outcome' \in Seq(Outcomes)
      /\ Len(outcome') = Len(outcome) + 1
      /\ \A a \in 1 .. Len(outcome) : outcome'[a] = outcome[a]
      /\ outcome'[Len(outcome) + 1] = "open"
      /\ pending'.consumer = c /\ pending'.plan = i /\ pending'.attempt = Len(outcome) + 1
      /\ proc'[p].attempt = Len(outcome) + 1 /\ proc'[p].consumer = c /\ proc'[p].plan = i
      /\ wrote' = wrote
  BY Opening DEF IInv, JournalOk
<1>2. \A q \in Publishers : q # p => proc'[q].attempt = 0
  <2>1. \A q \in Publishers : proc[q].attempt = 0
    BY <1>1, Nulls DEF AttemptsOk, Mine
  <2>2. \A q \in Publishers : q # p => proc'[q] = proc[q]
    BY DEF Reserve, IInv, ProcOk
  <2>3. QED
    BY <2>1, <2>2
<1>3. Len(outcome) + 1 \notin wrote
  BY <1>1 DEF IInv, JournalOk
<1>4. NotCompletedWroteNothing'
  <2>1. \A a \in DOMAIN outcome' : a \in DOMAIN outcome \/ a = Len(outcome) + 1
    BY <1>1
  <2>2. \A a \in DOMAIN outcome : outcome'[a] = outcome[a]
    BY <1>1
  <2>3. QED
    BY <1>1, <2>1, <2>2 DEF AttemptsOk, NotCompletedWroteNothing
<1>5. QED
  BY <1>1, <1>2, <1>3, <1>4 DEF AttemptsOk, Mine

LEMMA AttemptsClose ==
  ASSUME IInv, AttemptsOk, [Next]_vars, pending # NoAttempt, NEW kind \in Outcomes,
         Terminal(kind), wrote' = wrote,
         kind = "recovered_not_completed" => pending.plan \notin release[pending.consumer],
         \A p \in Publishers : proc'[p].attempt = 0
  PROVE  AttemptsOk'
<1>1. /\ pending' = NoAttempt /\ outcome \in Seq(Outcomes) /\ outcome' \in Seq(Outcomes)
      /\ Len(outcome') = Len(outcome)
      /\ \A a \in 1 .. Len(outcome) :
           outcome'[a] = IF a = pending.attempt THEN kind ELSE outcome[a]
  BY Closing DEF IInv, JournalOk
<1>2. NotCompletedWroteNothing'
  <2>1. DOMAIN outcome' = 1 .. Len(outcome) /\ DOMAIN outcome = 1 .. Len(outcome)
    BY <1>1
  <2>2. QED
    BY <1>1, <2>1 DEF AttemptsOk, NotCompletedWroteNothing
<1>3. 0 \notin wrote'
  BY DEF IInv, JournalOk
<1>4. QED
  BY <1>1, <1>2, <1>3, Nulls DEF AttemptsOk, Mine

LEMMA AttemptsKept ==
  ASSUME RecoverLive = FALSE, IInv, AttemptsOk, [Next]_vars
  PROVE  AttemptsOk'
<1>1. CASE Recover
  <2>1. /\ pending # NoAttempt /\ Terminal(Verdict(pending.consumer, pending.plan))
        /\ wrote' = wrote /\ proc' = proc
        /\ \A p \in Publishers : proc[p].attempt # pending.attempt
    BY <1>1 DEF Recover, data
  <2>2. \A p \in Publishers : proc'[p].attempt = 0
    BY <2>1 DEF AttemptsOk, Mine
  <2>3. QED
    BY <2>1, <2>2, Verdicts, AttemptsClose
<1>2. ASSUME NEW p \in Publishers, RecordSuccess(p)
      PROVE  AttemptsOk'
  <2>1. /\ Terminal("succeeded") /\ "succeeded" \in Outcomes /\ wrote' = wrote
        /\ proc[p].attempt # 0 /\ Ends(p)
    BY <1>2 DEF RecordSuccess, data, Ends, Outcomes, Success, IInv, ProcOk, RunOk
  <2>2. pending # NoAttempt
    BY <2>1, Nulls DEF AttemptsOk, Mine
  <2>3. \A q \in Publishers : q # p => proc[q].attempt = 0 /\ proc'[q] = proc[q]
    BY <2>1 DEF AttemptsOk, Ends, IInv, ProcOk
  <2>4. \A q \in Publishers : proc'[q].attempt = 0
    BY <2>1, <2>3, EndsOk, Nulls
  <2>5. QED
    BY <2>1, <2>2, <2>4, AttemptsClose
<1>3. CASE UNCHANGED journal /\ ~ \E p \in Publishers : \E c \in Consumers :
               \E i \in 1 .. Len(plans[c]) : Reserve(p, c, i)
  BY <1>3, AttemptsStay DEF journal
<1>4. QED
  BY <1>1, <1>2, <1>3, AttemptsOpen, JournalFrame

-----------------------------------------------------------------------------
(* The theorems.                                                           *)

LEMMA Invariant == Spec => []IInv
<1>1. Init => IInv
  BY Initially
<1>2. IInv /\ [Next]_vars => IInv'
  BY InvKept
<1>3. QED
  BY <1>1, <1>2, PTL DEF Spec

\* The state keeps its shape, and the data root's lock is held exactly by the
\* process that publishes, links or rolls back.
THEOREM TypeCorrect == Spec => []TypeOK
<1>1. IInv => TypeOK
  <2> SUFFICES ASSUME IInv PROVE TypeOK
    OBVIOUS
  <2>1. DataTyped /\ PlansTyped /\ JournalOk /\ ProcOk /\ LockOk
    BY DEF IInv
  <2>2. /\ pointer \in [Consumers -> Pointers] /\ release \in [Consumers -> SUBSET PlanIds]
        /\ staging \subseteq Stagings
        /\ outside \in 0 .. MaxOutside /\ activation \in 0 .. MaxOutside
        /\ activated \in [Consumers -> SUBSET PlanIds]
    BY <2>1 DEF DataTyped
  <2>3. \A c \in Consumers : undone[c] \in 0 .. MaxUndos[c] /\ Len(plans[c]) \in 0 .. MaxPlans[c]
    BY <2>1, Constants DEF DataTyped, PlansTyped
  <2>4. /\ Len(outcome) \in 0 .. MaxAttempts /\ \A a \in DOMAIN outcome : outcome[a] \in Outcomes
        /\ wrote \subseteq 1 .. MaxAttempts /\ pending \in Pendings
    BY <2>1, Constants DEF JournalOk
  <2>5. proc \in [Publishers -> Procs]
    BY <2>1 DEF ProcOk
  <2>6. lock \in Publishers \cup {Free} /\ \A p \in Publishers : lock = p <=> proc[p].pc \in Inside
    BY <2>1 DEF LockOk
  <2>7. QED
    BY <2>2, <2>3, <2>4, <2>5, <2>6 DEF TypeOK, Stagings, Procs, Pendings
<1>2. QED
  BY <1>1, Invariant, PTL

\* Wherever publishers fail, die or overtake each other, the pointer of
\* _write_pointer names complete releases: the one served and the one to go back to.
THEOREM CompleteServed == Spec => []ServesComplete
<1>1. IInv => ServesComplete
  BY DEF IInv, ServedOk, ServesComplete
<1>2. QED
  BY <1>1, Invariant, PTL

\* Where recovery waits for the end of the process, what recover_..._apply calls
\* not completed has written no release and never will.
THEOREM NotCompletedNeverWrote ==
  ASSUME RecoverLive = FALSE
  PROVE  Spec => []NotCompletedWroteNothing
<1>1. Init => IInv /\ AttemptsOk
  BY Initially
<1>2. IInv /\ AttemptsOk /\ [Next]_vars => (IInv /\ AttemptsOk)'
  BY InvKept, AttemptsKept
<1>3. IInv /\ AttemptsOk => NotCompletedWroteNothing
  BY DEF AttemptsOk
<1>4. QED
  BY <1>1, <1>2, <1>3, PTL DEF Spec

\* Whatever recover_..._apply or record_..._apply_success calls a success was
\* written to the pointer, whoever wrote it.
THEOREM SuccessServed == Spec => SuccessWasServed
<1> DEFINE Served == \A a \in DOMAIN outcome :
                       outcome[a] = "open" /\ outcome'[a] \in Success
                         => pending.plan \in activated[pending.consumer]
<1>1. ASSUME IInv, [Next]_vars PROVE Served
  <2>1. outcome \in Seq(Outcomes) /\ DOMAIN outcome = 1 .. Len(outcome)
    BY <1>1 DEF IInv, JournalOk
  <2>2. "open" \notin Success
    BY DEF Success
  <2>3. ASSUME pending # NoAttempt, pointer[pending.consumer] = Planned(pending.consumer, pending.plan)
        PROVE  Served
    <3>1. /\ pending.consumer \in Consumers
          /\ pending.plan \in 1 .. Len(plans[pending.consumer])
      BY <1>1, <2>3 DEF IInv, JournalOk
    <3>2. pointer[pending.consumer].active = pending.plan /\ pending.plan # Base
      BY <2>3, <3>1, Constants DEF Planned
    <3>3. QED
      BY <1>1, <3>1, <3>2 DEF IInv, ServedOk
  <2>4. ASSUME NEW p \in Publishers, RecordSuccess(p) PROVE Served
    <3>1. /\ proc[p].consumer \in Consumers /\ pending.consumer = proc[p].consumer
          /\ pending.plan = proc[p].plan /\ pointer[proc[p].consumer] = Planned(proc[p].consumer, proc[p].plan)
      BY <1>1, <2>4 DEF RecordSuccess, IInv, ProcOk, RunOk
    <3>2. NoAttempt.consumer \notin Consumers
      BY DEF NoAttempt, Consumers
    <3>3. QED
      BY <2>3, <3>1, <3>2
  <2>5. CASE Recover
    <3>1. /\ pending # NoAttempt /\ Verdict(pending.consumer, pending.plan) \in Outcomes
          /\ Terminal(Verdict(pending.consumer, pending.plan))
      BY <2>5, Verdicts DEF Recover
    <3>2. CASE Verdict(pending.consumer, pending.plan) \in Success
      BY <2>3, <3>1, <3>2, Verdicts
    <3>3. CASE Verdict(pending.consumer, pending.plan) \notin Success
      BY <1>1, <2>1, <2>2, <3>1, <3>3, Closing
    <3>4. QED
      BY <3>2, <3>3
  <2>6. ASSUME NEW p \in Publishers, NEW c \in Consumers, NEW i \in 1 .. Len(plans[c]),
               Reserve(p, c, i)
        PROVE  Served
    BY <1>1, <2>1, <2>2, <2>6, Opening
  <2>7. CASE UNCHANGED journal
    BY <2>2, <2>7 DEF journal
  <2>8. QED
    BY <1>1, <2>4, <2>5, <2>6, <2>7, JournalFrame
<1>2. IInv /\ [Next]_vars => [Served]_vars
  BY <1>1
<1>3. QED
  BY <1>2, Invariant, PTL DEF Spec, SuccessWasServed

\* No pointer has the same value twice, so what publish_and_activate and
\* verify_then_link find unchanged was never switched since the approval: neither
\* rollbacks of rollbacks nor replayed plans activate a stale plan.
THEOREM Approvals == Spec => ActivatedAsApproved
<1> DEFINE AsApproved == \A c \in Consumers : \A i \in DOMAIN plans[c] :
                           pointer'[c] # pointer[c] /\ pointer'[c] = Planned(c, i)
                             => Switches(c) = plans[c][i].base
<1>1. ASSUME IInv, [Next]_vars PROVE AsApproved
  <2> SUFFICES ASSUME NEW c \in Consumers, NEW i \in DOMAIN plans[c],
                      pointer'[c] # pointer[c], pointer'[c] = Planned(c, i)
               PROVE  Switches(c) = plans[c][i].base
    OBVIOUS
  <2>1. pointer'[c].active = i /\ pointer'[c].at = 0 /\ undone[c] \in Nat
    BY <1>1 DEF Planned, IInv, DataTyped
  <2>2. ASSUME NEW j, pointer'[c] = [active |-> j, rollback |-> pointer[c].active, at |-> 0],
               plans[c][j].base = Switches(c)
        PROVE  Switches(c) = plans[c][i].base
    BY <2>1, <2>2
  <2>3. pointer'[c] # [active |-> pointer[c].rollback, rollback |-> pointer[c].active,
                       at |-> undone[c] + 1]
    BY <2>1
  <2>4. QED
    BY <1>1, <2>2, <2>3, Switching
<1>2. IInv /\ [Next]_vars => [AsApproved]_vars
  BY <1>1
<1>3. QED
  BY <1>2, Invariant, PTL DEF Spec, ActivatedAsApproved

\* What the pointer files serve their readers implements ServedRelease: every change
\* is to a release never served before or back to the one before.
THEOREM Refinement == Spec => ImplementsServedRelease
<1> DEFINE IPublish == \E r \in PlanIds : Intelligence!Publish(r)
           SPublish == \E r \in PlanIds : Snapshot!Publish(r)
<1>1. "intelligence" \in Consumers /\ "snapshot" \in Consumers
  BY Constants
<1>2. Init => Intelligence!Init /\ Snapshot!Init
  BY <1>1 DEF Init, NoPointer, Intelligence!Init, Snapshot!Init
<1>3. ASSUME IInv, [Next]_vars
      PROVE  [Intelligence!Undo \/ IPublish]_<<pointer["intelligence"].active,
               pointer["intelligence"].rollback, activated["intelligence"]>>
  <2> DEFINE c == "intelligence"
  <2>1. CASE pointer'[c] = pointer[c] /\ activated'[c] = activated[c]
    BY <2>1
  <2>2. ASSUME NEW i \in PlanIds, i \notin activated[c],
               pointer'[c] = [active |-> i, rollback |-> pointer[c].active, at |-> 0],
               activated'[c] = activated[c] \cup {i}
        PROVE  IPublish
    BY <2>2 DEF Intelligence!Publish
  <2>3. ASSUME pointer[c].rollback # Base, activated[c] # {}, activated'[c] = activated[c],
               pointer'[c] = [active |-> pointer[c].rollback, rollback |-> pointer[c].active,
                              at |-> undone[c] + 1]
        PROVE  Intelligence!Undo
    BY <2>3 DEF Intelligence!Undo
  <2> HIDE DEF IPublish
  <2>4. QED
    BY <1>1, <1>3, <2>1, <2>2, <2>3, Switching
<1>4. ASSUME IInv, [Next]_vars
      PROVE  [Snapshot!Undo \/ SPublish]_<<pointer["snapshot"].active,
               pointer["snapshot"].rollback, activated["snapshot"]>>
  <2> DEFINE c == "snapshot"
  <2>1. CASE pointer'[c] = pointer[c] /\ activated'[c] = activated[c]
    BY <2>1
  <2>2. ASSUME NEW i \in PlanIds, i \notin activated[c],
               pointer'[c] = [active |-> i, rollback |-> pointer[c].active, at |-> 0],
               activated'[c] = activated[c] \cup {i}
        PROVE  SPublish
    BY <2>2 DEF Snapshot!Publish
  <2>3. ASSUME activated[c] # {}, activated'[c] = activated[c],
               pointer'[c] = [active |-> pointer[c].rollback, rollback |-> pointer[c].active,
                              at |-> undone[c] + 1]
        PROVE  Snapshot!Undo
    BY <2>3 DEF Snapshot!Undo
  <2> HIDE DEF SPublish
  <2>4. QED
    BY <1>1, <1>4, <2>1, <2>2, <2>3, Switching
<1>5. Spec => Intelligence!Spec
  BY <1>2, <1>3, Invariant, PTL DEF Spec, Intelligence!Spec
<1>6. Spec => Snapshot!Spec
  BY <1>2, <1>4, Invariant, PTL DEF Spec, Snapshot!Spec
<1>7. QED
  BY <1>5, <1>6, PTL DEF ImplementsServedRelease
=============================================================================
