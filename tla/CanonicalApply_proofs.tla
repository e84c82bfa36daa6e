------------------------ MODULE CanonicalApply_proofs ------------------------
(***************************************************************************)
(* Proofs about the canonical Apply, for any number of processes, targets, *)
(* plans and attempts.                                                     *)
(***************************************************************************)
EXTENDS CanonicalApply, TLAPS

Modes == {"apply", "complete"}
Procs == [pc : {"idle", "waiting", "applied"} \cup Inside, mode : Modes,
          plan : 0 .. MaxPlans, attempt : 0 .. MaxAttempts, next : 1 .. NTargets + 1]
Inventories == [foreign : 0 .. MaxForeign, target : [Targets -> 0 .. MaxPlans],
                staged : SUBSET (PlanIds \X Targets)]

\* Plans and attempts are numbered as they are made.
Numbered ==
  /\ plans \in Seq(Inventories)
  /\ outcome \in Seq(Outcomes)
  /\ pending.attempt <= Len(outcome)

\* A process that applies has a plan, and stages one of its targets.
ProcessOk(p) ==
  /\ proc[p].pc # "idle" => proc[p].plan \in PlanIds
  /\ proc[p].pc = "waiting" => proc[p].next = 1
  /\ proc[p].pc \in {"staging", "filled"} => proc[p].next \in Targets

\* What a publishing process has gone past is there, from its plan.
ProgressOk(p) ==
  proc[p].pc \in Inside =>
    \A k \in Targets : k < proc[p].next => target[k] = proc[p].plan

IInv ==
  /\ TypeOK
  /\ Numbered
  /\ \A p \in Appliers : ProcessOk(p)
  /\ \A p \in Appliers : ProgressOk(p)
  /\ PrefixOfOnePlan

-----------------------------------------------------------------------------
LEMMA InitHolds == Init => IInv
<1> SUFFICES ASSUME Init PROVE IInv
  OBVIOUS
<1> USE DEF Init
<1>1. TypeOK
  BY BoundsAssumption, AppliersAssumption
     DEF TypeOK, Targets, NoTargets, Idle, Inside, Free, NoAttempt, Outcomes, Attempts
<1>2. Numbered
  BY DEF Numbered, NoAttempt
<1>3. \A p \in Appliers : ProcessOk(p) /\ ProgressOk(p)
  BY DEF ProcessOk, ProgressOk, Idle, Inside
<1>4. PrefixOfOnePlan
  BY DEF PrefixOfOnePlan, NoTargets
<1>5. QED
  BY <1>1, <1>2, <1>3, <1>4 DEF IInv

\* The inventory of a well-formed state is well formed.
LEMMA InventoryTyped ==
  ASSUME TypeOK
  PROVE  Inventory \in Inventories
<1>1. {<<s.plan, s.target>> : s \in {t \in staging : t.files}} \subseteq PlanIds \X Targets
  BY DEF TypeOK
<1>2. QED
  BY <1>1 DEF TypeOK, Inventory, Inventories

\* One process's step: the others stay as they were.
LEMMA StagedTyped ==
  ASSUME IInv, NEW p \in Appliers, proc[p].pc # "idle", proc[p].next \in Targets
  PROVE  /\ Staged(p) \in [plan : PlanIds, target : Targets, files : BOOLEAN]
         /\ Filled(p) \in [plan : PlanIds, target : Targets, files : BOOLEAN]
<1>1. proc[p].plan \in PlanIds
  BY DEF IInv, ProcessOk
<1>2. QED
  BY <1>1 DEF Staged, Filled, Slot

\* A terminal event changes the pending attempt's outcome only.
LEMMA TerminalTyped ==
  ASSUME IInv, NEW kind \in Outcomes, Terminal(kind)
  PROVE  /\ outcome' \in Seq(Outcomes) /\ Len(outcome') = Len(outcome)
         /\ \A a \in DOMAIN outcome' : outcome'[a] \in Outcomes
         /\ pending' \in [attempt : 0 .. MaxAttempts, plan : 0 .. MaxPlans]
         /\ pending'.attempt = 0
<1>1. outcome \in Seq(Outcomes)
  BY DEF IInv, Numbered
<1>2. /\ outcome' \in Seq(Outcomes)
      /\ Len(outcome') = Len(outcome)
      /\ \A a \in DOMAIN outcome' : outcome'[a] \in Outcomes
  <2> DEFINE n == Len(outcome)
  <2>0. outcome \in [1 .. n -> Outcomes]
    BY <1>1
  <2>1. outcome' \in [1 .. n -> Outcomes]
    <3> HIDE DEF n
    <3> QED
      BY <2>0 DEF Terminal
  <2>2. Len(outcome) \in Nat
    BY <1>1
  <2>3. outcome' \in Seq(Outcomes)
    BY <2>1, <2>2
  <2>4. DOMAIN outcome' = 1 .. Len(outcome)
    BY <2>1
  <2>5. QED
    BY <2>1, <2>2, <2>3, <2>4
<1>3. pending' = [attempt |-> 0, plan |-> 0]
  BY DEF Terminal, NoAttempt
<1>4. QED
  BY <1>2, <1>3, BoundsAssumption

LEMMA TypeKept ==
  ASSUME IInv, [Next]_vars
  PROVE  TypeOK'
<1> USE BoundsAssumption, AppliersAssumption
<1> DEFINE ProcTyped == proc \in [Appliers -> Procs]
           LockTyped == lock \in Appliers \cup {Free} /\ \A p \in Appliers : lock = p <=> proc[p].pc \in Inside
<1>0. /\ ProcTyped /\ LockTyped /\ Free \notin Appliers
      /\ \A p \in Appliers : proc[p] \in Procs
  BY DEF IInv, TypeOK, Procs, Modes, Free
<1>1. ASSUME BuildPlan
      PROVE  TypeOK'
  <2>1. Len(plans') = Len(plans) + 1 /\ Len(plans) \in Nat
    BY <1>1 DEF BuildPlan, IInv, Numbered
  <2>2. Len(plans') \in 0 .. MaxPlans
    BY <1>1, <2>1 DEF BuildPlan
  <2>3. QED
    BY <1>1, <2>2 DEF BuildPlan, IInv, TypeOK
<1>2. ASSUME NEW p \in Appliers, NEW i \in 1 .. Len(plans), Reserve(p, i)
      PROVE  TypeOK'
  <2>1. i \in 1 .. MaxPlans /\ Attempted \in Nat /\ Attempted + 1 \in 1 .. MaxAttempts
    BY <1>2 DEF Reserve, IInv, TypeOK, Numbered, Attempted
  <2>2. ProcTyped' /\ LockTyped'
    BY <1>0, <1>2, <2>1 DEF Reserve, Procs, Modes, Idle, Inside
  <2>3. /\ Len(outcome') = Attempted + 1
        /\ \A a \in DOMAIN outcome' : outcome'[a] \in Outcomes
    BY <1>2 DEF Reserve, IInv, Numbered, Attempted, Outcomes
  <2>4. pending' \in [attempt : 0 .. MaxAttempts, plan : 0 .. MaxPlans]
    BY <1>2, <2>1 DEF Reserve
  <2>5. QED
    BY <1>2, <2>1, <2>2, <2>3, <2>4 DEF Reserve, IInv, TypeOK, disk, Procs, Modes
<1>3. ASSUME NEW p \in Appliers, NEW i \in 1 .. Len(plans), NEW mode \in Modes,
             BeginByHand(p, i, mode)
      PROVE  TypeOK'
  <2>1. i \in 1 .. MaxPlans
    BY <1>3 DEF IInv, TypeOK, Numbered
  <2>2. ProcTyped' /\ LockTyped'
    BY <1>0, <1>3, <2>1 DEF BeginByHand, Procs, Modes, Idle, Inside
  <2>3. QED
    BY <1>3, <2>1, <2>2 DEF BeginByHand, IInv, TypeOK, disk, journal, Procs, Modes
<1>4. ASSUME NEW p \in Appliers, Lock(p)
      PROVE  TypeOK'
  <2>1. ProcTyped' /\ LockTyped'
    BY <1>0, <1>4 DEF Lock, Procs, Modes, Idle, Inside
  <2>2. QED
    BY <1>4, <2>1 DEF Lock, IInv, TypeOK, disk, journal, Procs, Modes
<1>5. ASSUME NEW p \in Appliers, StageTarget(p)
      PROVE  TypeOK'
  <2>1. ProcTyped' /\ LockTyped'
    BY <1>0, <1>5 DEF StageTarget, Procs, Modes, Inside
  <2>2. staging' \subseteq [plan : PlanIds, target : Targets, files : BOOLEAN]
    <3>1. proc[p].next \in Targets /\ proc[p].pc # "idle"
      BY <1>0, <1>5 DEF StageTarget, Targets, Procs
    <3>2. QED
      BY <1>5, <3>1, StagedTyped DEF StageTarget, IInv, TypeOK
  <2>3. QED
    BY <1>5, <2>1, <2>2 DEF StageTarget, IInv, TypeOK, journal, Procs, Modes
<1>6. ASSUME NEW p \in Appliers, FillStaging(p)
      PROVE  TypeOK'
  <2>1. ProcTyped' /\ LockTyped'
    BY <1>0, <1>6 DEF FillStaging, Procs, Modes, Inside
  <2>2. staging' \subseteq [plan : PlanIds, target : Targets, files : BOOLEAN]
    BY <1>0, <1>6, StagedTyped DEF FillStaging, IInv, TypeOK, ProcessOk
  <2>3. QED
    BY <1>6, <2>1, <2>2 DEF FillStaging, IInv, TypeOK, journal, Procs, Modes
<1>7. ASSUME NEW p \in Appliers, PublishTarget(p)
      PROVE  TypeOK'
  <2>1. proc[p].next \in Targets /\ proc[p].plan \in PlanIds
    BY <1>7 DEF PublishTarget, IInv, ProcessOk
  <2>2. ProcTyped' /\ LockTyped'
    BY <1>0, <1>7, <2>1 DEF PublishTarget, Procs, Modes, Inside, Targets
  <2>3. target' \in [Targets -> 0 .. MaxPlans]
    BY <1>7, <2>1 DEF PublishTarget, IInv, TypeOK, PlanIds, Slot
  <2>4. wrote' \subseteq Attempts
    BY <1>0, <1>7 DEF PublishTarget, IInv, TypeOK, Attempts, Procs
  <2>5. QED
    BY <1>7, <2>2, <2>3, <2>4 DEF PublishTarget, IInv, TypeOK, journal, Procs, Modes
<1>8. ASSUME NEW p \in Appliers, SkipTarget(p)
      PROVE  TypeOK'
  <2>1. ProcTyped' /\ LockTyped'
    BY <1>0, <1>8 DEF SkipTarget, Procs, Modes, Inside
  <2>2. QED
    BY <1>8, <2>1 DEF SkipTarget, IInv, TypeOK, disk, journal, Procs, Modes
<1>9. ASSUME NEW p \in Appliers, EndApply(p)
      PROVE  TypeOK'
  <2>1. ProcTyped' /\ LockTyped'
    BY <1>0, <1>9 DEF EndApply, Procs, Modes, Inside, Idle
  <2>2. QED
    BY <1>9, <2>1 DEF EndApply, IInv, TypeOK, disk, journal, Procs, Modes
<1>10. ASSUME NEW p \in Appliers, RecordSuccess(p)
       PROVE  TypeOK'
  <2>1. ProcTyped' /\ LockTyped'
    BY <1>0, <1>10 DEF RecordSuccess, Procs, Modes, Inside, Idle
  <2>2. QED
    BY <1>10, <2>1, TerminalTyped DEF RecordSuccess, IInv, TypeOK, disk, Procs, Modes, Outcomes, Success
<1>11. ASSUME NEW p \in Appliers, Fail(p)
       PROVE  TypeOK'
  <2>1. ProcTyped' /\ LockTyped'
    BY <1>0, <1>11 DEF Fail, Procs, Modes, Inside, Idle
  <2>2. QED
    BY <1>11, <2>1 DEF Fail, IInv, TypeOK, journal, Procs, Modes
<1>12. ASSUME NEW p \in Appliers, Die(p)
       PROVE  TypeOK'
  <2>1. ProcTyped' /\ LockTyped'
    BY <1>0, <1>12 DEF Die, Procs, Modes, Inside, Idle
  <2>2. QED
    BY <1>12, <2>1 DEF Die, IInv, TypeOK, disk, journal, Procs, Modes
<1>13. ASSUME Recover
       PROVE  TypeOK'
  <2>1. Recovered \in Outcomes
    BY DEF Recovered, Outcomes, Success
  <2>2. QED
    BY <1>13, <2>1, TerminalTyped DEF Recover, IInv, TypeOK, disk
<1>14. ASSUME ForeignWrite \/ ClearStaging
       PROVE  TypeOK'
  <2>1. CASE ForeignWrite
    <3>1. foreign' \in 0 .. MaxForeign
      BY <2>1 DEF ForeignWrite, IInv, TypeOK
    <3>2. QED
      BY <2>1, <3>1 DEF ForeignWrite, IInv, TypeOK, journal
  <2>2. CASE ClearStaging
    BY <2>2 DEF ClearStaging, IInv, TypeOK, journal
  <2>3. QED
    BY <1>14, <2>1, <2>2
<1>15. ASSUME UNCHANGED vars
       PROVE  TypeOK'
  BY <1>15 DEF vars, IInv, TypeOK
<1>16. QED
  BY <1>1, <1>2, <1>3, <1>4, <1>5, <1>6, <1>7, <1>8, <1>9, <1>10, <1>11, <1>12, <1>13,
     <1>14, <1>15 DEF Next, Step, Modes

LEMMA NumberedKept ==
  ASSUME IInv, [Next]_vars
  PROVE  Numbered'
<1>1. ASSUME BuildPlan
      PROVE  Numbered'
  <2>1. Inventory \in Inventories
    BY InventoryTyped DEF IInv
  <2>2. QED
    BY <1>1, <2>1 DEF BuildPlan, IInv, Numbered
<1>2. ASSUME NEW p \in Appliers, NEW i \in 1 .. Len(plans), Reserve(p, i)
      PROVE  Numbered'
  <2>1. outcome' \in Seq(Outcomes) /\ Len(outcome') = Len(outcome) + 1
    BY <1>2 DEF Reserve, IInv, Numbered, Outcomes
  <2>2. pending'.attempt = Len(outcome) + 1
    BY <1>2 DEF Reserve, Attempted
  <2>3. Len(outcome) + 1 <= Len(outcome')
    BY <2>1 DEF IInv, Numbered
  <2>4. QED
    BY <1>2, <2>1, <2>2, <2>3 DEF Reserve, IInv, Numbered
<1>3. ASSUME NEW kind \in Outcomes, Terminal(kind), plans' = plans
      PROVE  Numbered'
  <2>1. Len(outcome') \in Nat
    BY <1>3, TerminalTyped
  <2>2. QED
    BY <1>3, <2>1, TerminalTyped DEF IInv, Numbered
<1>4. ASSUME NEW p \in Appliers, RecordSuccess(p)
      PROVE  Numbered'
  BY <1>3, <1>4 DEF RecordSuccess, Outcomes, Success
<1>5. ASSUME Recover
      PROVE  Numbered'
  BY <1>3, <1>5 DEF Recover, Recovered, Outcomes, Success
<1>6. ASSUME UNCHANGED <<plans, journal>>
      PROVE  Numbered'
  BY <1>6 DEF IInv, Numbered, journal
<1>7. ASSUME NEW p \in Appliers, NEW i \in 1 .. Len(plans), NEW mode \in Modes,
             BeginByHand(p, i, mode)
      PROVE  Numbered'
  BY <1>6, <1>7 DEF BeginByHand
<1>8. ASSUME NEW p \in Appliers,
             \/ Lock(p) \/ StageTarget(p) \/ FillStaging(p) \/ PublishTarget(p)
             \/ SkipTarget(p) \/ EndApply(p) \/ Fail(p) \/ Die(p)
      PROVE  Numbered'
  BY <1>6, <1>8 DEF Lock, StageTarget, FillStaging, PublishTarget, SkipTarget, EndApply, Fail, Die
<1>9. ASSUME ForeignWrite \/ ClearStaging \/ UNCHANGED vars
      PROVE  Numbered'
  BY <1>6, <1>9 DEF ForeignWrite, ClearStaging, vars, journal
<1>10. QED
  BY <1>1, <1>2, <1>4, <1>5, <1>7, <1>8, <1>9 DEF Next, Step, Modes

\* A step leaves what is published alone, or one process publishes its next target.
LEMMA TargetSteps ==
  ASSUME IInv, [Next]_vars
  PROVE  target' = target \/ \E p \in Appliers : PublishTarget(p)
<1>1. ASSUME NEW p \in Appliers, Step(p)
      PROVE  target' = target \/ PublishTarget(p)
  BY <1>1 DEF Step, Reserve, BeginByHand, Lock, StageTarget, FillStaging, SkipTarget,
              EndApply, RecordSuccess, Fail, Die, disk
<1>2. CASE \E p \in Appliers : Step(p)
  BY <1>1, <1>2
<1>3. CASE BuildPlan \/ Recover \/ ForeignWrite \/ ClearStaging \/ UNCHANGED vars
  BY <1>3 DEF BuildPlan, Recover, ForeignWrite, ClearStaging, vars, disk
<1>4. QED
  BY <1>2, <1>3 DEF Next

\* A target is published once, after those before it and from the same plan.
LEMMA PublishedInOrder ==
  ASSUME IInv, NEW p \in Appliers, PublishTarget(p)
  PROVE  /\ proc[p].next \in Targets /\ proc[p].plan \in PlanIds
         /\ target' = [target EXCEPT ![proc[p].next] = proc[p].plan]
         /\ \A k \in Targets : k < proc[p].next => target[k] = proc[p].plan
         /\ \A k \in Targets : k >= proc[p].next => target[k] = 0
<1>1. proc[p].next \in Targets /\ proc[p].plan \in PlanIds
  BY DEF PublishTarget, IInv, ProcessOk
<1>2. \A k \in Targets : k < proc[p].next => target[k] = proc[p].plan
  BY DEF PublishTarget, IInv, ProgressOk, Inside
<1>3. target[proc[p].next] = 0
  BY DEF PublishTarget, Slot
<1>4. \A k \in Targets : k >= proc[p].next => target[k] = 0
  BY <1>1, <1>3 DEF IInv, PrefixOfOnePlan, Targets
<1>5. QED
  BY <1>1, <1>2, <1>4 DEF PublishTarget, Slot

LEMMA PrefixKept ==
  ASSUME IInv, [Next]_vars
  PROVE  PrefixOfOnePlan'
<1>1. CASE target' = target
  BY <1>1 DEF IInv, PrefixOfOnePlan
<1>2. ASSUME NEW p \in Appliers, PublishTarget(p)
      PROVE  PrefixOfOnePlan'
  <2>1. target \in [Targets -> 0 .. MaxPlans] /\ proc[p].next \in Int
    BY <1>2, PublishedInOrder DEF IInv, TypeOK, Targets
  <2>2. ASSUME NEW j \in Targets, NEW k \in Targets, j < k, target'[k] # 0
        PROVE  target'[j] = target'[k]
    <3> DEFINE n == proc[p].next
    <3>1. /\ n \in Targets
          /\ target' = [target EXCEPT ![n] = proc[p].plan]
          /\ \A m \in Targets : m < n => target[m] = proc[p].plan
          /\ \A m \in Targets : m >= n => target[m] = 0
      BY <1>2, PublishedInOrder
    <3> HIDE DEF n
    <3>2. k <= n
      BY <2>1, <2>2, <3>1 DEF Targets
    <3>3. QED
      BY <2>1, <2>2, <3>1, <3>2 DEF Targets
  <2>3. QED
    BY <2>2 DEF PrefixOfOnePlan
<1>3. QED
  BY <1>1, <1>2, TargetSteps

\* What is published stays.
LEMMA TargetsStay ==
  ASSUME IInv, [Next]_vars, NEW k \in Targets, target[k] # 0
  PROVE  target'[k] = target[k]
<1>1. ASSUME NEW p \in Appliers, PublishTarget(p)
      PROVE  target'[k] = target[k]
  <2> DEFINE n == proc[p].next
  <2>1. /\ n \in Targets
        /\ target' = [target EXCEPT ![n] = proc[p].plan]
        /\ \A m \in Targets : m >= n => target[m] = 0
    BY <1>1, PublishedInOrder
  <2> HIDE DEF n
  <2>2. n # k /\ target \in [Targets -> 0 .. MaxPlans]
    BY <2>1 DEF IInv, TypeOK, Targets
  <2>3. QED
    BY <2>1, <2>2
<1>2. QED
  BY <1>1, TargetSteps

\* A process keeps its plan while it applies; it changes only by its own steps.
LEMMA OthersStay ==
  ASSUME IInv, NEW p \in Appliers, Step(p), NEW q \in Appliers, q # p
  PROVE  proc'[q] = proc[q]
BY DEF Step, Reserve, BeginByHand, Lock, StageTarget, FillStaging, PublishTarget, SkipTarget,
       EndApply, RecordSuccess, Fail, Die, IInv, TypeOK

LEMMA OwnStep ==
  ASSUME IInv, [Next]_vars, NEW p \in Appliers, Step(p)
  PROVE  ProcessOk(p)' /\ ProgressOk(p)'
<1> USE BoundsAssumption
<1> DEFINE old == proc[p]
           new == proc'[p]
<1>0. /\ proc \in [Appliers -> Procs] /\ old \in Procs
      /\ ProcessOk(p) /\ ProgressOk(p)
      /\ target \in [Targets -> 0 .. MaxPlans]
  BY DEF IInv, TypeOK, Procs, Modes
<1>1. ASSUME new.pc \notin Inside, new.pc # "idle" => new.plan \in PlanIds,
             new.pc = "waiting" => new.next = 1
      PROVE  ProcessOk(p)' /\ ProgressOk(p)'
  BY <1>1 DEF ProcessOk, ProgressOk, Inside
<1>2. ASSUME NEW i \in 1 .. Len(plans),
             Reserve(p, i) \/ \E mode \in Modes : BeginByHand(p, i, mode)
      PROVE  ProcessOk(p)' /\ ProgressOk(p)'
  <2>1. i \in PlanIds
    BY DEF IInv, TypeOK, Numbered, PlanIds
  <2>2. new.pc = "waiting" /\ new.plan = i /\ new.next = 1
    BY <1>0, <1>2 DEF Reserve, BeginByHand
  <2>3. QED
    BY <1>1, <2>1, <2>2 DEF Inside
<1>3. ASSUME Fail(p) \/ Die(p) \/ RecordSuccess(p)
      PROVE  ProcessOk(p)' /\ ProgressOk(p)'
  BY <1>0, <1>1, <1>3 DEF Fail, Die, RecordSuccess, Idle, Inside
<1>4. ASSUME EndApply(p)
      PROVE  ProcessOk(p)' /\ ProgressOk(p)'
  <2>1. new.pc \in {"idle", "applied"} /\ (new.pc # "idle" => new.plan = old.plan)
    BY <1>0, <1>4 DEF EndApply, Idle, Procs
  <2>2. old.plan \in PlanIds
    BY <1>0, <1>4 DEF EndApply, ProcessOk
  <2>3. QED
    BY <1>1, <2>1, <2>2 DEF Inside
<1>5. ASSUME old.plan \in PlanIds, new.plan = old.plan, new.next = old.next,
             new.pc # "waiting",
             new.pc \in {"staging", "filled"} => old.next \in Targets,
             \A k \in Targets : k < old.next => target[k] = old.plan
      PROVE  ProcessOk(p)' /\ ProgressOk(p)'
  <2>1. ProcessOk(p)'
    BY <1>5 DEF ProcessOk
  <2>2. \A k \in Targets : k < new.next => target'[k] = new.plan
    BY <1>0, <1>5, TargetsStay DEF PlanIds
  <2>3. QED
    BY <2>1, <2>2 DEF ProgressOk
<1>6. ASSUME Lock(p)
      PROVE  ProcessOk(p)' /\ ProgressOk(p)'
  <2>1. CASE Admitted(p)
    <3>1. new.pc = "publishing" /\ new.plan = old.plan /\ new.next = old.next
      BY <1>0, <1>6, <2>1 DEF Lock, Procs
    <3>2. old.plan \in PlanIds /\ old.next = 1
      BY <1>0, <1>6 DEF Lock, ProcessOk
    <3>3. QED
      BY <1>5, <3>1, <3>2 DEF Targets
  <2>2. CASE ~ Admitted(p)
    BY <1>0, <1>1, <1>6, <2>2 DEF Lock, Idle, Inside
  <2>3. QED
    BY <2>1, <2>2
<1>7. ASSUME StageTarget(p)
      PROVE  ProcessOk(p)' /\ ProgressOk(p)'
  <2>1. new.plan = old.plan /\ new.next = old.next /\ old.next \in Targets
    BY <1>0, <1>7 DEF StageTarget, Procs, Targets
  <2>2. QED
    BY <1>0, <1>5, <1>7, <2>1 DEF StageTarget, ProcessOk, ProgressOk, Inside
<1>8. ASSUME FillStaging(p)
      PROVE  ProcessOk(p)' /\ ProgressOk(p)'
  <2>1. new.plan = old.plan /\ new.next = old.next
    BY <1>0, <1>8 DEF FillStaging, Procs
  <2>2. QED
    BY <1>0, <1>5, <1>8, <2>1 DEF FillStaging, ProcessOk, ProgressOk, Inside
<1>9. ASSUME PublishTarget(p)
      PROVE  ProcessOk(p)' /\ ProgressOk(p)'
  <2>1. new.pc = "publishing" /\ new.plan = old.plan /\ new.next = old.next + 1
    BY <1>0, <1>9 DEF PublishTarget, Procs
  <2>2. /\ old.next \in Targets /\ old.plan \in PlanIds
        /\ target' = [target EXCEPT ![old.next] = old.plan]
        /\ \A k \in Targets : k < old.next => target[k] = old.plan
    BY <1>9, PublishedInOrder
  <2> HIDE DEF old, new
  <2>3. \A k \in Targets : k < new.next => target'[k] = new.plan
    BY <1>0, <2>1, <2>2 DEF Targets
  <2> USE DEF old, new
  <2>4. QED
    BY <2>1, <2>2, <2>3 DEF ProcessOk, ProgressOk
<1>10. ASSUME SkipTarget(p)
       PROVE  ProcessOk(p)' /\ ProgressOk(p)'
  <2>1. new.pc = "publishing" /\ new.plan = old.plan /\ new.next = old.next + 1
    BY <1>0, <1>10 DEF SkipTarget, Procs
  <2>2. old.plan \in PlanIds /\ target[old.next] = old.plan /\ target' = target
    BY <1>0, <1>10 DEF SkipTarget, ProcessOk, Slot, disk
  <2>3. \A k \in Targets : k < old.next => target[k] = old.plan
    BY <1>0, <1>10 DEF SkipTarget, ProgressOk, Inside
  <2>4. old.next \in Int
    BY <1>0 DEF Procs
  <2>5. \A k \in Targets : k < new.next => target'[k] = new.plan
    BY <2>1, <2>2, <2>3, <2>4 DEF Targets
  <2>6. QED
    BY <2>1, <2>2, <2>5 DEF ProcessOk, ProgressOk
<1>11. QED
  BY <1>2, <1>3, <1>4, <1>6, <1>7, <1>8, <1>9, <1>10 DEF Step, Modes

LEMMA ProcessesKept ==
  ASSUME IInv, [Next]_vars
  PROVE  \A q \in Appliers : ProcessOk(q)' /\ ProgressOk(q)'
<1> SUFFICES ASSUME NEW q \in Appliers
             PROVE  ProcessOk(q)' /\ ProgressOk(q)'
  OBVIOUS
<1>1. ASSUME proc'[q] = proc[q]
      PROVE  ProcessOk(q)' /\ ProgressOk(q)'
  <2>1. ProcessOk(q) /\ ProgressOk(q)
    BY DEF IInv
  <2>2. ASSUME NEW k \in Targets, target[k] \in PlanIds
        PROVE  target'[k] = target[k]
    BY <2>2, TargetsStay DEF PlanIds
  <2>3. QED
    BY <1>1, <2>1, <2>2 DEF ProcessOk, ProgressOk, Inside
<1>2. CASE \E p \in Appliers : Step(p)
  BY <1>1, <1>2, OwnStep, OthersStay
<1>3. CASE BuildPlan \/ Recover \/ ForeignWrite \/ ClearStaging \/ UNCHANGED vars
  BY <1>1, <1>3 DEF BuildPlan, Recover, ForeignWrite, ClearStaging, vars
<1>4. QED
  BY <1>2, <1>3 DEF Next

\* The inductive invariant.
THEOREM Invariant == Spec => []IInv
<1>1. ASSUME IInv, [Next]_vars
      PROVE  IInv'
  BY <1>1, TypeKept, NumberedKept, ProcessesKept, PrefixKept DEF IInv
<1>2. QED
  BY InitHolds, <1>1, PTL DEF Spec

\* Type correctness, and that the publication lock is held by exactly the process
\* that publishes.
THEOREM TypeCorrect == Spec => []TypeOK
<1>1. IInv => TypeOK
  BY DEF IInv
<1>2. QED
  BY Invariant, <1>1, PTL

\* What apply_approved_plan leaves on disk, whole or partial, is a prefix of one
\* plan's targets in their order.
THEOREM PartialIsPrefix == Spec => []PrefixOfOnePlan
<1>1. IInv => PrefixOfOnePlan
  BY DEF IInv
<1>2. QED
  BY Invariant, <1>1, PTL

-----------------------------------------------------------------------------
(* What the journal says of the stage, and what a reader sees of it.       *)

LEMMA MarkerMeansWhole ==
  ASSUME IInv, target[NTargets] # 0
  PROVE  StageCompleted
BY BoundsAssumption DEF IInv, PrefixOfOnePlan, StageCompleted, Targets

LEMMA WholeStays ==
  ASSUME IInv, [Next]_vars, StageCompleted
  PROVE  StageCompleted' /\ target' = target
<1>1. NTargets \in Targets /\ \A k \in Targets : target[k] # 0
  BY BoundsAssumption DEF StageCompleted, Targets
<1>2. \A k \in Targets : target'[k] = target[k]
  BY <1>1, TargetsStay
<1>3. target \in [Targets -> 0 .. MaxPlans] /\ target' \in [Targets -> 0 .. MaxPlans]
  BY TypeKept DEF IInv, TypeOK
<1>4. QED
  BY <1>1, <1>2, <1>3 DEF StageCompleted

\* Success is recorded, by the capability or by recovery, only of a whole stage,
\* and a whole stage stays whole.
THEOREM SuccessIsWhole == Spec => []SucceededIsWhole
<1>1. Init => SucceededIsWhole
  BY DEF Init, SucceededIsWhole
<1>2. ASSUME IInv, SucceededIsWhole, [Next]_vars
      PROVE  SucceededIsWhole'
  <2>1. CASE StageCompleted
    BY <1>2, <2>1, WholeStays DEF SucceededIsWhole
  <2>2. ASSUME ~ StageCompleted, NEW a \in DOMAIN outcome', outcome'[a] \in Success
        PROVE  a \in DOMAIN outcome /\ outcome[a] = outcome'[a]
    <3>1. outcome \in Seq(Outcomes)
      BY <1>2 DEF IInv, Numbered
    <3>2. CASE outcome' = outcome
      BY <2>2, <3>2
    <3>3. CASE outcome' = Append(outcome, "open")
      BY <2>2, <3>1, <3>3 DEF Success
    <3>4. CASE Recover
      BY <2>2, <3>1, <3>4 DEF Recover, Recovered, Terminal, Success
    <3>5. outcome' = outcome \/ outcome' = Append(outcome, "open") \/ Recover
      BY <1>2, <2>2 DEF Next, Step, BuildPlan, ForeignWrite, ClearStaging, Reserve, BeginByHand,
         Lock, StageTarget, FillStaging, PublishTarget, SkipTarget, EndApply, RecordSuccess,
         Fail, Die, journal, vars
    <3>6. QED
      BY <3>2, <3>3, <3>4, <3>5
  <2>3. QED
    BY <1>2, <2>1, <2>2 DEF SucceededIsWhole
<1>3. QED
  BY Invariant, <1>1, <1>2, PTL DEF Spec

\* To a reader that waits for the marker, publication target by target is one
\* atomic publication: the refinement of AtomicDataset.
THEOREM PublicationIsAtomic == Spec => ImplementsAtomicDataset
<1>1. Init => Reader!Init
  BY BoundsAssumption DEF Init, Reader!Init, Visible, NoTargets, Targets
<1>2. ASSUME IInv, [Next]_vars
      PROVE  [Reader!Publish]_Visible
  <2>1. NTargets \in Targets
    BY BoundsAssumption DEF Targets
  <2>2. CASE target[NTargets] # 0
    <3>1. target' = target
      BY <1>2, <2>2, MarkerMeansWhole, WholeStays
    <3>2. QED
      BY <3>1 DEF Visible
  <2>3. CASE target'[NTargets] = 0 /\ target[NTargets] = 0
    BY <2>3 DEF Visible
  <2>4. ASSUME target[NTargets] = 0, target'[NTargets] # 0
        PROVE  Reader!Publish
    <3>1. PICK p \in Appliers : PublishTarget(p)
      BY <1>2, <2>4, TargetSteps
    <3> DEFINE n == proc[p].next
               plan == proc[p].plan
    <3>2. /\ n \in Targets /\ plan \in PlanIds
          /\ target' = [target EXCEPT ![n] = plan]
          /\ \A k \in Targets : k < n => target[k] = plan
      BY <1>2, <3>1, PublishedInOrder
    <3>3. target \in [Targets -> 0 .. MaxPlans]
      BY <1>2 DEF IInv, TypeOK
    <3> HIDE DEF n, plan
    <3>4. n = NTargets
      BY <2>1, <2>4, <3>2, <3>3
    <3>5. \A k \in Targets : target'[k] = plan
      BY <3>2, <3>3, <3>4, BoundsAssumption DEF Targets
    <3>6. target' = [k \in Targets |-> plan]
      BY <3>2, <3>3, <3>5
    <3>7. Visible = NoTargets /\ Visible' = target'
      BY <2>4 DEF Visible
    <3>8. QED
      BY <3>2, <3>6, <3>7 DEF Reader!Publish
  <2>5. QED
    BY <2>2, <2>3, <2>4
<1>3. QED
  BY Invariant, <1>1, <1>2, PTL DEF Spec, ImplementsAtomicDataset, Reader!Spec

-----------------------------------------------------------------------------
(* Recovery that waits for the process it recovers.                        *)

\* An attempt that wrote left something on disk, and only an unresolved attempt,
\* or one closed as anything but "not completed", still has a process.
AttemptsOk ==
  /\ \A a \in wrote : a \in DOMAIN outcome
  /\ wrote # {} => target # NoTargets
  /\ \A p \in Appliers : proc[p].attempt \in 0 .. Len(outcome)
  /\ \A a \in DOMAIN outcome : outcome[a] = "recovered_not_completed" =>
       a \notin wrote /\ \A p \in Appliers : proc[p].attempt # a

\* Only Reserve gives a process an attempt.
LEMMA AttemptsOfProcesses ==
  ASSUME IInv, [Next]_vars
  PROVE  \/ \A q \in Appliers : proc'[q].attempt \in {0, proc[q].attempt}
         \/ \E p \in Appliers, i \in 1 .. Len(plans) : Reserve(p, i)
<1>0. proc \in [Appliers -> Procs]
  BY DEF IInv, TypeOK, Procs, Modes
<1>1. ASSUME NEW p \in Appliers, Step(p), ~ \E i \in 1 .. Len(plans) : Reserve(p, i)
      PROVE  proc'[p].attempt \in {0, proc[p].attempt}
  BY <1>0, <1>1 DEF Step, BeginByHand, Lock, StageTarget, FillStaging, PublishTarget, SkipTarget,
     EndApply, RecordSuccess, Fail, Die, Idle, Procs
<1>2. CASE \E p \in Appliers : Step(p)
  BY <1>1, <1>2, OthersStay
<1>3. CASE BuildPlan \/ Recover \/ ForeignWrite \/ ClearStaging \/ UNCHANGED vars
  BY <1>3 DEF BuildPlan, Recover, ForeignWrite, ClearStaging, vars
<1>4. QED
  BY <1>2, <1>3 DEF Next

\* Publishing is all that adds to wrote; closing, all that changes an outcome.
LEMMA OutcomeSteps ==
  ASSUME IInv, [Next]_vars
  PROVE  \/ outcome' = outcome /\ wrote' = wrote
         \/ outcome' = outcome /\ \E p \in Appliers : PublishTarget(p)
         \/ wrote' = wrote /\ \E p \in Appliers, i \in 1 .. Len(plans) : Reserve(p, i)
         \/ wrote' = wrote /\ \E p \in Appliers : RecordSuccess(p)
         \/ wrote' = wrote /\ Recover
BY DEF Next, Step, BuildPlan, ForeignWrite, ClearStaging, Reserve, BeginByHand, Lock, StageTarget,
       FillStaging, PublishTarget, SkipTarget, EndApply, RecordSuccess, Recover, Fail, Die,
       journal, vars

LEMMA AttemptsKept ==
  ASSUME RecoverLive = FALSE, IInv, AttemptsOk, [Next]_vars
  PROVE  AttemptsOk'
<1>0. /\ outcome \in Seq(Outcomes) /\ Len(outcome) \in Nat
      /\ DOMAIN outcome = 1 .. Len(outcome)
      /\ proc \in [Appliers -> Procs]
      /\ pending.attempt \in 0 .. MaxAttempts
  BY DEF IInv, TypeOK, Numbered, Procs, Modes
<1>1. target # NoTargets => target' # NoTargets
  <2>1. target \in [Targets -> 0 .. MaxPlans] /\ target' \in [Targets -> 0 .. MaxPlans]
    BY TypeKept DEF IInv, TypeOK
  <2>2. QED
    BY <2>1, TargetsStay DEF NoTargets
<1>2. CASE \E p \in Appliers, i \in 1 .. Len(plans) : Reserve(p, i)
  <2>1. PICK p \in Appliers, i \in 1 .. Len(plans) : Reserve(p, i)
    BY <1>2
  <2>2. /\ outcome' = Append(outcome, "open") /\ wrote' = wrote
        /\ Len(outcome') = Len(outcome) + 1
    BY <1>0, <2>1 DEF Reserve
  <2>3. /\ proc'[p].attempt = Len(outcome) + 1
        /\ \A q \in Appliers : q # p => proc'[q] = proc[q]
    BY <1>0, <2>1 DEF Reserve, Attempted
  <2>4. \A a \in DOMAIN outcome : outcome'[a] = outcome[a]
    BY <1>0, <2>2
  <2>5. DOMAIN outcome' = 1 .. Len(outcome) + 1 /\ outcome'[Len(outcome) + 1] = "open"
    BY <1>0, <2>2
  <2>6. \A q \in Appliers : proc'[q].attempt \in 0 .. Len(outcome')
    BY <1>0, <2>2, <2>3 DEF AttemptsOk
  <2>7. QED
    BY <1>0, <1>1, <2>2, <2>3, <2>4, <2>5, <2>6 DEF AttemptsOk
<1>3. ASSUME \A q \in Appliers : proc'[q].attempt \in {0, proc[q].attempt}
      PROVE  AttemptsOk'
  <2>1. CASE outcome' = outcome /\ wrote' = wrote
    BY <1>0, <1>1, <1>3, <2>1 DEF AttemptsOk
  <2>2. ASSUME outcome' = outcome, NEW p \in Appliers, PublishTarget(p)
        PROVE  AttemptsOk'
    <3>1. wrote' \subseteq wrote \cup ({proc[p].attempt} \ {0})
      BY <2>2 DEF PublishTarget
    <3>2. target' # NoTargets
      <4>1. /\ proc[p].next \in Targets /\ proc[p].plan \in PlanIds
            /\ target' = [target EXCEPT ![proc[p].next] = proc[p].plan]
        BY <2>2, PublishedInOrder
      <4>2. target \in [Targets -> 0 .. MaxPlans]
        BY DEF IInv, TypeOK
      <4>3. QED
        BY <4>1, <4>2 DEF NoTargets, PlanIds
    <3>3. QED
      BY <1>0, <1>3, <2>2, <3>1, <3>2 DEF AttemptsOk
  <2>3. ASSUME NEW kind \in Outcomes, Terminal(kind), wrote' = wrote,
               kind = "recovered_not_completed" =>
                 /\ target = NoTargets
                 /\ \A q \in Appliers : proc[q].attempt # pending.attempt
        PROVE  AttemptsOk'
    <3>1. DOMAIN outcome' = DOMAIN outcome /\ Len(outcome') = Len(outcome)
      BY <1>0, <2>3, TerminalTyped DEF Terminal
    <3>2. \A a \in DOMAIN outcome :
             outcome'[a] = IF a = pending.attempt THEN kind ELSE outcome[a]
      BY <1>0, <2>3 DEF Terminal
    <3>3. ASSUME NEW a \in DOMAIN outcome, outcome'[a] = "recovered_not_completed"
          PROVE  a \notin wrote /\ \A q \in Appliers : proc[q].attempt # a
      BY <2>3, <3>2, <3>3 DEF AttemptsOk
    <3>4. \A q \in Appliers : proc'[q].attempt \in 0 .. Len(outcome')
      BY <1>0, <1>3, <3>1 DEF AttemptsOk
    <3>5. \A a \in DOMAIN outcome : a # 0
      BY <1>0
    <3>6. QED
      BY <1>1, <1>3, <2>3, <3>1, <3>3, <3>4, <3>5 DEF AttemptsOk
  <2>4. ASSUME NEW p \in Appliers, RecordSuccess(p), wrote' = wrote
        PROVE  AttemptsOk'
    BY <2>3, <2>4 DEF RecordSuccess, Outcomes, Success
  <2>5. ASSUME Recover, wrote' = wrote
        PROVE  AttemptsOk'
    <3>1. Recovered = "recovered_not_completed" => target = NoTargets
      BY DEF Recovered
    <3>2. Recovered \in Outcomes
      BY DEF Recovered, Outcomes, Success
    <3>3. \A q \in Appliers : proc[q].attempt # pending.attempt
      BY <2>5 DEF Recover
    <3>4. QED
      BY <2>3, <2>5, <3>1, <3>2, <3>3 DEF Recover
  <2>6. CASE \E p \in Appliers, i \in 1 .. Len(plans) : Reserve(p, i)
    BY <1>2, <2>6
  <2>7. QED
    BY <2>1, <2>2, <2>4, <2>5, <2>6, OutcomeSteps
<1>4. QED
  BY <1>2, <1>3, AttemptsOfProcesses

\* If recovery is asked for only once the reserving process has ended, an attempt
\* closed as not completed has written nothing and never will.
THEOREM NotCompletedIsFinal ==
  ASSUME RecoverLive = FALSE
  PROVE  Spec => []NotCompletedWroteNothing
<1>1. Init => AttemptsOk
  BY DEF Init, AttemptsOk, Idle
<1>2. IInv /\ AttemptsOk /\ [Next]_vars => AttemptsOk'
  BY AttemptsKept
<1>3. AttemptsOk => NotCompletedWroteNothing
  BY DEF AttemptsOk, NotCompletedWroteNothing
<1>4. QED
  BY Invariant, <1>1, <1>2, <1>3, PTL DEF Spec
=============================================================================
