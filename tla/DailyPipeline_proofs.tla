------------------------ MODULE DailyPipeline_proofs ------------------------
(***************************************************************************)
(* Proofs about the pipeline of one session: its daily chain, for any      *)
(* number of attempts and of changes from outside, and the bounded cadence *)
(* that wakes it, for any runners, limits and policies.                    *)
(***************************************************************************)
EXTENDS DailyChain, Cadence, WellFoundedInduction, TLAPS

-----------------------------------------------------------------------------
(* The daily chain: its inductive invariant.                               *)

Artifacts == [state : {"absent", "partial", "complete"}, by : Runs, from : [Stages -> Runs]]
RunnerStates == [phase : {"idle", "writing", "filling", "sector", "written"},
                 from : [Stages -> Runs]]
BuilderStates == [phase : {"idle", "writing", "filling"}, from : [Stages -> Runs],
                  attempt : Runs]

Exists(s) == artifact[s].state # "absent"
Running == runner.phase # "idle"

\* A record of sources that names nothing which the writer of s does not read.
Of(s, from) == \A r \in Stages \ Reads(s) : from[r] = 0

Typed ==
  /\ artifact \in [Stages -> Artifacts]
  /\ \A s \in Stages : Of(s, artifact[s].from)
  /\ active \in [Pointers -> Runs]
  /\ runner \in RunnerStates /\ builder \in BuilderStates
  /\ event \in [outcome : {"none", "succeeded", "failed", "recovered_succeeded",
                           "recovered_not_completed", "recovery_blocked"},
                stage : StageNames, attempt : Runs]
  /\ attempts \in Runs /\ changes \in 0 .. MaxChanges /\ disturbed \in BOOLEAN

\* What the planner saw of stage r when the open action was begun.
Seen(r) == pending.plan.seen[Position(r)]

\* As long as an action is open nobody makes its sources again: each is what the planner
\* saw or is removed.  A bundle may be an orphan's, which saw something else.
PendingOk ==
  pending # NoAction =>
    /\ pending.stage \in Offline /\ pending.attempt \in Runs
    /\ pending.plan.decision = [status |-> "ready", action |-> pending.stage]
    /\ \A r \in Reads(pending.stage) :
         /\ Exists(r) => artifact[r].by = Seen(r)
         /\ Running => runner.from[r] = Seen(r)
         /\ Exists(pending.stage) /\ pending.stage # "serving_bundle" =>
              artifact[pending.stage].from[r] = Seen(r)

\* How far the action in progress has come with its artifact.
RunnerOk ==
  /\ Running => pending # NoAction /\ Of(pending.stage, runner.from)
  /\ runner.phase = "filling" =>
       /\ pending.stage \notin Renamed
       /\ artifact[pending.stage].state = "partial"
       /\ artifact[pending.stage].by = pending.attempt
  /\ runner.phase = "sector" => pending.stage = "phase1a"
  /\ runner.phase \in {"sector", "written"} =>
       artifact[pending.stage] = [state |-> "complete", by |-> pending.attempt,
                                  from |-> runner.from]

\* An orphaned build and a bundle action are not both in the staging directory.
BuilderOk ==
  /\ Of("serving_bundle", builder.from)
  /\ builder.phase = "idle" => builder = NoBuilder
  /\ builder.phase = "filling" =>
       /\ artifact["serving_bundle"].state = "partial"
       /\ pending.stage = "serving_bundle" => runner.phase \in {"idle", "writing"}

\* The link the planner does not compare: Phase 1b is not made again under a Candidate.
CandidateOk ==
  /\ Exists("candidate") /\ Exists("phase1b") =>
       artifact["candidate"].from["phase1b"] = artifact["phase1b"].by
  /\ Running /\ pending.stage = "phase1b" => ~ Exists("candidate")

\* As long as nothing went wrong the artifacts are a prefix of the order, each made
\* from the ones before, and only the action in progress has left one unfinished.
PrefixOk ==
  /\ builder = NoBuilder
  /\ ~ Running => pending = NoAction
  /\ Running => runner.from = Sources(pending.stage)
  /\ \A s \in Stages :
       /\ artifact[s].state = "complete" => artifact[s].from = Sources(s)
       /\ artifact[s].state = "partial" => runner.phase = "filling" /\ s = pending.stage
       /\ Exists(s) => \A r \in Stages : Position(r) < Position(s) => artifact[r].state = "complete"
       /\ runner.phase = "writing" /\ Position(s) < Position(pending.stage) =>
            artifact[s].state = "complete"
  /\ runner.phase = "writing" => ~ Exists(pending.stage)
  /\ artifact["phase1a"].state = "complete" /\ runner.phase # "sector" =>
       artifact["sector_rotation"].state = "complete"

IInv ==
  /\ Typed /\ PendingOk /\ RunnerOk /\ BuilderOk /\ CandidateOk
  /\ ~ disturbed => PrefixOk

-----------------------------------------------------------------------------
(* The order of the stages.                                                *)

StageSet == {"identity", "eod", "phase1a", "sector_rotation", "phase1b", "candidate",
             "entry_geometry", "phase2", "preview", "strategy_channels", "visual_context",
             "publication_plan", "snapshot_plan", "serving_bundle"}
Place == [identity |-> 1, eod |-> 2, phase1a |-> 3, sector_rotation |-> 4, phase1b |-> 5,
          candidate |-> 6, entry_geometry |-> 7, phase2 |-> 8, preview |-> 9,
          strategy_channels |-> 10, visual_context |-> 11, publication_plan |-> 12,
          market_intelligence_active |-> 13, snapshot_plan |-> 14,
          dashboard_snapshot_active |-> 15, serving_bundle |-> 16]

LEMMA OrderIs ==
  /\ Len(Order) = 16 /\ DOMAIN Order = 1 .. 16
  /\ \A k \in 1 .. 16 : Place[Order[k]] = k
  /\ Pointers = {"market_intelligence_active", "dashboard_snapshot_active"}
<1>1. Len(Order) = 16 /\ DOMAIN Order = 1 .. 16
  BY DEF Order
<1>2. ASSUME NEW k \in 1 .. 16 PROVE Place[Order[k]] = k
  <2>1. \/ k = 1 \/ k = 2 \/ k = 3 \/ k = 4 \/ k = 5 \/ k = 6 \/ k = 7 \/ k = 8
        \/ k = 9 \/ k = 10 \/ k = 11 \/ k = 12 \/ k = 13 \/ k = 14 \/ k = 15 \/ k = 16
    OBVIOUS
  <2>2. QED
    BY <2>1 DEF Order, Place
<1>3. Pointers = {"market_intelligence_active", "dashboard_snapshot_active"}
  BY DEF Pointers, PlanOf
<1>4. QED
  BY <1>1, <1>2, <1>3

LEMMA StagesAre ==
  /\ Stages = StageSet
  /\ \A s \in Stages : Place[s] \in 1 .. 16 /\ Order[Place[s]] = s /\ s \notin Pointers
<1>1. \A s \in StageSet : Place[s] \in 1 .. 16 /\ Order[Place[s]] = s /\ s \notin Pointers
  BY OrderIs DEF StageSet, Place, Order
<1>2. StageSet \subseteq Stages
  BY <1>1, OrderIs DEF Stages
<1>3. ASSUME NEW k \in 1 .. 16, Order[k] \notin Pointers PROVE Order[k] \in StageSet
  <2>1. \/ k = 1 \/ k = 2 \/ k = 3 \/ k = 4 \/ k = 5 \/ k = 6 \/ k = 7 \/ k = 8
        \/ k = 9 \/ k = 10 \/ k = 11 \/ k = 12 \/ k = 13 \/ k = 14 \/ k = 15 \/ k = 16
    OBVIOUS
  <2>2. QED
    BY <1>3, <2>1, OrderIs DEF Order, StageSet
<1>4. Stages \subseteq StageSet
  BY <1>3, OrderIs DEF Stages
<1>5. QED
  BY <1>1, <1>2, <1>4

\* Every place of the order has its own stage or pointer.
LEMMA PositionIs ==
  /\ \A k \in 1 .. 16 : Position(Order[k]) = k
  /\ \A s \in Stages : Position(s) \in 1 .. 16 /\ Order[Position(s)] = s
<1>1. ASSUME NEW k \in 1 .. 16 PROVE Position(Order[k]) = k
  <2>1. \A j \in 1 .. 16 : Order[j] = Order[k] => j = k
    BY OrderIs
  <2>2. QED
    BY <2>1, OrderIs DEF Position
<1>2. QED
  BY <1>1, StagesAre

\* What a writer reads comes before what it writes.
LEMMA ReadsBefore ==
  \A s \in Stages : \A r \in Reads(s) : r \in Stages /\ Position(r) < Position(s)
<1>1. \A s \in Stages : Position(s) = Place[s]
  BY PositionIs, StagesAre, OrderIs
<1>2. ASSUME NEW s \in Stages, NEW r \in Reads(s) PROVE r \in StageSet /\ Place[r] < Place[s]
  BY StagesAre DEF Reads, StageSet, Place
<1>3. QED
  BY <1>1, <1>2, StagesAre

-----------------------------------------------------------------------------
(* Where the planner stops.                                                *)

LEMMA LeastNumber ==
  ASSUME NEW T, T \subseteq Nat, T # {}
  PROVE  \E m \in T : \A k \in T : m <= k
<1> DEFINE R == OpToRel(<, Nat)
<1>1. IsWellFoundedOn(R, Nat)
  BY NatLessThanWellFounded
<1>2. \A x, y \in Nat : x < y => <<x, y>> \in R
  BY DEF OpToRel
<1> HIDE DEF R
<1>3. PICK m \in T : \A k \in T : ~ (<<k, m>> \in R)
  BY <1>1, WFMin
<1>4. ASSUME NEW k \in T PROVE m <= k
  <2>1. m \in Nat /\ k \in Nat
    OBVIOUS
  <2>2. ~ (k < m)
    BY <1>2, <1>3, <2>1
  <2>3. QED
    BY <2>1, <2>2
<1>5. QED
  BY <1>4

LEMMA StopIs ==
  /\ Stop \in 1 .. 17
  /\ Stop \in 1 .. 16 => ~ Passed(Order[Stop])
  /\ \A j \in 1 .. Stop - 1 : Passed(Order[j])
<1> DEFINE T == {k \in 1 .. 17 : k \in 1 .. 16 => ~ Passed(Order[k])}
<1>1. PICK m \in T : \A k \in T : m <= k
  <2>1. T \subseteq Nat /\ 17 \in T
    OBVIOUS
  <2> HIDE DEF T
  <2>2. QED
    BY <2>1, LeastNumber
<1>2. /\ m \in 1 .. 17 /\ (m \in 1 .. 16 => ~ Passed(Order[m]))
      /\ \A j \in 1 .. m - 1 : Passed(Order[j])
  BY <1>1
<1>3. QED
  BY <1>2, OrderIs DEF Stop

\* A stage before the stop is passed, one that is passed is complete, and one that is
\* missing is absent.
LEMMA Inspected ==
  ASSUME Typed, NEW s \in Stages
  PROVE  /\ Position(s) < Stop => Passed(s)
         /\ Observed(s) = "completed" => artifact[s].state = "complete"
         /\ Observed(s) = "missing" => ~ Exists(s)
<1>1. Position(s) < Stop => Passed(s)
  BY StopIs, PositionIs
<1>2. artifact[s].state \in {"absent", "partial", "complete"}
  BY DEF Typed, Artifacts
<1>3. QED
  BY <1>1, <1>2, StagesAre DEF Observed, Exists

\* What the planner names is missing, and as a rule nothing after it is there.
LEMMA Named ==
  ASSUME Typed, Plan.decision.status \in {"ready", "waiting"}
  PROVE  /\ Stop \in 1 .. 16 /\ NextAction = Order[Stop] /\ NextAction \in Stages
         /\ Position(NextAction) = Stop
         /\ Plan.decision = [status |-> Plan.decision.status, action |-> NextAction]
         /\ ~ Exists(NextAction)
         /\ IF Plan.decision.status = "waiting" THEN NextAction \in Canonical
                                                ELSE NextAction \in Offline
         /\ NextAction \in {"publication_plan", "snapshot_plan", "serving_bundle"}
              \/ ~ DownstreamExists(NextAction)
<1> DEFINE s == Order[Stop]
<1>1. Stop \in 1 .. 16
  BY OrderIs, StopIs DEF Plan
<1>2. Plan.decision = Decision(s) /\ NextAction = Decision(s).action
  BY <1>1, OrderIs DEF Plan, NextAction
<1>3. s \in Stages \/ s \in Pointers
  BY <1>1, OrderIs DEF Stages
<1> HIDE DEF s
<1>4. s \notin Pointers /\ Observed(s) = "missing" /\ s # "sector_rotation"
  BY <1>2 DEF Decision, Blocked
<1>5. /\ NextAction = s
      /\ Plan.decision = [status |-> Plan.decision.status, action |-> s]
      /\ Plan.decision.status = IF s \in Canonical THEN "waiting" ELSE "ready"
      /\ s \in {"publication_plan", "snapshot_plan", "serving_bundle"} \/ ~ DownstreamExists(s)
  BY <1>2, <1>4 DEF Decision, Blocked, Canonical
<1>6. s \in Stages /\ Position(s) = Stop /\ ~ Exists(s)
  BY <1>1, <1>3, <1>4, Inspected, PositionIs DEF s
<1>7. QED
  BY <1>1, <1>4, <1>5, <1>6 DEF Offline, s

\* A plan covers each stage before the one it names as it is.
LEMMA Covered ==
  ASSUME Typed, NEW s \in Stages, Position(s) < Stop
  PROVE  Plan.seen[Position(s)] = artifact[s].by
<1>1. Position(s) \in 1 .. Stop - 1 /\ Order[Position(s)] = s
  BY PositionIs, StopIs
<1>2. QED
  BY <1>1 DEF Plan

-----------------------------------------------------------------------------
(* What the steps write.                                                   *)

LEMMA Constants ==
  /\ 0 \in Runs /\ 1 \in Runs /\ Runs \subseteq Nat
  /\ NoSources \in [Stages -> Runs] /\ Absent \in Artifacts
  /\ NoRunner \in RunnerStates /\ NoBuilder \in BuilderStates
  /\ NoRunner.phase = "idle" /\ NoBuilder.phase = "idle" /\ NoAction.stage = "none"
  /\ \A s \in Stages : Of(s, NoSources)
<1>1. 0 \in Runs /\ 1 \in Runs /\ Runs \subseteq Nat
  BY BoundsAssumption DEF Runs
<1>2. NoSources \in [Stages -> Runs] /\ \A s \in Stages : Of(s, NoSources)
  BY <1>1 DEF NoSources, Of
<1>3. QED
  BY <1>1, <1>2 DEF Absent, Artifacts, NoRunner, RunnerStates, NoBuilder, BuilderStates, NoAction

LEMMA SourcesTyped ==
  ASSUME Typed, NEW s \in Stages
  PROVE  /\ Sources(s) \in [Stages -> Runs] /\ Of(s, Sources(s))
         /\ \A r \in Reads(s) : Sources(s)[r] = artifact[r].by
<1>1. \A r \in Stages : artifact[r].by \in Runs
  BY DEF Typed, Artifacts
<1>2. QED
  BY <1>1, Constants, ReadsBefore DEF Sources, Of

\* Two records of the sources of one stage are equal if they agree on what it reads.
LEMMA SameSources ==
  ASSUME NEW s \in Stages, NEW f \in [Stages -> Runs], NEW g \in [Stages -> Runs],
         Of(s, f), Of(s, g), \A r \in Reads(s) : f[r] = g[r]
  PROVE  f = g
<1>1. \A r \in Stages : f[r] = g[r]
  BY DEF Of
<1>2. QED
  BY <1>1

LEMMA Removes ==
  ASSUME Typed, NEW s \in Stages, artifact' = [artifact EXCEPT ![s] = Absent]
  PROVE  /\ artifact' \in [Stages -> Artifacts]
         /\ \A t \in Stages : Of(t, artifact'[t].from)
         /\ artifact'[s] = Absent /\ artifact'[s].state = "absent"
         /\ \A t \in Stages \ {s} : artifact'[t] = artifact[t]
<1>1. /\ artifact' \in [Stages -> Artifacts] /\ artifact'[s] = Absent
      /\ \A t \in Stages \ {s} : artifact'[t] = artifact[t]
  BY Constants DEF Typed
<1>2. Absent.state = "absent" /\ Absent.from = NoSources
  BY DEF Absent
<1>3. QED
  BY <1>1, <1>2, Constants DEF Typed

-----------------------------------------------------------------------------
(* The actions of the executor.                                            *)

LEMMA StagesOfActions ==
  /\ Offline \subseteq Stages \cap StageNames /\ Canonical \subseteq Stages
  /\ {"phase1a", "sector_rotation", "phase1b", "candidate", "serving_bundle"} \subseteq Stages
  /\ "none" \in StageNames /\ "none" \notin Stages
  /\ "phase1b" \in Reads("candidate") /\ Reads("sector_rotation") = {"phase1a"}
  /\ \A s \in Stages : "serving_bundle" \notin Reads(s)
  /\ Renamed \subseteq Stages /\ "serving_bundle" \notin Renamed /\ "phase1a" \notin Renamed
  /\ Position("candidate") > Position("phase1b")
  /\ Position("sector_rotation") = Position("phase1a") + 1
  /\ "sector_rotation" \notin Offline
<1>1. \A s \in Stages : Position(s) = Place[s]
  BY PositionIs, StagesAre, OrderIs
<1>2. "serving_bundle" \in Stages /\ \A s \in Stages : Position(s) <= Position("serving_bundle")
  BY <1>1, StagesAre DEF StageSet, Place
<1>3. \A s \in Stages : "serving_bundle" \notin Reads(s)
  BY <1>2, ReadsBefore, PositionIs
<1>4. "phase1b" \in Reads("candidate") /\ Reads("sector_rotation") = {"phase1a"}
  BY DEF Reads
<1>5. QED
  BY <1>1, <1>3, <1>4, StagesAre DEF Offline, Canonical, StageNames, StageSet, Renamed, Place

LEMMA BeginKeeps == IInv /\ Begin => IInv'
<1> SUFFICES ASSUME IInv, Begin PROVE IInv'
  OBVIOUS
<1> DEFINE s == NextAction
<1>1. /\ pending = NoAction /\ attempts < MaxAttempts /\ Plan.decision.status = "ready"
      /\ attempts' = attempts + 1
      /\ pending' = [stage |-> s, plan |-> Plan, attempt |-> attempts + 1]
      /\ runner' = [phase |-> "writing", from |-> Sources(s)]
      /\ UNCHANGED <<artifact, active, builder, event, changes, disturbed>>
  BY DEF Begin
<1>2. /\ s \in Offline /\ s \in Stages /\ Position(s) = Stop /\ ~ Exists(s)
      /\ Plan.decision = [status |-> "ready", action |-> s]
      /\ s = "phase1b" => ~ DownstreamExists(s)
  BY <1>1, Named, StagesOfActions DEF IInv
<1>3. ~ Running
  BY <1>1 DEF IInv, RunnerOk
<1>4. \A t \in Stages : Position(t) < Position(s) => artifact[t].state = "complete"
  BY <1>2, Inspected DEF IInv, Passed
<1>5. Sources(s) \in [Stages -> Runs] /\ Of(s, Sources(s))
      /\ \A r \in Reads(s) : Sources(s)[r] = artifact[r].by /\ Plan.seen[Position(r)] = artifact[r].by
  BY <1>2, SourcesTyped, ReadsBefore, Covered DEF IInv
<1>6. /\ pending' # NoAction /\ pending'.stage = s /\ pending'.plan = Plan
      /\ pending'.attempt = attempts + 1
      /\ runner'.phase = "writing" /\ runner'.from = Sources(s)
  BY <1>1, <1>2, StagesOfActions, Constants
<1>7. attempts + 1 \in Runs
  BY <1>1, BoundsAssumption DEF IInv, Typed, Runs
<1> HIDE DEF s
<1>8. Typed'
  <2>1. runner' \in RunnerStates
    BY <1>1, <1>5 DEF RunnerStates
  <2>2. QED
    BY <1>1, <1>7, <2>1 DEF IInv, Typed
<1>9. PendingOk'
  BY <1>1, <1>2, <1>5, <1>6, <1>7 DEF PendingOk, Seen, Exists, Running
<1>10. RunnerOk'
  BY <1>1, <1>5, <1>6 DEF RunnerOk, Running
<1>11. BuilderOk'
  BY <1>1, <1>6 DEF IInv, BuilderOk
<1>12. CandidateOk'
  <2>1. s = "phase1b" => ~ Exists("candidate")
    BY <1>2, StagesOfActions, PositionIs, OrderIs DEF DownstreamExists, Exists
  <2>2. QED
    BY <1>1, <1>6, <2>1 DEF IInv, CandidateOk, Exists, Running
<1>13. ASSUME ~ disturbed PROVE PrefixOk'
  <2>1. \A t \in Stages : Sources(t)' = Sources(t)
    BY <1>1 DEF Sources
  <2>2. QED
    BY <1>1, <1>2, <1>3, <1>4, <1>6, <1>13, <2>1 DEF IInv, PrefixOk, Exists, Running
<1>14. QED
  BY <1>1, <1>8, <1>9, <1>10, <1>11, <1>12, <1>13 DEF IInv

\* As long as nothing went wrong, what reads an unfinished artifact is not there yet.
LEMMA SourcesKept ==
  ASSUME Typed, PrefixOk, NEW s \in Stages, artifact[s].state # "complete",
         \A t \in Stages \ {s} : artifact'[t] = artifact[t]
  PROVE  \A t \in Stages : t = s \/ Exists(t) => Sources(t)' = Sources(t)
<1> SUFFICES ASSUME NEW t \in Stages, t = s \/ Exists(t) PROVE Sources(t)' = Sources(t)
  OBVIOUS
<1>1. s \notin Reads(t)
  <2>1. SUFFICES ASSUME s \in Reads(t) PROVE FALSE
    OBVIOUS
  <2>2. Position(s) < Position(t) /\ Position(s) \in Int
    BY <2>1, ReadsBefore, PositionIs
  <2>3. QED
    BY <2>2 DEF PrefixOk
<1>2. \A r \in Stages : r \in Reads(t) => artifact'[r].by = artifact[r].by
  BY <1>1
<1>3. QED
  BY <1>2 DEF Sources

\* The action in progress: its stage, and what comes before and after it.
LEMMA InProgress ==
  ASSUME IInv, Running
  PROVE  /\ pending # NoAction /\ pending.stage \in Offline /\ pending.stage \in Stages
         /\ pending.attempt \in Runs
         /\ runner.from \in [Stages -> Runs] /\ Of(pending.stage, runner.from)
         /\ runner.phase \in {"writing", "filling", "sector", "written"}
         /\ pending.stage \notin Reads(pending.stage)
         /\ pending.stage # "sector_rotation"
<1>1. pending # NoAction /\ Of(pending.stage, runner.from)
  BY DEF IInv, RunnerOk
<1>2. pending.stage \in Offline /\ pending.attempt \in Runs
  BY <1>1 DEF IInv, PendingOk
<1>3. /\ runner.from \in [Stages -> Runs]
      /\ runner.phase \in {"writing", "filling", "sector", "written"}
  BY DEF IInv, Typed, RunnerStates, Running
<1>4. pending.stage \in Stages /\ pending.stage # "sector_rotation"
  BY <1>2, StagesOfActions
<1>5. Position(pending.stage) \in Int
  BY <1>4, PositionIs
<1>6. pending.stage \notin Reads(pending.stage)
  BY <1>4, <1>5, ReadsBefore
<1>7. QED
  BY <1>1, <1>2, <1>3, <1>4, <1>6

\* The two steps in which an action writes its own artifact.
LEMMA TargetWritten ==
  ASSUME IInv, Running, NEW state \in {"partial", "complete"},
         artifact[pending.stage].state # "complete",
         Write(pending.stage, state, runner.from, pending.attempt),
         runner' \in RunnerStates, runner'.phase # "idle", runner'.from = runner.from,
         UNCHANGED <<active, pending, builder, event, attempts, changes, disturbed>>
  PROVE  Typed' /\ PendingOk' /\ CandidateOk'
<1> DEFINE s == pending.stage
<1>1. /\ s \in Stages /\ s \notin Reads(s) /\ s # "sector_rotation" /\ pending # NoAction
      /\ runner.from \in [Stages -> Runs] /\ Of(s, runner.from) /\ pending.attempt \in Runs
      /\ Typed
  BY InProgress DEF IInv
<1>2. /\ artifact' \in [Stages -> Artifacts] /\ \A t \in Stages : Of(t, artifact'[t].from)
      /\ artifact'[s].from = runner.from /\ artifact'[s].by = pending.attempt
      /\ \A t \in Stages \ {s} : artifact'[t] = artifact[t]
  <2>1. [state |-> state, by |-> pending.attempt, from |-> runner.from] \in Artifacts
    BY <1>1 DEF Artifacts
  <2>2. artifact' = [artifact EXCEPT ![s] = [state |-> state, by |-> pending.attempt,
                                             from |-> runner.from]]
    BY DEF Write
  <2>3. QED
    BY <1>1, <2>1, <2>2 DEF Typed
<1>3. Typed'
  BY <1>2 DEF IInv, Typed
<1>4. PendingOk'
  <2>1. \A r \in Reads(s) : r \in Stages \ {s}
    BY <1>1, ReadsBefore
  <2>2. \A r \in Reads(s) : /\ Exists(r)' => artifact'[r].by = Seen(r)
                            /\ runner'.from[r] = Seen(r) /\ artifact'[s].from[r] = Seen(r)
    BY <1>1, <1>2, <2>1 DEF IInv, PendingOk, Exists
  <2>3. QED
    BY <1>1, <2>2 DEF IInv, PendingOk, Seen
<1>5. CandidateOk'
  <2>1. s = "candidate" => runner.from["phase1b"] = Seen("phase1b")
                           /\ (Exists("phase1b") => artifact["phase1b"].by = Seen("phase1b"))
    BY <1>1, StagesOfActions DEF IInv, PendingOk
  <2>2. s = "phase1b" => ~ Exists("candidate")
    BY DEF IInv, CandidateOk
  <2>3. QED
    BY <1>2, <2>1, <2>2, StagesOfActions DEF IInv, CandidateOk, Exists, Running
<1>6. QED
  BY <1>3, <1>4, <1>5

LEMMA StartTargetKeeps == IInv /\ StartTarget => IInv'
<1> SUFFICES ASSUME IInv, StartTarget PROVE IInv'
  OBVIOUS
<1> DEFINE s == pending.stage
<1>1. /\ runner.phase = "writing" /\ s \notin Renamed /\ artifact[s].state = "absent"
      /\ Write(s, "partial", runner.from, pending.attempt)
      /\ runner' = [runner EXCEPT !.phase = "filling"]
      /\ UNCHANGED <<active, pending, builder, event, attempts, changes, disturbed>>
  BY DEF StartTarget
<1>2. Running
  BY <1>1 DEF Running
<1>3. /\ s \in Stages /\ s # "sector_rotation" /\ pending # NoAction
      /\ runner.from \in [Stages -> Runs] /\ Of(s, runner.from) /\ pending.attempt \in Runs
      /\ Typed
  BY <1>2, InProgress DEF IInv
<1>4. runner' \in RunnerStates /\ runner'.phase = "filling" /\ runner'.from = runner.from
  BY <1>1 DEF IInv, Typed, RunnerStates
<1>5. /\ artifact'[s].state = "partial" /\ artifact'[s].by = pending.attempt
      /\ \A t \in Stages \ {s} : artifact'[t] = artifact[t]
  BY <1>1, <1>3 DEF Typed, Write
<1>6. Typed' /\ PendingOk' /\ CandidateOk'
  BY <1>1, <1>2, <1>4, TargetWritten
<1>7. RunnerOk'
  BY <1>1, <1>3, <1>4, <1>5 DEF RunnerOk
<1>8. BuilderOk'
  BY <1>1, <1>3, <1>5, StagesOfActions DEF IInv, BuilderOk
<1>9. ASSUME ~ disturbed PROVE PrefixOk'
  <2>1. PrefixOk
    BY <1>9 DEF IInv
  <2>2. \A t \in Stages : t = s \/ Exists(t) => Sources(t)' = Sources(t)
    BY <1>1, <1>3, <1>5, <2>1, SourcesKept DEF IInv
  <2>3. \A t \in Stages : /\ t # s => artifact'[t] = artifact[t]
                          /\ Exists(t)' => \A r \in Stages : Position(r) < Position(t) =>
                                             artifact'[r].state = "complete"
    <3> SUFFICES ASSUME NEW t \in Stages, Exists(t)', NEW r \in Stages, Position(r) < Position(t)
                 PROVE  artifact'[r].state = "complete"
      BY <1>5
    <3>1. Position(s) \in Int
      BY <1>3, PositionIs
    <3>2. artifact[r].state = "complete"
      BY <1>1, <1>5, <2>1, <3>1 DEF PrefixOk, Exists
    <3>3. QED
      BY <1>1, <1>5, <3>2
  <2>4. QED
    BY <1>1, <1>2, <1>3, <1>4, <1>5, <2>1, <2>2, <2>3, StagesOfActions
    DEF PrefixOk, Exists, Running
<1>10. QED
  BY <1>1, <1>6, <1>7, <1>8, <1>9 DEF IInv

LEMMA CompleteTargetKeeps == IInv /\ CompleteTarget => IInv'
<1> SUFFICES ASSUME IInv, CompleteTarget PROVE IInv'
  OBVIOUS
<1> DEFINE s == pending.stage
           next == IF s = "phase1a" THEN "sector" ELSE "written"
<1>1. /\ runner.phase = IF s \in Renamed THEN "writing" ELSE "filling"
      /\ s \in Renamed => artifact[s].state = "absent"
      /\ Write(s, "complete", runner.from, pending.attempt)
      /\ runner' = [runner EXCEPT !.phase = next]
      /\ UNCHANGED <<active, pending, builder, event, attempts, changes, disturbed>>
  BY DEF CompleteTarget
<1>2. Running
  BY <1>1 DEF Running
<1>3. /\ s \in Stages /\ s # "sector_rotation" /\ pending # NoAction
      /\ runner.from \in [Stages -> Runs] /\ Of(s, runner.from) /\ pending.attempt \in Runs
      /\ Typed
  BY <1>2, InProgress DEF IInv
<1>4. runner' \in RunnerStates /\ runner'.phase = next /\ runner'.from = runner.from
  BY <1>1 DEF IInv, Typed, RunnerStates
<1>5. /\ artifact'[s] = [state |-> "complete", by |-> pending.attempt, from |-> runner.from]
      /\ artifact'[s].state = "complete" /\ artifact'[s].from = runner.from
      /\ \A t \in Stages \ {s} : artifact'[t] = artifact[t]
  BY <1>1, <1>3 DEF Typed, Write
<1>6. artifact[s].state # "complete"
  BY <1>1 DEF IInv, RunnerOk
<1>7. Typed' /\ PendingOk' /\ CandidateOk'
  BY <1>1, <1>2, <1>4, <1>6, TargetWritten
<1>8. RunnerOk'
  BY <1>1, <1>3, <1>4, <1>5 DEF RunnerOk
<1>9. BuilderOk'
  BY <1>1, <1>3, <1>5, StagesOfActions DEF IInv, BuilderOk
<1>10. ASSUME ~ disturbed PROVE PrefixOk'
  <2>1. PrefixOk
    BY <1>10 DEF IInv
  <2>2. \A t \in Stages : t = s \/ Exists(t) => Sources(t)' = Sources(t)
    BY <1>3, <1>5, <1>6, <2>1, SourcesKept DEF IInv
  <2>3. \A t \in Stages : Exists(t)' =>
          \A r \in Stages : Position(r) < Position(t) => artifact'[r].state = "complete"
    <3> SUFFICES ASSUME NEW t \in Stages, Exists(t)', NEW r \in Stages, Position(r) < Position(t)
                 PROVE  artifact'[r].state = "complete"
      OBVIOUS
    <3>1. s \notin Renamed => Exists(s)
      BY <1>1 DEF IInv, RunnerOk, Exists
    <3>2. artifact[r].state = "complete"
      BY <1>1, <1>5, <2>1, <3>1 DEF PrefixOk, Exists
    <3>3. QED
      BY <1>5, <3>2
  <2>4. ~ (artifact["phase1a"].state = "complete" /\ s = "phase1a")
    BY <1>6
  <2>5. QED
    BY <1>1, <1>2, <1>3, <1>4, <1>5, <2>1, <2>2, <2>3, <2>4, StagesOfActions
    DEF PrefixOk, Exists, Running
<1>11. QED
  BY <1>1, <1>7, <1>8, <1>9, <1>10 DEF IInv

LEMMA CompleteSectorKeeps == IInv /\ CompleteSector => IInv'
<1> SUFFICES ASSUME IInv, CompleteSector PROVE IInv'
  OBVIOUS
<1> DEFINE s == "sector_rotation"
           p == "phase1a"
<1>1. /\ runner.phase = "sector" /\ artifact[s].state = "absent"
      /\ artifact[p].state = "complete"
      /\ Write(s, "complete", Sources(s), pending.attempt)
      /\ runner' = [runner EXCEPT !.phase = "written"]
      /\ UNCHANGED <<active, pending, builder, event, attempts, changes, disturbed>>
  BY DEF CompleteSector
<1>2. Running /\ pending.stage = p
  BY <1>1 DEF IInv, RunnerOk, Running
<1>3. /\ s \in Stages /\ p \in Stages /\ pending # NoAction /\ p \notin Reads(p)
      /\ pending.attempt \in Runs /\ Typed /\ Of(p, runner.from)
  BY <1>2, InProgress, StagesOfActions DEF IInv
<1>4. runner' \in RunnerStates /\ runner'.phase = "written" /\ runner'.from = runner.from
  BY <1>1 DEF IInv, Typed, RunnerStates
<1>5. Sources(s) \in [Stages -> Runs] /\ Of(s, Sources(s))
  BY <1>3, SourcesTyped
<1>6. /\ artifact'[s] = [state |-> "complete", by |-> pending.attempt, from |-> Sources(s)]
      /\ artifact'[s].state = "complete" /\ artifact'[s].from = Sources(s)
      /\ \A t \in Stages \ {s} : artifact'[t] = artifact[t]
      /\ artifact' \in [Stages -> Artifacts]
  <2>1. [state |-> "complete", by |-> pending.attempt, from |-> Sources(s)] \in Artifacts
    BY <1>3, <1>5 DEF Artifacts
  <2>2. artifact' = [artifact EXCEPT ![s] = [state |-> "complete", by |-> pending.attempt,
                                             from |-> Sources(s)]]
    BY <1>1 DEF Write
  <2>3. QED
    BY <1>3, <2>1, <2>2 DEF Typed
<1>7. Typed'
  <2>1. \A t \in Stages : Of(t, artifact'[t].from)
    BY <1>3, <1>5, <1>6 DEF Typed
  <2>2. QED
    BY <1>1, <1>4, <1>6, <2>1 DEF IInv, Typed
<1>8. s \notin Reads(p) /\ \A r \in Reads(p) : r \in Stages
  <2>1. Position(p) \in Int
    BY <1>3, PositionIs
  <2>2. QED
    BY <1>3, <2>1, ReadsBefore, StagesOfActions
<1>9. PendingOk'
  <2>1. \A r \in Reads(p) : artifact'[r] = artifact[r]
    BY <1>6, <1>8
  <2>2. artifact'[p] = artifact[p]
    BY <1>3, <1>6
  <2>3. QED
    BY <1>1, <1>2, <1>3, <1>4, <2>1, <2>2 DEF IInv, PendingOk, Seen, Exists, Running
<1>10. RunnerOk'
  BY <1>1, <1>2, <1>3, <1>4, <1>6 DEF IInv, RunnerOk
<1>11. BuilderOk'
  BY <1>1, <1>2, <1>6, StagesOfActions DEF IInv, BuilderOk
<1>12. CandidateOk'
  BY <1>1, <1>2, <1>6, StagesOfActions DEF IInv, CandidateOk, Exists
<1>13. ASSUME ~ disturbed PROVE PrefixOk'
  <2>1. PrefixOk
    BY <1>13 DEF IInv
  <2>2. \A t \in Stages : t = s \/ Exists(t) => Sources(t)' = Sources(t)
    BY <1>1, <1>3, <1>6, <2>1, SourcesKept
  <2>3. \A t \in Stages : Exists(t)' =>
          \A r \in Stages : Position(r) < Position(t) => artifact'[r].state = "complete"
    <3> SUFFICES ASSUME NEW t \in Stages, Exists(t)', NEW r \in Stages, Position(r) < Position(t)
                 PROVE  artifact'[r].state = "complete"
      OBVIOUS
    <3>1. Position(r) \in 1 .. 16 /\ Position(s) \in 1 .. 16 /\ Position(p) \in 1 .. 16
          /\ Order[Position(r)] = r /\ Order[Position(p)] = p /\ Position(s) = Position(p) + 1
      BY <1>3, PositionIs, StagesOfActions
    <3>2. CASE t = s
      <4>1. r = p \/ Position(r) < Position(p)
        BY <3>1, <3>2
      <4>2. r # s
        BY <3>1, <3>2
      <4>3. QED
        BY <1>1, <1>3, <1>6, <2>1, <4>1, <4>2 DEF PrefixOk, Exists
    <3>3. CASE t # s
      BY <1>1, <1>6, <2>1, <3>3 DEF PrefixOk, Exists
    <3>4. QED
      BY <3>2, <3>3
  <2>4. Exists(p)
    BY <1>1 DEF Exists
  <2>5. QED
    BY <1>1, <1>2, <1>3, <1>4, <1>6, <2>1, <2>2, <2>3, <2>4 DEF PrefixOk, Exists, Running
<1>14. QED
  BY <1>1, <1>7, <1>9, <1>10, <1>11, <1>12, <1>13 DEF IInv

\* The terminal event of the open action.
LEMMA Terminates ==
  ASSUME IInv, pending # NoAction, NEW outcome, Terminal(outcome),
         outcome \in {"succeeded", "failed", "recovered_succeeded",
                      "recovered_not_completed", "recovery_blocked"}
  PROVE  /\ pending' = NoAction
         /\ event' \in [outcome : {"none", "succeeded", "failed", "recovered_succeeded",
                                   "recovered_not_completed", "recovery_blocked"},
                        stage : StageNames, attempt : Runs]
<1>1. pending.stage \in StageNames /\ pending.attempt \in Runs
  BY StagesOfActions DEF IInv, PendingOk
<1>2. QED
  BY <1>1 DEF Terminal

\* When an action has ended and nothing is changed of what it wrote.
LEMMA Settled ==
  ASSUME IInv, pending' = NoAction, runner' \in RunnerStates, runner'.phase = "idle",
         event' \in [outcome : {"none", "succeeded", "failed", "recovered_succeeded",
                                "recovered_not_completed", "recovery_blocked"},
                     stage : StageNames, attempt : Runs],
         UNCHANGED <<artifact, active, builder, attempts, changes>>, disturbed' \in BOOLEAN
  PROVE  Typed' /\ PendingOk' /\ RunnerOk' /\ BuilderOk' /\ CandidateOk'
<1>1. Typed'
  BY DEF IInv, Typed
<1>2. PendingOk'
  BY DEF PendingOk
<1>3. RunnerOk' /\ BuilderOk' /\ CandidateOk'
  BY Constants DEF IInv, RunnerOk, BuilderOk, CandidateOk, Running, Exists
<1>4. QED
  BY <1>1, <1>2, <1>3

LEMMA FinishKeeps == IInv /\ Finish => IInv'
<1> SUFFICES ASSUME IInv, Finish PROVE IInv'
  OBVIOUS
<1> DEFINE outcome == IF StageCompleted(pending.stage) /\ NextAction # pending.stage
                      THEN "succeeded" ELSE "failed"
<1>1. /\ runner.phase = "written" /\ Terminal(outcome) /\ runner' = NoRunner
      /\ UNCHANGED <<artifact, active, builder, attempts, changes, disturbed>>
  BY DEF Finish
<1>2. outcome \in {"succeeded", "failed"} /\ pending # NoAction
  BY <1>1 DEF IInv, RunnerOk, Running
<1> HIDE DEF outcome
<1>3. /\ pending' = NoAction
      /\ event' \in [outcome : {"none", "succeeded", "failed", "recovered_succeeded",
                                "recovered_not_completed", "recovery_blocked"},
                     stage : StageNames, attempt : Runs]
  BY <1>1, <1>2, Terminates
<1>4. runner' \in RunnerStates /\ runner'.phase = "idle"
  BY <1>1, Constants
<1>5. Typed' /\ PendingOk' /\ RunnerOk' /\ BuilderOk' /\ CandidateOk'
  BY <1>1, <1>3, <1>4, Settled DEF IInv, Typed
<1>6. ASSUME ~ disturbed PROVE PrefixOk'
  <2>1. \A t \in Stages : Sources(t)' = Sources(t)
    BY <1>1 DEF Sources
  <2>2. QED
    BY <1>1, <1>3, <1>4, <1>6, <2>1 DEF IInv, PrefixOk, Exists, Running
<1>7. QED
  BY <1>1, <1>5, <1>6 DEF IInv

LEMMA RecoverKeeps == IInv /\ Recover => IInv'
<1> SUFFICES ASSUME IInv, Recover PROVE IInv'
  OBVIOUS
<1>1. /\ pending # NoAction /\ runner.phase = "idle" /\ Terminal(Recovered)
      /\ UNCHANGED <<artifact, active, runner, builder, attempts, changes, disturbed>>
  BY DEF Recover
<1>2. Recovered \in {"recovered_succeeded", "recovered_not_completed", "recovery_blocked"}
  BY DEF Recovered
<1>3. /\ pending' = NoAction
      /\ event' \in [outcome : {"none", "succeeded", "failed", "recovered_succeeded",
                                "recovered_not_completed", "recovery_blocked"},
                     stage : StageNames, attempt : Runs]
  BY <1>1, <1>2, Terminates
<1>4. Typed' /\ PendingOk' /\ RunnerOk' /\ BuilderOk' /\ CandidateOk'
  BY <1>1, <1>3, Settled DEF IInv, Typed
<1>5. disturbed
  BY <1>1 DEF IInv, PrefixOk, Running
<1>6. QED
  BY <1>1, <1>4, <1>5 DEF IInv

\* When an artifact is removed that neither the action in progress nor an orphan is making.
LEMMA Removed ==
  ASSUME IInv, NEW s \in Stages, artifact' = [artifact EXCEPT ![s] = Absent],
         \/ /\ UNCHANGED <<pending, runner>>
            /\ runner.phase \notin {"idle", "writing"} => s # pending.stage
         \/ pending' = NoAction /\ runner' = NoRunner,
         \/ UNCHANGED builder /\ (s = "serving_bundle" => builder.phase # "filling")
         \/ builder' = NoBuilder
  PROVE  /\ artifact' \in [Stages -> Artifacts] /\ \A t \in Stages : Of(t, artifact'[t].from)
         /\ PendingOk' /\ RunnerOk' /\ BuilderOk' /\ CandidateOk'
<1>1. /\ artifact' \in [Stages -> Artifacts] /\ \A t \in Stages : Of(t, artifact'[t].from)
      /\ \A t \in Stages \ {s} : artifact'[t] = artifact[t]
      /\ artifact'[s].state = "absent"
  BY Removes DEF IInv
<1>2. \A t \in Stages : Exists(t)' => t # s /\ artifact'[t] = artifact[t]
  BY <1>1 DEF Exists
<1>3. pending # NoAction => pending.stage \in Stages /\ \A r \in Reads(pending.stage) : r \in Stages
  BY StagesOfActions, ReadsBefore DEF IInv, PendingOk
<1>4. PendingOk'
  <2>1. CASE pending' = NoAction
    BY <2>1 DEF PendingOk
  <2>2. CASE UNCHANGED <<pending, runner>>
    BY <1>2, <1>3, <2>2 DEF IInv, PendingOk, Seen, Exists, Running
  <2>3. QED
    BY <2>1, <2>2
<1>5. RunnerOk'
  <2>1. CASE runner' = NoRunner
    BY <2>1, Constants DEF RunnerOk, Running
  <2>2. CASE /\ UNCHANGED <<pending, runner>>
             /\ runner.phase \notin {"idle", "writing"} => s # pending.stage
    <3>1. Running => pending # NoAction
      BY DEF IInv, RunnerOk
    <3>2. runner.phase \in {"filling", "sector", "written"} =>
            artifact'[pending.stage] = artifact[pending.stage]
      BY <1>1, <1>3, <2>2, <3>1 DEF Running
    <3>3. QED
      BY <2>2, <3>1, <3>2 DEF IInv, RunnerOk, Running
  <2>3. QED
    BY <2>1, <2>2
<1>6. BuilderOk'
  <2>1. CASE builder' = NoBuilder
    BY <2>1, Constants, StagesOfActions DEF BuilderOk, NoBuilder
  <2>2. CASE UNCHANGED builder /\ (s = "serving_bundle" => builder.phase # "filling")
    BY <1>1, <2>2, Constants, StagesOfActions DEF IInv, BuilderOk
  <2>3. QED
    BY <2>1, <2>2
<1>7. CandidateOk'
  BY <1>1, <1>2, Constants, StagesOfActions DEF IInv, CandidateOk, Exists, Running
<1>8. QED
  BY <1>1, <1>4, <1>5, <1>6, <1>7

LEMMA ActionRaisesKeeps == IInv /\ ActionRaises => IInv'
<1> SUFFICES ASSUME IInv, ActionRaises PROVE IInv'
  OBVIOUS
<1>1. /\ Running /\ Terminal("failed") /\ runner' = NoRunner /\ disturbed' = TRUE
      /\ UNCHANGED <<active, builder, attempts, changes>>
      /\ \/ UNCHANGED artifact
         \/ pending.stage = "serving_bundle" /\ runner.phase = "filling" /\ Cleaned
  BY DEF ActionRaises, Running
<1>2. /\ pending' = NoAction
      /\ event' \in [outcome : {"none", "succeeded", "failed", "recovered_succeeded",
                                "recovered_not_completed", "recovery_blocked"},
                     stage : StageNames, attempt : Runs]
  BY <1>1, InProgress, Terminates
<1>3. runner' \in RunnerStates /\ runner'.phase = "idle"
  BY <1>1, Constants
<1>4. CASE UNCHANGED artifact
  <2>1. Typed' /\ PendingOk' /\ RunnerOk' /\ BuilderOk' /\ CandidateOk'
    BY <1>1, <1>2, <1>3, <1>4, Settled
  <2>2. QED
    BY <1>1, <2>1 DEF IInv
<1>5. CASE pending.stage = "serving_bundle" /\ runner.phase = "filling" /\ Cleaned
  <2>1. builder.phase # "filling"
    BY <1>5 DEF IInv, BuilderOk
  <2>2. artifact' = [artifact EXCEPT !["serving_bundle"] = Absent] /\ "serving_bundle" \in Stages
    BY <1>5, StagesOfActions DEF Cleaned
  <2>3. /\ artifact' \in [Stages -> Artifacts] /\ \A t \in Stages : Of(t, artifact'[t].from)
        /\ PendingOk' /\ RunnerOk' /\ BuilderOk' /\ CandidateOk'
    BY <1>1, <1>2, <2>1, <2>2, Removed
  <2>4. Typed'
    BY <1>1, <1>2, <1>3, <2>3 DEF IInv, Typed
  <2>5. QED
    BY <1>1, <2>3, <2>4 DEF IInv
<1>6. QED
  BY <1>1, <1>4, <1>5

LEMMA CrashKeeps == IInv /\ Crash => IInv'
<1> SUFFICES ASSUME IInv, Crash PROVE IInv'
  OBVIOUS
<1>1. /\ Running /\ runner' = NoRunner /\ disturbed' = TRUE
      /\ UNCHANGED <<artifact, active, pending, event, attempts, changes>>
      /\ \/ UNCHANGED builder
         \/ /\ pending.stage = "serving_bundle" /\ runner.phase # "written"
            /\ builder' = [phase |-> runner.phase, from |-> runner.from,
                           attempt |-> pending.attempt]
  BY DEF Crash, Running
<1>2. /\ pending # NoAction /\ pending.attempt \in Runs
      /\ runner.from \in [Stages -> Runs] /\ Of(pending.stage, runner.from)
      /\ runner.phase \in {"writing", "filling", "sector", "written"}
  BY <1>1, InProgress
<1>3. runner' \in RunnerStates /\ runner'.phase = "idle"
  BY <1>1, Constants
<1>4. builder' \in BuilderStates /\ BuilderOk'
  <2>1. CASE UNCHANGED builder
    BY <1>1, <1>3, <2>1 DEF IInv, Typed, BuilderOk
  <2>2. CASE /\ pending.stage = "serving_bundle" /\ runner.phase # "written"
             /\ builder' = [phase |-> runner.phase, from |-> runner.from,
                            attempt |-> pending.attempt]
    <3>1. runner.phase # "sector"
      BY <2>2 DEF IInv, RunnerOk
    <3>2. builder'.phase = runner.phase /\ builder'.from = runner.from /\ builder' \in BuilderStates
      BY <1>2, <2>2, <3>1 DEF BuilderStates
    <3>3. runner.phase = "filling" => artifact["serving_bundle"].state = "partial"
      BY <2>2 DEF IInv, RunnerOk
    <3>4. QED
      BY <1>1, <1>2, <1>3, <2>2, <3>2, <3>3 DEF BuilderOk
  <2>3. QED
    BY <1>1, <2>1, <2>2
<1>5. Typed'
  BY <1>1, <1>3, <1>4 DEF IInv, Typed
<1>6. PendingOk' /\ RunnerOk' /\ CandidateOk'
  BY <1>1, <1>3 DEF IInv, PendingOk, RunnerOk, CandidateOk, Seen, Exists, Running
<1>7. QED
  BY <1>1, <1>4, <1>5, <1>6 DEF IInv

\* An orphaned build writes the staging directory, which no action reads.
LEMMA BundleWritten ==
  ASSUME IInv, builder.phase \in {"writing", "filling"}, NEW state \in {"partial", "complete"},
         Write("serving_bundle", state, builder.from, builder.attempt),
         builder' \in BuilderStates, BuilderOk',
         ~ (pending.stage = "serving_bundle" /\ runner.phase \in {"filling", "written"}),
         UNCHANGED <<active, pending, runner, event, attempts, changes, disturbed>>
  PROVE  IInv'
<1> DEFINE s == "serving_bundle"
<1>1. /\ s \in Stages /\ builder.from \in [Stages -> Runs] /\ builder.attempt \in Runs
      /\ Of(s, builder.from) /\ Typed
  BY StagesOfActions DEF IInv, Typed, BuilderStates, BuilderOk
<1>2. /\ artifact' \in [Stages -> Artifacts] /\ artifact'[s].from = builder.from
      /\ \A t \in Stages \ {s} : artifact'[t] = artifact[t]
  <2>1. [state |-> state, by |-> builder.attempt, from |-> builder.from] \in Artifacts
    BY <1>1 DEF Artifacts
  <2>2. artifact' = [artifact EXCEPT ![s] = [state |-> state, by |-> builder.attempt,
                                             from |-> builder.from]]
    BY DEF Write
  <2>3. QED
    BY <1>1, <2>1, <2>2 DEF Typed
<1>3. Typed'
  <2>1. \A t \in Stages : Of(t, artifact'[t].from)
    BY <1>1, <1>2 DEF Typed
  <2>2. QED
    BY <1>1, <1>2, <2>1 DEF Typed
<1>4. pending # NoAction => /\ pending.stage \in Stages
                            /\ \A r \in Reads(pending.stage) : r \in Stages \ {s}
  BY StagesOfActions, ReadsBefore DEF IInv, PendingOk
<1>5. PendingOk'
  <2>1. pending # NoAction => \A r \in Reads(pending.stage) : artifact'[r] = artifact[r]
    BY <1>2, <1>4
  <2>2. pending # NoAction /\ pending.stage # s => artifact'[pending.stage] = artifact[pending.stage]
    BY <1>2, <1>4
  <2>3. QED
    BY <2>1, <2>2 DEF IInv, PendingOk, Seen, Exists, Running
<1>6. RunnerOk'
  <2>1. Running => pending # NoAction
    BY DEF IInv, RunnerOk
  <2>2. runner.phase \in {"filling", "sector", "written"} => pending.stage # s
    BY DEF IInv, RunnerOk
  <2>3. QED
    BY <1>2, <1>4, <2>1, <2>2 DEF IInv, RunnerOk, Running
<1>7. CandidateOk'
  BY <1>2, StagesOfActions DEF IInv, CandidateOk, Exists, Running
<1>8. disturbed
  BY Constants DEF IInv, PrefixOk
<1>9. QED
  BY <1>3, <1>5, <1>6, <1>7, <1>8 DEF IInv

LEMMA OrphanStartsKeeps == IInv /\ OrphanStarts => IInv'
<1> SUFFICES ASSUME IInv, OrphanStarts PROVE IInv'
  OBVIOUS
<1> DEFINE s == "serving_bundle"
<1>1. /\ builder.phase = "writing" /\ artifact[s].state = "absent"
      /\ Write(s, "partial", builder.from, builder.attempt)
      /\ builder' = [builder EXCEPT !.phase = "filling"]
      /\ UNCHANGED <<active, pending, runner, event, attempts, changes, disturbed>>
  BY DEF OrphanStarts
<1>2. ~ (pending.stage = s /\ runner.phase \in {"filling", "written"})
  BY <1>1 DEF IInv, RunnerOk
<1>3. /\ builder' \in BuilderStates /\ builder'.phase = "filling" /\ builder'.from = builder.from
  BY <1>1 DEF IInv, Typed, BuilderStates
<1>4. artifact'[s].state = "partial"
  BY <1>1, StagesOfActions DEF IInv, Typed, Write
<1>5. BuilderOk'
  <2>1. pending.stage = s => runner.phase \in {"idle", "writing"}
    BY <1>2 DEF IInv, Typed, RunnerStates, RunnerOk
  <2>2. QED
    BY <1>1, <1>3, <1>4, <2>1 DEF IInv, BuilderOk
<1>6. QED
  BY <1>1, <1>2, <1>3, <1>5, BundleWritten

LEMMA OrphanEndsKeeps == IInv /\ OrphanEnds => IInv'
<1> SUFFICES ASSUME IInv, OrphanEnds PROVE IInv'
  OBVIOUS
<1> DEFINE s == "serving_bundle"
<1>1. /\ builder # NoBuilder /\ builder' = NoBuilder
      /\ UNCHANGED <<active, pending, runner, event, attempts, changes, disturbed>>
      /\ \/ builder.phase = "filling" /\ Write(s, "complete", builder.from, builder.attempt)
         \/ builder.phase = "filling" /\ Cleaned
         \/ UNCHANGED artifact
  BY DEF OrphanEnds
<1>2. builder' \in BuilderStates /\ BuilderOk'
  BY <1>1, Constants, StagesOfActions DEF BuilderOk, NoBuilder
<1>3. disturbed
  BY <1>1 DEF IInv, PrefixOk
<1>4. builder.phase = "filling" => ~ (pending.stage = s /\ runner.phase \in {"filling", "written"})
  BY DEF IInv, BuilderOk
<1>5. CASE builder.phase = "filling" /\ Write(s, "complete", builder.from, builder.attempt)
  BY <1>1, <1>2, <1>4, <1>5, BundleWritten
<1>6. CASE builder.phase = "filling" /\ Cleaned
  <2>1. artifact' = [artifact EXCEPT ![s] = Absent] /\ s \in Stages
    BY <1>6, StagesOfActions DEF Cleaned
  <2>2. runner.phase \notin {"idle", "writing"} => s # pending.stage
    BY <1>6 DEF IInv, BuilderOk
  <2>3. /\ artifact' \in [Stages -> Artifacts] /\ \A t \in Stages : Of(t, artifact'[t].from)
        /\ PendingOk' /\ RunnerOk' /\ BuilderOk' /\ CandidateOk'
    BY <1>1, <2>1, <2>2, Removed
  <2>4. Typed'
    BY <1>1, <1>2, <2>3 DEF IInv, Typed
  <2>5. QED
    BY <1>1, <1>3, <2>3, <2>4 DEF IInv
<1>7. CASE UNCHANGED artifact
  <2>1. Typed'
    BY <1>1, <1>2, <1>7 DEF IInv, Typed
  <2>2. PendingOk' /\ RunnerOk' /\ CandidateOk'
    BY <1>1, <1>7 DEF IInv, PendingOk, RunnerOk, CandidateOk, Seen, Exists, Running
  <2>3. QED
    BY <1>1, <1>2, <1>3, <2>1, <2>2 DEF IInv
<1>8. QED
  BY <1>1, <1>5, <1>6, <1>7

-----------------------------------------------------------------------------
(* What happens around the executor.                                       *)

LEMMA ApplyCanonicalKeeps == IInv /\ ApplyCanonical => IInv'
<1> SUFFICES ASSUME IInv, ApplyCanonical PROVE IInv'
  OBVIOUS
<1> DEFINE s == NextAction
<1>1. /\ pending = NoAction /\ Plan.decision.status = "waiting"
      /\ Write(s, "complete", Sources(s), 1)
      /\ UNCHANGED <<active, pending, runner, builder, event, attempts, changes, disturbed>>
  BY DEF ApplyCanonical
<1>2. /\ s \in Canonical /\ s \in Stages /\ Position(s) = Stop /\ ~ Exists(s) /\ Typed
  BY <1>1, Named DEF IInv
<1>3. s \notin {"candidate", "phase1a", "phase1b", "sector_rotation", "serving_bundle"}
  BY <1>2 DEF Canonical
<1>4. \A t \in Stages : Position(t) < Position(s) => artifact[t].state = "complete"
  BY <1>2, Inspected DEF Passed
<1>5. ~ Running
  BY <1>1 DEF IInv, RunnerOk
<1>6. Sources(s) \in [Stages -> Runs] /\ Of(s, Sources(s))
  BY <1>2, SourcesTyped
<1> HIDE DEF s
<1>7. /\ artifact' \in [Stages -> Artifacts]
      /\ artifact'[s].state = "complete" /\ artifact'[s].from = Sources(s)
      /\ \A t \in Stages \ {s} : artifact'[t] = artifact[t]
  <2>1. [state |-> "complete", by |-> 1, from |-> Sources(s)] \in Artifacts
    BY <1>6, Constants DEF Artifacts
  <2>2. artifact' = [artifact EXCEPT ![s] = [state |-> "complete", by |-> 1,
                                             from |-> Sources(s)]]
    BY <1>1 DEF Write
  <2>3. QED
    BY <1>2, <2>1, <2>2 DEF Typed
<1>8. Typed'
  <2>1. \A t \in Stages : Of(t, artifact'[t].from)
    BY <1>2, <1>6, <1>7 DEF Typed
  <2>2. QED
    BY <1>1, <1>2, <1>7, <2>1 DEF Typed
<1>9. PendingOk' /\ RunnerOk'
  BY <1>1, <1>5 DEF PendingOk, RunnerOk, Running
<1>10. BuilderOk' /\ CandidateOk'
  BY <1>1, <1>3, <1>7, StagesOfActions DEF IInv, BuilderOk, CandidateOk, Exists, Running
<1>11. ASSUME ~ disturbed PROVE PrefixOk'
  <2>1. PrefixOk
    BY <1>11 DEF IInv
  <2>2. \A t \in Stages : t = s \/ Exists(t) => Sources(t)' = Sources(t)
    BY <1>2, <1>7, <2>1, SourcesKept DEF Exists
  <2>3. \A t \in Stages : Exists(t)' =>
          \A r \in Stages : Position(r) < Position(t) => artifact'[r].state = "complete"
    BY <1>4, <1>7, <2>1 DEF PrefixOk, Exists
  <2>4. QED
    BY <1>1, <1>3, <1>5, <1>7, <2>1, <2>2, <2>3, StagesOfActions DEF PrefixOk, Exists, Running
<1>12. QED
  BY <1>1, <1>8, <1>9, <1>10, <1>11 DEF IInv

LEMMA PointersKeep ==
  ASSUME IInv, active' \in [Pointers -> Runs], changes' \in 0 .. MaxChanges,
         UNCHANGED <<artifact, pending, runner, builder, event, attempts, disturbed>>
  PROVE  IInv'
<1>1. Typed'
  BY DEF IInv, Typed
<1>2. PendingOk' /\ RunnerOk' /\ BuilderOk' /\ CandidateOk'
  BY DEF IInv, PendingOk, RunnerOk, BuilderOk, CandidateOk, Seen, Exists, Running
<1>3. ASSUME ~ disturbed PROVE PrefixOk'
  <2>1. \A t \in Stages : Sources(t)' = Sources(t)
    BY DEF Sources
  <2>2. PrefixOk
    BY <1>3 DEF IInv
  <2>3. /\ artifact' = artifact /\ runner' = runner /\ pending' = pending
        /\ builder' = builder
    OBVIOUS
  <2>4. Running => pending.stage \in Stages
    BY InProgress
  <2>5. Running => runner.from = Sources(pending.stage)'
    BY <2>1, <2>2, <2>4 DEF PrefixOk
  <2>6. \A s \in Stages : artifact[s].state = "complete" => artifact[s].from = Sources(s)'
    BY <2>1, <2>2 DEF PrefixOk
  <2>7. QED
    BY <2>2, <2>3, <2>5, <2>6 DEF PrefixOk, Exists, Running
<1>4. QED
  BY <1>1, <1>2, <1>3 DEF IInv

LEMMA PublishKeeps == IInv /\ Publish => IInv'
<1> SUFFICES ASSUME IInv, Publish PROVE IInv'
  OBVIOUS
<1>1. /\ NextAction \in Pointers
      /\ active' = [active EXCEPT ![NextAction] = artifact[PlanOf[NextAction]].by]
      /\ UNCHANGED <<artifact, pending, runner, builder, event, attempts, changes, disturbed>>
  BY DEF Publish
<1>2. PlanOf[NextAction] \in Stages
  BY <1>1, OrderIs, StagesAre DEF PlanOf, StageSet
<1>3. active' \in [Pointers -> Runs]
  BY <1>1, <1>2 DEF IInv, Typed, Artifacts
<1>4. QED
  BY <1>1, <1>3, PointersKeep DEF IInv, Typed

LEMMA PointerMovesKeeps == IInv /\ PointerMoves => IInv'
<1> SUFFICES ASSUME IInv, PointerMoves PROVE IInv'
  OBVIOUS
<1>1. PICK p \in Pointers : active' = [active EXCEPT ![p] = 0]
  BY DEF PointerMoves
<1>2. active' \in [Pointers -> Runs]
  BY <1>1, Constants DEF IInv, Typed
<1>3. changes' \in 0 .. MaxChanges
  BY BoundsAssumption DEF PointerMoves, IInv, Typed
<1>4. QED
  BY <1>2, <1>3, PointersKeep DEF PointerMoves

LEMMA RemoveKeeps == IInv /\ Remove => IInv'
<1> SUFFICES ASSUME IInv, Remove PROVE IInv'
  OBVIOUS
<1>1. PICK s \in Stages \ Canonical :
        /\ Running => s # pending.stage
        /\ s = "serving_bundle" => builder.phase # "filling"
        /\ artifact' = [artifact EXCEPT ![s] = Absent]
  BY DEF Remove, Running
<1>2. /\ UNCHANGED <<active, pending, runner, builder, event, attempts>>
      /\ disturbed' = TRUE
  BY DEF Remove
<1>3. changes' \in 0 .. MaxChanges
  BY BoundsAssumption DEF Remove, IInv, Typed
<1>4. runner.phase \notin {"idle", "writing"} => s # pending.stage
  BY <1>1 DEF Running
<1>5. /\ artifact' \in [Stages -> Artifacts] /\ \A t \in Stages : Of(t, artifact'[t].from)
      /\ PendingOk' /\ RunnerOk' /\ BuilderOk' /\ CandidateOk'
  BY <1>1, <1>2, <1>4, Removed
<1>6. Typed'
  BY <1>2, <1>3, <1>5 DEF IInv, Typed
<1>7. QED
  BY <1>2, <1>5, <1>6 DEF IInv

-----------------------------------------------------------------------------
(* The results.                                                            *)

LEMMA Initially == Init => IInv
<1> SUFFICES ASSUME Init PROVE IInv
  OBVIOUS
<1>1. /\ artifact = [s \in Stages |-> Absent] /\ active = [p \in Pointers |-> 0]
      /\ pending = NoAction /\ runner = NoRunner /\ builder = NoBuilder /\ event = NoEvent
      /\ attempts = 0 /\ changes = 0 /\ disturbed = FALSE
  BY DEF Init
<1>2. /\ Absent.state = "absent" /\ Absent.from = NoSources
      /\ \A s \in Stages : artifact[s] = Absent
  BY <1>1 DEF Absent
<1>3. Typed
  <2>1. artifact \in [Stages -> Artifacts] /\ \A s \in Stages : Of(s, artifact[s].from)
    BY <1>1, <1>2, Constants
  <2>2. active \in [Pointers -> Runs] /\ runner \in RunnerStates /\ builder \in BuilderStates
    BY <1>1, Constants
  <2>3. event \in [outcome : {"none", "succeeded", "failed", "recovered_succeeded",
                              "recovered_not_completed", "recovery_blocked"},
                   stage : StageNames, attempt : Runs]
    BY <1>1, Constants, StagesOfActions DEF NoEvent
  <2>4. attempts \in Runs /\ changes \in 0 .. MaxChanges /\ disturbed \in BOOLEAN
    <3>1. attempts \in Runs /\ changes \in 0 .. MaxChanges
      BY <1>1, Constants, BoundsAssumption
    <3>2. disturbed \in BOOLEAN
      BY <1>1
    <3>3. QED
      BY <3>1, <3>2
  <2>5. QED
    BY <2>1, <2>2, <2>3, <2>4 DEF Typed
<1>4. PendingOk /\ RunnerOk /\ CandidateOk
  BY <1>1, <1>2, Constants, StagesOfActions DEF PendingOk, RunnerOk, CandidateOk, Exists, Running
<1>5. BuilderOk
  BY <1>1, Constants, StagesOfActions DEF BuilderOk, NoBuilder
<1>6. PrefixOk
  BY <1>1, <1>2, Constants, StagesOfActions DEF PrefixOk, Exists, Running
<1>7. QED
  BY <1>3, <1>4, <1>5, <1>6 DEF IInv

LEMMA Kept == IInv /\ [Next]_vars => IInv'
<1>1. ASSUME IInv, UNCHANGED vars PROVE IInv'
  BY <1>1, PointersKeep DEF vars, IInv, Typed
<1>2. QED
  BY <1>1, BeginKeeps, StartTargetKeeps, CompleteTargetKeeps, CompleteSectorKeeps,
     ActionRaisesKeeps, FinishKeeps, CrashKeeps, OrphanStartsKeeps, OrphanEndsKeeps,
     RecoverKeeps, ApplyCanonicalKeeps, PublishKeeps, PointerMovesKeeps, RemoveKeeps
  DEF Next

LEMMA Invariant == Spec => []IInv
  BY Initially, Kept, PTL DEF Spec

\* The state keeps its shape, and an open action is always one its own plan said was next
\* (execute_daily_eod_action), through failures, crashes and orphaned builds.
THEOREM TypeCorrect == Spec => []TypeOK
<1>1. IInv => TypeOK
  <2> SUFFICES ASSUME IInv PROVE TypeOK
    OBVIOUS
  <2>1. pending.stage \in StageNames /\ pending.attempt \in Runs
    BY Constants, StagesOfActions DEF IInv, PendingOk, NoAction
  <2>2. pending # NoAction =>
          pending.plan.decision = [status |-> "ready", action |-> pending.stage]
    BY DEF IInv, PendingOk
  <2>3. runner.phase # "idle" => pending # NoAction
    BY DEF IInv, RunnerOk, Running
  <2>4. QED
    BY <2>1, <2>2, <2>3 DEF IInv, Typed, TypeOK, Artifacts, RunnerStates, BuilderStates
<1>2. QED
  BY <1>1, Invariant, PTL

\* The links that the planner compares, and the one it does not.
LEMMA OneLineage == IInv => PassedIsOneLineage
<1> SUFFICES ASSUME IInv, NEW k \in 1 .. Stop - 1, Order[k] \in Stages, NEW r \in Reads(Order[k])
             PROVE  artifact[Order[k]].from[r] = artifact[r].by
  BY DEF PassedIsOneLineage
<1> DEFINE s == Order[k]
<1>1. k \in 1 .. 16 /\ Position(s) = k /\ s \in Stages /\ Passed(s)
  BY StopIs, PositionIs
<1>2. r \in Stages /\ Position(r) \in 1 .. Stop - 1 /\ Order[Position(r)] = r
  BY <1>1, StopIs, ReadsBefore, PositionIs
<1>3. CASE s = "candidate"
  <2>1. r = "phase1b"
    BY <1>3 DEF Reads
  <2>2. Passed(r)
    BY <1>2, StopIs
  <2>3. Exists(s) /\ Exists(r)
    BY <1>1, <1>2, <2>2, Inspected DEF IInv, Passed, Exists
  <2>4. QED
    BY <1>3, <2>1, <2>3 DEF IInv, CandidateOk
<1>4. CASE s # "candidate"
  BY <1>1, <1>4 DEF Passed, Bound, Compared
<1>5. QED
  BY <1>3, <1>4

\* What is run, published or deployed is made from one lineage of artifacts, however they
\* are removed, crashed over and made again: the planner's comparisons suffice, though it
\* leaves out the Phase 1b of the Candidate.
THEOREM Lineage == Spec => []PassedIsOneLineage
BY OneLineage, Invariant, PTL

\* The administrators never write what the planner then refuses: without a failure, a
\* crash or a removal no plan is blocked.
THEOREM NeverBlocked == Spec => []UndisturbedNeverBlocked
<1>1. IInv => UndisturbedNeverBlocked
  <2> SUFFICES ASSUME IInv, ~ disturbed, ~ Running PROVE Plan.decision # Blocked
    BY DEF UndisturbedNeverBlocked, Running
  <2>1. PrefixOk
    BY DEF IInv
  <2>2. CASE Stop \notin 1 .. 16
    BY <2>2, OrderIs DEF Plan, Blocked
  <2>3. CASE Stop \in 1 .. 16
    <3> DEFINE s == Order[Stop]
    <3>1. Plan.decision = Decision(s) /\ s \in Stages \cup Pointers /\ ~ Passed(s)
      BY <2>3, OrderIs, StopIs DEF Plan, Stages
    <3> HIDE DEF s
    <3>2. CASE s \in Pointers
      BY <3>1, <3>2 DEF Decision, Blocked
    <3>3. CASE s \in Stages
      <4>1. artifact[s].state # "complete"
        <5>1. SUFFICES ASSUME artifact[s].state = "complete" PROVE Passed(s)
          BY <3>1
        <5>2. artifact[s].from = Sources(s)
          BY <2>1, <3>3, <5>1 DEF PrefixOk
        <5>3. Bound(s)
          BY <3>3, <5>2, SourcesTyped DEF IInv, Bound, Compared
        <5>4. Observed(s) = "completed"
          BY <3>3, <5>1, <5>2, StagesAre DEF Observed
        <5>5. QED
          BY <5>3, <5>4 DEF Passed
      <4>2. artifact[s].state = "absent"
        BY <2>1, <3>3, <4>1 DEF IInv, Typed, Artifacts, PrefixOk, Running
      <4>3. Observed(s) = "missing"
        BY <3>3, <4>2, StagesAre DEF Observed
      <4>4. s # "sector_rotation"
        <5>1. SUFFICES ASSUME s = "sector_rotation" PROVE FALSE
          OBVIOUS
        <5>2. Position(s) = Stop /\ "phase1a" \in Stages /\ Position("phase1a") < Stop
          BY <2>3, <5>1, PositionIs, StagesOfActions DEF s
        <5>3. artifact["phase1a"].state = "complete"
          BY <5>2, Inspected DEF IInv, Passed
        <5>4. QED
          BY <2>1, <4>1, <5>1, <5>3 DEF PrefixOk, Running
      <4>5. ~ DownstreamExists(s)
        <5>1. SUFFICES ASSUME NEW k \in 1 .. 16, k > Position(s), Order[k] \in Stages,
                              Exists(Order[k])
                       PROVE  FALSE
          BY OrderIs DEF DownstreamExists, Exists
        <5>2. Position(Order[k]) = k
          BY PositionIs
        <5>3. QED
          BY <2>1, <3>3, <4>1, <5>1, <5>2 DEF PrefixOk
      <4>6. QED
        BY <3>1, <4>3, <4>4, <4>5 DEF Decision, Blocked
    <3>4. QED
      BY <3>1, <3>2, <3>3
  <2>4. QED
    BY <2>2, <2>3
<1>2. QED
  BY <1>1, Invariant, PTL

\* An open action whose stage the planner finds completed was made from what is there.
LEMMA Credited ==
  ASSUME IInv, pending # NoAction, StageCompleted(pending.stage)
  PROVE  /\ artifact[pending.stage].state = "complete"
         /\ artifact[pending.stage].from = Sources(pending.stage)
<1> DEFINE s == pending.stage
<1>1. s \in Stages /\ Typed
  BY StagesOfActions DEF IInv, PendingOk
<1>2. Position(s) <= Stop /\ Observed(s) = "completed" /\ artifact[s].state = "complete"
  BY <1>1, Inspected DEF StageCompleted
<1>3. CASE s = "serving_bundle"
  BY <1>1, <1>2, <1>3, StagesAre DEF Observed
<1>4. CASE s # "serving_bundle"
  <2>1. artifact[s].from \in [Stages -> Runs] /\ Of(s, artifact[s].from)
    BY <1>1 DEF Typed, Artifacts
  <2>2. Sources(s) \in [Stages -> Runs] /\ Of(s, Sources(s))
        /\ \A r \in Reads(s) : Sources(s)[r] = artifact[r].by
    BY <1>1, SourcesTyped
  <2>3. ASSUME NEW r \in Reads(s) PROVE artifact[s].from[r] = Sources(s)[r]
    <3>1. r \in Stages /\ Position(r) < Position(s) /\ Position(r) \in 1 .. 16
          /\ Position(s) \in 1 .. 16 /\ Stop \in 1 .. 17
      BY <1>1, ReadsBefore, PositionIs, StopIs
    <3>2. Exists(r)
      BY <1>1, <1>2, <3>1, Inspected DEF Passed, Exists
    <3>3. artifact[r].by = Seen(r) /\ artifact[s].from[r] = Seen(r)
      BY <1>2, <1>4, <3>2 DEF IInv, PendingOk, Exists
    <3>4. QED
      BY <2>2, <3>3
  <2>4. QED
    BY <1>1, <1>2, <2>1, <2>2, <2>3, SameSources
<1>5. QED
  BY <1>3, <1>4

\* A plan that is still the one acted on has not got its artifact.
LEMMA NothingLeft ==
  ASSUME IInv, pending # NoAction, Plan = pending.plan
  PROVE  artifact[pending.stage].state = "absent"
<1>1. Plan.decision = [status |-> "ready", action |-> pending.stage]
  BY DEF IInv, PendingOk
<1>2. Plan.decision.status = "ready" /\ NextAction = pending.stage
  BY <1>1 DEF NextAction
<1>3. QED
  BY <1>2, Named DEF IInv, Exists

\* The journal's terminal events are true of the disk: what execute_daily_eod_action records
\* as made and what recover_daily_eod_action makes of an open attempt, though sources may
\* have been removed, an orphaned build may have run on and artifacts of earlier attempts
\* may lie there.
THEOREM JournalIsTrue == Spec => JournalTellsTheTruth
<1> DEFINE Honest == event' # event =>
             LET s == event'.stage
             IN  /\ event'.outcome \in {"succeeded", "recovered_succeeded"} =>
                      /\ artifact[s].state = "complete"
                      /\ artifact[s].from = Sources(s)
                 /\ event'.outcome = "succeeded" => artifact[s].by = event'.attempt
                 /\ event'.outcome = "recovered_not_completed" => artifact[s].state = "absent"
<1>1. ASSUME IInv, Finish PROVE Honest
  <2>1. PICK outcome \in {"succeeded", "failed"} :
          /\ Terminal(outcome)
          /\ outcome = "succeeded" => StageCompleted(pending.stage)
    BY <1>1 DEF Finish
  <2>2. /\ event'.outcome = outcome /\ event'.stage = pending.stage
        /\ event'.attempt = pending.attempt
    BY <2>1 DEF Terminal
  <2>3. pending # NoAction /\ artifact[pending.stage].by = pending.attempt
    BY <1>1 DEF Finish, IInv, RunnerOk, Running
  <2>4. QED
    BY <1>1, <2>1, <2>2, <2>3, Credited
<1>2. ASSUME IInv, Recover PROVE Honest
  <2>1. pending # NoAction /\ Terminal(Recovered)
    BY <1>2 DEF Recover
  <2>2. event'.outcome = Recovered /\ event'.stage = pending.stage
    BY <2>1 DEF Terminal
  <2>3. /\ Recovered = "recovered_succeeded" => StageCompleted(pending.stage)
        /\ Recovered = "recovered_not_completed" => Plan = pending.plan
        /\ Recovered # "succeeded"
    BY DEF Recovered
  <2>4. QED
    BY <1>2, <2>1, <2>2, <2>3, Credited, NothingLeft
<1>3. ASSUME ActionRaises PROVE Honest
  BY <1>3 DEF ActionRaises, Terminal
<1>4. ASSUME [Next]_vars, ~ Finish, ~ Recover, ~ ActionRaises PROVE Honest
  BY <1>4 DEF Next, vars, Begin, StartTarget, CompleteTarget, CompleteSector, Crash,
     OrphanStarts, OrphanEnds, ApplyCanonical, Publish, PointerMoves, Remove
<1>5. ASSUME IInv, [Next]_vars PROVE Honest
  BY <1>1, <1>2, <1>3, <1>4, <1>5
<1>6. QED
  BY <1>5, Invariant, PTL DEF Spec, JournalTellsTheTruth

-----------------------------------------------------------------------------
(* The bounded cadence: its inductive invariant.                           *)

Holding == {"reserved", "running", "returned"}
Outcomes == {"advanced", "no_change", "failed"}

\* What makes a plan ready is still so, unless a wake was recorded since.
PlanGood(plan) ==
  /\ plan.used <= Len(retained)
  /\ plan.used = Len(retained) =>
       /\ plan.used < plan.policy.wakes
       /\ retained # <<>> =>
            /\ plan.start = Last.plan.start
            /\ Last.outcome # "failed"
            /\ plan.checked >= Last.completed + plan.policy.interval
            /\ plan.checked >= Last.eligible

\* What a runner has gone through is filled in.
RunOk(p) ==
  /\ run[p].pc # "idle" => run[p].plan \in Plans /\ PlanGood(run[p].plan)
  /\ run[p].pc \in Holding => run[p].wake \in 1 .. WakeLimit /\ run[p].started \in Time
  /\ run[p].pc = "returned" => run[p].completed \in Time /\ run[p].outcome \in Outcomes

\* A runner past its reservation holds the only open one.
Mine(p) == [wake |-> run[p].wake, plan |-> run[p].plan, started |-> run[p].started]
HolderOk(p) == run[p].pc \in Holding => openWake = {Mine(p)}
OneHolder ==
  \A p, q \in Runners : run[p].pc \in Holding /\ run[q].pc \in Holding => p = q

\* An open reservation is for the wake that comes next, and its plan still fits.
ReservationOk(r) ==
  /\ r.wake = Len(retained) + 1
  /\ r.started <= now
  /\ PlanFits(r.plan, r.started)
  /\ PlanGood(r.plan)

\* A failed wake is the last.
FailureIsLast == \A i \in DOMAIN retained : i < Len(retained) => retained[i].outcome # "failed"

\* What was invoked is recorded, or is the open reservation of a runner past it.
InvokedOk ==
  /\ \A i \in DOMAIN invoked :
       \/ invoked[i].wake <= Len(retained)
       \/ /\ invoked[i].wake = Len(retained) + 1
          /\ openWake # {}
          /\ \A p \in Runners : run[p].pc # "reserved"
  /\ \A i, j \in DOMAIN invoked : invoked[i].wake = invoked[j].wake => i = j

CadenceInv ==
  /\ CadenceTypeOK
  /\ \A p \in Runners : RunOk(p)
  /\ \A p \in Runners : HolderOk(p)
  /\ OneHolder
  /\ \A r \in openWake : ReservationOk(r)
  /\ FailureIsLast
  /\ InvokedOk
  /\ KeepsItsPolicy

-----------------------------------------------------------------------------
LEMMA InitHolds == CadenceInit => CadenceInv
<1> SUFFICES ASSUME CadenceInit PROVE CadenceInv
  OBVIOUS
<1> USE DEF CadenceInit
<1>1. CadenceTypeOK
  BY CadenceAssumption DEF CadenceTypeOK, Idle, Time, NoTime
<1>2. \A p \in Runners : RunOk(p) /\ HolderOk(p)
  BY DEF RunOk, HolderOk, Idle, Holding
<1>3. OneHolder
  BY DEF OneHolder, Idle, Holding
<1>4. /\ \A r \in openWake : ReservationOk(r)
      /\ FailureIsLast /\ InvokedOk /\ KeepsItsPolicy
  BY DEF FailureIsLast, InvokedOk, KeepsItsPolicy
<1>5. QED
  BY <1>1, <1>2, <1>3, <1>4 DEF CadenceInv

\* The last recorded wake, and the policies, are what their types say.
LEMMA LastTyped ==
  ASSUME CadenceTypeOK, retained # <<>>
  PROVE  /\ Len(retained) \in Nat \ {0}
         /\ Last = retained[Len(retained)]
         /\ Last \in Wakes
BY DEF CadenceTypeOK, Last

LEMMA PlanTyped ==
  ASSUME NEW plan \in Plans
  PROVE  /\ plan.policy \in Policies
         /\ plan.policy.wakes \in 1 .. WakeLimit
         /\ plan.policy.interval \in Nat /\ plan.policy.window \in Nat
         /\ plan.start \in Time /\ plan.checked \in Time /\ plan.used \in Nat
BY CadenceAssumption DEF Plans, PolicyOk

Pcs == {"idle", "planned", "reserved", "running", "returned"}
RunnerRecords == [pc : Pcs, plan : Plans \cup {NoWakePlan}, wake : 0 .. WakeLimit,
         started : Time \cup {NoTime}, looked : Time \cup {NoTime},
         completed : Time \cup {NoTime},
         outcome : {"unknown", "advanced", "no_change", "failed"},
         eligible : Time \cup {NoTime}]

\* The clock.
LEMMA TickKeeps ==
  ASSUME CadenceInv, Tick
  PROVE  CadenceInv'
<1> USE CadenceAssumption DEF Tick
<1>1. CadenceTypeOK'
  BY DEF CadenceInv, CadenceTypeOK, Time, Reservations
<1>2. \A p \in Runners : RunOk(p)' /\ HolderOk(p)'
  BY DEF CadenceInv, RunOk, HolderOk, Mine, PlanGood, Last
<1>3. OneHolder'
  BY DEF CadenceInv, OneHolder
<1>4. \A r \in openWake' : ReservationOk(r)'
  <2> SUFFICES ASSUME NEW r \in openWake PROVE ReservationOk(r)'
    OBVIOUS
  <2>1. ReservationOk(r) /\ r.started \in Time /\ now \in Time
    BY DEF CadenceInv, CadenceTypeOK, Reservations
  <2>2. QED
    BY <2>1 DEF ReservationOk, PlanFits, PlanGood, Last, Time
<1>5. FailureIsLast' /\ InvokedOk' /\ KeepsItsPolicy'
  BY DEF CadenceInv, FailureIsLast, InvokedOk, KeepsItsPolicy
<1>6. QED
  BY <1>1, <1>2, <1>3, <1>4, <1>5 DEF CadenceInv

\* What a step of one runner that leaves the journal alone has to keep.
LEMMA LocalKeeps ==
  ASSUME CadenceInv, NEW p \in Runners,
         UNCHANGED <<now, retained, openWake, invoked>>,
         run' \in [Runners -> RunnerRecords], \A q \in Runners : q # p => run'[q] = run[q],
         run'[p].pc \in Holding => run[p].pc \in Holding,
         run'[p].pc = "reserved" => run[p].pc = "reserved",
         RunOk(p)', HolderOk(p)'
  PROVE  CadenceInv'
<1>2. CadenceTypeOK'
  BY DEF CadenceInv, CadenceTypeOK, RunnerRecords, Pcs
<1>3. \A q \in Runners : RunOk(q)' /\ HolderOk(q)'
  <2> SUFFICES ASSUME NEW q \in Runners, q # p PROVE RunOk(q)' /\ HolderOk(q)'
    OBVIOUS
  <2>1. RunOk(q) /\ HolderOk(q) /\ run'[q] = run[q]
    BY DEF CadenceInv
  <2>2. QED
    BY <2>1 DEF RunOk, HolderOk, Mine, PlanGood, Last
<1>4. OneHolder'
  BY DEF CadenceInv, OneHolder
<1>5. \A x \in openWake' : ReservationOk(x)'
  BY DEF CadenceInv, ReservationOk, PlanFits, PlanGood, Last
<1>6. InvokedOk'
  BY DEF CadenceInv, InvokedOk
<1>7. FailureIsLast' /\ KeepsItsPolicy'
  BY DEF CadenceInv, FailureIsLast, KeepsItsPolicy
<1>8. QED
  BY <1>2, <1>3, <1>4, <1>5, <1>6, <1>7 DEF CadenceInv

\* A plan is good when it is made.
LEMMA PlanKeeps ==
  ASSUME CadenceInv, NEW p \in Runners, NEW policy \in Policies, NEW start \in Time,
         PlanWake(p, policy, start)
  PROVE  CadenceInv'
<1> DEFINE plan == [policy |-> policy, start |-> start, checked |-> now,
                    used |-> Len(retained)]
<1>1. /\ run \in [Runners -> RunnerRecords] /\ run[p] = Idle /\ now \in Time
      /\ Len(retained) \in Nat
  BY DEF CadenceInv, CadenceTypeOK, RunnerRecords, Pcs, PlanWake
<1>2. plan \in Plans
  <2>1. policy.wakes \in 1 .. WakeLimit
    BY CadenceAssumption DEF PolicyOk
  <2>2. Len(retained) \in 0 .. WakeLimit
    BY <1>1, <2>1, CadenceAssumption DEF PlanWake
  <2>3. QED
    BY <1>1, <2>2 DEF Plans
<1>5. PlanGood(plan)
  <2>1. CASE retained = <<>>
    BY <1>1, <2>1 DEF PlanGood, PlanWake
  <2>2. CASE retained # <<>>
    <3>1. Last \in Wakes /\ Last = retained[Len(retained)] /\ Len(retained) \in DOMAIN retained
      BY <2>2, LastTyped DEF CadenceInv, CadenceTypeOK
    <3>2. plan.start = Last.plan.start
      BY <3>1 DEF PlanWake, ChainOk
    <3>3. now >= Last.completed + policy.interval /\ now >= Last.eligible
      <4>1. /\ Last.completed \in Int /\ Last.eligible \in Int /\ now \in Int
            /\ policy.interval \in Int
        BY <1>1, <3>1, CadenceAssumption DEF Wakes, Time, NoTime
      <4>2. now >= IntervalBoundary(policy)
        BY <2>2 DEF PlanWake
      <4>3. QED
        BY <4>1, <4>2 DEF IntervalBoundary
    <3>4. Len(retained) < policy.wakes /\ Last.outcome # "failed"
      BY <2>2 DEF PlanWake
    <3>5. QED
      BY <1>1, <3>2, <3>3, <3>4 DEF PlanGood
  <2>3. QED
    BY <2>1, <2>2
<1>6. UNCHANGED <<now, retained, openWake, invoked>>
  BY DEF PlanWake
<1>7. /\ run' \in [Runners -> RunnerRecords] /\ run'[p].pc = "planned" /\ run'[p].plan = plan
      /\ \A q \in Runners : q # p => run'[q] = run[q]
  <2>1. run' = [run EXCEPT ![p].pc = "planned", ![p].plan = plan]
    BY DEF PlanWake
  <2> HIDE DEF plan
  <2> DEFINE a == [run EXCEPT ![p].pc = "planned"]
  <2>2. a \in [Runners -> RunnerRecords]
    BY <1>1 DEF RunnerRecords, Pcs
  <2>3. run' = [a EXCEPT ![p].plan = plan]
    BY <2>1
  <2> HIDE DEF a
  <2>4. run' \in [Runners -> RunnerRecords]
    BY <1>2, <2>2, <2>3 DEF RunnerRecords
  <2>5. QED
    BY <1>1, <2>1, <2>4 DEF RunnerRecords
<1> HIDE DEF plan
<1>8. RunOk(p)' /\ HolderOk(p)'
  BY <1>2, <1>5, <1>6, <1>7 DEF RunOk, HolderOk, Holding, PlanGood, Last
<1>9. QED
  BY <1>6, <1>7, <1>8, LocalKeeps DEF Holding

LEMMA ReturnKeeps ==
  ASSUME CadenceInv, NEW p \in Runners, NEW outcome \in Outcomes,
         NEW eligible \in {NoTime} \cup Time, Return(p, outcome, eligible)
  PROVE  CadenceInv'
<1>1. /\ run \in [Runners -> RunnerRecords] /\ now \in Time
      /\ run[p].pc = "running" /\ RunOk(p) /\ HolderOk(p)
  BY DEF CadenceInv, CadenceTypeOK, RunnerRecords, Pcs, Return
<1>2. UNCHANGED <<now, retained, openWake, invoked>>
  BY DEF Return
<1>3. /\ run' \in [Runners -> RunnerRecords] /\ \A q \in Runners : q # p => run'[q] = run[q]
      /\ run'[p].pc = "returned" /\ run'[p].completed = now /\ run'[p].outcome = outcome
      /\ run'[p].plan = run[p].plan /\ run'[p].wake = run[p].wake
      /\ run'[p].started = run[p].started
  <2>1. run' = [run EXCEPT ![p].pc = "returned", ![p].outcome = outcome,
                           ![p].completed = now, ![p].eligible = eligible]
    BY DEF Return
  <2>2. outcome \in {"unknown", "advanced", "no_change", "failed"}
    BY DEF Outcomes
  <2> DEFINE a == [run EXCEPT ![p].pc = "returned"]
             b == [a EXCEPT ![p].outcome = outcome]
             c == [b EXCEPT ![p].completed = now]
  <2>3. run' = [c EXCEPT ![p].eligible = eligible]
    BY <2>1
  <2>4. a \in [Runners -> RunnerRecords]
    BY <1>1 DEF RunnerRecords, Pcs
  <2> HIDE DEF a
  <2>5. b \in [Runners -> RunnerRecords]
    BY <2>2, <2>4 DEF RunnerRecords
  <2> HIDE DEF b
  <2>6. c \in [Runners -> RunnerRecords]
    BY <1>1, <2>5 DEF RunnerRecords
  <2> HIDE DEF c
  <2>7. run' \in [Runners -> RunnerRecords]
    BY <2>3, <2>6 DEF RunnerRecords
  <2>8. QED
    BY <1>1, <2>1, <2>7 DEF RunnerRecords
<1>4. RunOk(p)' /\ HolderOk(p)'
  BY <1>1, <1>2, <1>3 DEF RunOk, HolderOk, Mine, Holding, PlanGood, Last
<1>5. QED
  BY <1>1, <1>2, <1>3, <1>4, LocalKeeps DEF Holding

LEMMA LoseKeeps ==
  ASSUME CadenceInv, NEW p \in Runners, Lose(p)
  PROVE  CadenceInv'
<1>1. Idle \in RunnerRecords /\ Idle.pc = "idle"
  BY CadenceAssumption DEF Idle, RunnerRecords, Pcs
<1>2. run \in [Runners -> RunnerRecords]
  BY DEF CadenceInv, CadenceTypeOK, RunnerRecords, Pcs
<1>3. /\ run' \in [Runners -> RunnerRecords] /\ run'[p].pc = "idle"
      /\ \A q \in Runners : q # p => run'[q] = run[q]
      /\ UNCHANGED <<now, retained, openWake, invoked>>
  BY <1>1, <1>2 DEF Lose
<1>4. RunOk(p)' /\ HolderOk(p)'
  BY <1>3 DEF RunOk, HolderOk, Holding
<1>5. QED
  BY <1>3, <1>4, LocalKeeps DEF Holding

\* The transition of the open reservation begins: it was not invoked before.
LEMMA InvokeKeeps ==
  ASSUME CadenceInv, NEW p \in Runners, Invoke(p)
  PROVE  CadenceInv'
<1> DEFINE e == [wake |-> run[p].wake, at |-> now]
           n == Len(invoked)
<1>1. /\ run \in [Runners -> RunnerRecords] /\ run[p] \in RunnerRecords /\ now \in Time
      /\ run[p].pc = "reserved" /\ RunOk(p) /\ HolderOk(p) /\ OneHolder
      /\ InvokedOk /\ UNCHANGED <<now, retained, openWake>>
  BY DEF CadenceInv, CadenceTypeOK, RunnerRecords, Pcs, Invoke
<1>4. /\ run' \in [Runners -> RunnerRecords] /\ \A q \in Runners : q # p => run'[q] = run[q]
      /\ run'[p].pc = "running" /\ run'[p].plan = run[p].plan
      /\ run'[p].wake = run[p].wake /\ run'[p].started = run[p].started
  BY <1>1 DEF Invoke, RunnerRecords, Pcs
<1>5. e \in [wake : 1 .. WakeLimit, at : Time]
  BY <1>1 DEF RunOk, Holding
<1>6. /\ invoked \in Seq([wake : 1 .. WakeLimit, at : Time])
      /\ invoked' = Append(invoked, e)
  BY DEF CadenceInv, CadenceTypeOK, Invoke
<1> HIDE DEF e
<1>7. /\ n \in Nat /\ DOMAIN invoked = 1 .. n /\ DOMAIN invoked' = 1 .. n + 1
      /\ \A i \in 1 .. n : invoked'[i] = invoked[i]
      /\ invoked'[n + 1] = e
      /\ invoked' \in Seq([wake : 1 .. WakeLimit, at : Time])
  BY <1>5, <1>6
<1>8. e.wake = Len(retained) + 1 /\ openWake # {}
  <2>1. openWake = {Mine(p)} /\ ReservationOk(Mine(p))
    BY <1>1 DEF HolderOk, Holding, CadenceInv
  <2>2. QED
    BY <2>1 DEF ReservationOk, Mine, e
<1>9. CadenceTypeOK'
  BY <1>1, <1>4, <1>7 DEF CadenceInv, CadenceTypeOK, RunnerRecords, Pcs
<1>10. \A q \in Runners : RunOk(q)' /\ HolderOk(q)'
  <2> SUFFICES ASSUME NEW q \in Runners PROVE RunOk(q)' /\ HolderOk(q)'
    OBVIOUS
  <2>1. RunOk(q) /\ HolderOk(q)
    BY DEF CadenceInv
  <2>2. CASE q = p
    <3>1. /\ run'[q].pc = "running" /\ run'[q].plan = run[q].plan
          /\ run'[q].wake = run[q].wake /\ run'[q].started = run[q].started
      BY <1>4, <2>2
    <3>2. QED
      BY <1>1, <2>1, <2>2, <3>1 DEF RunOk, HolderOk, Mine, Holding, PlanGood, Last
  <2>3. CASE q # p
    BY <1>1, <1>4, <2>1, <2>3 DEF RunOk, HolderOk, Mine, PlanGood, Last
  <2>4. QED
    BY <2>2, <2>3
<1>11. OneHolder' /\ \A q \in Runners : run'[q].pc # "reserved"
  BY <1>1, <1>4 DEF OneHolder, Holding
<1>12. \A x \in openWake' : ReservationOk(x)'
  BY <1>1 DEF CadenceInv, ReservationOk, PlanFits, PlanGood, Last
<1>13. InvokedOk'
  <2> HIDE DEF n
  <2>1. \A i \in 1 .. n : invoked[i].wake <= Len(retained)
    BY <1>1, <1>7 DEF InvokedOk
  <2>2. \A i, j \in 1 .. n + 1 : invoked'[i].wake = invoked'[j].wake => i = j
    <3>1. Len(retained) \in Nat
      BY DEF CadenceInv, CadenceTypeOK
    <3>2. \A i \in 1 .. n : invoked'[i].wake # invoked'[n + 1].wake
      <4> SUFFICES ASSUME NEW i \in 1 .. n, invoked'[i].wake = invoked'[n + 1].wake
                   PROVE  FALSE
        OBVIOUS
      <4>1. invoked'[i].wake = Len(retained) + 1
        BY <1>7, <1>8
      <4>2. invoked'[i].wake <= Len(retained)
        BY <1>7, <2>1
      <4>3. QED
        BY <3>1, <4>1, <4>2
    <3>3. \A i, j \in 1 .. n : invoked'[i].wake = invoked'[j].wake => i = j
      BY <1>1, <1>7 DEF InvokedOk
    <3>4. \A i \in 1 .. n + 1 : i \in 1 .. n \/ i = n + 1
      BY <1>7
    <3>5. QED
      BY <3>2, <3>3, <3>4
  <2>3. \A i \in 1 .. n + 1 :
          invoked'[i].wake <= Len(retained) \/ invoked'[i].wake = Len(retained) + 1
    <3> SUFFICES ASSUME NEW i \in 1 .. n + 1
                 PROVE  \/ invoked'[i].wake <= Len(retained)
                        \/ invoked'[i].wake = Len(retained) + 1
      OBVIOUS
    <3>1. CASE i = n + 1
      BY <1>7, <1>8, <3>1
    <3>2. CASE i \in 1 .. n
      BY <1>7, <2>1, <3>2
    <3>3. QED
      BY <1>7, <3>1, <3>2
  <2>4. QED
    BY <1>1, <1>7, <1>8, <1>11, <2>2, <2>3 DEF InvokedOk
<1>14. FailureIsLast' /\ KeepsItsPolicy'
  BY <1>1 DEF CadenceInv, FailureIsLast, KeepsItsPolicy
<1>15. QED
  BY <1>9, <1>10, <1>11, <1>12, <1>13, <1>14 DEF CadenceInv

LEMMA InvokedTyped ==
  ASSUME CadenceTypeOK, NEW i \in DOMAIN invoked
  PROVE  invoked[i].wake \in Nat
<1> DEFINE S == [wake : 1 .. WakeLimit, at : Time]
<1>1. invoked \in Seq(S)
  BY DEF CadenceTypeOK
<1>2. invoked[i] \in S
  <2> HIDE DEF S
  <2>1. QED
    BY <1>1
<1>3. QED
  BY <1>2, CadenceAssumption

\* A reservation is accepted only when none is open, so no other runner holds one.
LEMMA ReserveKeeps ==
  ASSUME CadenceInv, NEW p \in Runners, NEW started \in 0 .. now, Reserve(p, started)
  PROVE  CadenceInv'
<1> DEFINE n == Len(retained)
           plan == run[p].plan
           e == [wake |-> n + 1, plan |-> plan, started |-> started]
<1>1. /\ run \in [Runners -> RunnerRecords] /\ now \in Time /\ started \in Time /\ n \in Nat
      /\ run[p].pc = "planned" /\ openWake = {} /\ RunOk(p) /\ started <= now
      /\ UNCHANGED <<now, retained, invoked>> /\ openWake' = {e}
  BY CadenceAssumption DEF CadenceInv, CadenceTypeOK, RunnerRecords, Pcs, Reserve, Time
<1>2. plan \in Plans /\ PlanGood(plan) /\ n + 1 \in 1 .. WakeLimit
  BY <1>1, CadenceAssumption DEF RunOk, Reserve, WithinLimits
<1>3. /\ run' \in [Runners -> RunnerRecords] /\ \A q \in Runners : q # p => run'[q] = run[q]
      /\ run'[p].pc = "reserved" /\ run'[p].plan = plan /\ run'[p].wake = n + 1
      /\ run'[p].started = started
  <2>1. run' = [run EXCEPT ![p].pc = "reserved", ![p].wake = n + 1, ![p].started = started]
    BY DEF Reserve
  <2> HIDE DEF n
  <2> DEFINE a == [run EXCEPT ![p].pc = "reserved"]
             b == [a EXCEPT ![p].wake = n + 1]
  <2>2. run' = [b EXCEPT ![p].started = started]
    BY <2>1
  <2>3. a \in [Runners -> RunnerRecords]
    BY <1>1 DEF RunnerRecords, Pcs
  <2> HIDE DEF a
  <2>4. n + 1 \in 0 .. WakeLimit
    BY <1>1, <1>2
  <2>5. b \in [Runners -> RunnerRecords]
    BY <2>3, <2>4 DEF RunnerRecords
  <2> HIDE DEF b
  <2>6. run' \in [Runners -> RunnerRecords]
    BY <1>1, <2>2, <2>5 DEF RunnerRecords
  <2>7. QED
    BY <1>1, <2>1, <2>6 DEF RunnerRecords
<1>4. \A q \in Runners : run[q].pc \notin Holding
  BY <1>1 DEF CadenceInv, HolderOk
<1>5. e \in Reservations
  BY <1>1, <1>2 DEF Reservations
<1>6. CadenceTypeOK'
  BY <1>1, <1>3, <1>5 DEF CadenceInv, CadenceTypeOK, RunnerRecords, Pcs
<1>7. \A q \in Runners : RunOk(q)' /\ HolderOk(q)'
  <2> SUFFICES ASSUME NEW q \in Runners PROVE RunOk(q)' /\ HolderOk(q)'
    OBVIOUS
  <2>1. RunOk(q)
    BY DEF CadenceInv
  <2>2. CASE q = p
    <3>1. PlanGood(plan)'
      BY <1>1, <1>2, <1>3 DEF PlanGood, Last
    <3>2. RunOk(p)'
      BY <1>1, <1>2, <1>3 DEF RunOk, Holding, PlanGood, Last
    <3>3. openWake' = {Mine(p)'}
      BY <1>1, <1>3 DEF Mine
    <3>4. QED
      BY <2>2, <3>2, <3>3 DEF HolderOk
  <2>3. CASE q # p
    BY <1>1, <1>3, <1>4, <2>1, <2>3 DEF RunOk, HolderOk, PlanGood, Last
  <2>4. QED
    BY <2>2, <2>3
<1>8. OneHolder'
  BY <1>3, <1>4 DEF OneHolder
<1>9. \A r \in openWake' : ReservationOk(r)'
  <2>1. PlanFits(plan, started) /\ e.wake = n + 1 /\ e.plan = plan /\ e.started = started
    BY DEF Reserve
  <2>2. (e.wake = Len(retained) + 1 /\ PlanFits(e.plan, e.started) /\ PlanGood(e.plan)
          /\ e.started <= now)
    BY <1>1, <1>2, <2>1
  <2> HIDE DEF e
  <2>3. QED
    BY <1>1, <2>2 DEF ReservationOk, PlanFits, PlanGood, Last
<1>10. InvokedOk'
  BY <1>1, <1>3 DEF CadenceInv, InvokedOk
<1>11. FailureIsLast' /\ KeepsItsPolicy'
  BY <1>1 DEF CadenceInv, FailureIsLast, KeepsItsPolicy
<1>12. QED
  BY <1>6, <1>7, <1>8, <1>9, <1>10, <1>11 DEF CadenceInv

\* Recording a wake makes every plan made before it out of date.
LEMMA RecordKeeps ==
  ASSUME CadenceInv, NEW p \in Runners, Record(p)
  PROVE  CadenceInv'
<1> DEFINE n == Len(retained)
           plan == run[p].plan
           e == [plan |-> plan, started |-> run[p].started,
                 completed |-> run[p].completed, outcome |-> run[p].outcome,
                 eligible |-> run[p].eligible]
<1>1. /\ run \in [Runners -> RunnerRecords] /\ run[p] \in RunnerRecords /\ now \in Time /\ n \in Nat
      /\ run[p].pc = "returned" /\ RunOk(p) /\ OneHolder
      /\ UNCHANGED <<now, invoked>> /\ openWake' = {}
  BY DEF CadenceInv, CadenceTypeOK, RunnerRecords, Pcs, Record
<1>2. ReservationOk(Mine(p)) /\ plan \in Plans
  BY <1>1 DEF CadenceInv, HolderOk, RunOk, Holding
<1>3. e \in Wakes
  BY <1>1, <1>2 DEF RunOk, Holding, Outcomes, Wakes, RunnerRecords
<1>4. /\ e.plan = plan /\ e.started = run[p].started
  OBVIOUS
<1>5. retained \in Seq(Wakes) /\ retained' = Append(retained, e)
  BY DEF CadenceInv, CadenceTypeOK, Record
<1> HIDE DEF e
<1>6. /\ DOMAIN retained = 1 .. n /\ DOMAIN retained' = 1 .. n + 1 /\ Len(retained') = n + 1
      /\ \A i \in 1 .. n : retained'[i] = retained[i]
      /\ retained'[n + 1] = e /\ retained' \in Seq(Wakes)
  BY <1>1, <1>3, <1>5
<1>7. Idle \in RunnerRecords /\ Idle.pc = "idle"
  BY CadenceAssumption DEF Idle, RunnerRecords, Pcs
<1>8. /\ run' \in [Runners -> RunnerRecords] /\ run'[p].pc = "idle"
      /\ \A q \in Runners : q # p => run'[q] = run[q]
  BY <1>1, <1>7 DEF Record
<1>9. CadenceTypeOK'
  BY <1>1, <1>6, <1>8 DEF CadenceInv, CadenceTypeOK, RunnerRecords, Pcs
<1>10. \A q \in Runners : RunOk(q)' /\ HolderOk(q)'
  <2> SUFFICES ASSUME NEW q \in Runners PROVE RunOk(q)' /\ HolderOk(q)'
    OBVIOUS
  <2>1. CASE q = p
    BY <1>8, <2>1 DEF RunOk, HolderOk, Holding
  <2>2. CASE q # p
    <3>1. RunOk(q) /\ run'[q] = run[q] /\ run[q].pc \notin Holding
      BY <1>1, <1>8, <2>2 DEF CadenceInv, OneHolder, Holding
    <3>2. run[q].pc # "idle" => run[q].plan.used \in Nat /\ run[q].plan.used <= n
      BY <3>1, PlanTyped DEF RunOk, PlanGood
    <3>3. run[q].pc # "idle" => run[q].plan.used <= n + 1 /\ run[q].plan.used # n + 1
      BY <1>1, <3>2
    <3>4. QED
      BY <1>6, <3>1, <3>3 DEF RunOk, HolderOk, PlanGood
  <2>3. QED
    BY <2>1, <2>2
<1>11. OneHolder'
  BY <1>1, <1>8 DEF OneHolder, Holding
<1>12. /\ plan.used = n /\ PlanGood(plan) /\ run[p].started >= plan.checked
       /\ run[p].started < plan.start + plan.policy.window
  BY <1>2 DEF ReservationOk, Mine, PlanFits
<1>13. n > 0 => /\ Last = retained[n] /\ Last.outcome # "failed"
               /\ plan.start = Last.plan.start
               /\ plan.checked >= Last.completed + plan.policy.interval
               /\ plan.checked >= Last.eligible
  BY <1>1, <1>12, <1>6 DEF PlanGood, Last
<1>14. FailureIsLast'
  <2> SUFFICES ASSUME NEW i \in 1 .. n + 1, i < n + 1 PROVE retained'[i].outcome # "failed"
    BY <1>6 DEF FailureIsLast
  <2>1. CASE i = n
    BY <1>6, <1>13, <2>1
  <2>2. CASE i < n
    BY <1>6, <2>2 DEF CadenceInv, FailureIsLast
  <2>3. QED
    BY <1>1, <2>1, <2>2
<1>15. InvokedOk'
  <2>1. \A i \in DOMAIN invoked : invoked[i].wake <= n + 1
    <3>1. \A i \in DOMAIN invoked : invoked[i].wake \in Nat
      BY InvokedTyped DEF CadenceInv
    <3>2. QED
      BY <1>1, <3>1 DEF CadenceInv, InvokedOk
  <2>2. QED
    BY <1>1, <1>6, <2>1 DEF CadenceInv, InvokedOk
<1>16. KeepsItsPolicy'
  <2>1. KeepsItsPolicy
    BY DEF CadenceInv
  <2>2. ASSUME NEW i \in 1 .. n
        PROVE  LET policy == retained'[i].plan.policy IN
               /\ i <= policy.wakes
               /\ retained'[i].started < retained'[i].plan.start + policy.window
               /\ i > 1 =>
                    /\ retained'[i].plan.start = retained'[1].plan.start
                    /\ retained'[i].started >= retained'[i - 1].completed + policy.interval
                    /\ retained'[i].started >= retained'[i - 1].eligible
    <3>1. i > 1 => i - 1 \in 1 .. n
      BY <1>1
    <3>2. 1 \in 1 .. n
      BY <1>1
    <3>3. QED
      BY <1>6, <2>1, <3>1, <3>2 DEF KeepsItsPolicy
  <2>3. /\ plan.policy.wakes \in Nat /\ plan.policy.interval \in Nat
        /\ plan.checked \in Int /\ run[p].started \in Int
    BY <1>1, <1>2, PlanTyped, CadenceAssumption DEF RunOk, Holding, Time
  <2>4. n + 1 <= plan.policy.wakes
    BY <1>1, <1>12, <2>3 DEF PlanGood
  <2>5. ASSUME n + 1 > 1
        PROVE  /\ plan.start = retained'[1].plan.start
               /\ run[p].started >= retained'[n].completed + plan.policy.interval
               /\ run[p].started >= retained'[n].eligible
    <3>1. n \in 1 .. n /\ 1 \in 1 .. n
      BY <1>1, <2>5
    <3>2. retained[n] \in Wakes
      BY <1>5, <3>1
    <3>3. retained[n].completed \in Int /\ retained[n].eligible \in Int
      BY <3>2, CadenceAssumption DEF Wakes, Time, NoTime
    <3>4. retained[n].plan.start = retained[1].plan.start
      BY <1>1, <1>6, <2>1, <3>1 DEF KeepsItsPolicy
    <3>5. retained'[1] = retained[1] /\ retained'[n] = retained[n]
      BY <1>6, <3>1
    <3>6. /\ run[p].started >= plan.checked
          /\ plan.start = retained[n].plan.start
          /\ plan.checked >= retained[n].completed + plan.policy.interval
          /\ plan.checked >= retained[n].eligible
      BY <1>1, <1>12, <1>13, <2>5
    <3>7. plan.start = retained'[1].plan.start
      BY <3>4, <3>5, <3>6
    <3> HIDE DEF plan, n
    <3>8. QED
      BY <2>3, <3>3, <3>5, <3>6, <3>7
  <2>6. QED
    <3>1. n + 1 - 1 = n
      BY <1>1
    <3> HIDE DEF plan
    <3>2. QED
      BY <1>4, <1>6, <1>12, <2>2, <2>4, <2>5, <3>1 DEF KeepsItsPolicy
<1>17. \A r \in openWake' : ReservationOk(r)'
  BY <1>1
<1>18. QED
  BY <1>9, <1>10, <1>11, <1>14, <1>15, <1>16, <1>17 DEF CadenceInv

-----------------------------------------------------------------------------
LEMMA StepKeeps == CadenceInv /\ [CadenceNext]_cadenceVars => CadenceInv'
<1> SUFFICES ASSUME CadenceInv, [CadenceNext]_cadenceVars PROVE CadenceInv'
  OBVIOUS
<1>1. CASE UNCHANGED cadenceVars
  BY <1>1 DEF cadenceVars, CadenceInv, CadenceTypeOK, RunOk, HolderOk, Mine, OneHolder,
              ReservationOk, PlanFits, PlanGood, Last, FailureIsLast, InvokedOk, KeepsItsPolicy
<1>2. CASE Tick
  BY <1>2, TickKeeps
<1>3. ASSUME NEW p \in Runners, Step(p) PROVE CadenceInv'
  BY <1>3, PlanKeeps, ReserveKeeps, InvokeKeeps, ReturnKeeps, RecordKeeps, LoseKeeps
     DEF Step, Outcomes
<1>4. QED
  BY <1>1, <1>2, <1>3 DEF CadenceNext

\* The inductive invariant holds of every behaviour.
THEOREM CadenceInvariant == CadenceSpec => []CadenceInv
BY InitHolds, StepKeeps, PTL DEF CadenceSpec

\* The state keeps its shape, whatever the limits and the policies
\* (daily_eod_cadence_evidence.py).
THEOREM CadenceTypeCorrect == CadenceSpec => []CadenceTypeOK
<1>1. CadenceInv => CadenceTypeOK
  BY DEF CadenceInv
<1>2. QED
  BY <1>1, CadenceInvariant, PTL

\* No wake is replayed, retried or outrun: reserve_cadence_wake and the reservation it
\* leaves open, for any number of runners.
THEOREM NeverReplayed == CadenceSpec => []NoReplay
<1>1. CadenceInv => NoReplay
  <2> SUFFICES ASSUME CadenceInv,
                      NEW i \in DOMAIN invoked, NEW wake \in 1 .. invoked[i].wake - 1
               PROVE  wake \in DOMAIN retained /\ retained[wake].outcome # "failed"
    BY DEF NoReplay, CadenceInv, InvokedOk
  <2> DEFINE n == Len(retained)
  <2>1. /\ n \in Nat /\ DOMAIN retained = 1 .. n /\ invoked[i].wake \in Nat
        /\ wake \in Nat \ {0}
    <3>1. retained \in Seq(Wakes) /\ invoked[i].wake \in Nat
      BY InvokedTyped DEF CadenceInv, CadenceTypeOK
    <3>2. QED
      BY <3>1
  <2>2. CASE wake < n
    BY <2>1, <2>2 DEF CadenceInv, FailureIsLast
  <2>3. CASE wake = n
    <3>1. invoked[i].wake = n + 1 /\ openWake # {}
      BY <2>1, <2>3 DEF CadenceInv, InvokedOk
    <3>2. PICK r \in openWake : ReservationOk(r)
      BY <3>1 DEF CadenceInv
    <3>3. r.plan.used = n /\ PlanGood(r.plan)
      BY <3>2 DEF ReservationOk, PlanFits
    <3>4. retained # <<>>
      BY <2>1, <2>3
    <3>5. QED
      BY <2>1, <2>3, <3>3, <3>4 DEF PlanGood, Last
  <2>4. wake <= n
    <3>1. invoked[i].wake <= n + 1
      BY <2>1 DEF CadenceInv, InvokedOk
    <3>2. wake < invoked[i].wake
      BY <2>1
    <3> HIDE DEF n
    <3>3. QED
      BY <2>1, <3>1, <3>2
  <2>5. wake < n \/ wake = n
    <3> HIDE DEF n
    <3>1. QED
      BY <2>1, <2>4
  <2>6. QED
    BY <2>2, <2>3, <2>5
<1>2. QED
  BY <1>1, CadenceInvariant, PTL

\* At most one transition runs at a time (run_one_pipeline_cadence_wake, which holds no
\* lock while it runs).
THEOREM Serial == CadenceSpec => []OneAtATime
<1>1. CadenceInv => OneAtATime
  BY DEF CadenceInv, OneHolder, OneAtATime, Holding
<1>2. QED
  BY <1>1, CadenceInvariant, PTL

\* Every recorded wake kept the policy its plan was made under: the comparison of
\* transition_wakes_used is enough to refuse every plan that is out of date.
THEOREM PolicyKept == CadenceSpec => []KeepsItsPolicy
<1>1. CadenceInv => KeepsItsPolicy
  BY DEF CadenceInv
<1>2. QED
  BY <1>1, CadenceInvariant, PTL
=============================================================================
