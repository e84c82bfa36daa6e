----------------------- MODULE HistoricalBackfill_proofs -----------------------
(***************************************************************************)
(* Proofs about the continuous backfill, for any calendar, interval, batch *)
(* size, retries, pages, targets and faults.                               *)
(***************************************************************************)
EXTENDS HistoricalBackfill, FiniteSetTheorems, TLAPS

-----------------------------------------------------------------------------
(* The inductive invariant.                                                *)

ProcFields == {"pc", "key", "state", "page", "tries", "part"}

\* The runner is in a page of a package or a target of a plan only while it fetches or
\* publishes.
ProcOk ==
  /\ DOMAIN proc = ProcFields
  /\ proc.pc \in PCs /\ proc.key \in Keys
  /\ proc.page \in 0 .. PageCount(Key) /\ proc.part \in 1 .. PartCount(Key)
  /\ proc.pc \notin {"fetching", "freezing"} => proc.page = 0
  /\ proc.pc \notin {"publishing", "staged"} => proc.part = 1
  /\ proc.tries \in 0 .. MaxRetries

Words == {"absent", "staging", "frozen", "rejected"}

PapersOk ==
  /\ package \in [Keys -> Words]
  /\ plan = [k \in Keys |-> plan[k]]
  /\ \A k \in Keys : plan[k] \in {NoPlan, Artifacts, Bound(plan[k].state)}

RestOk ==
  /\ left \in [FaultKinds -> Nat]
  /\ causes \subseteq {"killed", "exception", "overtaken", "moved"}

TallyFields == {"batch", "made", "start", "counted", "total"}

\* The calls of an invocation are those of its earlier batches and those made in this
\* one, which are counted session by session.
TallyOk ==
  /\ DOMAIN tally = TallyFields
  /\ tally.batch \in 0 .. BatchSize
  /\ tally.made \in Nat /\ tally.start \in Nat /\ tally.counted \in Nat /\ tally.total \in Nat
  /\ calls \in Nat
  /\ proc.pc \notin {"off", "closing"} => tally.batch < BatchSize
  /\ proc.pc # "off" => calls = tally.total + tally.made
  /\ proc.pc \in {"selecting", "closing"} => tally.counted = tally.made
  /\ proc.pc \notin {"off", "selecting", "closing"} => tally.counted = tally.start

ReportOk ==
  /\ report.status \in {"none", "failed", "stopped", "complete"}
  /\ proc.pc # "off" => report = NoReport
  /\ report.status \in {"complete", "stopped"} => report.requests = calls
  /\ report.status = "complete" => Reached

\* The history is a .. b.  Next to it on the right, the daily chain may have put an
\* Identity; next to it on the left, the runner part of one, and it goes on there.
HistoryAt(a, b) ==
  /\ a <= b /\ HistoryEnd <= b /\ eod = a .. b
  /\ identity \in [Days -> 0 .. Parts]
  /\ \A day \in a .. b : identity[day] = Parts
  /\ \A day \in Days : day < a - 1 \/ day > b + 1 => identity[day] = 0
  /\ b + 1 \in Days => identity[b + 1] \in {0, Parts}
  /\ proc.pc \notin {"off", "selecting", "closing"} => proc.key[2] \in {a - 1, a}
  /\ proc.pc \in {"publishing", "staged"} =>
       /\ proc.key[2] = a - 1
       /\ identity[a - 1] = IF proc.key[1] = "identity" THEN proc.part - 1 ELSE Parts

HistoryOk == \E a, b \in Days : HistoryAt(a, b)

IInv == ProcOk /\ PapersOk /\ RestOk /\ TallyOk /\ ReportOk /\ HistoryOk

-----------------------------------------------------------------------------
(* Constants and intervals.                                                *)

LEMMA Constants ==
  /\ MaxDay \in Nat /\ HistoryStart \in Nat /\ HistoryEnd \in Nat /\ TargetFirst \in Nat
  /\ 1 <= TargetFirst /\ TargetFirst < HistoryStart /\ HistoryStart <= HistoryEnd
  /\ HistoryEnd <= MaxDay
  /\ BatchSize \in Nat /\ BatchSize >= 1 /\ Pages \in Nat /\ Pages >= 1
  /\ Parts \in Nat /\ Parts >= 1 /\ MaxRetries \in Nat
  /\ TargetCount = HistoryEnd - TargetFirst + 1
BY CalendarAssumption, BoundsAssumption DEF TargetCount

LEMMA Ends ==
  ASSUME NEW a \in Int, NEW b \in Int, a <= b
  PROVE  Min(a .. b) = a /\ Max(a .. b) = b
<1>1. a \in a .. b /\ \A y \in a .. b : a <= y
  OBVIOUS
<1>2. b \in a .. b /\ \A y \in a .. b : b >= y
  OBVIOUS
<1>3. \A x \in a .. b : (\A y \in a .. b : x <= y) => x = a
  OBVIOUS
<1>4. \A x \in a .. b : (\A y \in a .. b : x >= y) => x = b
  OBVIOUS
<1>5. QED
  BY <1>1, <1>2, <1>3, <1>4 DEF Min, Max

LEMMA KeyParts ==
  /\ \A k \in Keys : k = <<k[1], k[2]>> /\ k[1] \in {"identity", "eod"} /\ k[2] \in Days
  /\ \A day \in Days : <<"identity", day>> \in Keys /\ <<"eod", day>> \in Keys
BY DEF Keys

LEMMA Counts == \A k \in Keys : PageCount(k) \in Nat \ {0} /\ PartCount(k) \in Nat \ {0}
BY Constants DEF PageCount, PartCount

\* What a history a .. b is short of, the next session to the left.
LEMMA NextIsLeft ==
  ASSUME NEW a \in Days, NEW b \in Days, HistoryAt(a, b)
  PROVE  /\ Min(eod) = a /\ Max(eod) = b
         /\ NextSession = a - 1
         /\ Selectable /\ ~ Reached => a - 1 \in Days
<1>1. a \in Int /\ b \in Int /\ a <= b /\ eod = a .. b /\ HistoryEnd <= b
  BY Constants DEF Days, HistoryAt
<1>2. Min(eod) = a /\ Max(eod) = b
  BY <1>1, Ends
<1>3. Cardinality(eod) = b - a + 1
  BY <1>1, FS_Interval
<1>4. ASSUME Selectable, ~ Reached PROVE a - 1 \in Days
  <2>1. CASE mode = "interval"
    <3>1. b = HistoryEnd /\ TargetFirst \notin a .. b
      BY <1>1, <1>2, <1>4, <2>1 DEF Selectable, Reached
    <3>2. QED
      BY <1>1, <3>1, Constants DEF Days
  <2>2. CASE mode # "interval"
    <3>1. b - a + 1 < TargetCount
      BY <1>1, <1>3, <1>4, <2>2, Constants DEF Reached
    <3>2. QED
      BY <1>1, <3>1, Constants DEF Days
  <2>3. QED
    BY <2>1, <2>2
<1>5. QED
  BY <1>2, <1>4 DEF NextSession

-----------------------------------------------------------------------------
(* The first state.                                                        *)

LEMMA Initially == Init => IInv
<1> SUFFICES ASSUME Init PROVE IInv
  OBVIOUS
<1>1. ProcOk
  <2>1. DOMAIN proc = ProcFields /\ proc.pc = "off" /\ proc.key = <<"identity", HistoryEnd>>
        /\ proc.page = 0 /\ proc.tries = 0 /\ proc.part = 1
    BY DEF Init, Off, ProcFields
  <2>2. proc.key \in Keys
    <3>1. HistoryEnd \in Days
      BY Constants DEF Days
    <3>2. QED
      BY <2>1, <3>1, KeyParts
  <2>3. proc.page \in 0 .. PageCount(Key) /\ proc.part \in 1 .. PartCount(Key)
    <3>1. PageCount(Key) \in Nat \ {0} /\ PartCount(Key) \in Nat \ {0}
      BY <2>2, Counts DEF Key
    <3>2. QED
      BY <2>1, <3>1
  <2>4. QED
    BY <2>1, <2>2, <2>3, Constants DEF ProcOk, PCs
<1>2. PapersOk
  BY DEF Init, PapersOk, Words
<1>3. RestOk
  BY BoundsAssumption DEF Init, RestOk
<1>4. TallyOk
  BY Constants DEF Init, Off, TallyOk, NoTally, TallyFields
<1>5. ReportOk
  BY DEF Init, ReportOk, Off, NoReport
<1>6. HistoryAt(HistoryStart, HistoryEnd)
  BY Constants DEF Init, HistoryAt, Off, Days
<1>7. HistoryOk
  BY <1>6, Constants DEF HistoryOk, Days
<1>8. QED
  BY <1>1, <1>2, <1>3, <1>4, <1>5, <1>7 DEF IInv

-----------------------------------------------------------------------------
(* The papers, the faults and the causes.                                  *)

LEMMA PaperChange ==
  ASSUME PapersOk, NEW k \in Keys, NEW word \in Words, NEW new,
         new \in {NoPlan, Artifacts, Bound(new.state)},
         package' = package \/ package' = [package EXCEPT ![k] = word],
         plan' = plan \/ plan' = [plan EXCEPT ![k] = new]
  PROVE  PapersOk'
<1>1. package' \in [Keys -> Words]
  BY DEF PapersOk
<1>2. plan' = [i \in Keys |-> plan'[i]]
  BY DEF PapersOk
<1>3. \A i \in Keys : plan'[i] = plan[i] \/ plan'[i] = new
  BY DEF PapersOk
<1>4. \A i \in Keys : plan'[i] \in {NoPlan, Artifacts, Bound(plan'[i].state)}
  BY <1>3 DEF PapersOk
<1>5. QED
  BY <1>1, <1>2, <1>4 DEF PapersOk

LEMMA PapersStep == IInv /\ [Next]_vars => PapersOk'
<1> SUFFICES ASSUME IInv, [Next]_vars PROVE PapersOk'
  OBVIOUS
<1> USE DEF Key
<1>1. PapersOk /\ proc.key \in Keys
  BY DEF IInv, ProcOk
<1>2. NoPlan \in {NoPlan, Artifacts, Bound(NoPlan.state)}
  OBVIOUS
<1>3. Artifacts \in {NoPlan, Artifacts, Bound(Artifacts.state)}
  OBVIOUS
<1>4. \A state : Bound(state) \in {NoPlan, Artifacts, Bound(Bound(state).state)}
  BY DEF Bound
<1>5. {"absent", "staging", "frozen", "rejected"} \subseteq Words
  BY DEF Words
<1>6. CASE Freeze
  BY <1>1, <1>2, <1>5, <1>6, PaperChange DEF Freeze
<1>7. CASE Freezed
  <2>1. \E word \in Words : package' = [package EXCEPT ![Key] = word]
    BY <1>5, <1>7 DEF Freezed
  <2>2. plan' = plan
    BY <1>7 DEF Freezed
  <2>3. QED
    BY <1>1, <1>2, <2>1, <2>2, PaperChange
<1>8. CASE EnsurePlan
  BY <1>1, <1>3, <1>5, <1>8, PaperChange DEF EnsurePlan
<1>9. CASE Build
  <2>1. package' = package
    BY <1>9 DEF Build
  <2>2. CASE plan' = [plan EXCEPT ![Key] = NoPlan]
    BY <1>1, <1>2, <1>5, <2>1, <2>2, PaperChange
  <2>3. CASE plan' = [plan EXCEPT ![Key] = Bound(proc.state)]
    <3>1. Bound(proc.state) \in {NoPlan, Artifacts, Bound(Bound(proc.state).state)}
      BY <1>4
    <3>2. /\ package' \in [Keys -> Words] /\ plan' = [k \in Keys |-> plan'[k]]
          /\ \A k \in Keys : plan'[k] = plan[k] \/ plan'[k] = Bound(proc.state)
      BY <1>1, <2>1, <2>3 DEF PapersOk
    <3>3. \A k \in Keys : plan'[k] \in {NoPlan, Artifacts, Bound(plan'[k].state)}
      BY <1>1, <3>1, <3>2 DEF PapersOk
    <3>4. QED
      BY <3>2, <3>3 DEF PapersOk
  <2>4. QED
    BY <1>9, <2>2, <2>3 DEF Build, RejectedPlan
<1>10. CASE Permanent
  BY <1>1, <1>2, <1>5, <1>10, PaperChange DEF Permanent
<1>11. CASE Admit
  <2>1. PICK k \in Keys : package' = [package EXCEPT ![k] = "frozen"]
    BY <1>11 DEF Admit
  <2>2. plan' = plan
    BY <1>11 DEF Admit
  <2>3. QED
    BY <1>1, <1>2, <1>5, <2>1, <2>2, PaperChange
<1>12. CASE UNCHANGED papers
  <2>1. package' = package /\ plan' = plan
    BY <1>12 DEF papers
  <2>2. QED
    BY <1>1, <2>1 DEF PapersOk
<1>13. QED
  BY <1>6, <1>7, <1>8, <1>9, <1>10, <1>11, <1>12
  DEF Next, Runner, vars, Start, Select, Enter, FetchPage, TakeState, Lock, Stage, Publish,
      Boundary, Close, Transient, HalfDone, Kill, ResearchWrite, DailyWrite, papers

LEMMA RestStep == IInv /\ [Next]_vars => RestOk'
<1> SUFFICES ASSUME IInv, [Next]_vars PROVE RestOk'
  OBVIOUS
<1>1. RestOk
  BY DEF IInv
<1>2. ASSUME NEW kind \in FaultKinds, Fault(kind) PROVE left' \in [FaultKinds -> Nat]
  <2>1. kind \in FaultKinds /\ "any" \in FaultKinds
    BY DEF FaultKinds
  <2>2. \A f \in FaultKinds : left[f] \in Nat
    BY <1>1 DEF RestOk
  <2>3. left[kind] - 1 \in Nat /\ left["any"] - 1 \in Nat
    BY <1>2, <2>1, <2>2 DEF Fault
  <2>4. QED
    BY <1>1, <1>2, <2>1, <2>2, <2>3 DEF Fault, RestOk
<1>3. {"transient", "permanent", "rejected", "exception", "kill", "research"} \subseteq FaultKinds
  BY DEF FaultKinds
<1>4. left' \in [FaultKinds -> Nat]
  <2>1. CASE UNCHANGED left
    BY <1>1, <2>1 DEF RestOk
  <2>2. CASE Transient
    BY <1>2, <1>3, <2>2 DEF Transient
  <2>3. CASE Permanent
    BY <1>2, <1>3, <2>3 DEF Permanent
  <2>4. CASE HalfDone
    BY <1>2, <1>3, <2>4 DEF HalfDone
  <2>5. CASE Kill
    BY <1>2, <1>3, <2>5 DEF Kill
  <2>6. CASE ResearchWrite
    BY <1>2, <1>3, <2>6 DEF ResearchWrite
  <2>7. CASE Freezed /\ ~ UNCHANGED left
    BY <1>2, <1>3, <2>7 DEF Freezed
  <2>8. QED
    BY <2>1, <2>2, <2>3, <2>4, <2>5, <2>6, <2>7
    DEF Next, Runner, vars, Start, Select, Enter, FetchPage, Freeze, TakeState,
        EnsurePlan, Build, Lock, Stage, Publish, Boundary, Close, DailyWrite, Admit
<1>5. causes' \subseteq causes \cup {"killed", "exception", "overtaken", "moved"}
  BY DEF Next, Runner, vars, Start, Select, Enter, FetchPage, Freeze, Freezed, TakeState,
         EnsurePlan, Build, Lock, Stage, Publish, Boundary, Close, DailyWrite, Transient,
         Permanent, HalfDone, Kill, ResearchWrite, Overtaking, Admit
<1>6. QED
  BY <1>1, <1>4, <1>5 DEF RestOk
-----------------------------------------------------------------------------
(* The runner.                                                             *)

LEMMA OffIs ==
  /\ DOMAIN Off = ProcFields
  /\ Off.pc = "off" /\ Off.key = <<"identity", HistoryEnd>> /\ Off.key \in Keys
  /\ Off.page = 0 /\ Off.tries = 0 /\ Off.part = 1
<1>1. HistoryEnd \in Days
  BY Constants DEF Days
<1>2. QED
  BY <1>1, KeyParts DEF Off, ProcFields

LEMMA ProcChange ==
  ASSUME DOMAIN proc' = ProcFields, proc'.pc \in PCs, proc'.key \in Keys,
         proc'.tries \in 0 .. MaxRetries,
         \/ proc'.page = 0
         \/ proc'.pc \in {"fetching", "freezing"} /\ proc'.page \in 0 .. PageCount(proc'.key),
         \/ proc'.part = 1
         \/ proc'.pc \in {"publishing", "staged"} /\ proc'.part \in 1 .. PartCount(proc'.key)
  PROVE  ProcOk'
<1>1. PageCount(proc'.key) \in Nat \ {0} /\ PartCount(proc'.key) \in Nat \ {0}
  BY Counts
<1>2. proc'.page \in 0 .. PageCount(proc'.key) /\ proc'.part \in 1 .. PartCount(proc'.key)
  BY <1>1
<1>3. PageCount(Key)' = PageCount(proc'.key) /\ PartCount(Key)' = PartCount(proc'.key)
  BY DEF Key, PageCount, PartCount
<1>4. QED
  BY <1>2, <1>3 DEF ProcOk

LEMMA OffOk == proc' = Off => ProcOk'
BY OffIs, Constants, ProcChange DEF PCs

LEMMA ProcStep == IInv /\ [Next]_vars => ProcOk'
<1> SUFFICES ASSUME IInv, [Next]_vars PROVE ProcOk'
  OBVIOUS
<1>1. /\ DOMAIN proc = ProcFields /\ proc.pc \in PCs /\ proc.key \in Keys
      /\ proc.page \in 0 .. PageCount(proc.key) /\ proc.part \in 1 .. PartCount(proc.key)
      /\ proc.pc \notin {"fetching", "freezing"} => proc.page = 0
      /\ proc.pc \notin {"publishing", "staged"} => proc.part = 1
      /\ proc.tries \in 0 .. MaxRetries
  BY DEF IInv, ProcOk, Key
<1>2. \A pc : Goto(pc) => /\ DOMAIN proc' = ProcFields
                          /\ proc'.pc = pc /\ proc'.key = proc.key /\ proc'.page = proc.page
                          /\ proc'.tries = proc.tries /\ proc'.part = proc.part
  BY <1>1 DEF Goto, ProcFields
<1>3. \A pc : Goto(pc) /\ pc \in PCs /\ proc.pc \notin {"fetching", "freezing", "publishing", "staged"}
              => ProcOk'
  BY <1>1, <1>2, ProcChange
<1>4. Raise => ProcOk'
  BY OffOk DEF Raise
<1>5. /\ Off.pc = "off" /\ DOMAIN Off = ProcFields
      /\ {"selecting", "entering", "fetching", "packaged", "planning", "building", "waiting",
          "publishing", "boundary", "closing", "staged", "freezing"} \subseteq PCs
  BY OffIs DEF PCs
<1>6. CASE UNCHANGED proc
  BY <1>1, <1>6, ProcChange
<1>7. CASE Start
  <2>1. /\ DOMAIN proc' = ProcFields /\ proc'.pc = "selecting" /\ proc'.key = Off.key
        /\ proc'.page = 0 /\ proc'.tries = 0 /\ proc'.part = 1
    BY <1>7, OffIs DEF Start, ProcFields
  <2>2. QED
    BY <2>1, <1>5, OffIs, Constants, ProcChange
<1>8. CASE Select
  <2>1. CASE Raise
    BY <2>1, <1>4
  <2>2. CASE Goto("closing")
    BY <2>2, <1>3, <1>5, <1>8 DEF Select
  <2>3. CASE Selectable /\ ~ Reached /\ ~ Raise /\ ~ Goto("closing")
    <3>1. /\ DOMAIN proc' = ProcFields /\ proc'.pc = "entering"
          /\ proc'.key = <<"identity", NextSession>>
          /\ proc'.page = 0 /\ proc'.tries = 0 /\ proc'.part = 1
      BY <1>1, <1>8, <2>3 DEF Select, ProcFields
    <3>2. PICK a \in Days, b \in Days : HistoryAt(a, b)
      BY DEF IInv, HistoryOk
    <3>3. NextSession \in Days
      BY <2>3, <3>2, NextIsLeft
    <3>4. <<"identity", NextSession>> \in Keys
      BY <3>3, KeyParts
    <3>5. proc'.tries \in 0 .. MaxRetries
      BY <3>1, Constants
    <3>6. QED
      BY <1>5, <3>1, <3>4, <3>5, ProcChange
  <2>4. QED
    BY <2>1, <2>2, <2>3, <1>8 DEF Select
<1>9. CASE Enter
  <2>1. CASE Raise
    BY <2>1, <1>4
  <2>2. CASE Goto("packaged")
    BY <2>2, <1>3, <1>5, <1>9 DEF Enter
  <2>3. CASE proc' = [proc EXCEPT !.key = <<"eod", Day>>]
    <3>1. /\ DOMAIN proc' = ProcFields /\ proc'.pc = proc.pc /\ proc'.key = <<"eod", proc.key[2]>>
          /\ proc'.page = proc.page /\ proc'.tries = proc.tries /\ proc'.part = proc.part
      BY <1>1, <2>3 DEF ProcFields, Day, Key
    <3>2. proc'.key \in Keys
      BY <1>1, <3>1, KeyParts
    <3>3. proc'.page = 0 /\ proc'.part = 1
      BY <1>1, <1>9, <3>1 DEF Enter
    <3>4. QED
      BY <1>1, <3>1, <3>2, <3>3, ProcChange
  <2>4. CASE proc' = [proc EXCEPT !.pc = "boundary"]
    BY <2>4, <1>3, <1>5, <1>9 DEF Enter, Goto
  <2>5. CASE proc' = [proc EXCEPT !.pc = "fetching", !.page = 0]
    <3>1. /\ DOMAIN proc' = ProcFields /\ proc'.pc = "fetching" /\ proc'.key = proc.key
          /\ proc'.page = 0 /\ proc'.tries = proc.tries /\ proc'.part = proc.part
      BY <1>1, <2>5 DEF ProcFields
    <3>2. proc'.part = 1
      BY <1>1, <1>9, <3>1 DEF Enter
    <3>3. QED
      BY <1>1, <1>5, <3>1, <3>2, ProcChange
  <2>6. QED
    BY <2>1, <2>2, <2>3, <2>4, <2>5, <1>9 DEF Enter
<1>10. CASE FetchPage
  <2>1. /\ DOMAIN proc' = ProcFields /\ proc'.pc = "fetching" /\ proc'.key = proc.key
        /\ proc'.page = proc.page + 1 /\ proc'.tries = proc.tries /\ proc'.part = 1
    BY <1>1, <1>10 DEF FetchPage, ProcFields
  <2>2. proc'.page \in 0 .. PageCount(proc.key)
    <3>1. PageCount(proc.key) \in Nat
      BY <1>1, Counts
    <3>2. QED
      BY <1>1, <1>10, <2>1, <3>1 DEF FetchPage, Key
  <2>3. QED
    BY <1>1, <1>5, <2>1, <2>2, ProcChange
<1>11. CASE Freeze
  <2>1. CASE Raise
    BY <2>1, <1>4
  <2>2. CASE Goto("freezing")
    BY <1>1, <1>2, <1>5, <1>11, <2>2, ProcChange DEF Freeze
  <2>3. QED
    BY <2>1, <2>2, <1>11 DEF Freeze
<1>12. CASE Freezed
  <2>1. /\ DOMAIN proc' = ProcFields /\ proc'.pc = "packaged" /\ proc'.key = proc.key
        /\ proc'.page = 0 /\ proc'.tries = proc.tries /\ proc'.part = proc.part
    BY <1>1, <1>12 DEF Freezed, ProcFields
  <2>2. proc.part = 1
    BY <1>1, <1>12 DEF Freezed
  <2>3. QED
    BY <1>1, <1>5, <2>1, <2>2, ProcChange
<1>13. CASE TakeState
  <2>1. /\ DOMAIN proc' = ProcFields /\ proc'.pc = "planning" /\ proc'.key = proc.key
        /\ proc'.page = proc.page /\ proc'.tries = proc.tries /\ proc'.part = proc.part
    BY <1>1, <1>13 DEF TakeState, ProcFields
  <2>2. proc.part = 1 /\ proc.page = 0
    BY <1>1, <1>13 DEF TakeState
  <2>3. QED
    BY <1>1, <1>5, <2>1, <2>2, ProcChange
<1>14. CASE EnsurePlan
  BY <1>3, <1>4, <1>5, <1>14 DEF EnsurePlan
<1>15. CASE Build
  BY <1>3, <1>4, <1>5, <1>15 DEF Build
<1>16. CASE Lock
  <2>1. CASE Raise
    BY <2>1, <1>4
  <2>2. CASE proc' = [proc EXCEPT !.pc = "publishing", !.state = NoInventory]
    <3>1. /\ DOMAIN proc' = ProcFields /\ proc'.pc = "publishing" /\ proc'.key = proc.key
          /\ proc'.page = proc.page /\ proc'.tries = proc.tries /\ proc'.part = proc.part
      BY <1>1, <2>2 DEF ProcFields
    <3>2. proc.page = 0
      BY <1>1, <1>16 DEF Lock
    <3>3. QED
      BY <1>1, <1>5, <3>1, <3>2, ProcChange
  <2>3. QED
    BY <2>1, <2>2, <1>16 DEF Lock
<1>17. CASE Stage
  <2>1. CASE Raise
    BY <2>1, <1>4
  <2>2. CASE Goto("staged")
    BY <1>1, <1>2, <1>5, <1>17, <2>2, ProcChange DEF Stage
  <2>3. QED
    BY <2>1, <2>2, <1>17 DEF Stage
<1>18. CASE Publish
  <2>1. /\ DOMAIN proc' = ProcFields /\ proc'.key = proc.key
        /\ proc'.page = 0 /\ proc'.tries = proc.tries
        /\ proc'.pc = (IF proc.part = PartCount(proc.key) THEN "entering" ELSE "publishing")
        /\ proc'.part = (IF proc.part = PartCount(proc.key) THEN 1 ELSE proc.part + 1)
    BY <1>1, <1>18 DEF Publish, ProcFields, Key
  <2>2. CASE proc.part = PartCount(proc.key)
    BY <1>1, <1>5, <2>1, <2>2, ProcChange
  <2>3. CASE proc.part # PartCount(proc.key)
    <3>1. PartCount(proc.key) \in Nat
      BY <1>1, Counts
    <3>2. proc'.part \in 1 .. PartCount(proc'.key)
      BY <1>1, <2>1, <2>3, <3>1
    <3>3. QED
      BY <1>1, <1>5, <2>1, <2>3, <3>2, ProcChange
  <2>4. QED
    BY <2>2, <2>3
<1>19. CASE Boundary
  <2>1. CASE Raise
    BY <2>1, <1>4
  <2>2. CASE Goto("closing") \/ Goto("selecting")
    BY <2>2, <1>3, <1>5, <1>19 DEF Boundary
  <2>3. QED
    BY <2>1, <2>2, <1>19 DEF Boundary
<1>20. CASE Close
  BY <1>3, <1>4, <1>5, <1>20, OffOk DEF Close
<1>21. CASE Transient
  <2>1. CASE proc' = Off
    BY <2>1, OffOk
  <2>2. CASE MayRetry /\ proc' # Off
    <3>1. /\ DOMAIN proc' = ProcFields /\ proc'.pc = "entering"
          /\ proc'.key = <<"identity", proc.key[2]>>
          /\ proc'.page = 0 /\ proc'.tries = proc.tries + 1 /\ proc'.part = 1
      BY <1>1, <1>21, <2>2 DEF Transient, ProcFields, Day, Key
    <3>2. proc'.key \in Keys
      BY <1>1, <3>1, KeyParts
    <3>3. proc'.tries \in 0 .. MaxRetries
      BY <1>1, <2>2, <3>1, Constants DEF MayRetry
    <3>4. QED
      BY <1>5, <3>1, <3>2, <3>3, ProcChange
  <2>3. QED
    BY <2>1, <2>2, <1>21 DEF Transient
<1>22. CASE Permanent \/ HalfDone
  BY <1>4, <1>22 DEF Permanent, HalfDone
<1>23. CASE Kill
  BY <1>23, OffOk DEF Kill
<1>24. QED
  BY <1>6, <1>7, <1>8, <1>9, <1>10, <1>11, <1>12, <1>13, <1>14, <1>15, <1>16, <1>17, <1>18,
     <1>19, <1>20, <1>21, <1>22, <1>23
  DEF Next, Runner, vars, ResearchWrite, DailyWrite, Admit
-----------------------------------------------------------------------------
(* The requests.                                                           *)

\* The counters while the runner only moves on, within a session or between two.
LEMMA TallyKept ==
  ASSUME TallyOk, tally' = tally, calls' = calls,
         \/ proc'.pc = "off"
         \/ proc.pc = "selecting" /\ proc'.pc = "closing"
         \/ /\ proc.pc \notin {"off", "selecting", "closing"}
            /\ proc'.pc \notin {"off", "selecting", "closing"}
         \/ proc'.pc = proc.pc
  PROVE  TallyOk'
BY DEF TallyOk

\* A provider call.
LEMMA TallyCalled ==
  ASSUME TallyOk, Call, proc.pc \notin {"off", "selecting", "closing"},
         proc'.pc \notin {"selecting", "closing"}
  PROVE  TallyOk'
<1>1. /\ DOMAIN tally' = TallyFields /\ tally'.batch = tally.batch
      /\ tally'.made = tally.made + 1 /\ tally'.start = tally.start
      /\ tally'.counted = tally.counted /\ tally'.total = tally.total
      /\ calls' = calls + 1
  BY DEF Call, TallyOk, TallyFields
<1>2. QED
  BY <1>1 DEF TallyOk

LEMMA TallyStep == IInv /\ [Next]_vars => TallyOk'
<1> SUFFICES ASSUME IInv, [Next]_vars PROVE TallyOk'
  OBVIOUS
<1>1. /\ TallyOk /\ DOMAIN proc = ProcFields /\ proc.pc \in PCs
      /\ Off.pc = "off" /\ DOMAIN Off = ProcFields
  BY OffIs DEF IInv, ProcOk
<1>2. \A pc : Goto(pc) => proc'.pc = pc
  BY <1>1 DEF Goto, ProcFields
<1>3. Raise => proc'.pc = "off"
  BY <1>1 DEF Raise
<1>5. CASE UNCHANGED <<proc, tally, calls>>
  BY <1>1, <1>5, TallyKept
<1>6. CASE Start
  <2>1. proc'.pc = "selecting" /\ tally' = NoTally /\ calls' = 0
    BY <1>1, <1>6 DEF Start, ProcFields
  <2>2. QED
    BY <2>1, Constants DEF TallyOk, NoTally, TallyFields
<1>7. CASE Select
  <2>1. CASE UNCHANGED tally /\ (Raise \/ Goto("closing"))
    BY <1>1, <1>2, <1>3, <1>7, <2>1, TallyKept DEF Select
  <2>2. CASE /\ proc' = [proc EXCEPT !.pc = "entering", !.key = <<"identity", NextSession>>,
                                     !.tries = 0]
             /\ tally' = [tally EXCEPT !.start = tally.made]
    <3>1. proc'.pc = "entering" /\ proc.pc = "selecting" /\ calls' = calls
      BY <1>1, <1>7, <2>2 DEF Select, ProcFields
    <3>2. /\ DOMAIN tally' = TallyFields /\ tally'.batch = tally.batch
          /\ tally'.made = tally.made /\ tally'.start = tally.made
          /\ tally'.counted = tally.counted /\ tally'.total = tally.total
      BY <1>1, <2>2 DEF TallyOk, TallyFields
    <3>3. QED
      BY <1>1, <3>1, <3>2 DEF TallyOk
  <2>3. QED
    BY <2>1, <2>2, <1>7 DEF Select
<1>8. CASE Enter
  <2>1. proc.pc = "entering" /\ tally' = tally /\ calls' = calls
    BY <1>8 DEF Enter
  <2>2. proc'.pc \in {"entering", "boundary", "packaged", "off", "fetching"}
    <3>1. CASE Raise \/ Goto("packaged")
      BY <1>2, <1>3, <3>1
    <3>2. CASE proc' = [proc EXCEPT !.key = <<"eod", Day>>]
      BY <1>1, <2>1, <3>2 DEF ProcFields
    <3>3. CASE proc' = [proc EXCEPT !.pc = "boundary"]
      BY <1>1, <3>3 DEF ProcFields
    <3>4. CASE proc' = [proc EXCEPT !.pc = "fetching", !.page = 0]
      BY <1>1, <3>4 DEF ProcFields
    <3>5. QED
      BY <3>1, <3>2, <3>3, <3>4, <1>8 DEF Enter
  <2>3. QED
    BY <1>1, <2>1, <2>2, TallyKept
<1>9. CASE FetchPage
  <2>1. proc.pc = "fetching" /\ proc'.pc = "fetching" /\ Call
    BY <1>1, <1>9 DEF FetchPage, ProcFields
  <2>2. QED
    BY <1>1, <2>1, TallyCalled
<1>10. CASE Freeze \/ Freezed \/ TakeState \/ EnsurePlan \/ Build \/ Lock \/ Stage \/ Publish
  <2>1. UNCHANGED <<tally, calls>>
    BY <1>10 DEF Freeze, Freezed, TakeState, EnsurePlan, Build, Lock, Stage, Publish
  <2>2. proc.pc \notin {"off", "selecting", "closing"}
    BY <1>10 DEF Freeze, Freezed, TakeState, EnsurePlan, Build, Lock, Stage, Publish
  <2>3. proc'.pc \notin {"selecting", "closing"}
    <3>1. CASE Freeze \/ EnsurePlan \/ Build \/ Stage
      BY <1>2, <1>3, <3>1 DEF Freeze, EnsurePlan, Build, Stage
    <3>2. CASE Freezed
      BY <1>1, <3>2 DEF Freezed, ProcFields
    <3>3. CASE TakeState
      BY <1>1, <3>3 DEF TakeState, ProcFields
    <3>4. CASE Lock
      <4>1. CASE Raise
        BY <1>3, <4>1
      <4>2. CASE proc' = [proc EXCEPT !.pc = "publishing", !.state = NoInventory]
        BY <1>1, <4>2 DEF ProcFields
      <4>3. QED
        BY <4>1, <4>2, <3>4 DEF Lock
    <3>5. CASE Publish
      BY <1>1, <3>5 DEF Publish, ProcFields
    <3>6. QED
      BY <3>1, <3>2, <3>3, <3>4, <3>5, <1>10
  <2>4. QED
    BY <1>1, <2>1, <2>2, <2>3, TallyKept
<1>11. CASE Boundary
  <2>1. CASE Raise /\ UNCHANGED tally
    BY <1>1, <1>3, <1>11, <2>1, TallyKept DEF Boundary
  <2>2. CASE ~ (Raise /\ UNCHANGED tally)
    <3>1. /\ proc.pc = "boundary" /\ calls' = calls
          /\ proc'.pc = IF tally.batch + 1 = BatchSize THEN "closing" ELSE "selecting"
      BY <1>2, <1>11, <2>2 DEF Boundary
    <3>2. /\ DOMAIN tally' = TallyFields /\ tally'.batch = tally.batch + 1
          /\ tally'.made = tally.made /\ tally'.start = tally.start
          /\ tally'.counted = tally.counted + tally.made - tally.start
          /\ tally'.total = tally.total
      BY <1>1, <1>11, <2>2 DEF Boundary, TallyOk, TallyFields
    <3>3. /\ tally.counted = tally.start /\ tally.batch < BatchSize
          /\ calls = tally.total + tally.made
      BY <1>1, <3>1 DEF TallyOk
    <3>4. tally'.counted = tally'.made /\ tally'.batch \in 0 .. BatchSize
          /\ (tally.batch + 1 # BatchSize => tally'.batch < BatchSize)
      BY <1>1, <3>2, <3>3, Constants DEF TallyOk
    <3>5. QED
      BY <1>1, <3>1, <3>2, <3>3, <3>4 DEF TallyOk
  <2>3. QED
    BY <2>1, <2>2
<1>12. CASE Close
  <2>1. CASE UNCHANGED tally /\ proc'.pc = "off"
    BY <1>1, <1>12, <2>1, TallyKept DEF Close
  <2>2. CASE ~ (UNCHANGED tally /\ proc'.pc = "off")
    <3>1. /\ proc.pc = "closing" /\ proc'.pc = "selecting" /\ calls' = calls
          /\ tally' = [NoTally EXCEPT !.total = tally.total + tally.counted]
      BY <1>1, <1>2, <1>3, <1>12, <2>2 DEF Close
    <3>2. /\ DOMAIN tally' = TallyFields /\ tally'.batch = 0 /\ tally'.made = 0
          /\ tally'.start = 0 /\ tally'.counted = 0
          /\ tally'.total = tally.total + tally.counted
      BY <3>1 DEF NoTally, TallyFields
    <3>3. tally.counted = tally.made /\ calls = tally.total + tally.made
      BY <1>1, <3>1 DEF TallyOk
    <3>4. QED
      BY <1>1, <3>1, <3>2, <3>3, Constants DEF TallyOk
  <2>3. QED
    BY <2>1, <2>2
<1>13. CASE Transient
  <2>1. proc.pc = "fetching" /\ Call
    BY <1>13 DEF Transient
  <2>2. proc'.pc \in {"entering", "off"}
    <3>1. CASE proc' = Off
      BY <1>1, <3>1
    <3>2. CASE proc' = [proc EXCEPT !.pc = "entering", !.key = <<"identity", Day>>,
                                    !.page = 0, !.tries = @ + 1]
      BY <1>1, <3>2 DEF ProcFields
    <3>3. QED
      BY <3>1, <3>2, <1>13 DEF Transient
  <2>3. QED
    BY <1>1, <2>1, <2>2, TallyCalled
<1>14. CASE Permanent
  BY <1>1, <1>3, <1>14, TallyKept, TallyCalled DEF Permanent
<1>15. CASE HalfDone \/ Kill
  BY <1>1, <1>3, <1>15, TallyKept DEF HalfDone, Kill
<1>16. QED
  BY <1>5, <1>6, <1>7, <1>8, <1>9, <1>10, <1>11, <1>12, <1>13, <1>14, <1>15
  DEF Next, Runner, vars, ResearchWrite, DailyWrite, Admit
-----------------------------------------------------------------------------
(* The history.                                                            *)

\* The runner moves on and publishes nothing.
LEMMA HistoryKept ==
  ASSUME NEW a \in Days, NEW b \in Days, HistoryAt(a, b), identity' = identity, eod' = eod,
         \/ proc'.pc \in {"off", "selecting", "closing"}
         \/ /\ proc'.key[2] \in {a - 1, a}
            /\ proc'.pc \notin {"publishing", "staged"}
         \/ /\ proc'.key = proc.key /\ proc'.part = proc.part
            /\ proc'.pc \in {"publishing", "staged"} /\ proc.pc \in {"publishing", "staged"}
  PROVE  HistoryOk'
<1>1. HistoryAt(a, b)'
  BY DEF HistoryAt
<1>2. QED
  BY <1>1 DEF HistoryOk, Days

\* An action that stays in the session and outside the Apply.
LEMMA SessionKept ==
  ASSUME HistoryOk, identity' = identity, eod' = eod,
         \/ proc'.pc \in {"off", "selecting", "closing"}
         \/ /\ proc.pc \notin {"off", "selecting", "closing"}
            /\ proc'.key[2] = proc.key[2]
            /\ proc'.pc \notin {"publishing", "staged"}
  PROVE  HistoryOk'
<1>1. PICK a \in Days, b \in Days : HistoryAt(a, b)
  BY DEF HistoryOk
<1>2. proc.pc \notin {"off", "selecting", "closing"} => proc.key[2] \in {a - 1, a}
  BY <1>1 DEF HistoryAt
<1>3. QED
  BY <1>1, <1>2, HistoryKept

LEMMA LockStep == IInv /\ Lock => HistoryOk'
<1> SUFFICES ASSUME IInv, Lock PROVE HistoryOk'
  OBVIOUS
<1>1. CASE Raise
  BY <1>1, OffIs, SessionKept DEF IInv, Lock, Raise, disk
<1>2. CASE ~ Raise
  <2>1. PICK a \in Days, b \in Days : HistoryAt(a, b)
    BY DEF IInv, HistoryOk
  <2>2. /\ proc.pc = "waiting" /\ proc.part = 1 /\ proc.key \in Keys /\ DOMAIN proc = ProcFields
        /\ identity' = identity /\ eod' = eod
    BY DEF Lock, disk, IInv, ProcOk
  <2>3. proc'.pc = "publishing" /\ proc'.key = proc.key /\ proc'.part = 1
    BY <1>2, <2>2 DEF Lock, ProcFields
  <2>4. /\ Published(proc.key) = 0
        /\ proc.key[1] = "eod" => Published(<<"identity", proc.key[2]>>) = Parts
    BY <1>2 DEF Lock, Key, Day, Whole, PartCount
  <2>5. proc.key[1] \in {"identity", "eod"} /\ proc.key[2] \in Days
    BY <2>2, KeyParts
  <2>6. /\ proc.key[1] = "identity" => identity[proc.key[2]] = 0
        /\ proc.key[1] = "eod" => proc.key[2] \notin eod /\ identity[proc.key[2]] = Parts
    BY <2>4, <2>5 DEF Published
  <2>7. proc.key[2] \in {a - 1, a}
    BY <2>1, <2>2 DEF HistoryAt
  <2>8. a \in eod /\ identity[a] = Parts
    BY <2>1, Constants DEF HistoryAt, Days
  <2>9. proc.key[2] = a - 1
    BY <2>5, <2>6, <2>7, <2>8, Constants
  <2>10. identity[a - 1] = IF proc.key[1] = "identity" THEN 0 ELSE Parts
    BY <2>5, <2>6, <2>9
  <2>11. HistoryAt(a, b)'
    BY <2>1, <2>2, <2>3, <2>9, <2>10 DEF HistoryAt
  <2>12. QED
    BY <2>11 DEF HistoryOk, Days
<1>3. QED
  BY <1>1, <1>2

LEMMA PublishStep == IInv /\ Publish => HistoryOk'
<1> SUFFICES ASSUME IInv, Publish PROVE HistoryOk'
  OBVIOUS
<1>1. PICK a \in Days, b \in Days : HistoryAt(a, b)
  BY DEF IInv, HistoryOk
<1>2. /\ proc.pc = "staged" /\ proc.key \in Keys /\ DOMAIN proc = ProcFields
      /\ proc.part \in 1 .. PartCount(proc.key)
  BY DEF Publish, IInv, ProcOk, Key
<1>3. /\ proc'.key = proc.key
      /\ proc'.pc = IF proc.part = PartCount(proc.key) THEN "entering" ELSE "publishing"
      /\ proc'.part = IF proc.part = PartCount(proc.key) THEN 1 ELSE proc.part + 1
  BY <1>2 DEF Publish, ProcFields, Key
<1>4. /\ proc.key[1] \in {"identity", "eod"} /\ proc.key[2] \in Days /\ proc.key[2] = a - 1
      /\ a \in Int /\ b \in Int /\ a <= b
  BY <1>1, <1>2, KeyParts DEF HistoryAt, Days
<1>5. CASE proc.key[1] = "identity"
  <2>1. /\ identity' = [identity EXCEPT ![a - 1] = identity[a - 1] + 1] /\ eod' = eod
        /\ identity[a - 1] = proc.part - 1 /\ PartCount(proc.key) = Parts
    BY <1>1, <1>2, <1>4, <1>5 DEF Publish, Key, Day, PartCount, HistoryAt
  <2>2. identity \in [Days -> 0 .. Parts] /\ a - 1 \in Days /\ proc.part \in 1 .. Parts
    BY <1>1, <1>2, <1>4, <2>1 DEF HistoryAt
  <2>3. /\ identity'[a - 1] = proc.part
        /\ \A day \in Days : day # a - 1 => identity'[day] = identity[day]
        /\ identity' \in [Days -> 0 .. Parts]
    BY <2>1, <2>2, Constants
  <2>4. /\ \A day \in a .. b : identity'[day] = Parts
        /\ \A day \in Days : day < a - 1 \/ day > b + 1 => identity'[day] = 0
        /\ b + 1 \in Days => identity'[b + 1] \in {0, Parts}
    <3>1. \A day \in a .. b : day \in Days /\ day # a - 1
      BY <1>1, <1>4, Constants DEF Days
    <3>2. \A day \in Days : day < a - 1 \/ day > b + 1 => day # a - 1
      BY <1>4 DEF Days
    <3>3. b + 1 # a - 1
      BY <1>4
    <3>4. QED
      BY <1>1, <2>3, <3>1, <3>2, <3>3 DEF HistoryAt
  <2>5. proc'.pc = "publishing" => identity'[a - 1] = proc'.part - 1
    BY <1>3, <2>2, <2>3, Constants
  <2>6. HistoryAt(a, b)'
    BY <1>1, <1>3, <1>4, <1>5, <2>1, <2>3, <2>4, <2>5 DEF HistoryAt
  <2>7. QED
    BY <2>6 DEF HistoryOk, Days
<1>6. CASE proc.key[1] = "eod"
  <2>1. /\ eod' = eod \cup {a - 1} /\ identity' = identity /\ a - 1 \in Days
        /\ identity[a - 1] = Parts
    BY <1>1, <1>2, <1>4, <1>6 DEF Publish, Key, Day, HistoryAt
  <2>2. proc'.pc = "entering"
    BY <1>2, <1>3, <1>6 DEF PartCount
  <2>3. eod' = (a - 1) .. b
    BY <1>1, <1>4, <2>1 DEF HistoryAt
  <2>4. \A day \in (a - 1) .. b : identity'[day] = Parts
    <3>1. \A day \in (a - 1) .. b : day = a - 1 \/ day \in a .. b
      BY <1>4
    <3>2. QED
      BY <1>1, <2>1, <3>1 DEF HistoryAt
  <2>5. \A day \in Days : day < (a - 1) - 1 \/ day > b + 1 => identity'[day] = 0
    <3>1. \A day \in Days : day < (a - 1) - 1 => day < a - 1
      BY <1>4 DEF Days
    <3>2. QED
      BY <1>1, <2>1, <3>1 DEF HistoryAt
  <2>6. HistoryAt(a - 1, b)'
    BY <1>1, <1>3, <1>4, <2>1, <2>2, <2>3, <2>4, <2>5 DEF HistoryAt
  <2>7. QED
    BY <2>1, <2>6 DEF HistoryOk, Days
<1>7. QED
  BY <1>4, <1>5, <1>6

LEMMA DailyStep == IInv /\ DailyWrite => HistoryOk' /\ eod \subseteq eod'
<1> SUFFICES ASSUME IInv, DailyWrite PROVE HistoryOk' /\ eod \subseteq eod'
  OBVIOUS
<1>1. PICK a \in Days, b \in Days : HistoryAt(a, b)
  BY DEF IInv, HistoryOk
<1>2. /\ a \in Int /\ b \in Int /\ a <= b /\ eod = a .. b /\ identity \in [Days -> 0 .. Parts]
      /\ Max(eod) = b
  BY <1>1, NextIsLeft DEF HistoryAt, Days
<1>3. /\ b + 1 \in Days /\ proc' = proc /\ proc.pc \notin {"publishing", "staged"}
  BY <1>2 DEF DailyWrite
<1>4. proc.pc \notin {"off", "selecting", "closing"} => proc.key[2] \in {a - 1, a}
  BY <1>1 DEF HistoryAt
<1>5. CASE identity[b + 1] = 0
  <2>1. identity' = [identity EXCEPT ![b + 1] = Parts] /\ eod' = eod
    BY <1>2, <1>5 DEF DailyWrite
  <2>2. /\ identity'[b + 1] = Parts
        /\ \A day \in Days : day # b + 1 => identity'[day] = identity[day]
        /\ identity' \in [Days -> 0 .. Parts]
    BY <1>2, <1>3, <2>1, Constants
  <2>3. /\ \A day \in a .. b : day \in Days /\ day # b + 1
        /\ \A day \in Days : day < a - 1 \/ day > b + 1 => day # b + 1
    BY <1>2, <1>3, Constants DEF Days
  <2>4. /\ \A day \in a .. b : identity'[day] = Parts
        /\ \A day \in Days : day < a - 1 \/ day > b + 1 => identity'[day] = 0
    BY <1>1, <2>2, <2>3 DEF HistoryAt
  <2>5. HistoryAt(a, b)'
    BY <1>1, <1>3, <1>4, <2>1, <2>2, <2>4 DEF HistoryAt
  <2>6. QED
    BY <2>1, <2>5 DEF HistoryOk, Days
<1>6. CASE identity[b + 1] # 0
  <2>1. identity' = identity /\ eod' = eod \cup {b + 1} /\ identity[b + 1] = Parts
    BY <1>1, <1>2, <1>3, <1>6 DEF DailyWrite, HistoryAt
  <2>2. eod' = a .. (b + 1)
    BY <1>2, <2>1
  <2>3. \A day \in a .. (b + 1) : identity'[day] = Parts
    <3>1. \A day \in a .. (b + 1) : day = b + 1 \/ day \in a .. b
      BY <1>2
    <3>2. QED
      BY <1>1, <2>1, <3>1 DEF HistoryAt
  <2>4. \A day \in Days : day < a - 1 \/ day > (b + 1) + 1 => identity'[day] = 0
    <3>1. \A day \in Days : day > (b + 1) + 1 => day > b + 1
      BY <1>2 DEF Days
    <3>2. QED
      BY <1>1, <2>1, <3>1 DEF HistoryAt
  <2>5. (b + 1) + 1 \in Days => identity'[(b + 1) + 1] = 0
    BY <1>1, <1>2, <2>1 DEF HistoryAt
  <2>6. HistoryEnd <= b + 1
    BY <1>1, <1>2, Constants DEF HistoryAt
  <2>7. HistoryAt(a, b + 1)'
    BY <1>2, <1>3, <1>4, <2>1, <2>2, <2>3, <2>4, <2>5, <2>6 DEF HistoryAt
  <2>8. QED
    BY <1>3, <2>1, <2>7 DEF HistoryOk, Days
<1>7. QED
  BY <1>5, <1>6

LEMMA HistoryStep == IInv /\ [Next]_vars => HistoryOk' /\ eod \subseteq eod'
<1> SUFFICES ASSUME IInv, [Next]_vars PROVE HistoryOk' /\ eod \subseteq eod'
  OBVIOUS
<1>1. /\ HistoryOk /\ DOMAIN proc = ProcFields
      /\ Off.pc = "off" /\ DOMAIN Off = ProcFields
  BY OffIs DEF IInv, ProcOk
<1>2. \A pc : Goto(pc) => /\ proc'.pc = pc /\ proc'.key = proc.key /\ proc'.part = proc.part
  BY <1>1 DEF Goto, ProcFields
<1>3. Raise => proc'.pc = "off"
  BY <1>1 DEF Raise
<1>4. CASE UNCHANGED <<proc, identity, eod>>
  <2>1. PICK a \in Days, b \in Days : HistoryAt(a, b)
    BY <1>1 DEF HistoryOk
  <2>2. HistoryAt(a, b)'
    BY <1>4, <2>1 DEF HistoryAt
  <2>3. QED
    BY <1>4, <2>2 DEF HistoryOk, Days
<1>5. ASSUME identity' = identity /\ eod' = eod, proc'.pc \in {"off", "selecting", "closing"}
      PROVE  HistoryOk' /\ eod \subseteq eod'
  BY <1>1, <1>5, SessionKept
<1>6. ASSUME identity' = identity /\ eod' = eod,
             proc.pc \notin {"off", "selecting", "closing"}, proc'.key[2] = proc.key[2],
             proc'.pc \notin {"publishing", "staged"}
      PROVE  HistoryOk' /\ eod \subseteq eod'
  BY <1>1, <1>6, SessionKept
<1>7. CASE Start
  <2>1. proc'.pc = "selecting"
    BY <1>1, <1>7 DEF Start, ProcFields
  <2>2. QED
    BY <1>5, <1>7, <2>1 DEF Start, disk
<1>8. CASE Select
  <2>1. identity' = identity /\ eod' = eod
    BY <1>8 DEF Select, disk
  <2>2. CASE Raise \/ Goto("closing")
    BY <1>2, <1>3, <1>5, <2>1, <2>2
  <2>3. CASE proc' = [proc EXCEPT !.pc = "entering", !.key = <<"identity", NextSession>>,
                                  !.tries = 0]
    <3>1. PICK a \in Days, b \in Days : HistoryAt(a, b)
      BY <1>1 DEF HistoryOk
    <3>2. proc'.pc = "entering" /\ proc'.key = <<"identity", NextSession>>
      BY <1>1, <2>3 DEF ProcFields
    <3>3. proc'.key[2] = a - 1
      BY <3>1, <3>2, NextIsLeft
    <3>4. QED
      BY <2>1, <3>1, <3>2, <3>3, HistoryKept
  <2>4. QED
    BY <2>2, <2>3, <1>8 DEF Select
<1>9. CASE Enter
  <2>1. identity' = identity /\ eod' = eod /\ proc.pc = "entering"
    BY <1>9 DEF Enter, disk
  <2>2. CASE Raise
    BY <1>3, <1>5, <2>1, <2>2
  <2>3. CASE ~ Raise
    <3>1. proc'.key[2] = proc.key[2] /\ proc'.pc \notin {"publishing", "staged"}
      <4>1. CASE proc' = [proc EXCEPT !.key = <<"eod", Day>>]
        BY <1>1, <2>1, <4>1 DEF ProcFields, Day, Key
      <4>2. CASE proc' = [proc EXCEPT !.pc = "boundary"]
        BY <1>1, <4>2 DEF ProcFields
      <4>3. CASE Goto("packaged")
        BY <1>2, <4>3
      <4>4. CASE proc' = [proc EXCEPT !.pc = "fetching", !.page = 0]
        BY <1>1, <4>4 DEF ProcFields
      <4>5. QED
        BY <4>1, <4>2, <4>3, <4>4, <2>3, <1>9 DEF Enter
    <3>2. QED
      BY <1>6, <2>1, <3>1
  <2>4. QED
    BY <2>2, <2>3
<1>10. CASE FetchPage \/ Freezed \/ TakeState
  <2>1. /\ identity' = identity /\ eod' = eod
        /\ proc.pc \notin {"off", "selecting", "closing"}
    BY <1>10 DEF FetchPage, Freezed, TakeState, disk
  <2>2. proc'.key = proc.key /\ proc'.pc \in {"fetching", "packaged", "planning"}
    <3>1. CASE FetchPage
      BY <1>1, <3>1 DEF FetchPage, ProcFields
    <3>2. CASE Freezed
      BY <1>1, <3>2 DEF Freezed, ProcFields
    <3>3. CASE TakeState
      BY <1>1, <3>3 DEF TakeState, ProcFields
    <3>4. QED
      BY <1>10, <3>1, <3>2, <3>3
  <2>3. QED
    BY <1>6, <2>1, <2>2
<1>11. CASE Freeze \/ EnsurePlan \/ Build
  <2>1. /\ identity' = identity /\ eod' = eod
        /\ proc.pc \notin {"off", "selecting", "closing"}
    BY <1>11 DEF Freeze, EnsurePlan, Build, disk
  <2>2. \/ proc'.pc = "off"
        \/ proc'.key = proc.key /\ proc'.pc \in {"freezing", "building", "waiting"}
    BY <1>2, <1>3, <1>11 DEF Freeze, EnsurePlan, Build
  <2>3. QED
    BY <1>5, <1>6, <2>1, <2>2
<1>12. CASE Lock
  BY <1>12, LockStep DEF Lock, disk
<1>13. CASE Stage
  <2>1. identity' = identity /\ eod' = eod /\ proc.pc = "publishing"
    BY <1>13 DEF Stage, disk
  <2>2. CASE Raise
    BY <1>3, <1>5, <2>1, <2>2
  <2>3. CASE Goto("staged")
    <3>1. PICK a \in Days, b \in Days : HistoryAt(a, b)
      BY <1>1 DEF HistoryOk
    <3>2. QED
      BY <1>2, <2>1, <2>3, <3>1, HistoryKept
  <2>4. QED
    BY <2>2, <2>3, <1>13 DEF Stage
<1>14. CASE Publish
  <2>1. eod \subseteq eod'
    BY <1>14 DEF Publish
  <2>2. QED
    BY <1>14, <2>1, PublishStep
<1>15. CASE Boundary \/ Close
  <2>1. identity' = identity /\ eod' = eod
    BY <1>15 DEF Boundary, Close, disk
  <2>2. proc'.pc \in {"off", "selecting", "closing"}
    BY <1>1, <1>2, <1>3, <1>15 DEF Boundary, Close
  <2>3. QED
    BY <1>5, <2>1, <2>2
<1>16. CASE Transient
  <2>1. identity' = identity /\ eod' = eod /\ proc.pc = "fetching"
    BY <1>16 DEF Transient, disk
  <2>2. CASE proc' = Off
    BY <1>1, <1>5, <2>1, <2>2
  <2>3. CASE proc' = [proc EXCEPT !.pc = "entering", !.key = <<"identity", Day>>,
                                  !.page = 0, !.tries = @ + 1]
    <3>1. proc'.pc = "entering" /\ proc'.key[2] = proc.key[2]
      BY <1>1, <2>3 DEF ProcFields, Day, Key
    <3>2. QED
      BY <1>6, <2>1, <3>1
  <2>4. QED
    BY <2>2, <2>3, <1>16 DEF Transient
<1>17. CASE Permanent \/ HalfDone
  BY <1>3, <1>5, <1>17 DEF Permanent, HalfDone, disk
<1>18. CASE Kill
  BY <1>1, <1>5, <1>18 DEF Kill
<1>19. CASE DailyWrite
  BY <1>19, DailyStep
<1>20. QED
  BY <1>4, <1>7, <1>8, <1>9, <1>10, <1>11, <1>12, <1>13, <1>14, <1>15, <1>16, <1>17, <1>18,
     <1>19
  DEF Next, Runner, vars, disk, ResearchWrite, Admit
-----------------------------------------------------------------------------
(* The report.                                                             *)

LEMMA FiniteInterval ==
  ASSUME NEW a \in Int, NEW b \in Int
  PROVE  IsFiniteSet(a .. b) /\ Cardinality(a .. b) \in Int
<1>1. IsFiniteSet(a .. b) /\ Cardinality(a .. b) = IF a > b THEN 0 ELSE b - a + 1
  BY FS_Interval
<1>2. QED
  BY <1>1

LEMMA ReachedStays ==
  ASSUME HistoryOk, HistoryOk', mode' = mode, eod \subseteq eod', Reached
  PROVE  Reached'
<1>1. CASE mode = "interval"
  BY <1>1 DEF Reached
<1>2. CASE mode # "interval"
  <2>1. PICK a \in Days, b \in Days : eod = a .. b
    BY DEF HistoryOk, HistoryAt
  <2>2. PICK c \in Days, d \in Days : eod' = c .. d
    BY DEF HistoryOk, HistoryAt, Days
  <2>3. /\ Cardinality(eod) \in Int /\ Cardinality(eod') \in Int /\ IsFiniteSet(eod')
    <3>1. a \in Int /\ b \in Int /\ c \in Int /\ d \in Int
      BY DEF Days
    <3>2. /\ Cardinality(a .. b) \in Int /\ Cardinality(c .. d) \in Int
          /\ IsFiniteSet(c .. d)
      BY <3>1, FiniteInterval
    <3>3. QED
      BY <2>1, <2>2, <3>2
  <2>4. Cardinality(eod) <= Cardinality(eod')
    BY <2>3, FS_Subset
  <2>5. Cardinality(eod) >= TargetCount
    BY <1>2 DEF Reached
  <2>6. TargetCount \in Int
    BY Constants
  <2>7. Cardinality(eod') >= TargetCount
    BY <2>3, <2>4, <2>5, <2>6
  <2>8. QED
    BY <1>2, <2>7 DEF Reached, TargetCount
<1>3. QED
  BY <1>1, <1>2

LEMMA ReportStep == IInv /\ [Next]_vars => ReportOk'
<1> SUFFICES ASSUME IInv, [Next]_vars PROVE ReportOk'
  OBVIOUS
<1>1. /\ ReportOk /\ TallyOk /\ HistoryOk /\ HistoryOk' /\ eod \subseteq eod'
      /\ DOMAIN proc = ProcFields /\ Off.pc = "off"
  BY HistoryStep, OffIs DEF IInv, ProcOk
<1>2. mode' = mode
  BY DEF Next, Runner, vars, Start, Select, Enter, FetchPage, Freeze, Freezed, TakeState,
         EnsurePlan, Build, Lock, Stage, Publish, Boundary, Close, DailyWrite, Transient,
         Permanent, HalfDone, Kill, ResearchWrite, Admit
<1>3. Raise => ReportOk'
  <2> SUFFICES ASSUME Raise PROVE ReportOk'
    OBVIOUS
  <2>1. report'.status = "failed" /\ proc'.pc = "off"
    BY <1>1 DEF Raise
  <2>2. QED
    BY <2>1 DEF ReportOk
<1>4. report' = NoReport => ReportOk'
  <2> SUFFICES ASSUME report' = NoReport PROVE ReportOk'
    OBVIOUS
  <2>1. report'.status = "none" /\ report' = NoReport'
    BY DEF NoReport
  <2>2. QED
    BY <2>1 DEF ReportOk
<1>5. CASE proc.pc # "off" /\ UNCHANGED report
  BY <1>1, <1>4, <1>5 DEF ReportOk
<1>6. CASE UNCHANGED <<report, proc, calls>>
  <2>1. report.status = "complete" => Reached'
    BY <1>1, <1>2, ReachedStays DEF ReportOk
  <2>2. QED
    BY <1>1, <1>6, <2>1 DEF ReportOk, NoReport
<1>7. CASE Close /\ ~ Raise /\ ~ UNCHANGED report
  <2>1. /\ proc.pc = "closing" /\ calls' = calls /\ proc'.pc = "off" /\ Reached
        /\ report' = [status |-> "complete", requests |-> tally.total + tally.counted]
    BY <1>1, <1>7 DEF Close
  <2>2. tally.total + tally.counted = calls
    BY <1>1, <2>1 DEF TallyOk
  <2>3. Reached'
    BY <1>1, <1>2, <2>1, ReachedStays
  <2>4. QED
    BY <2>1, <2>2, <2>3 DEF ReportOk
<1>8. CASE Transient /\ ~ UNCHANGED report
  <2>1. /\ proc.pc = "fetching" /\ calls' = calls + 1 /\ proc'.pc = "off"
        /\ report' = [status |-> "stopped", requests |-> StoppedRequests]
    BY <1>1, <1>8 DEF Transient, Call
  <2>2. StoppedRequests = calls + 1
    BY <1>1, <2>1 DEF TallyOk, StoppedRequests
  <2>3. QED
    BY <2>1, <2>2 DEF ReportOk
<1>9. CASE Start \/ Kill
  BY <1>4, <1>9 DEF Start, Kill
<1>10. CASE Permanent \/ HalfDone
  BY <1>3, <1>10 DEF Permanent, HalfDone
<1>11. CASE Select \/ Enter \/ Freeze \/ EnsurePlan \/ Build \/ Lock \/ Stage \/ Boundary
  BY <1>3, <1>5, <1>11 DEF Select, Enter, Freeze, EnsurePlan, Build, Lock, Stage, Boundary
<1>12. CASE FetchPage \/ Freezed \/ TakeState \/ Publish
  BY <1>5, <1>12 DEF FetchPage, Freezed, TakeState, Publish
<1>13. CASE Close /\ (Raise \/ UNCHANGED report)
  BY <1>3, <1>5, <1>13 DEF Close
<1>14. CASE Transient /\ UNCHANGED report
  BY <1>5, <1>14 DEF Transient
<1>15. QED
  BY <1>6, <1>7, <1>8, <1>9, <1>10, <1>11, <1>12, <1>13, <1>14
  DEF Next, Runner, vars, ResearchWrite, DailyWrite, Admit

-----------------------------------------------------------------------------
(* What a restart goes on from.                                            *)

\* As long as nothing was left half done or overtaken: no staging directory is left
\* but the one in use, a plan is half built only while it is, and a plan of what is yet
\* to be published is that of the next operation and binds the inventory as it is,
\* until a target of it is in place.
Pristine ==
  /\ residue = {}
  /\ \A k \in Keys : package[k] = "staging" => proc.pc = "freezing" /\ k = proc.key
  /\ \A k \in Keys : plan[k] = Artifacts => proc.pc = "building" /\ k = proc.key
  /\ \A k \in Keys : plan[k].kind = "bound" /\ ~ Whole(k) =>
       /\ k = NextKey
       /\ \/ plan[k].state = Inventory
          \/ proc.pc \in {"publishing", "staged"} /\ proc.part > 1
  /\ proc.pc \in {"planning", "building", "waiting"} => proc.state = Inventory
  /\ mode = "interval" /\ "moved" \notin causes => Max(eod) = HistoryEnd
  /\ proc.pc \notin {"off", "selecting", "closing"} /\ proc.key[1] = "eod"
       => Whole(<<"identity", proc.key[2]>>)

PristineOk == causes \cap Damage = {} => Pristine

LEMMA Kinds ==
  /\ NoPlan.kind = "none" /\ Artifacts.kind = "artifacts"
  /\ \A state : Bound(state).kind = "bound" /\ Bound(state).state = state
  /\ NoPlan # Artifacts
BY DEF NoPlan, Artifacts, Bound

\* An operation is complete once all its targets are in place.
LEMMA WholeMeans ==
  \A day \in Days : /\ Whole(<<"identity", day>>) <=> identity[day] = Parts
                    /\ Whole(<<"eod", day>>) <=> day \in eod
BY DEF Whole, Published, PartCount

\* The operation of the runner is complete, or the next of the history.
LEMMA AtNext ==
  ASSUME ProcOk, HistoryOk, proc.pc \notin {"off", "selecting", "closing"}, ~ Whole(proc.key),
         proc.key[1] = "eod" => Whole(<<"identity", proc.key[2]>>)
  PROVE  proc.key = NextKey
<1>1. PICK a \in Days, b \in Days : HistoryAt(a, b)
  BY DEF HistoryOk
<1>2. /\ proc.key = <<proc.key[1], proc.key[2]>> /\ proc.key[1] \in {"identity", "eod"}
      /\ proc.key[2] \in Days /\ proc.key[2] \in {a - 1, a}
  BY <1>1, KeyParts DEF ProcOk, HistoryAt
<1>3. a \in eod /\ identity[a] = Parts
  BY <1>1 DEF HistoryAt, Days
<1>4. proc.key[2] = a - 1
  BY <1>2, <1>3, WholeMeans
<1>5. QED
  BY <1>1, <1>2, <1>4, NextIsLeft DEF NextKey

\* What does not publish leaves the data root as it is.
LEMMA SameDisk ==
  ASSUME UNCHANGED disk
  PROVE  /\ Inventory' = Inventory /\ NextKey' = NextKey
         /\ \A k \in Keys : Whole(k)' <=> Whole(k)
<1>1. identity' = identity /\ eod' = eod /\ foreign' = foreign /\ residue' = residue
  BY DEF disk
<1>2. QED
  BY <1>1 DEF Inventory, NextKey, NextSession, Whole, Published, PartCount

\* The runner moves on, its papers as they were but for its own operation, which ends up
\* without a torn package and with no plan or one of the inventory as it is.
LEMMA PristineKept ==
  ASSUME Pristine, ProcOk, PapersOk, HistoryOk, UNCHANGED <<disk, mode, causes>>,
         \A k \in Keys : package'[k] = "staging" => proc'.pc = "freezing" /\ k = proc'.key,
         \A k \in Keys : plan'[k] = Artifacts => proc'.pc = "building" /\ k = proc'.key,
         \A k \in Keys : \/ plan'[k] \in {plan[k], NoPlan, Artifacts}
                         \/ /\ k = proc.key /\ plan'[k] = Bound(Inventory)
                            /\ proc.pc \notin {"off", "selecting", "closing"},
         \/ proc.pc \notin {"publishing", "staged"} \/ proc.part = 1
         \/ proc'.pc \in {"publishing", "staged"} /\ proc'.part = proc.part,
         proc'.pc \in {"planning", "building", "waiting"} => proc'.state = Inventory,
         proc'.pc \notin {"off", "selecting", "closing"} /\ proc'.key[1] = "eod"
           => Whole(<<"identity", proc'.key[2]>>),
         proc'.key \in Keys
  PROVE  Pristine'
<1>1. /\ Inventory' = Inventory /\ NextKey' = NextKey
      /\ \A k \in Keys : Whole(k)' <=> Whole(k)
      /\ residue' = residue /\ eod' = eod /\ mode' = mode /\ causes' = causes
  BY SameDisk DEF disk
<1>2. ASSUME NEW k \in Keys, plan'[k].kind = "bound", ~ Whole(k)'
      PROVE  /\ (k = NextKey)'
             /\ \/ (plan'[k].state = Inventory')
                \/ proc'.pc \in {"publishing", "staged"} /\ proc'.part > 1
  <2>1. ~ Whole(k)
    BY <1>1, <1>2
  <2>2. CASE plan'[k] = plan[k]
    <3>1. /\ k = NextKey
          /\ \/ plan[k].state = Inventory
             \/ proc.pc \in {"publishing", "staged"} /\ proc.part > 1
      BY <1>2, <2>1, <2>2 DEF Pristine
    <3>2. QED
      BY <1>1, <2>2, <3>1
  <2>3. CASE k = proc.key /\ plan'[k] = Bound(Inventory)
               /\ proc.pc \notin {"off", "selecting", "closing"}
    <3>1. k = NextKey
      BY <2>1, <2>3, AtNext DEF Pristine
    <3>2. QED
      BY <1>1, <2>3, <3>1, Kinds
  <2>4. QED
    BY <1>2, <2>2, <2>3, Kinds
<1>3. proc'.pc \notin {"off", "selecting", "closing"} /\ proc'.key[1] = "eod"
        => Whole(<<"identity", proc.key[2]>>)'
  <2>1. identity' = identity
    BY DEF disk
  <2>2. Whole(<<"identity", proc'.key[2]>>) => identity[proc'.key[2]] = Parts
    BY DEF Whole, Published, PartCount
  <2>3. identity'[proc'.key[2]] = Parts => Whole(<<"identity", proc.key[2]>>)'
    BY DEF Whole, Published, PartCount
  <2>4. QED
    BY <2>1, <2>2, <2>3
<1>4. QED
  BY <1>1, <1>2, <1>3 DEF Pristine

\* A target of a plan is renamed into place: its plan is the only one of what is yet to be
\* published.
LEMMA PristinePublish ==
  ASSUME IInv, Pristine, Publish PROVE Pristine'
<1>1. PICK a \in Days, b \in Days : HistoryAt(a, b)
  BY DEF IInv, HistoryOk
<1>2. /\ proc.pc = "staged" /\ proc.key \in Keys /\ DOMAIN proc = ProcFields
      /\ proc.part \in 1 .. PartCount(proc.key)
  BY DEF Publish, IInv, ProcOk, Key
<1>3. /\ proc'.key = proc.key
      /\ proc'.pc = IF proc.part = PartCount(proc.key) THEN "entering" ELSE "publishing"
      /\ proc'.part = IF proc.part = PartCount(proc.key) THEN 1 ELSE proc.part + 1
  BY <1>2 DEF Publish, ProcFields, Key
<1>4. /\ proc.key = <<proc.key[1], proc.key[2]>>
      /\ proc.key[1] \in {"identity", "eod"} /\ proc.key[2] \in Days /\ proc.key[2] = a - 1
      /\ a \in Int /\ b \in Int /\ a <= b /\ eod = a .. b
      /\ identity \in [Days -> 0 .. Parts] /\ Max(eod) = b
      /\ identity[a - 1] = IF proc.key[1] = "identity" THEN proc.part - 1 ELSE Parts
  BY <1>1, <1>2, KeyParts, NextIsLeft DEF HistoryAt, Days
<1>5. /\ residue' = residue /\ package' = package /\ plan' = plan /\ mode' = mode
      /\ causes' = causes
  BY DEF Publish, papers
<1>6. a - 1 \notin eod /\ proc.part \in Int
  <2>1. PartCount(proc.key) \in Nat
    BY <1>2, Counts
  <2>2. QED
    BY <1>2, <1>4, <2>1
<1>7. IF proc.key[1] = "identity"
      THEN identity' = [identity EXCEPT ![a - 1] = proc.part] /\ eod' = eod
      ELSE eod' = eod \cup {a - 1} /\ identity' = identity
  BY <1>4, <1>6 DEF Publish, Key, Day
<1>8. \A day \in Days : /\ identity[day] = Parts => identity'[day] = Parts
                        /\ day \in eod => day \in eod'
  <2>1. CASE proc.key[1] = "identity"
    <3>1. proc.part - 1 # Parts /\ \A day \in Days : day # a - 1 => identity'[day] = identity[day]
      BY <1>2, <1>4, <1>6, <1>7, <2>1, Constants DEF PartCount
    <3>2. QED
      BY <1>4, <1>7, <2>1, <3>1
  <2>2. CASE proc.key[1] # "identity"
    BY <1>7, <2>2
  <2>3. QED
    BY <2>1, <2>2
<1>9. \A k \in Keys : Whole(k) => Whole(k)'
  BY <1>8, KeyParts DEF Whole, Published, PartCount
<1>10. proc.key = NextKey
  <2>1. ~ Whole(proc.key)
    <3>1. CASE proc.key[1] = "identity"
      <4>1. proc.key = <<"identity", a - 1>> /\ identity[a - 1] # Parts
        BY <1>2, <1>4, <1>6, <3>1, Constants DEF PartCount
      <4>2. QED
        BY <1>4, <4>1, WholeMeans
    <3>2. CASE proc.key[1] # "identity"
      <4>1. proc.key = <<"eod", a - 1>>
        BY <1>4, <3>2
      <4>2. QED
        BY <1>4, <1>6, <4>1, WholeMeans
    <3>3. QED
      BY <3>1, <3>2
  <2>2. QED
    BY <1>2, <2>1, AtNext DEF IInv, Pristine
<1>11. ASSUME NEW k \in Keys, plan'[k].kind = "bound", ~ Whole(k)'
       PROVE  /\ (k = NextKey)'
              /\ proc'.pc \in {"publishing", "staged"} /\ proc'.part > 1
  <2>1. k = proc.key
    BY <1>5, <1>9, <1>10, <1>11 DEF Pristine
  <2>2. CASE proc.key[1] = "identity"
    <3>1. proc.part # Parts
      <4>1. proc.part = Parts => identity'[a - 1] = Parts
        BY <1>4, <1>7, <2>2
      <4>2. identity'[a - 1] = Parts => Whole(k)'
        BY <1>4, <2>1, <2>2 DEF Whole, Published, PartCount
      <4>3. QED
        BY <1>11, <4>1, <4>2
    <3>2. proc'.pc = "publishing" /\ proc'.part > 1
      <4>1. PartCount(proc.key) = Parts /\ proc.part >= 1
        BY <1>2, <2>2, Constants DEF PartCount
      <4>2. proc'.pc = "publishing" /\ proc'.part = proc.part + 1
        BY <1>3, <3>1, <4>1
      <4>3. QED
        BY <1>6, <4>1, <4>2
    <3>3. eod' = eod /\ identity'[a - 1] = proc.part /\ Min(eod) = a
      BY <1>1, <1>4, <1>7, <2>2, NextIsLeft
    <3>4. (NextKey = <<"identity", a - 1>>)'
      BY <3>1, <3>3 DEF NextKey, NextSession, Whole, Published, PartCount
    <3>5. QED
      BY <1>4, <2>1, <2>2, <3>2, <3>4
  <2>3. CASE proc.key[1] # "identity"
    <3>1. a - 1 \in eod' => Whole(k)'
      BY <1>4, <2>1, <2>3 DEF Whole, Published, PartCount
    <3>2. QED
      BY <1>7, <1>11, <2>3, <3>1
  <2>4. QED
    BY <2>2, <2>3
<1>12. mode' = "interval" /\ "moved" \notin causes' => Max(eod') = HistoryEnd
  <2>1. eod' = a .. b \/ eod' = (a - 1) .. b
    <3>1. (a - 1) .. b = a .. b \cup {a - 1}
      BY <1>4
    <3>2. QED
      BY <1>4, <1>7, <3>1
  <2>2. Max(eod') = b
    BY <1>4, <2>1, Ends
  <2>3. QED
    BY <1>4, <1>5, <2>2 DEF Pristine
<1>13. proc'.key[1] = "eod" => Whole(<<"identity", proc.key[2]>>)'
  <2>1. proc.key[1] = "eod" => identity[a - 1] = Parts /\ identity' = identity
    BY <1>4, <1>7
  <2>2. identity'[a - 1] = Parts => Whole(<<"identity", proc.key[2]>>)'
    BY <1>3, <1>4 DEF Whole, Published, PartCount
  <2>3. QED
    BY <1>3, <2>1, <2>2
<1>14. QED
  BY <1>2, <1>3, <1>5, <1>11, <1>12, <1>13 DEF Pristine

\* Another write: no state is taken and no plan of what is yet to be published is there.
LEMMA PristineOvertaken ==
  ASSUME IInv, Pristine, causes' \cap Damage = {}, ResearchWrite \/ DailyWrite
  PROVE  Pristine'
<1>1. PICK a \in Days, b \in Days : HistoryAt(a, b)
  BY DEF IInv, HistoryOk
<1>2. /\ a \in Int /\ b \in Int /\ eod = a .. b /\ identity \in [Days -> 0 .. Parts]
      /\ Max(eod) = b
  BY <1>1, NextIsLeft DEF HistoryAt, Days
<1>3. ~ Outstanding
  BY DEF ResearchWrite, DailyWrite, Overtaking, Damage
<1>4. /\ residue' = residue /\ package' = package /\ plan' = plan /\ mode' = mode /\ proc' = proc
  BY DEF ResearchWrite, DailyWrite, papers
<1>5. /\ \A day \in Days : /\ identity[day] = Parts => identity'[day] = Parts
                           /\ day \in eod => day \in eod'
      /\ causes \subseteq causes'
      /\ mode = "interval" /\ "moved" \notin causes' => eod' = eod
  <2>1. CASE ResearchWrite
    BY <2>1 DEF ResearchWrite
  <2>2. CASE DailyWrite
    <3>1. b + 1 \in Days
      BY <1>2, <2>2 DEF DailyWrite
    <3>2. /\ causes \subseteq causes'
          /\ mode = "interval" /\ "moved" \notin causes' => eod' = eod
          /\ \/ identity' = [identity EXCEPT ![b + 1] = Parts] /\ eod' = eod
             \/ eod' = eod \cup {b + 1} /\ identity' = identity
      BY <1>2, <2>2 DEF DailyWrite
    <3>3. QED
      BY <1>2, <3>1, <3>2
  <2>3. QED
    BY <2>1, <2>2
<1>6. \A k \in Keys : Whole(k) => Whole(k)'
  BY <1>5, KeyParts DEF Whole, Published, PartCount
<1>7. \A k \in Keys : plan'[k].kind = "bound" => Whole(k)'
  BY <1>3, <1>4, <1>6 DEF Outstanding
<1>8. proc.pc \notin {"planning", "building", "waiting"}
  BY <1>3 DEF Outstanding
<1>9. proc.pc \notin {"off", "selecting", "closing"} /\ proc.key[1] = "eod"
        => Whole(<<"identity", proc.key[2]>>)'
  <2>1. ASSUME proc.pc \notin {"off", "selecting", "closing"}, proc.key[1] = "eod"
        PROVE  Whole(<<"identity", proc.key[2]>>)
    BY <2>1 DEF Pristine
  <2>2. Whole(<<"identity", proc.key[2]>>) => Whole(<<"identity", proc.key[2]>>)'
    <3>1. proc.key[2] \in Days
      BY KeyParts DEF IInv, ProcOk
    <3>2. QED
      BY <1>4, <1>5, <3>1 DEF Whole, Published, PartCount
  <2>3. QED
    BY <2>1, <2>2
<1>10. QED
  BY <1>4, <1>5, <1>7, <1>8, <1>9 DEF Pristine

\* The runner moves on and leaves the papers alone.
LEMMA PristineMoved ==
  ASSUME Pristine, ProcOk, PapersOk, HistoryOk, UNCHANGED <<disk, papers, mode, causes>>,
         proc.pc \notin {"freezing", "building"} \/ proc' = proc,
         \/ proc.pc \notin {"publishing", "staged"} \/ proc.part = 1
         \/ proc'.pc \in {"publishing", "staged"} /\ proc'.part = proc.part,
         proc'.pc \in {"planning", "building", "waiting"} => proc'.state = Inventory,
         proc'.pc \notin {"off", "selecting", "closing"} /\ proc'.key[1] = "eod"
           => Whole(<<"identity", proc'.key[2]>>),
         proc'.key \in Keys
  PROVE  Pristine'
<1>1. package' = package /\ plan' = plan /\ UNCHANGED <<disk, mode, causes>>
  BY DEF papers
<1>2. /\ \A k \in Keys : package'[k] = "staging" => proc'.pc = "freezing" /\ k = proc'.key
      /\ \A k \in Keys : plan'[k] = Artifacts => proc'.pc = "building" /\ k = proc'.key
  BY <1>1 DEF Pristine
<1>3. \A k \in Keys : plan'[k] \in {plan[k], NoPlan, Artifacts}
  BY <1>1
<1>4. QED
  BY <1>1, <1>2, <1>3, PristineKept

LEMMA PristineStep == IInv /\ PristineOk /\ [Next]_vars => PristineOk'
<1> SUFFICES ASSUME IInv, PristineOk, [Next]_vars, causes' \cap Damage = {} PROVE Pristine'
  BY DEF PristineOk
<1>1. causes \cap Damage = {}
  BY DEF Next, Runner, vars, Start, Select, Enter, FetchPage, Freeze, Freezed, TakeState,
         EnsurePlan, Build, Lock, Stage, Publish, Boundary, Close, DailyWrite, Transient,
         Permanent, HalfDone, Kill, ResearchWrite, Admit
<1>2. /\ Pristine /\ ProcOk /\ PapersOk /\ HistoryOk /\ DOMAIN proc = ProcFields
      /\ proc.key \in Keys /\ proc'.key \in Keys
      /\ Off.pc = "off" /\ DOMAIN Off = ProcFields
  <2>1. ProcOk'
    BY ProcStep
  <2>2. QED
    BY <1>1, <2>1, OffIs DEF PristineOk, IInv, ProcOk
<1>3. \A pc : Goto(pc) => /\ proc'.pc = pc /\ proc'.key = proc.key /\ proc'.part = proc.part
                          /\ proc'.state = proc.state
  BY <1>2 DEF Goto, ProcFields
<1>4. Raise => proc'.pc = "off"
  BY <1>2 DEF Raise
<1>5. /\ proc.pc \in {"planning", "building", "waiting"} => proc.state = Inventory
      /\ proc.pc \notin {"off", "selecting", "closing"} /\ proc.key[1] = "eod"
           => Whole(<<"identity", proc.key[2]>>)
      /\ proc.pc \notin {"publishing", "staged"} => proc.part = 1
      /\ \A k \in Keys : package[k] = "staging" => proc.pc = "freezing" /\ k = proc.key
      /\ \A k \in Keys : plan[k] = Artifacts => proc.pc = "building" /\ k = proc.key
  BY <1>2 DEF Pristine, ProcOk
<1>6. ASSUME UNCHANGED <<disk, papers, mode, causes>>, proc'.pc \in {"off", "selecting", "closing"},
             proc.pc \notin {"freezing", "building"}, proc.part = 1
      PROVE  Pristine'
  BY <1>2, <1>6, PristineMoved
<1>7. CASE UNCHANGED <<disk, papers, mode, causes, proc>>
  BY <1>2, <1>5, <1>7, PristineMoved
<1>8. CASE Start \/ Boundary \/ Close
  <2>1. UNCHANGED <<disk, papers, mode, causes>> /\ proc.pc \in {"off", "boundary", "closing"}
    BY <1>8 DEF Start, Boundary, Close
  <2>2. proc'.pc \in {"off", "selecting", "closing"}
    <3>1. CASE Start
      BY <1>2, <3>1 DEF Start, ProcFields
    <3>2. CASE Boundary \/ Close
      BY <1>2, <1>3, <1>4, <3>2 DEF Boundary, Close
    <3>3. QED
      BY <1>8, <3>1, <3>2
  <2>3. QED
    BY <1>5, <1>6, <2>1, <2>2
<1>9. CASE Select
  <2>1. UNCHANGED <<disk, papers, mode, causes>> /\ proc.pc = "selecting"
    BY <1>9 DEF Select
  <2>2. CASE Raise \/ Goto("closing")
    BY <1>3, <1>4, <1>5, <1>6, <2>1, <2>2
  <2>3. CASE proc' = [proc EXCEPT !.pc = "entering", !.key = <<"identity", NextSession>>,
                                  !.tries = 0]
    <3>1. proc'.pc = "entering" /\ proc'.key[1] = "identity"
      BY <1>2, <2>3 DEF ProcFields
    <3>2. QED
      BY <1>2, <2>1, <3>1, PristineMoved
  <2>4. QED
    BY <1>9, <2>2, <2>3 DEF Select
<1>10. CASE Enter
  <2>1. UNCHANGED <<disk, papers, mode, causes>> /\ proc.pc = "entering"
    BY <1>10 DEF Enter
  <2>2. CASE Raise
    BY <1>4, <1>5, <1>6, <2>1, <2>2
  <2>3. CASE Whole(Key) /\ Key[1] = "identity" /\ proc' = [proc EXCEPT !.key = <<"eod", Day>>]
    <3>1. proc'.pc = "entering" /\ proc'.key = <<"eod", proc.key[2]>>
      BY <1>2, <2>1, <2>3 DEF ProcFields, Day, Key
    <3>2. proc.key = <<"identity", proc.key[2]>>
      BY <1>2, <2>3, KeyParts DEF Key
    <3>3. Whole(<<"identity", proc'.key[2]>>)
      BY <2>3, <3>1, <3>2 DEF Key
    <3>4. QED
      BY <1>2, <2>1, <3>1, <3>3, PristineMoved
  <2>4. CASE \/ proc' = [proc EXCEPT !.pc = "boundary"] \/ Goto("packaged")
             \/ proc' = [proc EXCEPT !.pc = "fetching", !.page = 0]
    <3>1. proc'.pc \in {"boundary", "packaged", "fetching"} /\ proc'.key = proc.key
      BY <1>2, <1>3, <2>4 DEF ProcFields
    <3>2. QED
      BY <1>2, <1>5, <2>1, <3>1, PristineMoved
  <2>5. QED
    BY <1>10, <2>2, <2>3, <2>4 DEF Enter
<1>11. CASE FetchPage
  <2>1. /\ UNCHANGED <<disk, papers, mode, causes>> /\ proc.pc = "fetching"
        /\ proc'.pc = "fetching" /\ proc'.key = proc.key
    BY <1>2, <1>11 DEF FetchPage, ProcFields
  <2>2. QED
    BY <1>2, <1>5, <2>1, PristineMoved
<1>12. CASE Freeze
  <2>1. UNCHANGED <<disk, mode, causes>> /\ plan' = plan /\ proc.pc = "fetching"
    BY <1>12 DEF Freeze
  <2>2. CASE Raise /\ UNCHANGED package
    BY <1>4, <1>5, <1>6, <2>1, <2>2 DEF papers
  <2>3. CASE package' = [package EXCEPT ![Key] = "staging"] /\ Goto("freezing")
    <3>1. proc'.pc = "freezing" /\ proc'.key = proc.key
      BY <1>3, <2>3
    <3>2. \A k \in Keys : package'[k] = "staging" => k = proc.key
      BY <1>2, <1>5, <2>1, <2>3 DEF Key, PapersOk
    <3>3. \A k \in Keys : plan'[k] = plan[k] /\ plan'[k] # Artifacts
      BY <1>5, <2>1
    <3>4. QED
      BY <1>2, <1>5, <2>1, <3>1, <3>2, <3>3, PristineKept
  <2>4. QED
    BY <1>12, <2>2, <2>3 DEF Freeze
<1>13. CASE Freezed
  <2>1. /\ UNCHANGED <<disk, mode, causes>> /\ plan' = plan /\ proc.pc = "freezing"
        /\ \E word \in {"frozen", "rejected"} : package' = [package EXCEPT ![proc.key] = word]
    BY <1>13 DEF Freezed, Key
  <2>2. proc'.pc = "packaged" /\ proc'.key = proc.key
    BY <1>2, <1>13 DEF Freezed, ProcFields
  <2>3. \A k \in Keys : package'[k] # "staging" /\ plan'[k] = plan[k] /\ plan'[k] # Artifacts
    BY <1>2, <1>5, <2>1 DEF PapersOk
  <2>4. QED
    BY <1>2, <1>5, <2>1, <2>2, <2>3, PristineKept
<1>14. CASE TakeState
  <2>1. UNCHANGED <<disk, papers, mode, causes>> /\ proc.pc = "packaged"
    BY <1>14 DEF TakeState
  <2>2. proc'.pc = "planning" /\ proc'.key = proc.key /\ proc'.state = Inventory
    BY <1>2, <1>14 DEF TakeState, ProcFields
  <2>3. QED
    BY <1>2, <1>5, <2>1, <2>2, PristineMoved
<1>15. CASE EnsurePlan
  <2>1. UNCHANGED <<disk, mode, causes>> /\ package' = package /\ proc.pc = "planning"
    BY <1>15 DEF EnsurePlan
  <2>2. CASE plan' = [plan EXCEPT ![Key] = Artifacts] /\ Goto("building")
    <3>1. proc'.pc = "building" /\ proc'.key = proc.key /\ proc'.state = proc.state
      BY <1>3, <2>2
    <3>2. \A k \in Keys : /\ plan'[k] \in {plan[k], Artifacts}
                          /\ plan'[k] = Artifacts => k = proc.key
                          /\ package'[k] # "staging"
      BY <1>2, <1>5, <2>1, <2>2 DEF Key, PapersOk
    <3>3. QED
      BY <1>2, <1>5, <2>1, <3>1, <3>2, PristineKept
  <2>3. CASE Goto("waiting") /\ UNCHANGED plan
    <3>1. proc'.pc = "waiting" /\ proc'.key = proc.key /\ proc'.state = proc.state
      BY <1>3, <2>3
    <3>2. UNCHANGED <<disk, papers, mode, causes>>
      BY <2>1, <2>3 DEF papers
    <3>3. QED
      BY <1>2, <1>5, <2>1, <3>1, <3>2, PristineMoved
  <2>4. CASE Raise /\ UNCHANGED plan
    BY <1>4, <1>5, <1>6, <2>1, <2>4 DEF papers
  <2>5. QED
    BY <1>15, <2>2, <2>3, <2>4 DEF EnsurePlan
<1>16. CASE Build
  <2>1. /\ UNCHANGED <<disk, mode, causes>> /\ package' = package /\ proc.pc = "building"
    BY <1>16 DEF Build
  <2>2. CASE Raise /\ plan' = [plan EXCEPT ![Key] = RejectedPlan]
    <3>1. proc'.pc = "off"
      BY <1>4, <2>2
    <3>2. \A k \in Keys : /\ plan'[k] \in {plan[k], NoPlan} /\ plan'[k] # Artifacts
                          /\ package'[k] # "staging"
      BY <1>2, <1>5, <2>1, <2>2, Kinds DEF RejectedPlan, Key, PapersOk
    <3>3. QED
      BY <1>2, <1>5, <2>1, <3>1, <3>2, PristineKept
  <2>3. CASE Goto("waiting") /\ plan' = [plan EXCEPT ![Key] = Bound(proc.state)]
    <3>1. proc'.pc = "waiting" /\ proc'.key = proc.key /\ proc'.state = Inventory
      BY <1>3, <1>5, <2>1, <2>3
    <3>2. plan' = [plan EXCEPT ![proc.key] = Bound(Inventory)] /\ Bound(Inventory) # Artifacts
      BY <1>5, <2>1, <2>3, Kinds DEF Key
    <3>3. \A k \in Keys : /\ \/ plan'[k] = plan[k]
                             \/ k = proc.key /\ plan'[k] = Bound(Inventory)
                          /\ plan'[k] # Artifacts
                          /\ package'[k] # "staging"
      BY <1>2, <1>5, <2>1, <3>2 DEF PapersOk
    <3>4. QED
      BY <1>2, <1>5, <2>1, <3>1, <3>3, PristineKept
  <2>4. QED
    BY <1>16, <2>2, <2>3 DEF Build
<1>17. CASE Lock
  <2>1. UNCHANGED <<disk, papers, mode, causes>> /\ proc.pc = "waiting"
    BY <1>17 DEF Lock
  <2>2. CASE Raise
    BY <1>4, <1>5, <1>6, <2>1, <2>2
  <2>3. CASE proc' = [proc EXCEPT !.pc = "publishing", !.state = NoInventory]
    <3>1. proc'.pc = "publishing" /\ proc'.key = proc.key
      BY <1>2, <2>3 DEF ProcFields
    <3>2. QED
      BY <1>2, <1>5, <2>1, <3>1, PristineMoved
  <2>4. QED
    BY <1>17, <2>2, <2>3 DEF Lock
<1>18. CASE Stage
  <2>1. UNCHANGED <<disk, papers, mode, causes>> /\ proc.pc = "publishing"
    BY <1>18 DEF Stage
  <2>2. Goto("staged")
    BY <1>2, <1>18 DEF Stage, Pristine
  <2>3. proc'.pc = "staged" /\ proc'.key = proc.key /\ proc'.part = proc.part
    BY <1>3, <2>2
  <2>4. QED
    BY <1>2, <1>5, <2>1, <2>3, PristineMoved
<1>19. CASE Publish
  BY <1>2, <1>19, PristinePublish
<1>20. CASE Transient
  <2>1. UNCHANGED <<disk, papers, mode, causes>> /\ proc.pc = "fetching"
    BY <1>20 DEF Transient
  <2>2. CASE proc' = Off
    BY <1>2, <1>5, <1>6, <2>1, <2>2
  <2>3. CASE proc' = [proc EXCEPT !.pc = "entering", !.key = <<"identity", Day>>,
                                  !.page = 0, !.tries = @ + 1]
    <3>1. proc'.pc = "entering" /\ proc'.key[1] = "identity"
      BY <1>2, <2>3 DEF ProcFields
    <3>2. QED
      BY <1>2, <2>1, <3>1, PristineMoved
  <2>4. QED
    BY <1>20, <2>2, <2>3 DEF Transient
<1>21. CASE Permanent
  <2>1. /\ UNCHANGED <<disk, mode, causes>> /\ plan' = plan
        /\ proc'.pc = "off" /\ proc.part = 1 /\ proc.pc # "building"
    BY <1>4, <1>5, <1>21 DEF Permanent
  <2>2. \A k \in Keys : package'[k] # "staging"
    BY <1>2, <1>5, <1>21 DEF Permanent, Key, PapersOk
  <2>3. \A k \in Keys : plan'[k] = plan[k] /\ plan'[k] # Artifacts
    BY <1>5, <2>1
  <2>4. QED
    BY <1>2, <2>1, <2>2, <2>3, PristineKept
<1>22. ~ HalfDone
  BY DEF HalfDone, Damage
<1>23. CASE Kill
  <2>1. ~ Exposed
    BY <1>23 DEF Kill, Damage
  <2>2. UNCHANGED <<disk, papers, mode, causes>> /\ proc'.pc = "off"
    BY <1>2, <1>23, <2>1 DEF Kill, Exposed, disk
  <2>3. \/ proc.pc \notin {"freezing", "building", "publishing", "staged"}
        \/ proc.pc = "publishing" /\ ~ proc.part > 1
    BY <2>1 DEF Exposed
  <2>4. proc.part = 1
    <3>1. PartCount(proc.key) \in Nat
      BY <1>2, Counts
    <3>2. proc.part \in Nat /\ proc.part >= 1
      BY <1>2, <3>1 DEF ProcOk, Key
    <3>3. QED
      BY <1>5, <2>3, <3>2
  <2>5. QED
    BY <1>6, <2>2, <2>3, <2>4
<1>24. CASE ResearchWrite \/ DailyWrite
  BY <1>2, <1>24, PristineOvertaken
<1>25. CASE Admit
  <2>1. UNCHANGED <<disk, mode, causes>> /\ plan' = plan /\ proc' = proc /\ proc.pc = "off"
    BY <1>25 DEF Admit
  <2>2. \A k \in Keys : package'[k] # "staging" /\ plan'[k] = plan[k] /\ plan'[k] # Artifacts
    BY <1>2, <1>5, <1>25, <2>1 DEF Admit, PapersOk
  <2>3. QED
    BY <1>2, <2>1, <2>2, PristineKept
<1>26. QED
  BY <1>7, <1>8, <1>9, <1>10, <1>11, <1>12, <1>13, <1>14, <1>15, <1>16, <1>17, <1>18, <1>19,
     <1>20, <1>21, <1>22, <1>23, <1>24, <1>25
  DEF Next, Runner, vars

\* A history that is short of a count of its latest sessions is within that count.
LEMMA ShortIsSelectable ==
  ASSUME HistoryOk, mode = "interval" => Max(eod) = HistoryEnd, ~ Reached
  PROVE  Selectable
<1>1. PICK a \in Days, b \in Days : HistoryAt(a, b)
  BY DEF HistoryOk
<1>2. a \in Int /\ b \in Int /\ a <= b /\ eod = a .. b /\ Max(eod) = b
  BY <1>1, NextIsLeft DEF HistoryAt, Days
<1>3. CASE mode # "interval"
  <2>1. Cardinality(eod) = b - a + 1
    BY <1>2, FS_Interval
  <2>2. b - a + 1 < TargetCount
    BY <1>2, <1>3, <2>1, Constants DEF Reached
  <2>3. a .. b \subseteq b - TargetCount + 1 .. b
    BY <1>2, <2>2, Constants
  <2>4. QED
    BY <1>2, <1>3, <2>3 DEF Selectable
<1>4. QED
  BY <1>3 DEF Selectable

-----------------------------------------------------------------------------
(* The theorems.                                                           *)

\* Whatever the runner, the other writers and the faults do, the invariant holds.
THEOREM Invariance == Spec => []IInv
<1>1. IInv /\ [Next]_vars => IInv'
  BY ProcStep, PapersStep, RestStep, TallyStep, ReportStep, HistoryStep DEF IInv
<1>2. QED
  BY <1>1, Initially, PTL DEF Spec

\* The retries of a session, the calls of a package, the targets of a plan and the
\* sessions of a batch stay within their bounds.
THEOREM TypeCorrect == Spec => []TypeOK
<1>1. IInv => TypeOK
  <2> SUFFICES ASSUME IInv PROVE TypeOK
    OBVIOUS
  <2>1. PICK a \in Days, b \in Days : HistoryAt(a, b)
    BY DEF IInv, HistoryOk
  <2>2. eod \subseteq Days /\ identity \in [Days -> 0 .. Parts]
    BY <2>1, Constants DEF HistoryAt, Days
  <2>3. QED
    BY <2>2 DEF IInv, ProcOk, PapersOk, RestOk, TallyOk, ReportOk, TypeOK, Key,
                Words
<1>2. QED
  BY <1>1, Invariance, PTL

\* Whatever stops the runner and whoever else writes, the history is one interval of
\* sessions that have their Identity, and what is begun lies next to it.
THEOREM HistoryStaysWhole == Spec => []HistoryIsWhole
<1>1. IInv => HistoryIsWhole
  <2> SUFFICES ASSUME IInv PROVE HistoryIsWhole
    OBVIOUS
  <2>1. PICK a \in Days, b \in Days : HistoryAt(a, b)
    BY DEF IInv, HistoryOk
  <2>2. /\ eod = a .. b /\ Min(eod) = a /\ Max(eod) = b /\ a \in Int /\ b \in Int
        /\ \A day \in a .. b : identity[day] = Parts
        /\ \A day \in Days : day < a - 1 \/ day > b + 1 => identity[day] = 0
    BY <2>1, NextIsLeft DEF HistoryAt, Days
  <2>3. \A day \in Days : day \notin a .. b /\ ~ (day < a - 1 \/ day > b + 1)
                            => day \in {a - 1, b + 1}
    BY <2>2 DEF Days
  <2>4. QED
    BY <2>2, <2>3 DEF HistoryIsWhole
<1>2. QED
  BY <1>1, Invariance, PTL

\* A report of completion is true and stays true, and the requests of a report are the
\* provider calls of the invocation.
THEOREM ReportsTheTruth == Spec => []ReportIsTrue
<1>1. IInv => ReportIsTrue
  BY DEF IInv, ReportOk, ReportIsTrue
<1>2. QED
  BY <1>1, Invariance, PTL

\* A runner is beyond restart only after a torn write, a write of another that overtook a
\* plan, a move of the interval's end, or at a package that the gates reject; retries,
\* stops, and kills where the runner is not exposed leave what the next start goes on
\* from, and so does a rejected package once a release admits it.
THEOREM WedgedByFaultOnly == Spec => []WedgedOnlyByFault
<1>1. Init => PristineOk
  <2> SUFFICES ASSUME Init PROVE Pristine
    BY DEF PristineOk
  <2>1. /\ residue = {} /\ proc.pc = "off" /\ eod = HistoryStart .. HistoryEnd
        /\ \A k \in Keys : package[k] = "absent" /\ plan[k] = NoPlan
    BY DEF Init, Off
  <2>2. Max(eod) = HistoryEnd
    BY <2>1, Ends, Constants
  <2>3. QED
    BY <2>1, <2>2, Kinds DEF Pristine
<1>2. IInv /\ PristineOk => WedgedOnlyByFault
  <2> SUFFICES ASSUME IInv, Pristine, Wedged, package[NextKey] # "rejected",
                      Selectable \/ "moved" \notin causes
               PROVE  FALSE
    BY DEF PristineOk, WedgedOnlyByFault
  <2>1. proc.pc = "off" /\ ~ Reached /\ HistoryOk /\ PapersOk
    BY DEF Wedged, IInv
  <2>2. Selectable
    BY <2>1, ShortIsSelectable DEF Pristine
  <2>3. PICK a \in Days, b \in Days : HistoryAt(a, b)
    BY <2>1 DEF HistoryOk
  <2>4. a - 1 \in Days /\ NextSession = a - 1 /\ a - 1 \notin eod
    BY <2>1, <2>2, <2>3, NextIsLeft DEF HistoryAt, Days
  <2>5. NextKey \in Keys /\ ~ Whole(NextKey)
    BY <2>4, KeyParts, WholeMeans DEF NextKey
  <2>6. package[NextKey] # "staging" /\ plan[NextKey] # Artifacts
    BY <2>1, <2>5 DEF Pristine
  <2>7. plan[NextKey].kind = "bound" => plan[NextKey].state = Inventory
    BY <2>1, <2>5 DEF Pristine
  <2>8. plan[NextKey] \in {NoPlan, Bound(Inventory)}
    BY <2>1, <2>5, <2>6, <2>7, Kinds DEF PapersOk
  <2>9. ~ Stuck(NextKey)
    BY <2>6, <2>8 DEF Stuck, Pristine
  <2>10. QED
    BY <2>2, <2>9 DEF Wedged
<1>3. QED
  BY <1>1, <1>2, PristineStep, Invariance, PTL DEF Spec
=============================================================================
