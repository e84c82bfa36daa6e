------------------------- MODULE OciDeployment_proofs -------------------------
(***************************************************************************)
(* Proofs about the deployment, for any deployers, releases and attempts.  *)
(***************************************************************************)
EXTENDS OciDeployment, TLAPS

-----------------------------------------------------------------------------
(* The inductive invariants.                                               *)

Names == Releases \cup {None}
Servings == [release : Names, attempt : Attempts]
Sessions == [pc : Live \cup {"none", "ok", "failed"}, release : Names, expected : Names,
             attempt : Attempts, previous : Servings]
Runs == [pc : {"idle", "inspected", "reserved", "uploaded", "waiting", "applied"},
         release : Names, expected : Names, attempt : Attempts, seen : Reports]
Pendings == [attempt : Attempts, release : Names, expected : Names]
Kinds == Success \cup {"open", "recovered_not_completed", "recovery_blocked"}
Outcomes == [kind : Kinds, release : Releases]
Inspections == [plan : Pendings, seen : Reports, ended : Attempts]

\* An attempt in the journal, of the release it was reserved for.
Reserved(attempt, release) ==
  attempt \in 1 .. Len(outcome) /\ outcome[attempt].release = release

Typed ==
  /\ current \in Servings
  /\ releases \subseteq Releases /\ staging \subseteq Releases /\ failed \subseteq releases
  /\ session \in [Deployers -> Sessions]
  /\ run \in [Deployers -> Runs]
  /\ report \in [Recoverers -> Inspections]
  /\ pending \in Pendings
  /\ outcome \in Seq(Outcomes) /\ Len(outcome) <= MaxAttempts
  /\ hasty \subseteq Attempts

\* The open attempt is the last one.
PendingOk ==
  pending # NoAttempt =>
    /\ pending.attempt = Len(outcome)
    /\ Reserved(pending.attempt, pending.release)
    /\ outcome[pending.attempt].kind = "open"

\* What is served was switched by the attempt it names.
Traced(serving) == serving.attempt = 0 \/ Reserved(serving.attempt, serving.release)

RunOk(p) ==
  /\ run[p].pc # "idle" => run[p].release \in Releases
  /\ run[p].pc \in {"idle", "inspected"} => run[p].attempt = 0
  /\ run[p].pc \notin {"idle", "inspected"} => Reserved(run[p].attempt, run[p].release)
  /\ run[p].pc \in {"inspected", "reserved", "uploaded", "applied"} => session[p] = NoSession

SessionOk(p) ==
  /\ session[p].pc = "none" <=> session[p] = NoSession
  /\ session[p] # NoSession =>
       session[p].release \in Releases /\ Reserved(session[p].attempt, session[p].release)
  /\ Traced(session[p].previous)

Shape ==
  /\ Typed /\ PendingOk /\ Traced(current)
  /\ \A p \in Deployers : RunOk(p) /\ SessionOk(p)

\* A deployer has an attempt, or left a script behind that has one.
Busy(p) == run[p].attempt # 0 \/ session[p] # NoSession

\* While no recovery is hasty, whatever is busy is so for the one open attempt.
Exclusive ==
  /\ \A p \in Deployers : run[p].attempt # 0 => run[p].attempt = pending.attempt
  /\ \A p \in Deployers : session[p] # NoSession => session[p].attempt = pending.attempt
  /\ \A p, q \in Deployers : Busy(p) /\ Busy(q) => p = q

\* What a script may go back to is good, and is not what it deploys.
Good(release) == release # None => release \in releases \ failed
ScriptOk(p) ==
  /\ Good(session[p].previous.release)
  /\ session[p].previous.release # None => session[p].previous.release # session[p].release
  /\ session[p].pc \in {"extract", "staged"} => session[p].release \notin releases
  /\ session[p].pc = "promoted" => session[p].release \in releases \ failed
  /\ session[p].pc = "marking" => current = session[p].previous

ServedOk == Good(current.release) /\ \A p \in Deployers : ScriptOk(p)

\* What is served, what a script may go back to and what it is about to serve is there,
\* hasty recoveries or not.
There(release) == release # None => release \in releases
InPlace ==
  /\ There(current.release)
  /\ \A p \in Deployers : /\ There(session[p].previous.release)
                          /\ session[p].pc = "promoted" => session[p].release \in releases

\* Nobody works for the attempt, and nobody will; nor is it served, nor can be gone back to.
Ended(a) == a \in 1 .. Len(outcome) /\ ~ StillRuns(a)
Gone(a) ==
  /\ Ended(a)
  /\ current.attempt # a
  /\ \A p \in Deployers : session[p].previous.attempt # a

\* A report taken after the end of its attempt goes on telling the truth about it.
ReportOk(q) ==
  report[q] # NoReport /\ report[q].ended # 0 =>
    /\ report[q].ended = report[q].plan.attempt
    /\ Ended(report[q].ended)
    /\ Untouched(report[q].seen, report[q].plan.expected) => Gone(report[q].ended)

Undone(a) == a \in 1 .. Len(outcome) /\ outcome[a].kind = "recovered_not_completed"
VerdictOk ==
  /\ \A a \in 1 .. Len(outcome) : Undone(a) /\ a \notin hasty => Gone(a)
  /\ \A q \in Recoverers : ReportOk(q)

-----------------------------------------------------------------------------
(* Constants, records and the journal.                                     *)

LEMMA Constants ==
  /\ First \in Releases /\ None \notin Releases /\ MaxAttempts \in Nat
  /\ 0 \in Attempts
BY OciAssumption DEF Attempts

LEMMA Nulls ==
  /\ Nothing \in Servings /\ Nothing.release = None /\ Nothing.attempt = 0
  /\ NoAttempt \in Pendings /\ NoAttempt.attempt = 0
  /\ Idle \in Runs /\ Idle.pc = "idle" /\ Idle.attempt = 0
  /\ NoSession \in Sessions /\ NoSession.pc = "none" /\ NoSession.attempt = 0
  /\ NoSession.previous = Nothing
  /\ NoReport \in Inspections
<1>1. None \in Names /\ 0 \in Attempts
  BY Constants DEF Names
<1>2. /\ Nothing \in Servings /\ Nothing.release = None /\ Nothing.attempt = 0
      /\ NoAttempt \in Pendings /\ NoAttempt.attempt = 0
  BY <1>1 DEF Nothing, Servings, NoAttempt, Pendings
<1>3. {} \in Reports
  BY DEF Reports
<1>4. QED
  BY <1>1, <1>2, <1>3 DEF Idle, Runs, NoSession, Sessions, NoReport, Inspections

LEMMA Initially == Init => Shape /\ Exclusive /\ ServedOk /\ InPlace /\ VerdictOk
<1> SUFFICES ASSUME Init PROVE Shape /\ Exclusive /\ ServedOk /\ InPlace /\ VerdictOk
  OBVIOUS
<1>1. /\ current = [release |-> First, attempt |-> 0] /\ outcome = <<>> /\ Len(outcome) = 0
      /\ releases = {First} /\ staging = {} /\ failed = {} /\ pending = NoAttempt
      /\ \A p \in Deployers : session[p] = NoSession /\ run[p] = Idle
      /\ \A q \in Recoverers : report[q] = NoReport
  BY DEF Init
<1>2. Typed
  <2>1. current \in Servings
    BY <1>1, Constants DEF Servings, Names
  <2>2. outcome \in Seq(Outcomes) /\ Len(outcome) <= MaxAttempts
    BY <1>1, Constants
  <2>3. QED
    BY <1>1, <2>1, <2>2, Constants, Nulls DEF Init, Typed
<1>3. \A p \in Deployers : RunOk(p) /\ SessionOk(p)
  BY <1>1, Nulls DEF RunOk, SessionOk, Traced
<1>4. Shape
  BY <1>1, <1>2, <1>3 DEF Shape, PendingOk, Traced
<1>5. Exclusive
  BY <1>1, Nulls DEF Exclusive, Busy
<1>6. ServedOk
  BY <1>1, Nulls DEF ServedOk, ScriptOk, Good
<1>7. VerdictOk
  BY <1>1 DEF VerdictOk, Undone, ReportOk
<1>8. InPlace
  BY <1>1, Nulls DEF InPlace, There
<1>9. QED
  BY <1>4, <1>5, <1>6, <1>7, <1>8

\* What is inspected is well formed.
LEMMA InspectedTyped ==
  ASSUME Typed, NEW release \in Names
  PROVE  Inspected(release) \in Reports
<1>1. current.release \in Releases \cup {None} /\ staging \cup failed \subseteq Releases
  BY DEF Typed, Servings, Names
<1>2. QED
  BY <1>1 DEF Inspected, Reports

\* A terminal event closes the open attempt, and no other.
LEMMA Closing ==
  ASSUME Shape, pending # NoAttempt, NEW kind \in Kinds, Terminal(kind)
  PROVE  /\ outcome' \in Seq(Outcomes) /\ Len(outcome') = Len(outcome)
         /\ \A a \in 1 .. Len(outcome) :
              /\ outcome'[a].release = outcome[a].release
              /\ outcome'[a].kind = IF a = pending.attempt THEN kind ELSE outcome[a].kind
         /\ pending' = NoAttempt
<1> DEFINE n == Len(outcome)
           k == pending.attempt
<1>1. outcome \in [1 .. n -> Outcomes] /\ n \in Nat /\ k \in 1 .. n
  BY DEF Shape, Typed, PendingOk, Reserved
<1>2. outcome' = [outcome EXCEPT ![k].kind = kind]
  BY DEF Terminal
<1>3. \A o \in Outcomes : /\ [o EXCEPT !.kind = kind] \in Outcomes
                          /\ [o EXCEPT !.kind = kind].release = o.release
                          /\ [o EXCEPT !.kind = kind].kind = kind
  BY DEF Outcomes
<1>4. /\ outcome' \in [1 .. n -> Outcomes]
      /\ \A a \in 1 .. n : outcome'[a] = IF a = k THEN [outcome[a] EXCEPT !.kind = kind]
                                         ELSE outcome[a]
  <2> HIDE DEF n, k
  <2>1. [outcome[k] EXCEPT !.kind = kind] \in Outcomes
    BY <1>1, <1>3
  <2>2. outcome' = [outcome EXCEPT ![k] = [outcome[k] EXCEPT !.kind = kind]]
    BY <1>2
  <2>3. QED
    BY <1>1, <2>1, <2>2
<1>5. \A a \in 1 .. n : /\ outcome'[a].release = outcome[a].release
                        /\ outcome'[a].kind = IF a = k THEN kind ELSE outcome[a].kind
  <2> HIDE DEF n, k
  <2> TAKE a \in 1 .. n
  <2>1. outcome[a] \in Outcomes
    BY <1>1
  <2>2. CASE a = k
    BY <1>3, <1>4, <2>1, <2>2
  <2>3. CASE a # k
    BY <1>4, <2>3
  <2>4. QED
    BY <2>2, <2>3
<1>6. outcome' \in Seq(Outcomes) /\ Len(outcome') = n
  BY <1>1, <1>4
<1>7. QED
  BY <1>5, <1>6 DEF Terminal

\* What each step does to the journal.
LEMMA JournalSteps ==
  ASSUME Shape, [Next]_vars
  PROVE  /\ outcome' \in Seq(Outcomes) /\ Len(outcome') <= MaxAttempts
         /\ Len(outcome) <= Len(outcome')
         /\ \A a \in 1 .. Len(outcome) :
              /\ outcome'[a].release = outcome[a].release
              /\ outcome'[a].kind # outcome[a].kind => pending # NoAttempt /\ a = pending.attempt
         /\ pending' \in Pendings
         /\ PendingOk'
<1>1. outcome \in Seq(Outcomes) /\ Len(outcome) <= MaxAttempts /\ pending \in Pendings /\ PendingOk
  BY DEF Shape, Typed
<1>2. CASE UNCHANGED journal
  BY <1>1, <1>2 DEF journal, PendingOk, Reserved
<1>3. ASSUME NEW p \in Deployers, Reserve(p)
      PROVE  /\ outcome' = Append(outcome, [kind |-> "open", release |-> run[p].release])
             /\ [kind |-> "open", release |-> run[p].release] \in Outcomes
             /\ pending' = [attempt |-> Len(outcome) + 1, release |-> run[p].release,
                            expected |-> run[p].expected]
             /\ pending' \in Pendings /\ Len(outcome) < MaxAttempts
  <2>1. run[p] \in Runs /\ run[p].release \in Releases
    BY <1>3 DEF Reserve, Shape, Typed, RunOk
  <2>2. Len(outcome) + 1 \in Attempts /\ "open" \in Kinds
    BY <1>1, <1>3, Constants DEF Reserve, Attempts, Kinds
  <2>3. QED
    BY <1>3, <2>1, <2>2 DEF Reserve, Outcomes, Pendings, Runs, Names
<1>4. ASSUME NEW p \in Deployers, Reserve(p)
      PROVE  /\ outcome' \in Seq(Outcomes) /\ Len(outcome') = Len(outcome) + 1
             /\ \A a \in 1 .. Len(outcome) : outcome'[a] = outcome[a]
             /\ outcome'[Len(outcome) + 1] = [kind |-> "open", release |-> run[p].release]
  BY <1>1, <1>3, <1>4
<1>5. CASE \E p \in Deployers : Reserve(p)
  <2>1. PICK p \in Deployers : Reserve(p)
    BY <1>5
  <2>2. PendingOk'
    <3>1. pending'.attempt = Len(outcome) + 1 /\ pending'.release = run[p].release
      <4>1. pending' = [attempt |-> Len(outcome) + 1, release |-> run[p].release,
                        expected |-> run[p].expected]
        BY <2>1 DEF Reserve
      <4>2. QED
        BY <4>1
    <3>2. /\ Len(outcome') = Len(outcome) + 1 /\ Len(outcome) \in Nat
          /\ outcome'[Len(outcome) + 1] = [kind |-> "open", release |-> run[p].release]
      BY <1>1, <1>4, <2>1
    <3>3. QED
      BY <3>1, <3>2 DEF PendingOk, Reserved
  <2>3. QED
    <3>1. Len(outcome) < MaxAttempts /\ pending' \in Pendings
      BY <1>3, <2>1
    <3>2. /\ outcome' \in Seq(Outcomes) /\ Len(outcome') = Len(outcome) + 1
          /\ \A a \in 1 .. Len(outcome) : outcome'[a] = outcome[a]
      BY <1>4, <2>1
    <3>3. Len(outcome) \in Nat
      BY <1>1
    <3>4. QED
      BY <2>2, <3>1, <3>2, <3>3, Constants
<1>6. ASSUME pending # NoAttempt, NEW kind \in Kinds, Terminal(kind)
      PROVE  /\ outcome' \in Seq(Outcomes) /\ Len(outcome') <= MaxAttempts
             /\ Len(outcome) <= Len(outcome')
             /\ \A a \in 1 .. Len(outcome) :
                  /\ outcome'[a].release = outcome[a].release
                  /\ outcome'[a].kind # outcome[a].kind =>
                       pending # NoAttempt /\ a = pending.attempt
             /\ pending' \in Pendings
             /\ PendingOk'
  <2>1. /\ outcome' \in Seq(Outcomes) /\ Len(outcome') = Len(outcome)
        /\ \A a \in 1 .. Len(outcome) :
             /\ outcome'[a].release = outcome[a].release
             /\ outcome'[a].kind = IF a = pending.attempt THEN kind ELSE outcome[a].kind
        /\ pending' = NoAttempt
    BY <1>6, Closing
  <2>2. PendingOk' /\ pending' \in Pendings
    BY <2>1, Nulls DEF PendingOk, NoAttempt
  <2>3. QED
    BY <1>1, <1>6, <2>1, <2>2
<1>7. CASE \E p \in Deployers : Record(p)
  <2>1. "succeeded" \in Kinds
    BY DEF Kinds, Success
  <2>2. QED
    BY <1>6, <1>7, <2>1 DEF Record, PendingOf
<1>8. CASE \E q \in Recoverers : RecoverClose(q)
  <2>1. \A plan, seen : Recovered(plan, seen) \in Kinds
    BY DEF Recovered, Kinds, Success
  <2>2. QED
    BY <1>6, <1>8, <2>1 DEF RecoverClose, PendingOf
<1>9. [Next]_vars => \/ UNCHANGED journal
                     \/ \E p \in Deployers : Reserve(p) \/ Record(p)
                     \/ \E q \in Recoverers : RecoverClose(q)
  BY DEF Next, LocalStep, RemoteStep, Inspect, Preflight, OpenSession, Return, Abandon, Guard,
         Stage, Promote, Switch, Verify, Break, Restore, MarkFailed, Leave, CleanUp,
         RecoverInspect, Reported, GoTo, vars, journal
<1>10. QED
  BY <1>2, <1>5, <1>7, <1>8, <1>9

\* The hasty recoveries only become more.
LEMMA HastySteps ==
  ASSUME Shape, [Next]_vars
  PROVE  hasty \subseteq hasty' /\ hasty' \subseteq Attempts
<1>1. hasty \subseteq Attempts /\ pending.attempt \in Attempts
  BY DEF Shape, Typed, Pendings
<1>2. CASE \E q \in Recoverers : RecoverClose(q)
  BY <1>1, <1>2 DEF RecoverClose
<1>3. CASE UNCHANGED hasty
  BY <1>1, <1>3
<1>4. UNCHANGED hasty \/ \E q \in Recoverers : RecoverClose(q)
  BY DEF Next, LocalStep, RemoteStep, Inspect, Reserve, Preflight, OpenSession, Return, Record,
         Abandon, Guard, Stage, Promote, Switch, Verify, Break, Restore, MarkFailed, Leave,
         CleanUp, RecoverInspect, vars
<1>5. QED
  BY <1>2, <1>3, <1>4
-----------------------------------------------------------------------------
(* The shape.                                                              *)

HostOk ==
  /\ current \in Servings /\ Traced(current)
  /\ releases \subseteq Releases /\ staging \subseteq Releases /\ failed \subseteq releases

\* What is in the journal stays there.
LEMMA ReservedStays ==
  ASSUME Shape, [Next]_vars, NEW a, NEW r, Reserved(a, r)
  PROVE  a \in 1 .. Len(outcome') /\ outcome'[a].release = r
<1>1. Len(outcome) \in Nat /\ Len(outcome') \in Nat
  BY JournalSteps DEF Shape, Typed
<1>2. QED
  BY <1>1, JournalSteps DEF Reserved

LEMMA HostStays ==
  ASSUME Shape, [Next]_vars, UNCHANGED host
  PROVE  HostOk'
<1>1. Traced(current)'
  BY ReservedStays DEF Shape, Traced, Reserved, host
<1>2. QED
  BY <1>1 DEF Shape, Typed, HostOk, host

LEMMA DeployerStays ==
  ASSUME Shape, [Next]_vars, NEW p \in Deployers, run'[p] = run[p], session'[p] = session[p]
  PROVE  RunOk(p)' /\ SessionOk(p)'
<1>1. RunOk(p)'
  BY ReservedStays DEF Shape, RunOk, Reserved
<1>2. SessionOk(p)'
  BY ReservedStays DEF Shape, SessionOk, Reserved, Traced
<1>3. QED
  BY <1>1, <1>2

\* A step of one deployer or recoverer has to be looked at only where it is made.
LEMMA ShapeOfStep ==
  ASSUME Shape, [Next]_vars, HostOk',
         session' \in [Deployers -> Sessions], run' \in [Deployers -> Runs],
         report' \in [Recoverers -> Inspections],
         \A p \in Deployers : \/ run'[p] = run[p] /\ session'[p] = session[p]
                              \/ RunOk(p)' /\ SessionOk(p)'
  PROVE  Shape'
<1>1. \A p \in Deployers : RunOk(p)' /\ SessionOk(p)'
  BY DeployerStays
<1>2. Typed'
  BY JournalSteps, HastySteps DEF HostOk, Typed
<1>3. QED
  BY <1>1, <1>2, JournalSteps DEF Shape, HostOk

LEMMA InspectKept ==
  ASSUME Shape, NEW p \in Deployers, NEW release \in Releases, NEW expected \in Releases,
         Inspect(p, release, expected), [Next]_vars
  PROVE  Shape'
<1>1. release \in Names /\ expected \in Names /\ 0 \in Attempts /\ Inspected(release) \in Reports
  BY Constants, InspectedTyped DEF Shape, Names
<1>2. [pc |-> "inspected", release |-> release, expected |-> expected, attempt |-> 0,
       seen |-> Inspected(release)] \in Runs
  BY <1>1 DEF Runs
<1>3. /\ run' \in [Deployers -> Runs] /\ run'[p].pc = "inspected" /\ run'[p].attempt = 0
      /\ run'[p].release = release /\ \A q \in Deployers : q # p => run'[q] = run[q]
      /\ session' = session /\ session[p] = NoSession /\ report' = report /\ UNCHANGED host
  BY <1>2 DEF Inspect, Shape, Typed
<1>4. RunOk(p)'
  BY <1>3 DEF RunOk
<1>5. SessionOk(p)'
  BY <1>3, ReservedStays DEF Shape, SessionOk, Reserved, Traced
<1>6. QED
  BY <1>3, <1>4, <1>5, HostStays, ShapeOfStep DEF Shape, Typed

LEMMA ReserveKept ==
  ASSUME Shape, NEW p \in Deployers, Reserve(p), [Next]_vars
  PROVE  Shape'
<1>1. outcome \in Seq(Outcomes) /\ run[p] \in Runs /\ run[p].pc = "inspected"
      /\ run[p].release \in Releases
  BY DEF Reserve, Shape, Typed, RunOk
<1>2. /\ Len(outcome) \in Nat /\ Len(outcome) + 1 \in Attempts
      /\ [kind |-> "open", release |-> run[p].release] \in Outcomes
  BY <1>1, Constants DEF Reserve, Attempts, Outcomes, Kinds
<1>3. [run[p] EXCEPT !.pc = "reserved", !.attempt = Len(outcome) + 1] \in Runs
  BY <1>1, <1>2 DEF Runs
<1>4. /\ run' \in [Deployers -> Runs] /\ run'[p].pc = "reserved"
      /\ run'[p].attempt = Len(outcome) + 1 /\ run'[p].release = run[p].release
      /\ \A q \in Deployers : q # p => run'[q] = run[q]
      /\ session' = session /\ report' = report /\ UNCHANGED host
  BY <1>1, <1>3 DEF Reserve, Shape, Typed, Runs
<1>5. /\ Len(outcome') = Len(outcome) + 1
      /\ outcome'[Len(outcome) + 1].release = run[p].release
  BY <1>1, <1>2 DEF Reserve
<1>6. RunOk(p)'
  <2>1. session[p] = NoSession
    BY <1>1 DEF Shape, RunOk
  <2>2. QED
    BY <1>1, <1>2, <1>4, <1>5, <2>1 DEF RunOk, Reserved
<1>7. SessionOk(p)'
  BY <1>4, ReservedStays DEF Shape, SessionOk, Reserved, Traced
<1>8. QED
  BY <1>4, <1>6, <1>7, HostStays, ShapeOfStep DEF Shape, Typed

\* The deployer goes on with its attempt, or gives it up.
LEMMA RunMoves ==
  ASSUME Shape, [Next]_vars, NEW p \in Deployers, UNCHANGED host, report' = report,
         run' \in [Deployers -> Runs],
         \A q \in Deployers : q # p => run'[q] = run[q],
         \/ run'[p] = Idle
         \/ /\ run'[p].pc \notin {"idle", "inspected"}
            /\ run[p].pc \notin {"idle", "inspected"}
            /\ run'[p].release = run[p].release /\ run'[p].attempt = run[p].attempt
            /\ run'[p].pc # "waiting" => session'[p] = NoSession,
         session' \in [Deployers -> Sessions],
         \A q \in Deployers : q # p => session'[q] = session[q],
         session'[p] = session[p] \/ session'[p] = NoSession
  PROVE  Shape'
<1>1. RunOk(p)'
  BY ReservedStays, Nulls DEF Shape, RunOk, Reserved
<1>2. SessionOk(p)'
  <2>1. CASE session'[p] = NoSession
    BY <2>1, Nulls DEF SessionOk, Traced
  <2>2. CASE session'[p] = session[p]
    BY <2>2, ReservedStays DEF Shape, SessionOk, Reserved, Traced
  <2>3. QED
    BY <2>1, <2>2
<1>3. QED
  BY <1>1, <1>2, HostStays, ShapeOfStep DEF Shape, Typed

LEMMA PreflightKept ==
  ASSUME Shape, NEW p \in Deployers, Preflight(p), [Next]_vars
  PROVE  Shape'
<1>1. run[p] \in Runs /\ run[p].pc = "reserved" /\ session[p] = NoSession
  BY DEF Preflight, Shape, Typed, RunOk
<1>2. [run[p] EXCEPT !.pc = "uploaded"] \in Runs
  BY <1>1 DEF Runs
<1>3. /\ run' \in [Deployers -> Runs] /\ run'[p].pc = "uploaded"
      /\ run'[p].release = run[p].release /\ run'[p].attempt = run[p].attempt
      /\ \A q \in Deployers : q # p => run'[q] = run[q]
      /\ session' = session /\ report' = report /\ UNCHANGED host
  BY <1>1, <1>2 DEF Preflight, Shape, Typed, Runs
<1>4. QED
  BY <1>1, <1>3, RunMoves DEF Shape, Typed

LEMMA OpenSessionKept ==
  ASSUME Shape, NEW p \in Deployers, OpenSession(p), [Next]_vars
  PROVE  Shape'
<1>1. /\ run[p] \in Runs /\ run[p].pc = "uploaded" /\ run[p].release \in Releases
      /\ Reserved(run[p].attempt, run[p].release)
  BY DEF OpenSession, Shape, Typed, RunOk
<1>2. [run[p] EXCEPT !.pc = "waiting"] \in Runs
  BY <1>1 DEF Runs
<1>3. /\ run' \in [Deployers -> Runs] /\ run'[p].pc = "waiting"
      /\ run'[p].release = run[p].release /\ run'[p].attempt = run[p].attempt
      /\ \A q \in Deployers : q # p => run'[q] = run[q]
      /\ report' = report /\ UNCHANGED host
  BY <1>1, <1>2 DEF OpenSession, Shape, Typed, Runs
<1>4. [pc |-> "guard", release |-> run[p].release, expected |-> run[p].expected,
       attempt |-> run[p].attempt, previous |-> Nothing] \in Sessions
  BY <1>1, Nulls DEF Runs, Sessions, Live
<1>5. /\ session' \in [Deployers -> Sessions]
      /\ session'[p].pc = "guard" /\ session'[p].release = run[p].release
      /\ session'[p].attempt = run[p].attempt /\ session'[p].previous = Nothing
      /\ \A q \in Deployers : q # p => session'[q] = session[q]
  BY <1>4 DEF OpenSession, Shape, Typed
<1>6. run[p].attempt \in 1 .. Len(outcome') /\ outcome'[run[p].attempt].release = run[p].release
  BY <1>1, ReservedStays
<1>7. RunOk(p)'
  <2>1. Reserved(run[p].attempt, run[p].release)'
    BY <1>3, <1>6 DEF Reserved
  <2>2. QED
    BY <1>1, <1>3, <2>1 DEF RunOk
<1>8. SessionOk(p)'
  <2>1. Reserved(session[p].attempt, session[p].release)'
    BY <1>5, <1>6 DEF Reserved
  <2>2. QED
    BY <1>1, <1>5, <2>1, Nulls DEF SessionOk, Traced
<1>9. QED
  BY <1>3, <1>5, <1>7, <1>8, HostStays, ShapeOfStep DEF Shape, Typed

LEMMA ReturnKept ==
  ASSUME Shape, NEW p \in Deployers, Return(p), [Next]_vars
  PROVE  Shape'
<1>1. run[p] \in Runs /\ run[p].pc = "waiting"
  BY DEF Return, Shape, Typed
<1>2. Inspected(run[p].release) \in Reports
  BY <1>1, InspectedTyped DEF Shape, Runs
<1>3. [run[p] EXCEPT !.pc = "applied", !.seen = Inspected(run[p].release)] \in Runs
  BY <1>1, <1>2 DEF Runs
<1>4. /\ run' \in [Deployers -> Runs] /\ run'[p].pc = "applied"
      /\ run'[p].release = run[p].release /\ run'[p].attempt = run[p].attempt
      /\ \A q \in Deployers : q # p => run'[q] = run[q]
      /\ report' = report /\ UNCHANGED host
  BY <1>1, <1>3 DEF Return, Shape, Typed, Runs
<1>5. /\ session' \in [Deployers -> Sessions] /\ session'[p] = NoSession
      /\ \A q \in Deployers : q # p => session'[q] = session[q]
  BY Nulls DEF Return, Shape, Typed
<1>6. QED
  BY <1>1, <1>4, <1>5, RunMoves

LEMMA RecordAbandonKept ==
  ASSUME Shape, NEW p \in Deployers, Record(p) \/ Abandon(p), [Next]_vars
  PROVE  Shape'
<1>1. /\ run' = [run EXCEPT ![p] = Idle] /\ session' = session /\ report' = report
      /\ UNCHANGED host
  BY DEF Record, Abandon
<1>2. /\ run' \in [Deployers -> Runs] /\ run'[p] = Idle
      /\ \A q \in Deployers : q # p => run'[q] = run[q]
  BY <1>1, Nulls DEF Shape, Typed
<1>3. QED
  BY <1>1, <1>2, RunMoves DEF Shape, Typed
\* A script moves on.
LEMMA ScriptMoves ==
  ASSUME Shape, [Next]_vars, NEW p \in Deployers, HostOk', run' = run, report' = report,
         session[p] # NoSession, NEW pc \in Live \cup {"ok", "failed"},
         NEW previous \in Servings, Traced(previous),
         session' = [session EXCEPT ![p].pc = pc, ![p].previous = previous]
  PROVE  Shape'
<1>1. session[p] \in Sessions
  BY DEF Shape, Typed
<1>2. [session[p] EXCEPT !.pc = pc, !.previous = previous] \in Sessions
  BY <1>1 DEF Sessions
<1>3. /\ session' \in [Deployers -> Sessions]
      /\ session'[p].pc = pc /\ session'[p].previous = previous
      /\ session'[p].release = session[p].release /\ session'[p].attempt = session[p].attempt
      /\ \A q \in Deployers : q # p => session'[q] = session[q]
  BY <1>1, <1>2 DEF Shape, Typed, Sessions
<1>4. pc # "none"
  BY DEF Live
<1>5. /\ session[p].release \in Releases
      /\ session[p].attempt \in 1 .. Len(outcome')
      /\ outcome'[session[p].attempt].release = session[p].release
  BY ReservedStays DEF Shape, SessionOk
<1>6. \/ previous.attempt = 0
      \/ previous.attempt \in 1 .. Len(outcome')
           /\ outcome'[previous.attempt].release = previous.release
  BY ReservedStays DEF Traced
<1>7. SessionOk(p)'
  BY <1>3, <1>4, <1>5, <1>6, Nulls DEF SessionOk, Reserved, Traced
<1>8. RunOk(p)'
  BY ReservedStays DEF Shape, RunOk, Reserved
<1>9. QED
  BY <1>3, <1>7, <1>8, ShapeOfStep DEF Shape, Typed

\* The same where the release to go back to stays.
LEMMA ScriptGoes ==
  ASSUME Shape, [Next]_vars, NEW p \in Deployers, HostOk', run' = run, report' = report,
         session[p].pc # "none", NEW pc \in Live \cup {"ok", "failed"}, GoTo(p, pc)
  PROVE  Shape'
<1>1. session[p] \in Sessions /\ session[p] # NoSession
  BY Nulls DEF Shape, Typed
<1>2. session[p].previous \in Servings /\ Traced(session[p].previous)
  BY <1>1 DEF Sessions, Shape, SessionOk
<1>3. session' = [session EXCEPT ![p].pc = pc, ![p].previous = session[p].previous]
  BY <1>1 DEF GoTo, Sessions, Shape, Typed
<1>4. QED
  BY <1>1, <1>2, <1>3, ScriptMoves

\* The host as a script leaves it.
LEMMA HostMoves ==
  ASSUME Shape, [Next]_vars, current' = current \/ (current' \in Servings /\ Traced(current')),
         releases' \subseteq Releases, staging' \subseteq Releases, failed' \subseteq releases'
  PROVE  HostOk'
<1>1. \/ current'.attempt = 0
      \/ current'.attempt \in 1 .. Len(outcome')
           /\ outcome'[current'.attempt].release = current'.release
  BY ReservedStays DEF Shape, Traced
<1>2. QED
  BY <1>1 DEF HostOk, Shape, Typed, Traced, Reserved

LEMMA RemoteKept ==
  ASSUME Shape, NEW p \in Deployers, RemoteStep(p), [Next]_vars
  PROVE  Shape'
<1>1. /\ {"extract", "rollback", "staged", "promoted", "switched", "ok", "marking", "failed"}
           \subseteq Live \cup {"ok", "failed"}
      /\ releases \subseteq Releases /\ staging \subseteq Releases /\ failed \subseteq releases
      /\ session \in [Deployers -> Sessions] /\ session[p] \in Sessions
  BY DEF Live, Shape, Typed
<1>2. CASE Guard(p) \/ Verify(p) \/ Break(p)
  <2>1. run' = run /\ report' = report /\ HostOk' /\ session[p].pc # "none"
    BY <1>2, HostStays DEF Guard, Verify, Break, At
  <2>2. GoTo(p, "extract") \/ GoTo(p, "rollback") \/ GoTo(p, "ok")
    BY <1>2 DEF Guard, Verify, Break
  <2>3. QED
    BY <1>1, <2>1, <2>2, ScriptGoes
<1>3. CASE Stage(p)
  <2>1. session[p] # NoSession /\ session[p].release \in Releases
    BY <1>3, Nulls DEF Stage, At, Shape, SessionOk
  <2>2. current' = current /\ releases' = releases /\ failed' = failed
        /\ staging' \subseteq Releases
    BY <1>1, <1>3, <2>1 DEF Stage
  <2>3. HostOk'
    BY <1>1, <2>2, HostMoves
  <2>4. current \in Servings /\ Traced(current)
    BY DEF Shape, Typed
  <2>5. run' = run /\ report' = report
        /\ session' = [session EXCEPT ![p].pc = "staged", ![p].previous = current]
    BY <1>3 DEF Stage
  <2>6. QED
    BY <1>1, <2>1, <2>3, <2>4, <2>5, ScriptMoves
<1>4. CASE Promote(p)
  <2>1. session[p].pc # "none" /\ run' = run /\ report' = report /\ GoTo(p, "promoted")
    BY <1>4 DEF Promote, At
  <2>2. HostOk'
    BY <1>1, <1>4, HostMoves DEF Promote
  <2>3. QED
    BY <1>1, <2>1, <2>2, ScriptGoes
<1>5. CASE Switch(p)
  <2>1. session[p].pc # "none" /\ run' = run /\ report' = report /\ GoTo(p, "switched")
    BY <1>5 DEF Switch, At
  <2>2. Reserved(session[p].attempt, session[p].release)
    BY <2>1, Nulls DEF Shape, SessionOk
  <2>3. current' = [release |-> session[p].release, attempt |-> session[p].attempt]
    BY <1>5 DEF Switch
  <2>4. current' \in Servings
    BY <1>1, <2>3 DEF Sessions, Servings
  <2>5. Traced(current')
    BY <2>2, <2>3 DEF Traced
  <2>6. HostOk'
    BY <1>1, <1>5, <2>4, <2>5, HostMoves DEF Switch
  <2>7. QED
    BY <1>1, <2>1, <2>6, ScriptGoes
<1>6. CASE Restore(p)
  <2>1. session[p].pc # "none" /\ run' = run /\ report' = report /\ GoTo(p, "marking")
    BY <1>6 DEF Restore, At
  <2>2. session[p].previous \in Servings /\ Traced(session[p].previous)
    BY <1>1 DEF Sessions, Shape, SessionOk
  <2>3. HostOk'
    BY <1>1, <1>6, <2>2, HostMoves DEF Restore
  <2>4. QED
    BY <1>1, <2>1, <2>3, ScriptGoes
<1>7. CASE MarkFailed(p)
  <2>1. session[p].pc # "none" /\ run' = run /\ report' = report /\ GoTo(p, "failed")
    BY <1>7 DEF MarkFailed, At
  <2>2. HostOk'
    BY <1>1, <1>7, HostMoves DEF MarkFailed
  <2>3. QED
    BY <1>1, <2>1, <2>2, ScriptGoes
<1>8. CASE Leave(p)
  <2>1. /\ session' \in [Deployers -> Sessions] /\ session'[p] = NoSession
        /\ \A q \in Deployers : q # p => session'[q] = session[q]
        /\ report' = report /\ UNCHANGED host
    BY <1>1, <1>8, Nulls DEF Leave
  <2>2. CASE run[p].pc = "waiting"
    <3>1. /\ run' \in [Deployers -> Runs] /\ run'[p] = Idle
          /\ \A q \in Deployers : q # p => run'[q] = run[q]
      BY <1>8, <2>2, Nulls DEF Leave, Shape, Typed
    <3>2. QED
      BY <2>1, <3>1, RunMoves
  <2>3. CASE run[p].pc # "waiting"
    <3>1. run' = run
      BY <1>8, <2>3 DEF Leave
    <3>2. RunOk(p)'
      BY <2>1, <3>1, ReservedStays DEF Shape, RunOk, Reserved
    <3>3. SessionOk(p)'
      BY <2>1, Nulls DEF SessionOk, Traced
    <3>4. QED
      BY <2>1, <3>1, <3>2, <3>3, HostStays, ShapeOfStep DEF Shape, Typed
  <2>4. QED
    BY <2>2, <2>3
<1>9. QED
  BY <1>2, <1>3, <1>4, <1>5, <1>6, <1>7, <1>8 DEF RemoteStep

LEMMA ShapeKept == Shape /\ [Next]_vars => Shape'
<1> SUFFICES ASSUME Shape, [Next]_vars PROVE Shape'
  OBVIOUS
<1>1. ASSUME NEW p \in Deployers, LocalStep(p)
      PROVE  Shape'
  BY <1>1, InspectKept, ReserveKept, PreflightKept, OpenSessionKept, ReturnKept,
     RecordAbandonKept DEF LocalStep
<1>2. ASSUME NEW p \in Deployers, RemoteStep(p)
      PROVE  Shape'
  BY <1>2, RemoteKept
<1>3. ASSUME NEW q \in Recoverers, RecoverInspect(q) \/ RecoverClose(q)
      PROVE  Shape'
  <2>1. pending \in Pendings /\ Inspected(pending.release) \in Reports
    BY InspectedTyped DEF Shape, Typed, Pendings
  <2>2. \A seen \in {Inspected(pending.release), {}} :
          [plan |-> pending, seen |-> seen,
           ended |-> IF StillRuns(pending.attempt) THEN 0 ELSE pending.attempt] \in Inspections
    BY <2>1, Constants DEF Inspections, Reports, Shape, Typed, Pendings
  <2>3. report' \in [Recoverers -> Inspections]
    BY <1>3, <2>2, Nulls DEF RecoverInspect, Reported, RecoverClose, Shape, Typed
  <2>4. run' = run /\ session' = session /\ UNCHANGED host
    BY <1>3 DEF RecoverInspect, RecoverClose
  <2>5. QED
    BY <2>3, <2>4, HostStays, ShapeOfStep DEF Shape, Typed
<1>4. CASE CleanUp
  <2>1. /\ current' = current /\ releases' \subseteq Releases /\ staging' \subseteq Releases
        /\ failed' \subseteq releases' /\ run' = run /\ session' = session /\ report' = report
    BY <1>4 DEF CleanUp, Shape, Typed
  <2>2. QED
    BY <2>1, HostMoves, ShapeOfStep DEF Shape, Typed
<1>5. CASE UNCHANGED vars
  <2>1. UNCHANGED host /\ run' = run /\ session' = session /\ report' = report
    BY <1>5 DEF vars
  <2>2. QED
    BY <2>1, HostStays, ShapeOfStep DEF Shape, Typed
<1>6. QED
  BY <1>1, <1>2, <1>3, <1>4, <1>5 DEF Next
-----------------------------------------------------------------------------
(* What a script does.                                                     *)

\* A step of a script: it stays the script of its deployer, and its attempt's.
LEMMA ScriptStep ==
  ASSUME Shape, NEW p \in Deployers, RemoteStep(p)
  PROVE  /\ session[p] # NoSession /\ UNCHANGED <<report, pending, outcome>>
         /\ \A q \in Deployers : q # p => session'[q] = session[q] /\ run'[q] = run[q]
         /\ run'[p] = run[p] \/ run'[p] = Idle
         /\ session'[p] = NoSession \/
              /\ session'[p].attempt = session[p].attempt
              /\ session'[p].release = session[p].release
<1>1. session \in [Deployers -> Sessions] /\ session[p] \in Sessions /\ run \in [Deployers -> Runs]
  BY DEF Shape, Typed
<1>2. ASSUME NEW pc, GoTo(p, pc)
      PROVE  /\ \A q \in Deployers : q # p => session'[q] = session[q]
             /\ session'[p].attempt = session[p].attempt
             /\ session'[p].release = session[p].release
  BY <1>1, <1>2 DEF GoTo, Sessions
<1>3. CASE Stage(p)
  <2>1. session' = [session EXCEPT ![p].pc = "staged", ![p].previous = current]
    BY <1>3 DEF Stage
  <2>2. /\ \A q \in Deployers : q # p => session'[q] = session[q]
        /\ session'[p].attempt = session[p].attempt
        /\ session'[p].release = session[p].release
    BY <1>1, <2>1 DEF Sessions
  <2>3. QED
    BY <1>3, <2>2, Nulls DEF Stage, At, journal
<1>4. CASE Leave(p)
  BY <1>1, <1>4 DEF Leave, journal
<1>5. CASE Guard(p) \/ Promote(p) \/ Switch(p) \/ Verify(p) \/ Break(p) \/ Restore(p) \/ MarkFailed(p)
  <2>1. \E pc : GoTo(p, pc)
    BY <1>5 DEF Guard, Promote, Switch, Verify, Break, Restore, MarkFailed
  <2>2. session[p].pc # "none" /\ UNCHANGED <<run, report, pending, outcome>>
    BY <1>5 DEF Guard, Promote, Switch, Verify, Break, Restore, MarkFailed, At, journal
  <2>3. QED
    BY <1>2, <2>1, <2>2, Nulls
<1>6. QED
  BY <1>3, <1>4, <1>5 DEF RemoteStep

\* What a step of the script does to its record.
LEMMA SessionMoves ==
  ASSUME Shape, NEW p \in Deployers, NEW pc, GoTo(p, pc)
  PROVE  /\ session'[p].pc = pc /\ session'[p].release = session[p].release
         /\ session'[p].previous = session[p].previous
BY DEF GoTo, Shape, Typed, Sessions

-----------------------------------------------------------------------------
(* What the journal calls not completed: hasty recoveries or not.          *)

\* An attempt becomes undone only where a recovery closes it so.
LEMMA UndoneIsClosed ==
  ASSUME Shape, [Next]_vars, NEW a, Undone(a)', ~ Undone(a)
  PROVE  \E q \in Recoverers :
           /\ RecoverClose(q) /\ a = pending.attempt
           /\ Untouched(report[q].seen, pending.expected)
<1>1. outcome \in Seq(Outcomes) /\ Len(outcome) \in Nat
  BY DEF Shape, Typed
<1>2. a \in 1 .. Len(outcome') /\ outcome'[a].kind = "recovered_not_completed"
  BY DEF Undone
<1>3. ASSUME NEW p \in Deployers, Reserve(p)
      PROVE  FALSE
  <2>1. /\ Len(outcome') = Len(outcome) + 1
        /\ \A b \in 1 .. Len(outcome) : outcome'[b] = outcome[b]
        /\ outcome'[Len(outcome) + 1].kind = "open"
    <3>1. [kind |-> "open", release |-> run[p].release] \in Outcomes
      BY <1>3 DEF Reserve, Shape, RunOk, Outcomes, Kinds
    <3>2. outcome' = Append(outcome, [kind |-> "open", release |-> run[p].release])
      BY <1>3 DEF Reserve
    <3>3. QED
      BY <1>1, <3>1, <3>2
  <2>2. QED
    BY <1>1, <1>2, <2>1 DEF Undone
<1>4. ASSUME NEW kind \in Kinds, pending # NoAttempt, Terminal(kind)
      PROVE  a = pending.attempt /\ kind = "recovered_not_completed"
  <2>1. /\ Len(outcome') = Len(outcome)
        /\ \A b \in 1 .. Len(outcome) :
             outcome'[b].kind = IF b = pending.attempt THEN kind ELSE outcome[b].kind
    BY <1>4, Closing
  <2>2. QED
    BY <1>2, <2>1 DEF Undone
<1>5. ASSUME NEW p \in Deployers, Record(p)
      PROVE  FALSE
  <2>1. pending # NoAttempt /\ Terminal("succeeded") /\ "succeeded" \in Kinds
    BY <1>5 DEF Record, PendingOf, Kinds, Success
  <2>2. QED
    BY <1>4, <2>1
<1>6. ASSUME NEW q \in Recoverers, RecoverClose(q)
      PROVE  a = pending.attempt /\ Untouched(report[q].seen, pending.expected)
  <2>1. /\ pending # NoAttempt /\ Terminal(Recovered(pending, report[q].seen))
        /\ Recovered(pending, report[q].seen) \in Kinds
    BY <1>6 DEF RecoverClose, PendingOf, Recovered, Kinds, Success
  <2>2. a = pending.attempt /\ Recovered(pending, report[q].seen) = "recovered_not_completed"
    BY <1>4, <2>1
  <2>3. QED
    BY <2>2 DEF Recovered
<1>7. CASE UNCHANGED journal
  BY <1>2, <1>7 DEF journal, Undone
<1>8. \/ UNCHANGED journal
      \/ \E p \in Deployers : Reserve(p) \/ Record(p)
      \/ \E q \in Recoverers : RecoverClose(q)
  BY DEF Next, LocalStep, RemoteStep, Inspect, Preflight, OpenSession, Return, Abandon, Guard,
         Stage, Promote, Switch, Verify, Break, Restore, MarkFailed, Leave, CleanUp,
         RecoverInspect, Reported, GoTo, vars, journal
<1>9. QED
  BY <1>3, <1>5, <1>6, <1>7, <1>8

\* Nobody begins to work for an attempt but the one it is reserved for.
LEMMA AttemptsMove ==
  ASSUME Shape, [Next]_vars, NEW p \in Deployers
  PROVE  /\ run'[p].attempt \in {0, run[p].attempt, Len(outcome) + 1}
         /\ session'[p].attempt \in {0, run[p].attempt, session[p].attempt}
<1>1. session \in [Deployers -> Sessions] /\ run \in [Deployers -> Runs]
  BY DEF Shape, Typed
<1>2. ASSUME NEW q \in Deployers, LocalStep(q)
      PROVE  /\ run'[p].attempt \in {0, run[p].attempt, Len(outcome) + 1}
             /\ session'[p].attempt \in {0, run[p].attempt, session[p].attempt}
  <2>1. CASE Reserve(q)
    <3>1. run'[p].attempt \in {run[p].attempt, Len(outcome) + 1} /\ session' = session
      BY <1>1, <2>1 DEF Reserve, Runs
    <3>2. QED
      BY <3>1
  <2>2. CASE OpenSession(q)
    <3>1. /\ run' = [run EXCEPT ![q].pc = "waiting"]
          /\ session' = [session EXCEPT ![q] =
               [pc |-> "guard", release |-> run[q].release, expected |-> run[q].expected,
                attempt |-> run[q].attempt, previous |-> Nothing]]
      BY <2>2 DEF OpenSession
    <3>2. run'[p].attempt = run[p].attempt
      BY <1>1, <3>1 DEF Runs
    <3>3. session'[p].attempt \in {run[p].attempt, session[p].attempt}
      BY <1>1, <3>1
    <3>4. QED
      BY <3>2, <3>3
  <2>3. CASE \/ \E release, expected \in Releases : Inspect(q, release, expected)
             \/ Preflight(q) \/ Return(q) \/ Record(q) \/ Abandon(q)
    <3>1. run'[p].attempt \in {0, run[p].attempt}
      BY <1>1, <2>3, Nulls DEF Inspect, Preflight, Return, Record, Abandon, Runs
    <3>2. session'[p] \in {session[p], NoSession}
      BY <1>1, <2>3 DEF Inspect, Preflight, Return, Record, Abandon
    <3>3. QED
      BY <3>1, <3>2, Nulls
  <2>4. QED
    BY <1>2, <2>1, <2>2, <2>3 DEF LocalStep
<1>3. ASSUME NEW q \in Deployers, RemoteStep(q)
      PROVE  /\ run'[p].attempt \in {0, run[p].attempt}
             /\ session'[p].attempt \in {0, session[p].attempt}
  BY <1>3, ScriptStep, Nulls
<1>4. CASE (\E q \in Recoverers : RecoverInspect(q) \/ RecoverClose(q)) \/ CleanUp \/ UNCHANGED vars
  BY <1>4 DEF RecoverInspect, RecoverClose, CleanUp, vars
<1>5. QED
  BY <1>2, <1>3, <1>4 DEF Next

LEMMA EndedStays ==
  ASSUME Shape, [Next]_vars, NEW a, Ended(a)
  PROVE  Ended(a)'
<1>1. Len(outcome) \in Nat /\ Len(outcome') \in Nat /\ Len(outcome) <= Len(outcome')
  BY JournalSteps DEF Shape, Typed
<1>2. a \in 1 .. Len(outcome) /\ a # 0 /\ a # Len(outcome) + 1
  BY <1>1 DEF Ended
<1>3. \A p \in Deployers : run'[p].attempt # a /\ session'[p].attempt # a
  BY <1>2, AttemptsMove DEF Ended, StillRuns
<1>4. QED
  BY <1>1, <1>2, <1>3 DEF Ended, StillRuns

\* What the script's step makes served, and what it may go back to.
LEMMA ScriptServes ==
  ASSUME Shape, NEW p \in Deployers, RemoteStep(p)
  PROVE  /\ current'.attempt \in
              {current.attempt, session[p].attempt, session[p].previous.attempt}
         /\ session'[p].previous.attempt \in {session[p].previous.attempt, current.attempt, 0}
<1>1. CASE Stage(p)
  <2>1. /\ session' = [session EXCEPT ![p].pc = "staged", ![p].previous = current]
        /\ current' = current
    BY <1>1 DEF Stage
  <2>2. QED
    BY <2>1 DEF Shape, Typed, Sessions
<1>2. CASE Leave(p)
  BY <1>2, Nulls DEF Leave, host, Shape, Typed
<1>3. CASE Switch(p)
  <2>1. current'.attempt = session[p].attempt /\ GoTo(p, "switched")
    BY <1>3 DEF Switch
  <2>2. QED
    BY <2>1, SessionMoves
<1>4. CASE Guard(p) \/ Promote(p) \/ Verify(p) \/ Break(p) \/ Restore(p) \/ MarkFailed(p)
  <2>1. current' \in {current, session[p].previous} /\ \E pc : GoTo(p, pc)
    BY <1>4 DEF Guard, Promote, Verify, Break, Restore, MarkFailed, host
  <2>2. QED
    BY <2>1, SessionMoves
<1>5. QED
  BY <1>1, <1>2, <1>3, <1>4 DEF RemoteStep

LEMMA GoneStays ==
  ASSUME Shape, [Next]_vars, NEW a, Gone(a)
  PROVE  Gone(a)'
<1>1. Ended(a) /\ Ended(a)' /\ a # 0
  BY EndedStays DEF Gone, Ended
<1>2. ASSUME NEW p \in Deployers, RemoteStep(p)
      PROVE  /\ current'.attempt # a
             /\ \A q \in Deployers : session'[q].previous.attempt # a
  <2>1. session[p].attempt # a
    BY <1>1 DEF Ended, StillRuns
  <2>2. QED
    BY <1>1, <1>2, <2>1, ScriptServes, ScriptStep DEF Gone
<1>3. ASSUME NEW p \in Deployers, LocalStep(p)
      PROVE  /\ current'.attempt # a
             /\ \A q \in Deployers : session'[q].previous.attempt # a
  <2>1. UNCHANGED current
    BY <1>3 DEF LocalStep, Inspect, Reserve, Preflight, OpenSession, Return, Record, Abandon, host
  <2>2. \A q \in Deployers : session'[q].previous \in {session[q].previous, Nothing}
    BY <1>3, Nulls DEF LocalStep, Inspect, Reserve, Preflight, OpenSession, Return, Record,
                       Abandon, Shape, Typed
  <2>3. QED
    BY <1>1, <2>1, <2>2, Nulls DEF Gone
<1>4. CASE (\E q \in Recoverers : RecoverInspect(q) \/ RecoverClose(q)) \/ CleanUp \/ UNCHANGED vars
  <2>1. UNCHANGED <<current, session>>
    BY <1>4 DEF RecoverInspect, RecoverClose, CleanUp, vars, host
  <2>2. QED
    BY <1>1, <2>1 DEF Gone
<1>5. QED
  BY <1>1, <1>2, <1>3, <1>4 DEF Next, Gone

LEMMA InPlaceKept ==
  ASSUME Shape, InPlace, [Next]_vars
  PROVE  InPlace'
<1>1. ASSUME NEW p \in Deployers, RemoteStep(p)
      PROVE  InPlace'
  <2>1. releases \subseteq releases'
    BY <1>1 DEF RemoteStep, Guard, Stage, Promote, Switch, Verify, Break, Restore, MarkFailed,
                Leave, host
  <2>2. There(current.release) /\ There(session[p].previous.release)
    BY DEF InPlace
  <2>3. There(current.release)'
    <3>1. CASE Switch(p)
      BY <2>1, <3>1 DEF Switch, At, InPlace, There
    <3>2. CASE ~ Switch(p)
      <4>1. current' \in {current, session[p].previous}
        BY <1>1, <3>2 DEF RemoteStep, Guard, Stage, Promote, Verify, Break, Restore, MarkFailed,
                          Leave, host
      <4>2. QED
        BY <2>1, <2>2, <4>1 DEF There
    <3>3. QED
      BY <3>1, <3>2
  <2>4. There(session[p].previous.release)'
    <3>1. session'[p].previous \in {session[p].previous, current, Nothing}
      <4>1. CASE Stage(p)
        <5>1. session' = [session EXCEPT ![p].pc = "staged", ![p].previous = current]
          BY <4>1 DEF Stage
        <5>2. QED
          BY <5>1 DEF Shape, Typed, Sessions
      <4>2. CASE Leave(p)
        BY <4>2, Nulls DEF Leave, Shape, Typed
      <4>3. CASE \E pc : GoTo(p, pc)
        BY <4>3, SessionMoves
      <4>4. QED
        BY <1>1, <4>1, <4>2, <4>3
           DEF RemoteStep, Guard, Promote, Switch, Verify, Break, Restore, MarkFailed
    <3>2. QED
      BY <2>1, <2>2, <3>1, Nulls DEF There
  <2>5. session'[p].pc = "promoted" => session'[p].release \in releases'
    <3>1. CASE Promote(p)
      BY <3>1, SessionMoves DEF Promote
    <3>2. CASE Stage(p) \/ Leave(p)
      <4>1. session'[p].pc # "promoted"
        BY <3>2, Nulls DEF Stage, Leave, Shape, Typed, Sessions
      <4>2. QED
        BY <4>1
    <3>3. CASE \E pc : GoTo(p, pc) /\ pc # "promoted"
      BY <3>3, SessionMoves
    <3>4. QED
      BY <1>1, <3>1, <3>2, <3>3
         DEF RemoteStep, Guard, Switch, Verify, Break, Restore, MarkFailed
  <2>6. \A q \in Deployers : q # p => session'[q] = session[q]
    BY <1>1, ScriptStep
  <2>7. QED
    BY <2>1, <2>3, <2>4, <2>5, <2>6 DEF InPlace, There
<1>2. ASSUME NEW p \in Deployers, LocalStep(p)
      PROVE  InPlace'
  <2>1. UNCHANGED <<current, releases>>
    BY <1>2 DEF LocalStep, Inspect, Reserve, Preflight, OpenSession, Return, Record, Abandon, host
  <2>2. \A q \in Deployers : \/ session'[q] = session[q]
                             \/ session'[q].previous = Nothing /\ session'[q].pc \in {"none", "guard"}
    BY <1>2, Nulls DEF LocalStep, Inspect, Reserve, Preflight, OpenSession, Return, Record,
                       Abandon, Shape, Typed
  <2>3. \A q \in Deployers :
          /\ There(session'[q].previous.release)
          /\ session'[q].pc = "promoted" => session'[q].release \in releases
    BY <2>2, Nulls DEF InPlace, There
  <2>4. QED
    BY <2>1, <2>3 DEF InPlace, There
<1>3. CASE CleanUp
  <2>1. /\ \A p \in Deployers : session[p] = NoSession /\ session'[p] = NoSession
        /\ current' = current
        /\ releases' = releases \ (failed \ {current.release})
    BY <1>3 DEF CleanUp
  <2>2. QED
    BY <2>1, Nulls DEF InPlace, There
<1>4. CASE (\E q \in Recoverers : RecoverInspect(q) \/ RecoverClose(q)) \/ UNCHANGED vars
  BY <1>4 DEF RecoverInspect, RecoverClose, vars, host, InPlace, There
<1>5. QED
  BY <1>1, <1>2, <1>3, <1>4 DEF Next

\* A host without the release serves no attempt at it, and no script can go back to one.
LEMMA UntouchedIsGone ==
  ASSUME Shape, InPlace, pending # NoAttempt, ~ StillRuns(pending.attempt),
         Untouched(Inspected(pending.release), pending.expected)
  PROVE  Gone(pending.attempt)
<1>1. pending.release \notin releases
  <2>1. [current |-> pending.expected, target |-> FALSE, residue |-> {}] =
          [current |-> current.release, target |-> pending.release \in releases,
           residue |-> staging \cup failed]
    BY DEF Untouched, Inspected
  <2>2. QED
    BY <2>1
<1>2. /\ Reserved(pending.attempt, pending.release) /\ pending.attempt # 0
      /\ pending.release # None
  <2>1. Reserved(pending.attempt, pending.release)
    BY DEF Shape, PendingOk
  <2>2. outcome[pending.attempt] \in Outcomes
    BY <2>1 DEF Reserved, Shape, Typed
  <2>3. QED
    BY <2>1, <2>2, Constants DEF Reserved, Outcomes
<1>3. ASSUME NEW serving, Traced(serving), There(serving.release)
      PROVE  serving.attempt # pending.attempt
  BY <1>1, <1>2, <1>3 DEF Traced, Reserved, There
<1>4. current.attempt # pending.attempt
  BY <1>3 DEF Shape, InPlace
<1>5. \A p \in Deployers : session[p].previous.attempt # pending.attempt
  BY <1>3 DEF Shape, SessionOk, InPlace
<1>6. QED
  BY <1>2, <1>4, <1>5 DEF Gone, Ended, Reserved

LEMMA ReportKept ==
  ASSUME Shape, InPlace, VerdictOk, [Next]_vars, NEW q \in Recoverers
  PROVE  ReportOk(q)'
<1>1. CASE report'[q] = report[q]
  <2>1. SUFFICES ASSUME report[q] # NoReport, report[q].ended # 0
                 PROVE  /\ report[q].ended = report[q].plan.attempt
                        /\ Ended(report[q].ended)'
                        /\ Untouched(report[q].seen, report[q].plan.expected) =>
                             Gone(report[q].ended)'
    BY <1>1 DEF ReportOk, Untouched, Ended, Gone, StillRuns
  <2>2. /\ report[q].ended = report[q].plan.attempt /\ Ended(report[q].ended)
        /\ Untouched(report[q].seen, report[q].plan.expected) => Gone(report[q].ended)
    BY <2>1 DEF VerdictOk, ReportOk
  <2>3. ASSUME NEW a, a = report[q].ended
        PROVE  Ended(a)' /\ (Gone(a) => Gone(a)')
    BY <2>2, <2>3, EndedStays, GoneStays
  <2>4. QED
    BY <1>1, <2>2, <2>3 DEF Ended, Gone, StillRuns
<1>2. ASSUME RecoverInspect(q)
      PROVE  ReportOk(q)'
  <2>1. PICK seen \in {Inspected(pending.release), {}} : Reported(q, seen)
    BY <1>2 DEF RecoverInspect
  <2>2. /\ pending # NoAttempt /\ UNCHANGED <<host, session, run, journal>>
        /\ report'[q] = [plan |-> pending, seen |-> seen,
             ended |-> IF StillRuns(pending.attempt) THEN 0 ELSE pending.attempt]
    BY <1>2, <2>1 DEF RecoverInspect, Reported, Shape, Typed
  <2>3. UNCHANGED <<current, session, run, pending, outcome>>
    BY <2>2 DEF host, journal
  <2>4. /\ report'[q].plan = pending /\ report'[q].seen = seen
        /\ StillRuns(pending.attempt) => report'[q].ended = 0
        /\ ~ StillRuns(pending.attempt) => report'[q].ended = pending.attempt
    BY <2>2
  <2>5. ASSUME ~ StillRuns(pending.attempt)
        PROVE  /\ Ended(pending.attempt)
               /\ Untouched(seen, pending.expected) => Gone(pending.attempt)
    <3>1. Ended(pending.attempt)
      BY <2>2, <2>5 DEF Ended, Shape, PendingOk, Reserved
    <3>2. QED
      BY <2>1, <2>2, <2>5, <3>1, UntouchedIsGone DEF Untouched
  <2>6. CASE StillRuns(pending.attempt)
    BY <2>4, <2>6 DEF ReportOk
  <2>7. CASE ~ StillRuns(pending.attempt)
    <3>1. ASSUME NEW a, a = pending.attempt
          PROVE  /\ Ended(a)'
                 /\ Untouched(seen, pending.expected) => Gone(a)'
      BY <2>3, <2>5, <2>7, <3>1 DEF Ended, Gone, StillRuns
    <3>2. Untouched(report[q].seen, report[q].plan.expected)' =>
            Untouched(seen, pending.expected)
      BY <2>4 DEF Untouched
    <3>3. /\ Ended(report[q].ended)'
          /\ Untouched(report[q].seen, report[q].plan.expected)' => Gone(report[q].ended)'
      BY <2>4, <2>7, <3>1, <3>2 DEF Ended, Gone, StillRuns
    <3>4. QED
      BY <2>4, <2>7, <3>3 DEF ReportOk
  <2>8. QED
    BY <2>6, <2>7
<1>3. ASSUME report'[q] = NoReport
      PROVE  ReportOk(q)'
  BY <1>3 DEF ReportOk
<1>4. \/ report'[q] = report[q] \/ report'[q] = NoReport
      \/ RecoverInspect(q)
  <2>1. CASE \E r \in Recoverers : RecoverInspect(r) \/ RecoverClose(r)
    BY <2>1 DEF RecoverInspect, Reported, RecoverClose, Shape, Typed
  <2>2. CASE UNCHANGED report
    BY <2>2
  <2>3. UNCHANGED report \/ \E r \in Recoverers : RecoverInspect(r) \/ RecoverClose(r)
    BY ScriptStep DEF Next, LocalStep, Inspect, Reserve, Preflight, OpenSession, Return, Record,
                      Abandon, CleanUp, vars
  <2>4. QED
    BY <2>1, <2>2, <2>3
<1>5. QED
  BY <1>1, <1>2, <1>3, <1>4

LEMMA VerdictKept ==
  ASSUME Shape, InPlace, VerdictOk, [Next]_vars
  PROVE  VerdictOk'
<1>1. ASSUME NEW a \in 1 .. Len(outcome'), Undone(a)', a \notin hasty'
      PROVE  Gone(a)'
  <2>1. a \notin hasty
    BY <1>1, HastySteps
  <2>2. CASE Undone(a)
    BY <2>1, <2>2, GoneStays DEF VerdictOk, Undone
  <2>3. CASE ~ Undone(a)
    <3>1. PICK q \in Recoverers : /\ RecoverClose(q) /\ a = pending.attempt
                                  /\ Untouched(report[q].seen, pending.expected)
      BY <1>1, <2>3, UndoneIsClosed
    <3>2. /\ report[q] # NoReport /\ report[q].ended = a
          /\ report[q].plan.expected = pending.expected /\ pending # NoAttempt
      BY <1>1, <3>1 DEF RecoverClose, PendingOf
    <3>3. Gone(a)
      BY <3>1, <3>2 DEF VerdictOk, ReportOk, Shape, PendingOk, Reserved
    <3>4. QED
      BY <3>3, GoneStays
  <2>4. QED
    BY <2>2, <2>3
<1>2. \A q \in Recoverers : ReportOk(q)'
  BY ReportKept
<1>3. QED
  BY <1>1, <1>2 DEF VerdictOk

-----------------------------------------------------------------------------
(* Who is busy, while no recovery is hasty.                                *)

\* The steps that neither open nor close an attempt make nobody busy.
LEMMA ExclusiveStays ==
  ASSUME Exclusive, pending'.attempt = pending.attempt,
         \A p \in Deployers :
           /\ run'[p].attempt # 0 => Busy(p) /\ run'[p].attempt = pending.attempt
           /\ session'[p] # NoSession => Busy(p) /\ session'[p].attempt = pending.attempt
  PROVE  Exclusive'
<1>1. \A p \in Deployers : Busy(p)' => Busy(p)
  BY DEF Busy
<1>2. QED
  BY <1>1 DEF Exclusive

\* A recovery that is not hasty closes an attempt only when nobody is busy.
LEMMA NobodyAtClose ==
  ASSUME Exclusive, ~ StillRuns(pending.attempt)
  PROVE  \A p \in Deployers : ~ Busy(p)
BY DEF Exclusive, StillRuns, Busy

LEMMA ExclusiveKept ==
  ASSUME Shape, Exclusive, VerdictOk, [Next]_vars, hasty' = {}
  PROVE  Exclusive'
<1>1. session \in [Deployers -> Sessions] /\ run \in [Deployers -> Runs]
  BY DEF Shape, Typed
<1>2. ASSUME NEW p \in Deployers, Reserve(p)
      PROVE  Exclusive'
  <2>1. \A q \in Deployers : ~ Busy(q)
    BY <1>2, Nulls DEF Reserve, Exclusive, Busy, Shape, SessionOk, Reserved
  <2>2. /\ pending'.attempt = Len(outcome) + 1 /\ session' = session
        /\ run' = [run EXCEPT ![p].pc = "reserved", ![p].attempt = Len(outcome) + 1]
    BY <1>2 DEF Reserve
  <2>3. /\ run'[p].attempt = pending'.attempt
        /\ \A q \in Deployers : q # p => run'[q] = run[q]
    BY <1>1, <2>2 DEF Runs
  <2>4. QED
    BY <2>1, <2>2, <2>3 DEF Exclusive, Busy
<1>3. ASSUME pending' = NoAttempt,
             \A p \in Deployers : run'[p].attempt = 0 /\ session'[p] = NoSession
      PROVE  Exclusive'
  BY <1>3 DEF Exclusive, Busy
<1>4. ASSUME NEW p \in Deployers, Record(p)
      PROVE  Exclusive'
  <2>1. Busy(p) /\ session[p] = NoSession
    BY <1>4 DEF Record, Busy, Shape, RunOk, Reserved
  <2>2. \A q \in Deployers : q # p => ~ Busy(q)
    BY <2>1 DEF Exclusive
  <2>3. pending' = NoAttempt /\ run' = [run EXCEPT ![p] = Idle] /\ session' = session
    BY <1>4 DEF Record, Terminal
  <2>4. \A q \in Deployers : run'[q].attempt = 0 /\ session'[q] = NoSession
    BY <1>1, <2>1, <2>2, <2>3, Nulls DEF Busy
  <2>5. QED
    BY <1>3, <2>3, <2>4
<1>5. ASSUME NEW q \in Recoverers, RecoverClose(q)
      PROVE  Exclusive'
  <2>1. /\ report[q].ended = pending.attempt /\ pending' = NoAttempt
        /\ run' = run /\ session' = session /\ pending # NoAttempt
    BY <1>5 DEF RecoverClose, Terminal, PendingOf
  <2>2. pending.attempt # 0
    BY <2>1 DEF Shape, PendingOk, Reserved
  <2>3. ~ StillRuns(pending.attempt)
    BY <1>5, <2>1, <2>2 DEF RecoverClose, VerdictOk, ReportOk, Ended
  <2>4. QED
    BY <1>3, <2>1, <2>3, NobodyAtClose DEF Busy
<1>6. ASSUME NEW p \in Deployers, RemoteStep(p)
      PROVE  Exclusive'
  <2>1. \A q \in Deployers : run'[q].attempt # 0 => run'[q].attempt = run[q].attempt
    BY <1>6, ScriptStep, Nulls
  <2>2. \A q \in Deployers : session'[q] # NoSession =>
          session[q] # NoSession /\ session'[q].attempt = session[q].attempt
    BY <1>6, ScriptStep
  <2>3. pending' = pending
    BY <1>6, ScriptStep
  <2>4. QED
    BY <2>1, <2>2, <2>3, ExclusiveStays DEF Exclusive, Busy
<1>7. ASSUME NEW p \in Deployers, OpenSession(p)
      PROVE  Exclusive'
  <2>1. /\ run' = [run EXCEPT ![p].pc = "waiting"] /\ pending' = pending
        /\ session' = [session EXCEPT ![p] =
             [pc |-> "guard", release |-> run[p].release, expected |-> run[p].expected,
              attempt |-> run[p].attempt, previous |-> Nothing]]
    BY <1>7 DEF OpenSession, journal
  <2>2. \A q \in Deployers : run'[q].attempt = run[q].attempt
    BY <1>1, <2>1 DEF Runs
  <2>3. /\ session'[p].attempt = run[p].attempt
        /\ \A q \in Deployers : q # p => session'[q] = session[q]
    BY <1>1, <2>1
  <2>4. run[p].attempt # 0
    BY <1>7 DEF OpenSession, Shape, RunOk, Reserved
  <2>5. QED
    BY <2>1, <2>2, <2>3, <2>4, ExclusiveStays DEF Exclusive, Busy
<1>8. ASSUME \A q \in Deployers : /\ run'[q].attempt # 0 => run'[q].attempt = run[q].attempt
                                  /\ session'[q] # NoSession => session'[q] = session[q],
             pending' = pending
      PROVE  Exclusive'
  BY <1>8, ExclusiveStays DEF Exclusive, Busy
<1>9. ASSUME NEW p \in Deployers,
             \/ \E release, expected \in Releases : Inspect(p, release, expected)
             \/ Preflight(p) \/ Return(p) \/ Abandon(p)
      PROVE  Exclusive'
  <2>1. \A q \in Deployers : /\ run'[q].attempt # 0 => run'[q].attempt = run[q].attempt
                             /\ session'[q] # NoSession => session'[q] = session[q]
    BY <1>1, <1>9, Nulls DEF Inspect, Preflight, Return, Abandon, Runs
  <2>2. pending' = pending
    BY <1>9 DEF Inspect, Preflight, Return, Abandon, journal
  <2>3. QED
    BY <1>8, <2>1, <2>2
<1>10. CASE \/ \E q \in Recoverers : RecoverInspect(q)
            \/ CleanUp \/ UNCHANGED vars
  BY <1>8, <1>10 DEF RecoverInspect, CleanUp, vars, journal
<1>11. QED
  BY <1>2, <1>4, <1>5, <1>6, <1>7, <1>9, <1>10 DEF Next, LocalStep
-----------------------------------------------------------------------------
(* What is served.                                                         *)

\* Only the one deployer that is busy has a script.
LEMMA OtherQuiet ==
  ASSUME Exclusive, NEW p \in Deployers, session[p] # NoSession,
         NEW q \in Deployers, q # p
  PROVE  session[q] = NoSession
BY DEF Exclusive, Busy

LEMMA QuietOk ==
  ASSUME NEW p \in Deployers, session'[p] = NoSession
  PROVE  ScriptOk(p)'
BY Nulls DEF ScriptOk, Good

\* While a script moves, the others are quiet: only the host and it are looked at.
LEMMA ServedOfScript ==
  ASSUME Shape, Exclusive, NEW p \in Deployers, RemoteStep(p),
         Good(current.release)', ScriptOk(p)'
  PROVE  ServedOk'
<1>1. \A q \in Deployers : q # p => session'[q] = NoSession
  BY ScriptStep, OtherQuiet
<1>2. \A q \in Deployers : ScriptOk(q)'
  BY <1>1, QuietOk
<1>3. QED
  BY <1>2 DEF ServedOk

LEMMA RemoteServed ==
  ASSUME Shape, Exclusive, ServedOk, NEW p \in Deployers, RemoteStep(p)
  PROVE  ServedOk'
<1>1. Good(current.release) /\ ScriptOk(p) /\ failed \subseteq releases
  BY DEF ServedOk, Shape, Typed
<1>2. CASE Guard(p)
  <2>1. /\ UNCHANGED <<current, releases, staging, failed>>
        /\ \/ GoTo(p, "extract") /\ session[p].release \notin releases
           \/ GoTo(p, "rollback")
    BY <1>2 DEF Guard, GuardOk, host
  <2>2. ScriptOk(p)'
    BY <1>1, <2>1, SessionMoves DEF ScriptOk, Good
  <2>3. QED
    BY <1>1, <2>1, <2>2, ServedOfScript DEF Good
<1>3. CASE Verify(p) \/ Break(p)
  <2>1. /\ UNCHANGED <<current, releases, staging, failed>>
        /\ GoTo(p, "ok") \/ GoTo(p, "rollback")
    BY <1>3 DEF Verify, Break, host
  <2>2. ScriptOk(p)'
    BY <1>1, <2>1, SessionMoves DEF ScriptOk, Good
  <2>3. QED
    BY <1>1, <2>1, <2>2, ServedOfScript DEF Good
<1>4. CASE Stage(p)
  <2>1. /\ UNCHANGED <<current, releases, failed>> /\ session[p].pc = "extract"
        /\ session' = [session EXCEPT ![p].pc = "staged", ![p].previous = current]
    BY <1>4 DEF Stage, At
  <2>2. /\ session'[p].pc = "staged" /\ session'[p].previous = current
        /\ session'[p].release = session[p].release
    BY <2>1 DEF Shape, Typed, Sessions
  <2>3. ScriptOk(p)'
    BY <1>1, <2>1, <2>2 DEF ScriptOk, Good
  <2>4. QED
    BY <1>1, <2>1, <2>3, ServedOfScript DEF Good
<1>5. CASE Promote(p)
  <2>1. /\ UNCHANGED <<current, failed>> /\ releases' = releases \cup {session[p].release}
        /\ session[p].pc = "staged" /\ GoTo(p, "promoted")
    BY <1>5 DEF Promote, At
  <2>2. session[p].release \notin failed
    BY <1>1, <2>1 DEF ScriptOk
  <2>3. ScriptOk(p)'
    BY <1>1, <2>1, <2>2, SessionMoves DEF ScriptOk, Good
  <2>4. QED
    BY <1>1, <2>1, <2>3, ServedOfScript DEF Good
<1>6. CASE Switch(p)
  <2>1. /\ UNCHANGED <<releases, failed>> /\ current'.release = session[p].release
        /\ session[p].pc = "promoted" /\ GoTo(p, "switched")
    BY <1>6 DEF Switch, At
  <2>2. ScriptOk(p)'
    BY <1>1, <2>1, SessionMoves DEF ScriptOk, Good
  <2>3. Good(current.release)'
    BY <1>1, <2>1 DEF ScriptOk, Good
  <2>4. QED
    BY <2>2, <2>3, ServedOfScript
<1>7. CASE Restore(p)
  <2>1. /\ UNCHANGED <<releases, failed>> /\ current' = session[p].previous
        /\ GoTo(p, "marking")
    BY <1>7 DEF Restore
  <2>2. ScriptOk(p)'
    BY <1>1, <2>1, SessionMoves DEF ScriptOk, Good
  <2>3. Good(current.release)'
    BY <1>1, <2>1 DEF ScriptOk, Good
  <2>4. QED
    BY <2>2, <2>3, ServedOfScript
<1>8. CASE MarkFailed(p)
  <2>1. /\ UNCHANGED <<current, releases>> /\ failed' \subseteq failed \cup {session[p].release}
        /\ session[p].pc = "marking" /\ GoTo(p, "failed")
    BY <1>8 DEF MarkFailed, At
  <2>2. /\ current = session[p].previous
        /\ current.release # None => current.release # session[p].release
    BY <1>1, <2>1 DEF ScriptOk
  <2>3. ScriptOk(p)'
    BY <1>1, <2>1, <2>2, SessionMoves DEF ScriptOk, Good
  <2>4. Good(current.release)'
    BY <1>1, <2>1, <2>2 DEF Good
  <2>5. QED
    BY <2>3, <2>4, ServedOfScript
<1>9. CASE Leave(p)
  <2>1. UNCHANGED <<current, releases, staging, failed>> /\ session'[p] = NoSession
    BY <1>9 DEF Leave, host, Shape, Typed
  <2>2. QED
    BY <1>1, <2>1, QuietOk, ServedOfScript DEF Good
<1>10. QED
  BY <1>2, <1>3, <1>4, <1>5, <1>6, <1>7, <1>8, <1>9 DEF RemoteStep

\* The host unchanged, a script may only end, or start with nothing to go back to.
LEMMA ServedStays ==
  ASSUME ServedOk, UNCHANGED host,
         \A p \in Deployers : \/ session'[p] = session[p] \/ session'[p] = NoSession
                              \/ session'[p].pc = "guard" /\ session'[p].previous = Nothing
  PROVE  ServedOk'
<1>1. UNCHANGED <<current, releases, staging, failed>>
  BY DEF host
<1>2. \A p \in Deployers : ScriptOk(p)'
  BY <1>1, Nulls DEF ServedOk, ScriptOk, Good
<1>3. QED
  BY <1>1, <1>2 DEF ServedOk, Good

LEMMA ServedKept == Shape /\ Exclusive /\ ServedOk /\ [Next]_vars => ServedOk'
<1> SUFFICES ASSUME Shape, Exclusive, ServedOk, [Next]_vars PROVE ServedOk'
  OBVIOUS
<1>1. ASSUME NEW p \in Deployers, OpenSession(p)
      PROVE  ServedOk'
  BY <1>1, ServedStays DEF OpenSession, Shape, Typed
<1>2. ASSUME NEW p \in Deployers, LocalStep(p), ~ OpenSession(p)
      PROVE  ServedOk'
  <2>1. UNCHANGED host /\ \A q \in Deployers : session'[q] \in {session[q], NoSession}
    BY <1>2 DEF LocalStep, Inspect, Reserve, Preflight, Return, Record, Abandon, Shape, Typed
  <2>2. QED
    BY <2>1, ServedStays
<1>3. CASE CleanUp
  <2>1. /\ \A p \in Deployers : session'[p] = NoSession
        /\ current' = current /\ failed' = {}
        /\ releases' = releases \ (failed \ {current.release})
    BY <1>3 DEF CleanUp
  <2>2. Good(current.release)'
    BY <2>1 DEF ServedOk, Good
  <2>3. QED
    BY <2>1, <2>2, QuietOk DEF ServedOk
<1>4. CASE (\E q \in Recoverers : RecoverInspect(q) \/ RecoverClose(q)) \/ UNCHANGED vars
  BY <1>4, ServedStays DEF RecoverInspect, RecoverClose, vars
<1>5. QED
  BY <1>1, <1>2, <1>3, <1>4, RemoteServed DEF Next
-----------------------------------------------------------------------------
(* The theorems.                                                           *)

LEMMA Shaped == Spec => []Shape
<1>1. Init => Shape
  BY Initially
<1>2. QED
  BY <1>1, ShapeKept, PTL DEF Spec

\* The state has its shape: failed releases are releases, each attempt that a deployer or
\* a script names is one of those the journal may hold, and no report is of another kind.
THEOREM TypeCorrect == Spec => []TypeOK
<1>1. Shape => TypeOK
  <2> SUFFICES ASSUME Shape PROVE TypeOK
    OBVIOUS
  <2>1. /\ current \in [release : Releases \cup {None}, attempt : Attempts]
        /\ releases \subseteq Releases /\ staging \subseteq Releases /\ failed \subseteq releases
    BY DEF Shape, Typed, Servings, Names
  <2>2. session \in [Deployers ->
          [pc : Live \cup {"none", "ok", "failed"}, release : Releases \cup {None},
           expected : Releases \cup {None}, attempt : Attempts,
           previous : [release : Releases \cup {None}, attempt : Attempts]]]
    BY DEF Shape, Typed, Sessions, Servings, Names
  <2>3. run \in [Deployers ->
          [pc : {"idle", "inspected", "reserved", "uploaded", "waiting", "applied"},
           release : Releases \cup {None}, expected : Releases \cup {None},
           attempt : Attempts, seen : Reports]]
    BY DEF Shape, Typed, Runs, Names
  <2>4. \A q \in Recoverers : report[q].plan.attempt \in Attempts /\ report[q].seen \in Reports
    BY DEF Shape, Typed, Pendings, Inspections
  <2>5. outcome \in Seq(Outcomes) /\ Len(outcome) \in Nat /\ Len(outcome) <= MaxAttempts
    BY DEF Shape, Typed
  <2>6. pending.attempt \in Attempts /\ Len(outcome) \in Attempts /\ hasty \subseteq Attempts
    BY <2>5, Constants DEF Shape, Typed, Pendings, Attempts
  <2>7. \A a \in DOMAIN outcome :
          outcome[a] \in [kind : Success \cup {"open", "recovered_not_completed",
                                               "recovery_blocked"}, release : Releases]
    <3>1. \A a \in DOMAIN outcome : outcome[a] \in Outcomes
      BY <2>5
    <3>2. QED
      BY <3>1 DEF Outcomes, Kinds
  <2>8. QED
    BY <2>1, <2>2, <2>3, <2>4, <2>6, <2>7 DEF TypeOK
<1>2. QED
  BY <1>1, Shaped, PTL

LEMMA Kept ==
  Spec => []( /\ Shape /\ InPlace /\ VerdictOk
              /\ hasty = {} => Exclusive /\ ServedOk )
<1> DEFINE IInv == /\ Shape /\ InPlace /\ VerdictOk
                   /\ hasty = {} => Exclusive /\ ServedOk
<1>1. Init => IInv
  BY Initially
<1>2. ASSUME IInv, [Next]_vars PROVE IInv'
  <2>1. Shape' /\ InPlace' /\ VerdictOk'
    BY <1>2, ShapeKept, InPlaceKept, VerdictKept
  <2>2. ASSUME hasty' = {} PROVE Exclusive' /\ ServedOk'
    <3>1. hasty = {}
      BY <1>2, <2>2, HastySteps
    <3>2. QED
      BY <1>2, <2>2, <3>1, ExclusiveKept, ServedKept
  <2>3. QED
    BY <2>1, <2>2
<1>3. QED
  <2> HIDE DEF IInv
  <2>1. Spec => []IInv
    BY <1>1, <1>2, PTL DEF Spec
  <2>2. QED
    BY <2>1 DEF IInv

\* As long as no recovery has used a report that is not of the end of the attempt it
\* closed, no deployer has a script while another has one: the single open attempt of the
\* journal, which the reservation takes and nothing else closes under it, keeps them apart.
THEOREM OneScript == Spec => []OneScriptAtATime
<1>1. Shape /\ Exclusive => \A p, q \in Deployers :
        session[p].pc \in Live /\ session[q].pc \in Live => p = q
  <2> SUFFICES ASSUME Shape, Exclusive
               PROVE  \A p, q \in Deployers :
                        session[p].pc \in Live /\ session[q].pc \in Live => p = q
    OBVIOUS
  <2>1. \A p \in Deployers : session[p].pc \in Live => Busy(p)
    BY Nulls DEF Busy, Live
  <2>2. QED
    BY <2>1 DEF Exclusive
<1>2. Shape /\ (hasty = {} => Exclusive /\ ServedOk) => OneScriptAtATime
  BY <1>1 DEF OneScriptAtATime
<1>3. QED
  BY <1>2, Kept, PTL

\* As long as that is so the host serves a release that is there and not marked failed,
\* whichever command of the script fails: a script goes back only to what was good when it
\* staged, and marks only the release it promoted, which it no longer serves.
THEOREM ServesGood == Spec => []ServesGoodRelease
<1>1. (hasty = {} => Exclusive /\ ServedOk) => ServesGoodRelease
  BY DEF ServedOk, Good, ServesGoodRelease
<1>2. QED
  BY <1>1, Kept, PTL

\* What the journal closed as not completed is served only if the report it was closed on
\* was taken while its script ran or for an earlier attempt.  No recovery is asked to wait:
\* for any recoverers, reports of any age, and scripts that outlive their attempts, a report
\* taken after the end of its attempt that finds the release absent stays true of it.
THEOREM VerdictStands == Spec => []NotCompletedIsNotServed
<1>1. Shape /\ VerdictOk => NotCompletedIsNotServed
  <2>1. outcome \in Seq(Outcomes) => DOMAIN outcome = 1 .. Len(outcome)
    OBVIOUS
  <2>2. QED
    BY <2>1 DEF Shape, Typed, VerdictOk, Undone, Gone, NotCompletedIsNotServed
<1>2. QED
  BY <1>1, Kept, PTL
=============
