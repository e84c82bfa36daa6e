---------------------------- MODULE OciDeployment ----------------------------
(***************************************************************************)
(* The deployment of one Serving Bundle to the public host: the custody    *)
(* that reserves it, records its success and recovers it                   *)
(* (daily_eod_oci_deployment_custody), the capability that inspects,       *)
(* applies and inspects again, and the script it runs there                *)
(* (deploy-private-dashboard-oci.sh).                                      *)
(*                                                                         *)
(* The script runs on the remote host and is not stopped by the end of the *)
(* process that waits for it, and nothing keeps a recovery from being      *)
(* asked for while it goes on.  What the custody knows of the host are     *)
(* reports, up to five minutes old when used, which is longer than many    *)
(* steps of the script: a report is used any number of steps after it.     *)
(***************************************************************************)
EXTENDS Integers, Sequences, FiniteSets

CONSTANTS
  Deployers,     \* processes that deploy
  Recoverers,    \* processes that recover
  Releases,      \* release ids
  First,         \* the release served at the beginning
  None,          \* no release
  MaxAttempts    \* bound: reservations

ASSUME OciAssumption ==
  /\ First \in Releases /\ None \notin Releases
  /\ MaxAttempts \in Nat

VARIABLES
  current,    \* what the symlink /srv/whalpha/current serves, and who switched it
  releases,   \* directories of releases
  staging,    \* staging directories
  failed,     \* releases marked DEPLOY_FAILED
  session,    \* the remote script each deployer started
  run,        \* the deployers
  report,     \* what each recoverer has inspected
  pending,    \* the unresolved oci_deployment_started event
  outcome,    \* the terminal event of each attempt, and its release
  hasty       \* attempts recovered from a report that is not of their end (history)

host == <<current, releases, staging, failed>>
journal == <<pending, outcome>>
vars == <<host, session, run, report, journal, hasty>>

Nothing == [release |-> None, attempt |-> 0]
NoAttempt == [attempt |-> 0, release |-> None, expected |-> None]
Idle == [pc |-> "idle", release |-> None, expected |-> None, attempt |-> 0, seen |-> {}]
NoSession == [pc |-> "none", release |-> None, expected |-> None, attempt |-> 0,
              previous |-> Nothing]
NoReport == [plan |-> NoAttempt, seen |-> {}, ended |-> 0]

\* inspect-private-dashboard-oci.sh.  A report is the singleton of what was seen of a
\* host whose services and routes are healthy; {} is any other, which proves nothing.
Inspected(release) ==
  {[current |-> current.release, target |-> release \in releases,
    residue |-> staging \cup failed]}

\* validate_remote_precondition and remote_state_is_unchanged_not_completed
Untouched(seen, expected) ==
  [current |-> expected, target |-> FALSE, residue |-> {}] \in seen

\* validate_remote_postcondition
Deployed(seen, release) ==
  [current |-> release, target |-> TRUE, residue |-> {}] \in seen

-----------------------------------------------------------------------------
(* The capability and the custody.                                         *)

\* The capability begins with an inspection.  One that does not show the host as it was
\* approved leads nowhere, Reserve refuses it: such inspections are left out.
Inspect(p, release, expected) ==
  /\ run[p] = Idle /\ session[p] = NoSession
  /\ Untouched(Inspected(release), expected)
  /\ run' = [run EXCEPT ![p] = [pc |-> "inspected", release |-> release,
                                expected |-> expected, attempt |-> 0,
                                seen |-> Inspected(release)]]
  /\ UNCHANGED <<host, session, report, journal, hasty>>

\* Mutant of Reserve: an unresolved attempt does not stop the next.
ReserveOverPending(p) ==
  /\ run[p].pc = "inspected"
  /\ Len(outcome) < MaxAttempts
  /\ Untouched(run[p].seen, run[p].expected)
  /\ pending' = [attempt |-> Len(outcome) + 1, release |-> run[p].release,
                 expected |-> run[p].expected]
  /\ outcome' = Append(outcome, [kind |-> "open", release |-> run[p].release])
  /\ run' = [run EXCEPT ![p].pc = "reserved", ![p].attempt = Len(outcome) + 1]
  /\ UNCHANGED <<host, session, report, hasty>>

\* reserve_oci_deployment
Reserve(p) ==
  /\ run[p].pc = "inspected"
  /\ pending = NoAttempt
  /\ Len(outcome) < MaxAttempts
  /\ Untouched(run[p].seen, run[p].expected)
  /\ pending' = [attempt |-> Len(outcome) + 1, release |-> run[p].release,
                 expected |-> run[p].expected]
  /\ outcome' = Append(outcome, [kind |-> "open", release |-> run[p].release])
  /\ run' = [run EXCEPT ![p].pc = "reserved", ![p].attempt = Len(outcome) + 1]
  /\ UNCHANGED <<host, session, report, hasty>>

\* The script's first session, then the upload of the bundle.
Preflight(p) ==
  /\ run[p].pc = "reserved"
  /\ current.release = run[p].expected
  /\ staging \cup failed = {}
  /\ run' = [run EXCEPT ![p].pc = "uploaded"]
  /\ UNCHANGED <<host, session, report, journal, hasty>>

OpenSession(p) ==
  /\ run[p].pc = "uploaded"
  /\ session' = [session EXCEPT ![p] =
       [pc |-> "guard", release |-> run[p].release, expected |-> run[p].expected,
        attempt |-> run[p].attempt, previous |-> Nothing]]
  /\ run' = [run EXCEPT ![p].pc = "waiting"]
  /\ UNCHANGED <<host, report, journal, hasty>>

\* The script exits zero, and the capability inspects again.
Return(p) ==
  /\ run[p].pc = "waiting" /\ session[p].pc = "ok"
  /\ session' = [session EXCEPT ![p] = NoSession]
  /\ run' = [run EXCEPT ![p].pc = "applied", ![p].seen = Inspected(run[p].release)]
  /\ UNCHANGED <<host, report, journal, hasty>>

Terminal(kind) ==
  /\ outcome' = [outcome EXCEPT ![pending.attempt].kind = kind]
  /\ pending' = NoAttempt

\* _pending compares the configuration of the reservation, not the attempt.
PendingOf(release, expected) ==
  pending # NoAttempt /\ pending.release = release /\ pending.expected = expected

\* record_oci_deployment_success
Record(p) ==
  /\ run[p].pc = "applied"
  /\ PendingOf(run[p].release, run[p].expected)
  /\ Deployed(run[p].seen, run[p].release)
  /\ Terminal("succeeded")
  /\ run' = [run EXCEPT ![p] = Idle]
  /\ UNCHANGED <<host, session, report, hasty>>

\* Any exception, the timeout of the wait included, and the death of the process:
\* the attempt stays open and the script goes on.
Abandon(p) ==
  /\ run[p].pc # "idle"
  /\ run' = [run EXCEPT ![p] = Idle]
  /\ UNCHANGED <<host, session, report, journal, hasty>>

StillRuns(attempt) ==
  \E p \in Deployers : attempt \in {run[p].attempt, session[p].attempt}

\* Beside what it saw, the attempt whose end it was taken after, 0 for none (history).
Reported(q, seen) ==
  report' = [report EXCEPT ![q] =
    [plan |-> pending, seen |-> seen,
     ended |-> IF StillRuns(pending.attempt) THEN 0 ELSE pending.attempt]]

\* Mutant of RecoverInspect: the report of the approval is used again.
RecoverFromApproval(q) ==
  /\ pending # NoAttempt
  /\ Reported(q, {[current |-> pending.expected, target |-> FALSE, residue |-> {}]})
  /\ UNCHANGED <<host, session, run, journal, hasty>>

\* The recovery router inspects for the attempt it read, whether or not a process or a
\* script still works for it, ...
RecoverInspect(q) ==
  /\ pending # NoAttempt
  /\ \E seen \in {Inspected(pending.release), {}} : Reported(q, seen)
  /\ UNCHANGED <<host, session, run, journal, hasty>>

Recovered(plan, seen) ==
  IF Deployed(seen, plan.release) THEN "recovered_succeeded"
  ELSE IF Untouched(seen, plan.expected) THEN "recovered_not_completed"
  ELSE "recovery_blocked"

\* ... and recover_oci_deployment uses the report under the journal lock.
RecoverClose(q) ==
  /\ report[q] # NoReport
  /\ PendingOf(report[q].plan.release, report[q].plan.expected)
  /\ Terminal(Recovered(pending, report[q].seen))
  /\ hasty' = IF report[q].ended = pending.attempt THEN hasty
              ELSE hasty \cup {pending.attempt}
  /\ report' = [report EXCEPT ![q] = NoReport]
  /\ UNCHANGED <<host, session, run>>

-----------------------------------------------------------------------------
(* The script on the remote host.                                          *)

At(p, pc) == session[p].pc = pc
GoTo(p, pc) == session' = [session EXCEPT ![p].pc = pc]

\* The guards repeated before the first mutation.
GuardOk(p) ==
  /\ current.release = session[p].expected
  /\ session[p].release \notin releases
  /\ staging \cup failed = {}

Guard(p) ==
  /\ At(p, "guard")
  /\ GoTo(p, IF GuardOk(p) THEN "extract" ELSE "rollback")
  /\ UNCHANGED <<host, run, report, journal, hasty>>

\* The extracted bundle is verified, the served release remembered, and the staging
\* directory filled.
Stage(p) ==
  /\ At(p, "extract")
  /\ session' = [session EXCEPT ![p].pc = "staged", ![p].previous = current]
  /\ staging' = staging \cup {session[p].release}
  /\ UNCHANGED <<current, releases, failed, run, report, journal, hasty>>

Promote(p) ==
  /\ At(p, "staged")
  /\ session[p].release \in staging
  /\ staging' = staging \ {session[p].release}
  /\ releases' = releases \cup {session[p].release}
  /\ GoTo(p, "promoted")
  /\ UNCHANGED <<current, failed, run, report, journal, hasty>>

Switch(p) ==
  /\ At(p, "promoted")
  /\ current' = [release |-> session[p].release, attempt |-> session[p].attempt]
  /\ GoTo(p, "switched")
  /\ UNCHANGED <<releases, staging, failed, run, report, journal, hasty>>

Verify(p) ==
  /\ At(p, "switched")
  /\ GoTo(p, "ok")
  /\ UNCHANGED <<host, run, report, journal, hasty>>

\* A command fails: the EXIT trap runs.
Break(p) ==
  /\ session[p].pc \in {"extract", "staged", "promoted", "switched"}
  /\ GoTo(p, "rollback")
  /\ UNCHANGED <<host, run, report, journal, hasty>>

\* Mutant of Restore: the switch is not taken back.
RestoreNothing(p) ==
  /\ At(p, "rollback")
  /\ GoTo(p, "marking")
  /\ UNCHANGED <<host, run, report, journal, hasty>>

\* rollback: the release remembered is served again; if none is remembered, none is.
Restore(p) ==
  /\ At(p, "rollback")
  /\ current' = session[p].previous
  /\ GoTo(p, "marking")
  /\ UNCHANGED <<releases, staging, failed, run, report, journal, hasty>>

\* Mutant of MarkFailed: what is marked need not be there.
MarkFailedAlways(p) ==
  /\ At(p, "marking")
  /\ failed' = failed \cup {session[p].release}
  /\ GoTo(p, "failed")
  /\ UNCHANGED <<current, releases, staging, run, report, journal, hasty>>

MarkFailed(p) ==
  /\ At(p, "marking")
  /\ failed' = IF session[p].release \in releases THEN failed \cup {session[p].release}
               ELSE failed
  /\ GoTo(p, "failed")
  /\ UNCHANGED <<current, releases, staging, run, report, journal, hasty>>

\* The script is gone: ended, or killed before its trap runs.  A process that waits
\* for it sees a failure, also when only the connection to an ended script is lost.
Leave(p) ==
  /\ session[p] # NoSession
  /\ session' = [session EXCEPT ![p] = NoSession]
  /\ run' = IF run[p].pc = "waiting" THEN [run EXCEPT ![p] = Idle] ELSE run
  /\ UNCHANGED <<host, report, journal, hasty>>

\* The operator removes what failed deployments left, when none runs.
CleanUp ==
  /\ \A p \in Deployers : session[p] = NoSession
  /\ staging \cup failed # {}
  /\ staging' = {} /\ failed' = {}
  /\ releases' = releases \ (failed \ {current.release})
  /\ UNCHANGED <<current, session, run, report, journal, hasty>>

-----------------------------------------------------------------------------
Init ==
  /\ current = [release |-> First, attempt |-> 0]
  /\ releases = {First} /\ staging = {} /\ failed = {}
  /\ session = [p \in Deployers |-> NoSession]
  /\ run = [p \in Deployers |-> Idle]
  /\ report = [q \in Recoverers |-> NoReport]
  /\ pending = NoAttempt /\ outcome = <<>> /\ hasty = {}

LocalStep(p) ==
  \/ \E release, expected \in Releases : Inspect(p, release, expected)
  \/ Reserve(p) \/ Preflight(p) \/ OpenSession(p) \/ Return(p) \/ Record(p) \/ Abandon(p)

RemoteStep(p) ==
  \/ Guard(p) \/ Stage(p) \/ Promote(p) \/ Switch(p) \/ Verify(p)
  \/ Break(p) \/ Restore(p) \/ MarkFailed(p) \/ Leave(p)

Next ==
  \/ \E p \in Deployers : LocalStep(p) \/ RemoteStep(p)
  \/ \E q \in Recoverers : RecoverInspect(q) \/ RecoverClose(q)
  \/ CleanUp

Spec == Init /\ [][Next]_vars

-----------------------------------------------------------------------------
(* Properties.                                                             *)

Attempts == 0 .. MaxAttempts
Success == {"succeeded", "recovered_succeeded"}
Live == {"guard", "extract", "staged", "promoted", "switched", "rollback", "marking"}
Reports == SUBSET [current : Releases \cup {None}, target : BOOLEAN, residue : SUBSET Releases]

\* The shape of the state.
TypeOK ==
  /\ current \in [release : Releases \cup {None}, attempt : Attempts]
  /\ releases \subseteq Releases /\ staging \subseteq Releases /\ failed \subseteq releases
  /\ session \in [Deployers ->
       [pc : Live \cup {"none", "ok", "failed"}, release : Releases \cup {None},
        expected : Releases \cup {None}, attempt : Attempts,
        previous : [release : Releases \cup {None}, attempt : Attempts]]]
  /\ run \in [Deployers ->
       [pc : {"idle", "inspected", "reserved", "uploaded", "waiting", "applied"},
        release : Releases \cup {None}, expected : Releases \cup {None},
        attempt : Attempts, seen : Reports]]
  /\ \A q \in Recoverers : report[q].plan.attempt \in Attempts /\ report[q].seen \in Reports
  /\ pending.attempt \in Attempts /\ Len(outcome) \in Attempts /\ hasty \subseteq Attempts
  /\ \A a \in DOMAIN outcome :
       outcome[a] \in [kind : Success \cup {"open", "recovered_not_completed", "recovery_blocked"},
                       release : Releases]

\* The host takes no lock: as long as each recovery has inspected after the attempt it
\* closes was over, the journal alone keeps two scripts apart.
OneScriptAtATime ==
  hasty = {} =>
    \A p, q \in Deployers : session[p].pc \in Live /\ session[q].pc \in Live => p = q

\* As long as that is so, the host never serves a release that is not there, or that is
\* marked failed.
ServesGoodRelease ==
  hasty = {} /\ current.release # None => current.release \in releases \ failed

\* What the journal says did not happen is not what the host serves, with two exceptions
\* and no third: the script still ran when the report was taken, or the report was of
\* an earlier attempt at the same deployment.  Other recoveries, attempts and scripts
\* may have come and gone between the report and its use, hasty ones included.
NotCompletedIsNotServed ==
  /\ current.attempt \in DOMAIN outcome
  /\ outcome[current.attempt].kind = "recovered_not_completed"
  => current.attempt \in hasty

\* A failed deployment leaves some release served: the rollback restores one.
RollbackKeepsServing == [][current.release # None => current'.release # None]_vars
=============================================================================
