# Formal model of the WH Alpha daily end-of-day chain

The platform under `src/apps/api/src/tip_api` builds a private market dashboard
from end-of-day prices.  Its own core logic is the *daily EOD chain*: one
transition at a time, each reserved in an append-only journal before it runs and
recorded or recovered after, from fetching a session's data to switching the
release served on a host.  The modules here model that chain, the command that
coordinates it with the alerts it mails, and the runner that fills the history
behind it; TLC checks them on small instances and TLAPS proves the theorems listed
below for every instance.

Paths are relative to `src/apps/api/src/tip_api/services` unless they say
otherwise (`parquet/` is `persistence/parquet/`, `massive/` is
`providers/massive/`).

## 1. The system

Everything shares one **run journal**: a run root with a directory per market
session, a file per event, a fingerprint chain through all sessions and one
`flock` that nobody waits for.  Every custody works the same way: take the lock,
read the events, refuse if anything is unresolved, append a *started* event, drop
the lock, act, take the lock again, append the *terminal* event.  A process that
dies in between leaves the start open; a *recovery*, asked for separately, looks
at what is on disk and closes the attempt as succeeded, not completed or blocked.
It never acts.

| component | state it keeps | operations | what is hard |
| --- | --- | --- | --- |
| run journal (`daily_eod_run_journal.py`) | event files, session directories, lock | open, append, read | crash within an append, unsynced directory entries, earlier sessions left open, reader and writer disagreeing |
| acquisition custody, readiness, operator review (`daily_eod_acquisition_custody.py`, `daily_eod_readiness.py`, `daily_eod_acquisition_operator_review.py`) | attempts and reviews in the journal, the package and its staging directory | plan, reserve, fetch, record, recover, review | retries, backoff, deadline, plans older than the lock, a fetch recovered while it runs |
| planner (`daily_eod_automation.py`) | none; reads every artifact and pointer | plan | sixteen places in one order, bound to each other by fingerprints; removals |
| offline executor and administrators (`daily_eod_executor.py`, `market_regime_cli.py`, ...) | the artifacts of a session | execute, recover | directories left half written, one action with two artifacts, a child process that outlives its parent |
| canonical Apply (`daily_eod_canonical_apply_custody.py`, `massive/same_day_catchup.py`) | target directories of the data root, publication lock | build plan, reserve, apply, complete by hand, record, recover | several renames that are one publication, two locks, staging residue |
| Market Intelligence and Dashboard Snapshot publication (`parquet/market_intelligence_active.py`, `parquet/dashboard_snapshot_active.py`, both `*_apply_custody.py`) | release directories, two active pointers, lock of the data root | build plan, reserve, publish, link, roll back, record, recover | unlocked reads, pointers that come back, a release without its pointer |
| OCI deployment (`daily_eod_oci_deployment_*.py`, `scripts/admin/deploy-private-dashboard-oci.sh`) | releases, marks and the `current` link on the host | inspect, reserve, deploy, record, recover | a remote script that outlives its caller, rollback, stale inspections |
| bounded cadence (`daily_eod_pipeline_cadence.py`, `daily_eod_cadence_evidence.py`, `daily_eod_pipeline_runtime.py`) | wakes in the journal | plan, reserve, invoke, record | old plans, replay, clocks sampled apart |
| coordinator and recovery router (`daily_eod_coordinator.py`, `daily_eod_recovery_router.py`, `daily_eod_authorized_capabilities.py`) | none | one transition, one recovery | read outside the lock, acted on inside; several commands at once |
| alerts (`daily_eod_alerting.py`, `daily_eod_alert_custody.py`, `daily_eod_email_delivery.py`) | alert files, own lock | plan, reserve, deliver, record | a mail sent twice, or never; what counts as the same alert |
| historical backfill (`historical_backfill_*_runner.py`) | packages and plans on disk, target directories | select, fetch, plan, apply, report | resumption from what is on disk, others who write the data root |
| universe Activation (`parquet/dashboard_universe_activation_active.py`) | the third pointer | activate, roll back | same lock as the other pointers |
| schedulers and hosts (`daily_eod_scheduler*.py`, `daily_eod_pipeline_scheduler.py`, `daily_eod_host_runtime.py`) | units and permits | inspect, wake | time |
| bounded offline runner | none | repeat an offline action | none beyond the executor's |
| segmented chain head (`opportunity_candidate_segmented_*.py`) | a shadow chain and its head | append, switch | compare and swap |
| membership, historical and reconciled-edition applies | immutable datasets | plan, apply | as canonical Apply, by hand |
| analytics, research, China A-share pilots, providers, API, web | immutable results | calculate, read | numbers, not interleavings |

`PROJECT.json` lists them all with their sources, and why the last six rows are
not modelled.  They are most of the repository: of its lines of implementation the
greater part calculates, parses, validates or displays, with oracles and tests of
its own.  Here an analysis is one artifact that is absent, partial or complete.

## 2. The modules

| module | models | abstract specification | proofs |
| --- | --- | --- | --- |
| `RunJournal` | the journal | `SerialLedger` | `RunJournal_proofs` |
| `Acquisition` | fetch custody and readiness | | `Acquisition_proofs` |
| `DailyChain` | planner with executor, one session | | `DailyPipeline_proofs` |
| `CanonicalApply` | canonical Apply | `AtomicDataset` | `CanonicalApply_proofs` |
| `PointerPublication` | the two pointer publications | `ServedRelease` | `PointerPublication_proofs` |
| `OciDeployment` | deployment | | `OciDeployment_proofs` |
| `Cadence` | cadence and runtime bridge | | `DailyPipeline_proofs` |
| `AlertCustody` | custody and mail of alerts | | `DailyCoordinator_proofs` |
| `DailyCoordinator` | the command: coordinator, capabilities, router, alerts | | `DailyCoordinator_proofs` |
| `HistoricalBackfill` | the continuous backfill | | `HistoricalBackfill_proofs` |

`MC*` modules hold constants for TLC only.  In all modules but `RunJournal` an
operation under the journal lock is one step: `RunJournal` is what justifies it.
The other modules keep of the journal only their attempts and how each ended, since `RunJournal` shows that an open attempt stays reachable and
that a terminal closes the start it follows.

### RunJournal

`lock` and `journal` are the flock and the `LockedDailyEodRunJournal` of its
holder with the progress of its append; `dirs`, `log` and `torn` are what is on
disk; `minted` counts event files.  `Open` is `locked_daily_eod_run_journal` with
`_validate_run_root_entries`; an append is three steps, `CreateEvent` (the check
of `_validate_next_event` and the creation of the file), `WriteEvent`, and
`Acknowledge` (directory synced, events reread).  `Die` may strike between them
and leaves a torn file; `HostLosesEntry` is a host crash that loses an entry whose
directory was not synced.  `Readable` is the reader's own state machine, a
different piece of code from the writer's check: that they agree is a property.
Creating a session directory and syncing the root are one step; an unsynced entry
survives the death of the process alone.

### Acquisition

One session, one action, a clock.  `attempts` and `reviews` are read back from
the journal, `op` is what each operator process remembers: the plan it made, the
attempt it reserved.  `Status` is `plan_daily_eod_readiness` as a function of the
history and the clock.  Retry, failure and readiness outcomes carry what the
policy distinguishes; a package is its `fetched_at`.  A response may carry any
Retry-After of `RetryAfters`, also one beyond `MaxRetryAfter`: custody does not record
it (`OutcomeValid`) and the attempt stays open, since the policy would refuse every plan
on a history that holds it (`AttemptOk`).  `BasicProfile` stands for the whole condition
of the first review, that the action is the EOD one and its session the expected one.
`RouteRecovery` and `Recover` are the router's look and the custody's, which are two
lock sessions.
A package is not corrupted, the clock does not go back, a credential failure is a
refused request.

### DailyChain

`artifact` gives for each stage absent, partial or complete with the run it came
from and the runs of its sources: a run number stands for a fingerprint, and
recomputing gives another.  `Plan` walks `Order` as the planner walks its stages
and stops at the first that is missing, partial or not bound to what was passed.
`Begin`, `StartTarget`, `CompleteTarget`, `CompleteSector`, `Finish` are one
executor attempt; `ActionRaises` and `Crash` end it early; `OrphanStarts` and
`OrphanEnds` are a bundle build whose parent died.  `Remove` is the operator and
`PointerMoves` another session's publication.  `ApplyCanonical` and `Publish` are
one step here: `CanonicalApply` and `PointerPublication` refine them.  Audits of
the session before are taken as present and verified.  A pointer names the plan of
this session or another: that two rollbacks bring the publication back under another
pointer, which the planner reports as blocked, is not told apart (§3, limits).

### CanonicalApply

`target[i]` is the plan that published directory `i`; the last one is the marker
readers look for.  `Lock` waits for the publication lock (a blocking `flock`) and
then compares the inventory; `StageTarget`, `FillStaging`, `PublishTarget` go
target by target, in the order of the plan, and `SkipTarget` passes one that a
completion by hand finds in place.  The inventory counts files only, as
`inventory_fingerprint` does, so an empty staging directory is invisible to it.
`wrote` remembers the attempts under which something was renamed.  Applying and
completing by hand need no reservation.  Plans differ in content; `ForeignWrite`
is any other publisher, none of which takes this lock.

### PointerPublication

`pointer`, `release`, `staging`, `activation`, `outside` are the data root.  An
approval plan is built in three steps, as the code reads the inventory (or the
Activation), then the pointer for the rollback reference, then, for Market
Intelligence, the pointer again.  A publication is `Enter` (the non-blocking lock
and every comparison made under it), `Stage`, `Fill`, `Complete` (the rename),
`Switch` and `Release`; link recovery is `EnterByHand`, `Switch`, `Release`; a
rollback is `DryRunRollback`, `Enter`, `Undo`, `Release`.  Started by hand, a
publication is entered in one step, since nothing it reads before the lock is used
after.  The Activation pointer is switched under the same lock; canonical
publishers use another, which is what `OutsideWrite` is for.  `undone`, the number
of rollbacks, stands for the time a rollback writes into the pointer.  Plans have
release ids of their own; the residue of a pointer's own staging file is left out;
recovery's reads are one step.

Freshness, the automation plan and the sources of a candidate can only make a run
fail, which `Fail` allows at any step.  The Snapshot's link compares its own
pointer and not the Activation, as in the code.

### OciDeployment

`session` is the remote script, separate from `run`, the process that waits for
it: `Abandon` ends the wait and the script goes on; `Leave` ends the script, and a
process that waits sees a failure.  `Guard`,
`Stage`, `Promote`, `Switch`, `Verify` are the script's own order; its trap is
`Break`, then `Restore` and `MarkFailed`.  `report` is an inspection kept by a
recoverer and used any number of steps later (five minutes in the code, untimed
here), and `RecoverInspect` may find services or routes unhealthy, which proves nothing
and blocks.  As in the code, nothing keeps a recovery from being asked for while a
process or a script still works for the attempt: the wait for the script has a timeout,
and what it leaves behind goes on.  Two history variables say when that mattered:
`report[q].ended` is the attempt whose end the report was taken after, and `hasty` are
the attempts closed on a report that was not taken after their end, because the script
still ran or because the report was of an earlier attempt.  A bundle is its release id.

### Cadence

One session of wakes.  `retained` are the recorded wakes, `openWake` the open
reservation, `run` what each runner has read and sampled.  A planner that stops or
waits changes nothing and is no action.  `started_at` is sampled between the plan
and the reservation; the plan is checked again against the journal when the lock
is held.  The transition itself may advance, change nothing or fail, or its result
may be lost (`Lose`).  `append_cadence_wake_evidence`, the direct record of an
earlier contract which nothing in the repository but its tests calls, is not an
action.

### AlertCustody and DailyCoordinator

`DailyCoordinator` composes what the other modules take one by one: the command of
`daily_eod_coordinator_cli.py`, run by several processes, each started to observe,
to recover, with an authorized capability, or for a review.  `done` is how far the
run has got in `Operations`, `partial` that the next operation left something half
done; what is inside an operation is the business of the module of its family.
`inv` is an invocation: `Start` plans, `Sees...` is what
`coordinate_daily_eod_transition` decides once it has read the journal, and nothing
is locked in between.  A capability is `Reserve`, `Perform` or `CallFails`,
`Record`; an offline action `Begin`, `Fill`, `Complete`, `Finish` in one hold of the
lock; a recovery `Route` and `Recover`, which are two.  `Rejected` is any step that
finds the lock held.  Review stands for the two approvals with a pointer and the
deployment, which the reservations treat alike.  `HandMade` are runs whose first
operations were done by hand, as the documents allow.

`AlertCustody` is `deliver_daily_eod_alert` with the server: `alerts` maps the key of
an alert to its journal and to the mails the server accepted, `delivery` is what the
holder of the alert lock is doing.  `OpenDelivery` writes the start event,
`AcceptMail`, `RejectMail` and `LoseAnswer` are the call, `Settle` the terminal
event; `TearStart` and `Abandon` cut an event short.  The key is a record of what the
fingerprint of the result covers (`Key`, `ReadinessKey`).

Authorization files, reviews of an acquisition (in `Acquisition`) and the rendering
of a mail are left out.

### HistoricalBackfill

`identity` and `eod` are what is published, `residue` the staging directories a kill
left in the data root, `package` and `plan` the papers of each session under their
fixed names.  `proc` is the runner, `tally` its counters, and `calls` counts what the
provider was really asked.  `Start` and `Select` read the boundary back from the data
root, `Enter` skips what is there, `FetchPage` to `Freezed` make a package,
`TakeState` to `Build` a plan, `Lock`, `Stage` and `Publish` are the Apply, and
`Boundary` and `Close` end a session and a batch.  `Transient`, `Permanent`,
`HalfDone` and `Kill` are failures, each as often as `Budget` says and all of them as
often as it says of `any`; `DailyWrite` and `ResearchWrite` are the other writers, of
whom only the first takes the publication lock.  A frozen package is used again by every
later start, and the gates of the plan are fixed functions of its bytes: a package is
therefore `frozen` or `rejected` from the moment it is frozen, and `Build` refuses a
rejected one at every start, as ADR 0201, ADR 0202 and ADR 0205 tell of real ones.
`Admit` is the later release of the program that lets it pass; nothing makes it come.
The calendar has no gaps.

## 3. What is checked

Deadlock is not checked where the program may stop for good (budget used, root
failed closed, bound reached).  Every property of a passing run has a mutant of
the code's own definition in `PROJECT.json` that breaks it.

| run | instance | what it shows |
| --- | --- | --- |
| `journal_safety` | 2 processes, 3 sessions, 2 families, 2 times, 4 event files | an unresolved entry is always in the latest session, and the journal is a `SerialLedger` |
| `acquisition_safety` | 2 operators, 3 attempts, delays 1 and 2, Retry-After 0, 2 or 3 with a bound of 2, clock to 6 | budget, acceptable history and the adopted package hold through recoveries of running fetches |
| `daily_chain` | the program's own 16 places, 12 attempts, 1 change from outside | nothing is passed from two lineages, the journal tells the truth, an undisturbed chain never blocks |
| `canonical_apply` | 2 processes, 3 targets, 2 plans, 2 attempts, 1 foreign write | what is on disk is a prefix of one plan; readers see one atomic publication |
| `pointer_publication` | 2 processes, 1 and 2 plans, 1 reservation, 2 rollbacks, 1 change by others | what is served is complete, approved against the pointer it replaces, and new or the one before |
| `oci_deployment` | 2 deployers, 2 recoverers, 3 releases, 2 attempts | what was recovered as not completed is not served, unless the script outlived its waiter or the report was an earlier attempt's; without such a recovery, one script at a time and no missing or failed release served |
| `cadence` | 2 runners, 2 policies, 3 wakes, window 5, clock to 4 | no replay, no overlap, the policy kept |
| `daily_coordinator` | 2 processes, a fetch, an apply, an offline action and a review, 2 attempts, 2 fetches, 1 fault, clock to 1, 0, 2 or 3 operations done by hand | only the next operation is started, reports are true, no alert is mailed twice; if someone keeps asking, an open attempt is mailed about or its one delivery fails |
| `historical_backfill` | 4 sessions, 2 of them to fill and 1 for the daily chain, both target modes, any 3 faults (at most 2 transient errors, 1 of each other kind), 2 pages, 2 targets, 1 retry | the history stays whole, reports are true, restarts reach the target unless a listed fault left something in the way or the next package is one the gates reject |

**Why these bounds.**  Three sessions are the fewest with one between an open
attempt and a new one; four event files are a closed attempt and a second one, or
a wake around an attempt.  Three fetch attempts are two retries with different
delays.  Twelve attempts let each of the eleven offline actions run once and one be
repeated; the order and bindings of the stages are the program's own and not
scaled down.  Three targets give a first, a middle and the marker; two plans are
needed to mix.  Two Snapshot plans and two rollbacks let a pointer come back to
the same releases; one staging directory left behind is enough to block its own
plan.  Three releases give an old one, one failed and one more; two attempts and two
recoverers give a report of the first that is used on the second.  Two policies
differ in all three fields.  Two attempts are the fewest with one that is closed and
another opened between two readings, which is what the coordinator's hazards need;
starting after 0, 2 or 3 operations puts those two attempts at every family, and one
fault is a death between a mail and its record, or in an operation.  Two sessions to
fill are a batch that ends and one that reaches the target, two targets an Identity
half published, two pages a failure between two calls; three faults put a failure or a
kill into each of the two sessions and another writer, or a retry, before them.
Symmetry is used only for processes and, in the deployment, for the releases that are not served at the
beginning, none of which the specification distinguishes.

### Disagreements found

Three runs are expected to end in a violation, one property each, quoting the line
of the repository that states it (`findings`).

* `oci_rollback`: the script's trap is set before it has read the release to go
  back to; a failure in between removes the link that is served.
* `backfill_resumes`: the plan of a session has one fixed name.  Made before another
  write of the data root, it is found and refused by every later start, where
  ADR 0121 and ADR 0122 have the run resume from canonical state.
* `alert_keys`: the key of an alert about readiness covers the time of the check, so
  each observation of one missed session is another alert, where ADR 0039 says that
  repeated observation gives the same key.

### Known limits that are not checked

* The router reads the open attempt and lets the lock go before the custody's
  recovery takes it, which closes whichever attempt is open then, though ADR 0038 has
  it recover the one it was given.  The router then refuses the evidence, so that
  `ExecutedIsTrue` holds; the attempt stays closed.
* A crash between the two artifacts of the Phase 1a action is recovered as a success
  while the plan is blocked (ADR 0030 speaks of the exact artifact).
* Recovery of a deployment does not establish that the remote script has ended, nor that
  its report is of the attempt it closes: a deployment recorded as not completed may
  still be switched (ADR 0073), and then two scripts may run at once.
  `NotCompletedIsNotServed` says that there is no third way; which recoveries are
  hasty is for the operator to know.
* A wake's result that only says when to come back is refused if that time has passed
  when it is recorded, and the reservation stays open for good (ADR 0084 has every
  known result retained).
* Recovery of a fetch may be asked for while it runs; two fetches may then run at
  once.  `acquisition_safety` allows it and holds.
* With `RecoverLive = TRUE`, `NotCompletedWroteNothing` fails in
  `CanonicalApply` and `PointerPublication`: a slow process goes on after its
  attempt was recovered as untouched.  The rest holds.  The code leaves it to the
  operator to know that the process has ended, and the runs assume it.
* A staging directory a killed process leaves empty is invisible to the inventory:
  recovery says not completed, and the retry of that plan is refused until the
  directory is removed (`ClearStaging`).
* A frozen package that the gates reject stops the backfill at every start, until a
  release admits it or the operator takes the package away.
* After two rollbacks Market Intelligence serves the planned publication again, under a
  pointer with another fingerprint, and the planner is blocked
  (`market_intelligence_active_state_mismatch`); `DailyChain` has no rollback of its own.
* A Snapshot does not compare again the Market Intelligence it embeds when it is
  activated; only the planner and the bundle build do.  A rollback of the Snapshot
  keeps the Activation fingerprint of the pointer it rolls back from, which no
  reader uses.
* A second interruption of the same operation under the same plan has the first
  one's key and is not mailed.  A plan read while another process works offline may
  be a blocked one, and then gives an alarm about nothing.

### Fairness and liveness

Most of the chain is not retried by itself: a reservation, a retry or a recovery is
a command of an operator.  Two places justify fairness.

* A process that runs goes on or dies.  `HistoricalBackfill` has weak fairness of
  the runner's next step, which includes `Start`: ADR 0122 has the operator start it
  again after each stop.  Faults are not fair, and `Budget` bounds them.
  `CompletesUnlessWedged` follows, that the target or a wedge is always reached, also
  after a release has admitted a rejected package; `ResumesToTarget` does not.
* `DailyCoordinator` has weak fairness of the next step of a command that runs, and of
  nothing else.  Nothing in the repository starts the command: the timer of ADR 0078 and
  ADR 0079 runs a planner that only reads, and the wake bridge of ADR 0077 delivers no
  alert.  `InterruptionIsMailed` therefore carries its hypothesis itself: *if* the
  command is started again and again to observe (`Asked`), an attempt that is open and
  not yet heard of is closed, or mailed about, or the one delivery of its alert fails
  (`Spoilt`: torn, rejected, or left without an answer), which the code does not retry.
  Without `Asked` an alert that met a held lock is never sent.
* Nowhere else is fairness stated.  There the properties say that the next step stays
  possible: `UndisturbedNeverBlocked`, `UntornRootReadable` (proved),
  `HistoryStaysAcceptable` and `UnresolvedOnlyInLatest`.

## 4. What is proved

Each proof module has an inductive invariant `IInv`, the lemmas `Init => IInv` and
`IInv /\ [Next]_vars => IInv'` with a step for each action, and theorems that
follow.  `DailyPipeline_proofs` has two, since the daily chain and the cadence that
wakes it share it; names that both would use are prefixed in `Cadence`.  Every safety
and action property of a passing run is the statement of a theorem.  The theorems hold for any number of processes, sessions, targets and wakes, any
bounds and, in the two modules that have it, both values of `RecoverLive` unless said
otherwise; they assume only the named assumptions on the constants of the module, which TLC evaluates as well.

**RunJournal_proofs.**  `TypeCorrect`, `UnresolvedStaysReachable`,
`TerminalsMatch`, `WriterAgreesWithReader`, `FailsClosed`, `AcknowledgedIsForever`.
The last four state `TerminalClosesItsStart`, `UntornRootReadable`,
`TornRootStaysClosed` and `AcknowledgedEventsStay`, which are proved and not run:
`journal_safety` spends its states on the other two.
The properties are not inductive because they say nothing of what an append in
progress relies on: that the holder's chain start is still what a reader would
compute, that the event in its hand is the one that may come next, that the
holder's session is the latest, that a start names its own place, and that no log
is longer than the files created.
`IInv` says these.  The agreement of writer and reader is by lemmas on sequences:
appending an event that `NextEventOk` admits to a log that `StateMachineOk`
accepts gives one it accepts.

`IsSerialLedger` is the refinement of `SerialLedger`.  An event becomes a step of the
ledger when its append returns or the process that wrote it dies, not when the file is
written, since until then its entry may be lost; the lemma `Commits` finds the
ledger's step for each kind of event, and opening, creating, writing and losing are
stutters.  `LedgerOk` is the invariant it needs besides `IInv`: a wake reservation with
any later wake event behind it has its own record between the two, a reservation names
the session it is in, and there is a latest session.

**CanonicalApply_proofs.**  `TypeCorrect`, `PartialIsPrefix`, `SuccessIsWhole`,
`PublicationIsAtomic` (the refinement of `AtomicDataset`), and
`NotCompletedIsFinal`, which assumes `RecoverLive = FALSE`.  `IInv` joins the
prefix property with what the process in the publication lock knows of it: that it
publishes the next target of the plan it compared, or a later one it has passed.
`NotCompletedIsFinal` adds that no process works for an attempt recovered as not
completed.

**Acquisition_proofs.**  `TypeCorrect`, `Budget`, `Acceptable` and
`PackageIsCurrent`, for any budget, delays, Retry-After values, review lead, plan age,
number of operators and clock, recoveries of fetches that still run included.  The
policy judges an attempt at the time its plan was made, and custody dates it later;
that the history stays acceptable needs that a plan was made by now for a fetch then
due (`PlanOk`) and that no attempt is dated after the last event (`Dated`).  A response
may have any Retry-After: `Closed` shows that what ends an attempt is within the bound.
`Spending` counts the operators that have a reservation and have made no request with
it: those and the requests sent are at most the attempts.

**PointerPublication_proofs.**  `TypeCorrect`, `CompleteServed`, `SuccessServed`,
`Approvals`, `Refinement` (of `ServedRelease`, once for each consumer), and
`NotCompletedNeverWrote`, which assumes `RecoverLive = FALSE`.  Plans are compared with
the pointer by its value, and a rollback brings an old release back; the argument is
that no pointer has the same value twice all the same, since a plan is activated once
and a rollback counts up the time of its switch.  `Recorded` says it of each plan and of
the one being made: what it was approved against is a pointer the consumer had, and if
the pointer has that value now it was not switched since.  `FoundOk` says it of a
process in the lock, `ServedOk` that what was activated is complete, `AttemptsOk` that
whoever works for an attempt works for the open one, alone.

**OciDeployment_proofs.**  `TypeCorrect`, `OneScript`, `ServesGood` and `VerdictStands`,
for any deployers, recoverers, releases and attempts, without a condition on when a
recovery is asked for.  `Exclusive` says that whoever has an attempt or a script has the
one open attempt; `ServedOk` that a script may go back only to a release that is there,
is not failed and is not what it deploys, at whatever step it fails; both hold while
`hasty` is empty, and the first is what makes the second inductive.  The other parts hold
always.  `InPlace` is what is left of `ServedOk` when scripts meet: what is served, gone
back to or about to be served is there.  `VerdictOk` is the argument for
`VerdictStands`: once nobody works for an attempt and its release is absent, nobody can
switch to it any more and no script has it to go back to (`Gone`), so a report taken
after that end stays true of it for as long as it is kept, whatever other deployments,
recoveries and hasty verdicts come between.

**DailyPipeline_proofs**, the daily chain.  `TypeCorrect`, `Lineage`, `NeverBlocked` and
`JournalIsTrue`, for any number of attempts and of changes from outside.  The sixteen
places and what each reads are the program's own; that every stage reads only what is
inspected before it, and that the planner stops at the least place not passed, are the
lemmas `ReadsBefore` and `StopIs`.  `IInv` has five parts and one for the chain in which
nothing went wrong:

* `PendingOk`: while an action is open nobody makes its sources again, so each is what
  its plan saw or has been removed, and its artifact records what the plan saw.  The
  bundle is the exception, since an orphan builds it from an older plan.
* `RunnerOk` and `BuilderOk`: how far the action in progress has come with its artifact;
  an orphaned build and a bundle action are never both in the staging directory.
* `CandidateOk`: Phase 1b is never made again under a Candidate.  The planner compares
  no fingerprint there; what holds the link is that a stage is run only when nothing
  downstream of it is on disk.
* `PrefixOk`, as long as `disturbed` is false: the artifacts are a prefix of the order,
  each made from what is there now, and only the action in progress has left one
  unfinished.

`Lineage` needs only `CandidateOk` of these.  `NeverBlocked` is `PrefixOk` with the
observation that a stage of a prefix is missing or bound.  `JournalIsTrue` needs
`PendingOk` (a stage found complete after removals was made from the same sources) and,
for an attempt recovered as not completed, that the plan of then is still the plan, which
names only a stage that is not on disk.

**DailyPipeline_proofs**, the cadence.  `CadenceTypeCorrect`, `NeverReplayed`, `Serial`,
`PolicyKept`.  `CadenceInv` adds to the properties that a runner with a reservation in
hand holds the one open reservation, that no two do, that a failure is the last wake,
and that each invocation belongs to a recorded wake or to the open one.

**DailyCoordinator_proofs.**  `AlertsMailedOnce`, `TypeCorrect`, `ReportsTheTruth`
and `NextIsStarted`, for any processes, modes, operations and bounds.  `CustodyOk`
says that one process at most is in a delivery, that its alert has been entered and
has no terminal event, and how many mails the step it is at has sent; that no alert
is mailed twice follows from it alone, whatever the coordinator does.
`CoordinatorOk` says what each command may rely on until it takes the lock again:
the plan it read is not ahead of what is done, an operation it is about to reserve is
not beyond the next one, a success in the journal is done, and an offline action has
the one open attempt and the next operation to itself.  That what is opened is
exactly the next operation is then a matter of the comparisons made under the lock.

**HistoricalBackfill_proofs.**  `TypeCorrect`, `HistoryStaysWhole`,
`ReportsTheTruth` and `WedgedByFaultOnly`, for any calendar, frozen interval, batch size, retries, pages,
targets and number of faults, in both target modes.  `HistoryAt` says what
`HistoryIsWhole` does not: that a target is renamed into place only at the session to
the left of the history, that of an Identity exactly the targets before the one in
hand are there, and that the daily chain publishes an Identity whole.  `TallyOk` says
which of the four counters agree where: what a batch has counted is what it has made
between sessions, and what it had made at the start of one within it.
`Pristine` is what holds while no kill where the runner is exposed, no exception and no
overtaking write has happened (`Damage`): no staging directory left behind, packages and
plans half built only while the runner is at it, and the plan of what is not yet
published that of the next operation, binding the inventory as it is.  A start then has
something to select, unless the interval's end has moved, and nothing in its way but a
package that the gates reject, which is `WedgedOnlyByFault`.

**Only model-checked.**  The two liveness properties, `InterruptionIsMailed` and
`CompletesUnlessWedged`; and the disagreements of §3, which the code refutes.  Liveness
under fairness, ENABLED, and induction over data (what a recursive definition computes
for every input) are out of the prover's reach; recursion here is by recursive functions
and folds, so that no module is closed to proofs.

## 5. Plan

Done, in this order: `RunJournal`, `SerialLedger`; `Acquisition`; `DailyChain`;
`CanonicalApply` with `AtomicDataset`; `OciDeployment`; `Cadence`;
`PointerPublication` with `ServedRelease`; `HistoricalBackfill`; `AlertCustody` and
`DailyCoordinator`; and proofs of every module, the three refinements included.

Next, the most important first:

1. The other writers of canonical data (daily universe membership, the historical
   and research applies, the reconciled edition, canonical splits): one module of a
   plan, a lock of its own and a publication, with what each leaves to the others.
2. `SegmentedHead`: the compare and swap of the shadow chain head, refined to a
   register.
3. The bounded offline runner, as a caller of `DailyCoordinator`'s offline action;
   acquisition reviews in `DailyCoordinator`.
