------------------------- MODULE HistoricalBackfill -------------------------
(***************************************************************************)
(* The continuous backfill of EOD and Identity history                     *)
(* (historical_backfill_continuous_runner over the batches of              *)
(* historical_backfill_batch_runner): it extends the canonical history one *)
(* session to the left at a time, Identity before EOD, newest to oldest.   *)
(* What it has reached is read back from the data root and from the        *)
(* packages and plans on disk; it keeps no counter of its own.             *)
(*                                                                         *)
(* One runner works at a time and its operator starts it again after every *)
(* stop.  The daily chain appends a session under the publication lock and *)
(* research publications write elsewhere in the data root at any time.     *)
(* The bound on the batches of an invocation is left out: every batch but  *)
(* the last completes a session.                                           *)
(***************************************************************************)
EXTENDS Integers, FiniteSets, FiniteSetsExt

CONSTANTS
  MaxDay,        \* bound: the sessions of the calendar are 1 .. MaxDay
  HistoryStart,  \* first session of the history there is at the start ...
  HistoryEnd,    \* ... and its last, also the last of the frozen interval
  TargetFirst,   \* first session of the frozen interval
  BatchSize,     \* sessions per batch
  MaxRetries,    \* transient retries per session
  Pages,         \* provider calls of an Identity package
  Parts,         \* target directories of an Identity plan, the logical one last
  Budget         \* bound: how many faults of each kind, and of any kind

FaultKinds == {"any", "transient", "permanent", "rejected", "exception", "kill", "research"}

ASSUME CalendarAssumption ==
  /\ {MaxDay, HistoryStart, HistoryEnd, TargetFirst} \subseteq Nat \ {0}
  /\ TargetFirst < HistoryStart /\ HistoryStart <= HistoryEnd /\ HistoryEnd <= MaxDay

ASSUME BoundsAssumption ==
  /\ {BatchSize, Pages, Parts} \subseteq Nat \ {0} /\ MaxRetries \in Nat
  /\ Budget \in [FaultKinds -> Nat]

VARIABLES
  mode,      \* "interval": a frozen interval; "count": so many latest sessions
  identity,  \* for each session, how many of its Identity targets are published
  eod,       \* sessions whose EOD partition is published
  foreign,   \* version of everything else in the data root
  residue,   \* staging directories a killed Apply left in the data root
  package,   \* the source package of each operation of each session
  plan,      \* its approval plan: none, only its artifacts, or the inventory it binds
  proc,      \* the runner
  tally,     \* the request counters of the runner
  report,    \* how the last invocation ended
  calls,     \* provider calls the invocation really made (history)
  left,      \* faults that may still happen
  causes     \* what happened that no later invocation can undo (history)

disk == <<identity, eod, foreign, residue>>
papers == <<package, plan>>
vars == <<mode, disk, papers, proc, tally, report, calls, left, causes>>

Days == 1 .. MaxDay
Keys == {"identity", "eod"} \X Days
TargetCount == HistoryEnd - TargetFirst + 1
NoInventory == [identity |-> [day \in Days |-> 0], eod |-> {}, foreign |-> 0, residue |-> {}]
NoPlan == [kind |-> "none", state |-> NoInventory]
Artifacts == [kind |-> "artifacts", state |-> NoInventory]
Bound(state) == [kind |-> "bound", state |-> state]
NoReport == [status |-> "none", requests |-> 0]
NoTally == [batch |-> 0, made |-> 0, start |-> 0, counted |-> 0, total |-> 0]

\* inventory_fingerprint of the data root
Inventory == [identity |-> identity, eod |-> eod, foreign |-> foreign,
              residue |-> {r \in residue : r.files}]

Off == [pc |-> "off", key |-> <<"identity", HistoryEnd>>, state |-> NoInventory, page |-> 0,
        tries |-> 0, part |-> 1]

Key == proc.key
Day == Key[2]
PageCount(k) == IF k[1] = "identity" THEN Pages ELSE 1
PartCount(k) == IF k[1] = "identity" THEN Parts ELSE 1
Published(k) == IF k[1] = "identity" THEN identity[k[2]] ELSE IF k[2] \in eod THEN 1 ELSE 0
Whole(k) == Published(k) = PartCount(k)

-----------------------------------------------------------------------------
(* What comes next, from the canonical index alone.                        *)

\* The history goes on: the selectors of the planner accept it.
Selectable ==
  IF mode = "interval" THEN Max(eod) = HistoryEnd
  ELSE eod \subseteq Max(eod) - TargetCount + 1 .. Max(eod)

Reached ==
  IF mode = "interval" THEN TargetFirst \in eod ELSE Cardinality(eod) >= TargetCount

\* Mutant of NextSession: from the oldest session of the target on.
OldestSession == TargetFirst

\* select_next_historical_backfill_session(_in_interval)
NextSession == Min(eod) - 1

-----------------------------------------------------------------------------
(* The runner.                                                             *)

Goto(pc) == proc' = [proc EXCEPT !.pc = pc]

\* An exception ends the process without a report; what it left on disk stays.
Raise ==
  /\ proc' = Off
  /\ report' = [status |-> "failed", requests |-> 0]

\* The operator starts the runner (again).
Start ==
  /\ proc.pc = "off"
  /\ proc' = [Off EXCEPT !.pc = "selecting"]
  /\ tally' = NoTally /\ report' = NoReport /\ calls' = 0
  /\ UNCHANGED <<mode, disk, papers, left, causes>>

\* The next session of the batch, or none.
Select ==
  /\ proc.pc = "selecting"
  /\ \/ ~ Selectable /\ Raise /\ UNCHANGED tally
     \/ /\ Selectable /\ Reached
        /\ Goto("closing") /\ UNCHANGED <<tally, report>>
     \/ /\ Selectable /\ ~ Reached
        /\ proc' = [proc EXCEPT !.pc = "entering", !.key = <<"identity", NextSession>>,
                                !.tries = 0]
        /\ tally' = [tally EXCEPT !.start = tally.made]
        /\ UNCHANGED report
  /\ UNCHANGED <<mode, disk, papers, calls, left, causes>>

\* Mutant of Frozen: a package is always fetched anew.
NeverFrozen(k) == FALSE

\* The package is there and is read again instead of being fetched.
Frozen(k) == package[k] \in {"frozen", "rejected"}

\* _process_session, operation by operation: skip what is canonical, reuse what is
\* frozen, otherwise fetch, which refuses a package that is there.
Enter ==
  /\ proc.pc = "entering"
  /\ \/ /\ Whole(Key)
        /\ proc' = IF Key[1] = "identity" THEN [proc EXCEPT !.key = <<"eod", Day>>]
                   ELSE [proc EXCEPT !.pc = "boundary"]
        /\ UNCHANGED report
     \/ /\ ~ Whole(Key) /\ Frozen(Key)
        /\ Goto("packaged") /\ UNCHANGED report
     \/ /\ ~ Whole(Key) /\ ~ Frozen(Key)
        /\ IF package[Key] \in {"frozen", "rejected"} THEN Raise
           ELSE proc' = [proc EXCEPT !.pc = "fetching", !.page = 0] /\ UNCHANGED report
  /\ UNCHANGED <<mode, disk, papers, tally, calls, left, causes>>

Call ==
  /\ tally' = [tally EXCEPT !.made = @ + 1]
  /\ calls' = calls + 1

FetchPage ==
  /\ proc.pc = "fetching" /\ proc.page < PageCount(Key)
  /\ Call
  /\ proc' = [proc EXCEPT !.page = @ + 1]
  /\ UNCHANGED <<mode, disk, papers, report, left, causes>>

\* _publish_fetch_package: its staging directory must be new ...
Freeze ==
  /\ proc.pc = "fetching" /\ proc.page = PageCount(Key)
  /\ \/ package[Key] = "staging" /\ Raise /\ UNCHANGED package
     \/ /\ package[Key] = "absent"
        /\ package' = [package EXCEPT ![Key] = "staging"]
        /\ Goto("freezing") /\ UNCHANGED report
  /\ UNCHANGED <<mode, disk, plan, tally, calls, left, causes>>

Fault(kind) ==
  /\ left[kind] > 0 /\ left["any"] > 0
  /\ left' = [left EXCEPT ![kind] = @ - 1, !["any"] = @ - 1]

\* ... and is renamed.  Its bytes are what the provider sent: the parsers and the
\* quality gates, which are constants of the release, pass them or reject them.
Freezed ==
  /\ proc.pc = "freezing"
  /\ \/ package' = [package EXCEPT ![Key] = "frozen"] /\ UNCHANGED left
     \/ package' = [package EXCEPT ![Key] = "rejected"] /\ Fault("rejected")
  /\ proc' = [proc EXCEPT !.pc = "packaged", !.page = 0]
  /\ UNCHANGED <<mode, disk, plan, tally, report, calls, causes>>

TakeState ==
  /\ proc.pc = "packaged"
  /\ proc' = [proc EXCEPT !.pc = "planning", !.state = Inventory]
  /\ UNCHANGED <<mode, disk, papers, tally, report, calls, left, causes>>

\* _ensure_plan: a plan that is there must bind the state just taken; a new one
\* needs a new artifact directory.
EnsurePlan ==
  /\ proc.pc = "planning"
  /\ \/ /\ plan[Key] = NoPlan
        /\ plan' = [plan EXCEPT ![Key] = Artifacts]
        /\ Goto("building") /\ UNCHANGED report
     \/ /\ plan[Key] = Bound(proc.state)
        /\ Goto("waiting") /\ UNCHANGED <<plan, report>>
     \/ /\ plan[Key] \notin {NoPlan, Bound(proc.state)}
        /\ Raise /\ UNCHANGED plan
  /\ UNCHANGED <<mode, disk, package, tally, calls, left, causes>>

\* Mutant of RejectedPlan: the artifacts of a rejected plan are kept.
KeptPlan == Artifacts

\* build_identity_plan and build_eod_plan remove the artifacts of a plan that fails
\* the quality gates; the package stays.
RejectedPlan == NoPlan

Build ==
  /\ proc.pc = "building"
  /\ IF package[Key] = "rejected"
     THEN Raise /\ plan' = [plan EXCEPT ![Key] = RejectedPlan]
     ELSE /\ plan' = [plan EXCEPT ![Key] = Bound(proc.state)]
          /\ Goto("waiting") /\ UNCHANGED report
  /\ UNCHANGED <<mode, disk, package, tally, calls, left, causes>>

\* apply_approved_plan once it has the publication lock
Lock ==
  /\ proc.pc = "waiting"
  /\ \/ /\ Inventory = proc.state /\ Published(Key) = 0
        /\ Key[1] = "eod" => Whole(<<"identity", Day>>)
        /\ proc' = [proc EXCEPT !.pc = "publishing", !.state = NoInventory]
        /\ UNCHANGED report
     \/ /\ \/ Inventory # proc.state \/ Published(Key) # 0
           \/ Key[1] = "eod" /\ ~ Whole(<<"identity", Day>>)
        /\ Raise
  /\ UNCHANGED <<mode, disk, papers, tally, calls, left, causes>>

Residue(files) == [key |-> Key, part |-> proc.part, files |-> files]

Stage ==
  /\ proc.pc = "publishing"
  /\ IF \E files \in BOOLEAN : Residue(files) \in residue THEN Raise
     ELSE Goto("staged") /\ UNCHANGED report
  /\ UNCHANGED <<mode, disk, papers, tally, calls, left, causes>>

\* A target is renamed into place; after the last the session goes on.
Publish ==
  /\ proc.pc = "staged"
  /\ IF Key[1] = "identity" THEN identity' = [identity EXCEPT ![Day] = @ + 1] /\ UNCHANGED eod
     ELSE eod' = eod \cup {Day} /\ UNCHANGED identity
  /\ proc' = [proc EXCEPT !.pc = IF proc.part = PartCount(Key) THEN "entering" ELSE "publishing",
                          !.part = IF @ = PartCount(Key) THEN 1 ELSE @ + 1]
  /\ UNCHANGED <<mode, foreign, residue, papers, tally, report, calls, left, causes>>

\* The session is the new left boundary and is counted.
Boundary ==
  /\ proc.pc = "boundary"
  /\ IF Min(eod) # Day THEN Raise /\ UNCHANGED tally
     ELSE /\ tally' = [tally EXCEPT !.batch = @ + 1, !.counted = @ + tally.made - tally.start]
          /\ Goto(IF tally.batch + 1 = BatchSize THEN "closing" ELSE "selecting")
          /\ UNCHANGED report
  /\ UNCHANGED <<mode, disk, papers, calls, left, causes>>

\* The batch ends with the index read again; the target is complete or the next
\* batch begins.
Close ==
  /\ proc.pc = "closing"
  /\ \/ /\ \/ ~ Selectable
           \/ ~ Reached /\ tally.batch = 0
        /\ Raise /\ UNCHANGED tally
     \/ /\ Selectable /\ Reached
        /\ proc' = Off
        /\ report' = [status |-> "complete", requests |-> tally.total + tally.counted]
        /\ UNCHANGED tally
     \/ /\ Selectable /\ ~ Reached /\ tally.batch > 0
        /\ Goto("selecting")
        /\ tally' = [NoTally EXCEPT !.total = tally.total + tally.counted]
        /\ UNCHANGED report
  /\ UNCHANGED <<mode, disk, papers, calls, left, causes>>

-----------------------------------------------------------------------------
(* Faults, each as often as Budget allows.                                 *)

\* Mutant of StoppedRequests: only the sessions that completed count.
CompletedRequests == tally.total + tally.counted

\* external_request_count of a stop: the call that fails is counted before it is made.
StoppedRequests == tally.total + tally.made + 1

\* Mutant of MayRetry: without a bound.
AlwaysRetry == TRUE

MayRetry == proc.tries < MaxRetries

\* A timeout or an unavailable transport: the session starts again, or the run stops
\* and reports.
Transient ==
  /\ proc.pc = "fetching" /\ proc.page < PageCount(Key)
  /\ Fault("transient")
  /\ Call
  /\ \/ /\ MayRetry
        /\ proc' = [proc EXCEPT !.pc = "entering", !.key = <<"identity", Day>>,
                                !.page = 0, !.tries = @ + 1]
        /\ UNCHANGED report
     \/ /\ ~ MayRetry
        /\ proc' = Off
        /\ report' = [status |-> "stopped", requests |-> StoppedRequests]
  /\ UNCHANGED <<mode, disk, papers, causes>>

\* Any other failure: of the provider, of a package being frozen or read, or of the
\* first target.  What the failing step itself put on disk is removed.
Permanent ==
  /\ \/ proc.pc \in {"fetching", "freezing", "planning"}
     \/ proc.pc = "staged" /\ proc.part = 1
  /\ Fault("permanent")
  /\ Raise
  /\ IF proc.pc = "fetching" /\ proc.page < PageCount(Key) THEN Call
     ELSE UNCHANGED <<tally, calls>>
  /\ package' = IF proc.pc = "freezing" THEN [package EXCEPT ![Key] = "absent"] ELSE package
  /\ UNCHANGED <<mode, disk, plan, causes>>

\* An exception that leaves something half done: while a plan is built, its artifacts;
\* after the first of several targets, that target.
HalfDone ==
  /\ \/ proc.pc = "building"
     \/ proc.pc = "staged" /\ proc.part > 1
  /\ Fault("exception")
  /\ Raise
  /\ causes' = causes \cup {"exception"}
  /\ UNCHANGED <<mode, disk, papers, tally, calls>>

\* Where a kill leaves something half done.
Exposed ==
  \/ proc.pc \in {"freezing", "building", "staged"}
  \/ proc.pc = "publishing" /\ proc.part > 1

Kill ==
  /\ proc.pc # "off"
  /\ Fault("kill")
  /\ proc' = Off
  /\ report' = NoReport
  /\ \/ proc.pc # "staged" /\ UNCHANGED residue
     \/ /\ proc.pc = "staged"
        /\ \E files \in BOOLEAN : residue' = residue \cup {Residue(files)}
  /\ causes' = IF Exposed THEN causes \cup {"killed"} ELSE causes
  /\ UNCHANGED <<mode, identity, eod, foreign, papers, tally, calls>>

\* A state is taken and not yet published: any other write overtakes it.
Outstanding ==
  \/ proc.pc \in {"planning", "building", "waiting"}
  \/ \E k \in Keys : ~ Whole(k) /\ plan[k].kind = "bound"

Overtaking == IF Outstanding THEN {"overtaken"} ELSE {}

\* Publications of research datasets take other locks.
ResearchWrite ==
  /\ Fault("research")
  /\ foreign' = foreign + 1
  /\ causes' = causes \cup Overtaking
  /\ UNCHANGED <<mode, identity, eod, residue, papers, proc, tally, report, calls>>

\* The daily chain applies Identity and then EOD of the next session, each under the
\* publication lock.
DailyWrite ==
  LET day == Max(eod) + 1
  IN  /\ proc.pc \notin {"publishing", "staged"}
      /\ day \in Days
      /\ IF identity[day] = 0
         THEN identity' = [identity EXCEPT ![day] = Parts] /\ UNCHANGED eod
         ELSE eod' = eod \cup {day} /\ UNCHANGED identity
      /\ causes' = causes \cup Overtaking
                     \cup (IF mode = "interval" /\ eod' # eod THEN {"moved"} ELSE {})
      /\ UNCHANGED <<mode, foreign, residue, papers, proc, tally, report, calls, left>>

\* A later release of the program admits the bytes that the gates of this one reject
\* (ADR 0201, ADR 0202, ADR 0205).  Nothing makes it come.
Admit ==
  /\ proc.pc = "off"
  /\ \E k \in Keys : package[k] = "rejected" /\ package' = [package EXCEPT ![k] = "frozen"]
  /\ UNCHANGED <<mode, disk, plan, proc, tally, report, calls, left, causes>>

Init ==
  /\ mode \in {"interval", "count"}
  /\ eod = HistoryStart .. HistoryEnd
  /\ identity = [day \in Days |-> IF day \in eod THEN Parts ELSE 0]
  /\ foreign = 0
  /\ residue = {}
  /\ package = [k \in Keys |-> "absent"]
  /\ plan = [k \in Keys |-> NoPlan]
  /\ proc = Off
  /\ tally = NoTally
  /\ report = NoReport
  /\ calls = 0
  /\ left = Budget
  /\ causes = {}

Runner ==
  \/ Start \/ Select \/ Enter \/ FetchPage \/ Freeze \/ Freezed \/ TakeState \/ EnsurePlan
  \/ Build \/ Lock \/ Stage \/ Publish \/ Boundary \/ Close

Next ==
  \/ Runner
  \/ Transient \/ Permanent \/ HalfDone \/ Kill \/ ResearchWrite \/ DailyWrite \/ Admit

\* The runner is a process that goes on, and is started again when it has stopped.
Spec == Init /\ [][Next]_vars /\ WF_vars(Runner)

-----------------------------------------------------------------------------
(* Properties.                                                             *)

PCs == {"off", "selecting", "entering", "fetching", "freezing", "packaged", "planning",
        "building", "waiting", "publishing", "staged", "boundary", "closing"}

\* The shape of the state, and the bounds of the code: the retries of a session, the
\* pages of a package, the sessions of a batch.
TypeOK ==
  /\ identity \in [Days -> 0 .. Parts] /\ eod \subseteq Days
  /\ package \in [Keys -> {"absent", "staging", "frozen", "rejected"}]
  /\ \A k \in Keys : plan[k] \in {NoPlan, Artifacts, Bound(plan[k].state)}
  /\ proc.pc \in PCs /\ Key \in Keys
  /\ proc.page \in 0 .. PageCount(Key) /\ proc.part \in 1 .. PartCount(Key)
  /\ proc.tries \in 0 .. MaxRetries
  /\ tally.batch \in 0 .. BatchSize
  /\ report.status \in {"none", "failed", "stopped", "complete"}
  /\ left \in [FaultKinds -> Nat]
  /\ causes \subseteq {"killed", "exception", "overtaken", "moved"}

\* Whatever stops the runner, and whoever else writes, the history stays one
\* contiguous interval whose sessions all have their Identity, and what is begun
\* beyond it is the next session on either side: the next start finds a history it
\* can extend.
HistoryIsWhole ==
  /\ eod = Min(eod) .. Max(eod)
  /\ \A day \in eod : identity[day] = Parts
  /\ \A day \in Days \ eod : identity[day] # 0 => day \in {Min(eod) - 1, Max(eod) + 1}

\* No later start of this release can get past the operation: its package was torn, or
\* is whole and read again every time only to be rejected; its plan was torn or binds an
\* inventory that is gone; or a staging directory is in its way.
Stuck(k) ==
  \/ package[k] \in {"staging", "rejected"}
  \/ plan[k] \notin {NoPlan, Bound(Inventory)}
  \/ \E r \in residue : r.key = k

NextKey == LET k == <<"identity", NextSession>>
           IN  IF Whole(k) THEN <<"eod", NextSession>> ELSE k

Wedged ==
  /\ proc.pc = "off"
  /\ ~ Reached
  /\ ~ Selectable \/ Stuck(NextKey)

\* What leaves a package, a plan or a target half done, or a plan behind the inventory.
Damage == {"killed", "exception", "overtaken"}

\* A runner is beyond restart only if it was killed where it is Exposed, an exception
\* left something half done, another writer overtook a plan, or the end of the frozen
\* interval moved - or if the package of the very next operation is one that the gates
\* reject.  Such a package stops every start, but leaves nothing else in the way: once a
\* release admits it, the next start goes on.  Retries, stops and kills at any other
\* line leave nothing at all.
WedgedOnlyByFault ==
  Wedged => \/ causes \cap Damage # {}
            \/ ~ Selectable /\ "moved" \in causes
            \/ package[NextKey] = "rejected"

\* A report of completion is true and for good, and a report of either kind accounts
\* for every provider call the invocation made, those that failed and those of the
\* batches before included.
ReportIsTrue ==
  /\ report.status = "complete" => Reached
  /\ report.status \in {"complete", "stopped"} => report.requests = calls

\* Whatever faults happen in finite number, the runner always gets to the target or to
\* where it is wedged, also after a release has freed it.
CompletesUnlessWedged == []<>(Reached \/ Wedged)

\* What ADR 0121 has plans named after the inventory for: a plan that another write
\* overtook does not keep a later start from reaching the target.
ResumesToTarget == <>Reached
=============================================================================
