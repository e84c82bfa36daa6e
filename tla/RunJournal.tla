------------------------------ MODULE RunJournal ------------------------------
(***************************************************************************)
(* The daily EOD run journal (services/daily_eod_run_journal.py): one      *)
(* directory per market session under a single run root, one immutable     *)
(* file per event, a fingerprint chain that runs through all sessions, and *)
(* one non-blocking flock that every reader and writer takes.              *)
(*                                                                         *)
(* A fingerprint is a number minted once per event: two different events   *)
(* never share one, and a link names the event before it.  The outcomes    *)
(* inside one family of terminal events are not told apart, because the    *)
(* journal does not tell them apart either (_terminal_matches_start).      *)
(***************************************************************************)
EXTENDS Integers, Sequences

CONSTANTS
  Processes,   \* operators, timers and command lines that open the journal
  NoProcess,   \* nobody holds the flock
  Sessions,    \* XNYS session dates, as numbers in date order
  Families,    \* the families of START_EVENTS with their terminal events
  Plans,       \* plan fingerprints an attempt may be bound to
  Times,       \* observed_at values
  MaxEvents    \* bound: event files ever created

ASSUME ConstantsAssumption ==
  /\ NoProcess \notin Processes
  /\ Sessions \subseteq Nat \ {0}
  /\ Times \subseteq Nat
  /\ MaxEvents \in Nat

VARIABLES
  lock,      \* the process that holds .daily-eod.lock
  journal,   \* its LockedDailyEodRunJournal and how far its append has come
  dirs,      \* sessions whose directory exists
  log,       \* per session, the complete event files in sequence order
  torn,      \* sessions that also hold an event file cut short
  minted     \* number of event files created so far

vars == <<lock, journal, dirs, log, torn, minted>>

Kinds == {"started", "terminal", "reviewed", "wakeReserved", "wakeRecorded"}
Standalone == {"reviewed", "wakeReserved", "wakeRecorded"}
NoFamily == "none"

AttemptIds == [session : Sessions, plan : Plans, sequence : 1 .. MaxEvents]
Events == [kind : Kinds, family : Families \cup {NoFamily}, attempt : AttemptIds,
           at : Times, prev : Nat, fingerprint : Nat \ {0}]
NoDraft == [kind |-> "none"]
NoJournal == [session |-> 0, chainStart |-> 0, step |-> "closed", draft |-> NoDraft]

-----------------------------------------------------------------------------
(* Reading one session's events.                                           *)

\* The attempt a session's last event leaves open, as a set of at most one.
UnresolvedStart(events) ==
  {i \in DOMAIN events : i = Len(events) /\ events[i].kind = "started"}

\* The reservation left open: the last one, unless a later record names it.
UnresolvedWake(events) ==
  {i \in DOMAIN events :
     /\ events[i].kind = "wakeReserved"
     /\ \A j \in DOMAIN events : j > i =>
          /\ events[j].kind # "wakeReserved"
          /\ ~ (events[j].kind = "wakeRecorded" /\ events[j].attempt = events[i].attempt)}

Unresolved(events) == UnresolvedStart(events) # {} \/ UnresolvedWake(events) # {}

\* Before event i the reader's fold holds an open wake exactly when the last
\* reservation before i has no record of any wake behind it.
WakeOpenBefore(events, i) ==
  {j \in 1 .. i - 1 :
     /\ events[j].kind = "wakeReserved"
     /\ \A k \in j + 1 .. i - 1 : events[k].kind \notin {"wakeReserved", "wakeRecorded"}}

StartOpenBefore(events, i) == {j \in {i - 1} \cap DOMAIN events : events[j].kind = "started"}

\* _validate_event_state_machine: what the reader accepts, event by event.
EventPlaced(events, i) ==
  LET e == events[i]
  IN  /\ e.kind = "wakeReserved" => WakeOpenBefore(events, i) = {}
      /\ e.kind = "wakeRecorded" =>
           \A j \in WakeOpenBefore(events, i) : events[j].attempt = e.attempt
      /\ e.kind = "terminal" =>
           \E j \in StartOpenBefore(events, i) :
             events[j].attempt = e.attempt /\ events[j].family = e.family
      /\ e.kind # "terminal" => StartOpenBefore(events, i) = {}
StateMachineOk(events) == \A i \in DOMAIN events : EventPlaced(events, i)

\* _validate_next_event: what the writer accepts.
NextEventOk(events, kind, family, attempt) ==
  /\ kind \in Standalone => UnresolvedStart(events) = {}
  /\ kind = "wakeReserved" => UnresolvedWake(events) = {}
  /\ kind = "wakeRecorded" =>
       \A i \in UnresolvedWake(events) : events[i].attempt = attempt
  /\ kind = "started" => UnresolvedStart(events) = {}
  /\ kind = "terminal" =>
       \E i \in UnresolvedStart(events) :
         events[i].attempt = attempt /\ events[i].family = family

Linked(events, start) ==
  \A i \in DOMAIN events :
    events[i].prev = IF i = 1 THEN start ELSE events[i - 1].fingerprint

\* _read_events of session s, given the fingerprint its chain starts from.
Readable(s, start) ==
  /\ s \notin torn
  /\ Linked(log[s], start)
  /\ StateMachineOk(log[s])

\* Fingerprint of the last event before session s, 0 (None) when there is none.
SessionsBefore(s) == {t \in dirs : t < s /\ log[t] # <<>>}
LastFingerprint(t) == log[t][Len(log[t])].fingerprint
ChainStart(s) ==
  IF SessionsBefore(s) = {} THEN 0
  ELSE LastFingerprint(CHOOSE t \in SessionsBefore(s) : \A u \in SessionsBefore(s) : u <= t)

\* Mutant of RootValidFor: earlier sessions may be unresolved.
IgnoresUnresolved(s) == \A t \in dirs : t <= s /\ Readable(t, ChainStart(t))

\* _validate_run_root_entries: the whole root as the opener of session s finds it.
RootValidFor(s) ==
  \A t \in dirs :
    /\ t <= s
    /\ Readable(t, ChainStart(t))
    /\ t # s => ~ Unresolved(log[t])

-----------------------------------------------------------------------------
(* The operations.                                                         *)

\* Mutant of Open: the session directory is never made.
OpenWithoutDirectory(p, s) ==
  /\ lock = NoProcess
  /\ RootValidFor(s)
  /\ lock' = p
  /\ journal' = [session |-> s, chainStart |-> ChainStart(s), step |-> "open", draft |-> NoDraft]
  /\ UNCHANGED <<dirs, log, torn, minted>>

\* locked_daily_eod_run_journal: take the flock, validate the root, make the
\* session directory if it is new.  A refusal changes nothing.
Open(p, s) ==
  /\ lock = NoProcess
  /\ RootValidFor(s)
  /\ lock' = p
  /\ journal' = [session |-> s, chainStart |-> ChainStart(s), step |-> "open", draft |-> NoDraft]
  /\ dirs' = dirs \cup {s}
  /\ UNCHANGED <<log, torn, minted>>

MayAppend(p) == lock = p /\ journal.step = "open" /\ minted < MaxEvents

\* append, up to os.open(O_EXCL): re-read, validate, and create the file.
CreateEvent(kind, family, attempt, at) ==
  LET s == journal.session
      events == log[s]
  IN  /\ Readable(s, journal.chainStart)
      /\ NextEventOk(events, kind, family, attempt)
      /\ events # <<>> => at >= events[Len(events)].at
      /\ journal' =
           [journal EXCEPT
              !.step = "creating",
              !.draft = [kind |-> kind, family |-> family, attempt |-> attempt, at |-> at,
                         prev |-> IF events = <<>> THEN journal.chainStart
                                  ELSE LastFingerprint(s),
                         fingerprint |-> minted + 1]]
      /\ torn' = torn \cup {s}
      /\ minted' = minted + 1
      /\ UNCHANGED <<lock, dirs, log>>

\* The attempt identity new_attempt_id gives the event about to be written.
NewAttemptId(plan) ==
  [session |-> journal.session, plan |-> plan, sequence |-> Len(log[journal.session]) + 1]

\* Every identity some holder may still carry from an earlier reservation.
KnownAttempts == UNION {{log[s][i].attempt : i \in DOMAIN log[s]} : s \in Sessions}

AppendStart(p) ==
  /\ MayAppend(p)
  /\ \E f \in Families, plan \in Plans, at \in Times :
      CreateEvent("started", f, NewAttemptId(plan), at)

\* A terminal event carries the identity its caller reserved or recovered.
AppendTerminal(p) ==
  /\ MayAppend(p)
  /\ \E f \in Families, a \in KnownAttempts, at \in Times :
      CreateEvent("terminal", f, a, at)

AppendReview(p) ==
  /\ MayAppend(p)
  /\ \E plan \in Plans, at \in Times :
      CreateEvent("reviewed", NoFamily, NewAttemptId(plan), at)

AppendWakeReservation(p) ==
  /\ MayAppend(p)
  /\ \E plan \in Plans, at \in Times :
      CreateEvent("wakeReserved", NoFamily, NewAttemptId(plan), at)

\* A record closes a reservation by its identity, or stands alone with a new one.
AppendWakeRecord(p) ==
  /\ MayAppend(p)
  /\ \E plan \in Plans, at \in Times :
      \E a \in KnownAttempts \cup {NewAttemptId(plan)} :
        CreateEvent("wakeRecorded", NoFamily, a, at)

\* write, flush, fsync and chmod of the file: the event is complete on disk.
WriteEvent(p) ==
  LET s == journal.session
  IN  /\ lock = p
      /\ journal.step = "creating"
      /\ log' = [log EXCEPT ![s] = Append(@, journal.draft)]
      /\ torn' = torn \ {s}
      /\ journal' = [journal EXCEPT !.step = "written"]
      /\ UNCHANGED <<lock, dirs, minted>>

\* fsync of the directory and the formal re-read that append returns from.
Acknowledge(p) ==
  /\ lock = p
  /\ journal.step = "written"
  /\ Readable(journal.session, journal.chainStart)
  /\ journal' = [journal EXCEPT !.step = "open", !.draft = NoDraft]
  /\ UNCHANGED <<lock, dirs, log, torn, minted>>

\* The context manager ends, after a return or an error.
Close(p) ==
  /\ lock = p
  /\ \/ journal.step = "open"
     \/ journal.step = "written" /\ ~ Readable(journal.session, journal.chainStart)
  /\ lock' = NoProcess
  /\ journal' = NoJournal
  /\ UNCHANGED <<dirs, log, torn, minted>>

\* The process dies, or its write fails, and the kernel drops the flock: what
\* is on disk stays as it is, a file cut short included.
Die(p) ==
  /\ lock = p
  /\ journal.step # "open"
  /\ lock' = NoProcess
  /\ journal' = NoJournal
  /\ UNCHANGED <<dirs, log, torn, minted>>

\* Mutant of HostLosesEntry: append returns without the directory fsync.
HostLosesReturnedEntry(p) ==
  LET s == journal.session
  IN  /\ lock = p
      /\ journal.step = "open"
      /\ log[s] # <<>>
      /\ lock' = NoProcess
      /\ journal' = NoJournal
      /\ log' = [log EXCEPT ![s] = SubSeq(@, 1, Len(@) - 1)]
      /\ UNCHANGED <<dirs, torn, minted>>

\* The host goes down before the directory fsync: the new entry may be gone.
HostLosesEntry(p) ==
  LET s == journal.session
  IN  /\ lock = p
      /\ journal.step \in {"creating", "written"}
      /\ lock' = NoProcess
      /\ journal' = NoJournal
      /\ torn' = torn \ {s}
      /\ log' = IF journal.step = "written"
                THEN [log EXCEPT ![s] = SubSeq(@, 1, Len(@) - 1)]
                ELSE log
      /\ UNCHANGED <<dirs, minted>>

Init ==
  /\ lock = NoProcess
  /\ journal = NoJournal
  /\ dirs = {}
  /\ log = [s \in Sessions |-> <<>>]
  /\ torn = {}
  /\ minted = 0

Next ==
  \E p \in Processes :
    \/ \E s \in Sessions : Open(p, s)
    \/ AppendStart(p)
    \/ AppendTerminal(p)
    \/ AppendReview(p)
    \/ AppendWakeReservation(p)
    \/ AppendWakeRecord(p)
    \/ WriteEvent(p)
    \/ Acknowledge(p)
    \/ Close(p)
    \/ Die(p)
    \/ HostLosesEntry(p)

Spec == Init /\ [][Next]_vars

-----------------------------------------------------------------------------
(* Properties.                                                             *)

\* The shape of the state.
TypeOK ==
  /\ lock \in Processes \cup {NoProcess}
  /\ journal \in [session : Sessions \cup {0}, chainStart : Nat,
                  step : {"closed", "open", "creating", "written"},
                  draft : Events \cup {NoDraft}]
  /\ dirs \subseteq Sessions
  /\ log \in [Sessions -> Seq(Events)]
  /\ torn \subseteq dirs
  /\ minted \in Nat

\* Only the latest session on disk may hold an unresolved attempt or wake: an
\* interrupted transition is never buried under a later session, where the
\* journal would refuse to open it for recovery.
UnresolvedOnlyInLatest ==
  \A s, t \in dirs : s < t => ~ Unresolved(log[s])

\* Every terminal event directly follows the start it closes, with the same
\* identity and family, and that identity was issued for that very place: a
\* stale holder, or one of another family, never closes somebody else's attempt.
TerminalClosesItsStart ==
  \A s \in Sessions : \A i \in DOMAIN log[s] :
    log[s][i].kind = "terminal" =>
      /\ i > 1
      /\ log[s][i - 1].kind = "started"
      /\ log[s][i - 1].family = log[s][i].family
      /\ log[s][i - 1].attempt = log[s][i].attempt
      /\ log[s][i].attempt.session = s
      /\ log[s][i].attempt.sequence = i - 1

\* The writer never produces what the reader rejects, and the chain through all
\* sessions stays linked: short of a torn file every session reads back.
UntornRootReadable == \A s \in dirs \ torn : Readable(s, ChainStart(s))

\* An event append has returned stays, at its place, for good: neither a crash,
\* nor the loss of an unsynced entry, nor another holder disturbs it.
Acknowledged(s) ==
  IF journal.step = "written" /\ journal.session = s
  THEN SubSeq(log[s], 1, Len(log[s]) - 1)
  ELSE log[s]
AcknowledgedEventsStay ==
  [][\A s \in Sessions : \A i \in DOMAIN Acknowledged(s) :
       i \in DOMAIN Acknowledged(s)' /\ Acknowledged(s)'[i] = Acknowledged(s)[i]]_vars

\* Once a crash leaves a file cut short, the root fails closed: nobody opens any
\* session, earlier or later, so nothing is ever appended behind the gap.
TornRootStaysClosed ==
  [][torn # {} /\ lock = NoProcess => lock' = NoProcess]_vars

-----------------------------------------------------------------------------
(* The serial ledger the journal implements: what its acknowledged events    *)
(* say of the latest session.                                              *)

NoAttempt == [session |-> 0, plan |-> NoFamily, sequence |-> 0]
LatestSession == IF dirs = {} THEN 0 ELSE CHOOSE s \in dirs : \A t \in dirs : t <= s

\* The identity of the event a set of at most one index points at.
IdentityAt(events, indices) ==
  IF indices = {} THEN NoAttempt ELSE events[CHOOSE i \in indices : TRUE].attempt

OpenAttempt ==
  IF dirs = {} THEN NoAttempt
  ELSE IdentityAt(Acknowledged(LatestSession), UnresolvedStart(Acknowledged(LatestSession)))
OpenWake ==
  IF dirs = {} THEN NoAttempt
  ELSE IdentityAt(Acknowledged(LatestSession), UnresolvedWake(Acknowledged(LatestSession)))
ClosedAttempts ==
  UNION {{Acknowledged(s)[i].attempt :
            i \in {j \in DOMAIN Acknowledged(s) : Acknowledged(s)[j].kind = "terminal"}} :
           s \in Sessions}

Ledger == INSTANCE SerialLedger
  WITH session <- LatestSession, attempt <- OpenAttempt, wake <- OpenWake,
       closed <- ClosedAttempts

\* The journal is a serial ledger: through crashes, torn files and any number of
\* holders, each acknowledged event is one step the ledger allows, or none.
ImplementsLedger == Ledger!Spec
=============================================================================
