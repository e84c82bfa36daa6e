--------------------------- MODULE RunJournal_proofs ---------------------------
(***************************************************************************)
(* Proofs about the daily run journal, for any sessions, holders, families *)
(* and any number of events.                                               *)
(***************************************************************************)
EXTENDS RunJournal, TLAPS

\* The holder's journal is the latest session on disk, and exists while the flock
\* is held.
HolderOk ==
  /\ lock = NoProcess => journal = NoJournal
  /\ lock # NoProcess =>
       /\ journal.step # "closed"
       /\ journal.session \in dirs
       /\ \A t \in dirs : t <= journal.session

\* Events lie in existing directories, fewer than were minted while one is written.
LogSized ==
  /\ \A s \in Sessions : log[s] # <<>> => s \in dirs
  /\ \A s \in Sessions : Len(log[s]) <= minted
  /\ minted <= MaxEvents
  /\ journal.step = "creating" => Len(log[journal.session]) < minted

\* The event being written is one the writer's validator accepted.
DraftOk ==
  journal.step = "creating" =>
    LET d == journal.draft
    IN  /\ d \in Events
        /\ NextEventOk(log[journal.session], d.kind, d.family, d.attempt)
        /\ d.prev = IF log[journal.session] = <<>> THEN journal.chainStart
                    ELSE LastFingerprint(journal.session)
        /\ d.kind = "started" =>
             /\ d.attempt.session = journal.session
             /\ d.attempt.sequence = Len(log[journal.session]) + 1

\* An attempt's identity names the place of its start.
StartsNamed ==
  \A s \in Sessions : \A i \in DOMAIN log[s] :
    log[s][i].kind = "started" =>
      log[s][i].attempt.session = s /\ log[s][i].attempt.sequence = i

LogsValid == \A s \in Sessions : StateMachineOk(log[s])

\* Every session's chain starts at the last event before it, the holder's too.
ChainsHeld ==
  /\ \A s \in Sessions :
       SessionsBefore(s) # {} =>
         \E t \in SessionsBefore(s) : \A u \in SessionsBefore(s) : u <= t
  /\ \A s \in dirs : Linked(log[s], ChainStart(s))
  /\ \A s \in dirs :
       lock # NoProcess /\ journal.session = s => journal.chainStart = ChainStart(s)

IInv ==
  /\ TypeOK
  /\ HolderOk
  /\ LogSized
  /\ DraftOk
  /\ StartsNamed
  /\ LogsValid
  /\ UnresolvedOnlyInLatest
  /\ ChainsHeld

-----------------------------------------------------------------------------
(* Facts about one session's events.                                       *)

\* What _validate_next_event accepts, _validate_event_state_machine reads back.
LEMMA AppendKeepsStateMachine ==
  ASSUME NEW events \in Seq(Events), NEW e \in Events,
         StateMachineOk(events),
         NextEventOk(events, e.kind, e.family, e.attempt)
  PROVE  StateMachineOk(Append(events, e))
<1> DEFINE n == Len(events)
           after == Append(events, e)
<1>1. /\ n \in Nat /\ DOMAIN events = 1 .. n /\ DOMAIN after = 1 .. n + 1
      /\ \A i \in 1 .. n : after[i] = events[i]
      /\ after[n + 1] = e
  OBVIOUS
<1>2. e.kind \in Kinds
  BY DEF Events
<1>3. ASSUME NEW i \in 1 .. n
      PROVE  EventPlaced(after, i)
  <2>1. WakeOpenBefore(after, i) = WakeOpenBefore(events, i)
    BY <1>1 DEF WakeOpenBefore
  <2>2. StartOpenBefore(after, i) = StartOpenBefore(events, i)
    BY <1>1 DEF StartOpenBefore
  <2>3. \A j \in WakeOpenBefore(events, i) : after[j] = events[j]
    BY <1>1 DEF WakeOpenBefore
  <2>4. \A j \in StartOpenBefore(events, i) : after[j] = events[j]
    BY <1>1 DEF StartOpenBefore
  <2>5. after[i] = events[i] /\ EventPlaced(events, i)
    BY <1>1 DEF StateMachineOk
  <2> HIDE DEF n, after
  <2>6. QED
    BY <2>1, <2>2, <2>3, <2>4, <2>5 DEF EventPlaced
<1>4. EventPlaced(after, n + 1)
  <2>1. \A j \in WakeOpenBefore(after, n + 1) : j \in UnresolvedWake(events) /\ after[j] = events[j]
    BY <1>1 DEF WakeOpenBefore, UnresolvedWake
  <2>2. StartOpenBefore(after, n + 1) = UnresolvedStart(events)
    BY <1>1 DEF StartOpenBefore, UnresolvedStart
  <2>3. \A j \in UnresolvedStart(events) : after[j] = events[j]
    BY <1>1 DEF UnresolvedStart
  <2>4. e.kind # "terminal" => UnresolvedStart(events) = {}
    BY <1>2 DEF NextEventOk, Kinds, Standalone
  <2>5. after[n + 1] = e
    BY <1>1
  <2> HIDE DEF n, after
  <2>6. QED
    BY <2>1, <2>2, <2>3, <2>4, <2>5 DEF EventPlaced, NextEventOk
<1>5. QED
  BY <1>1, <1>3, <1>4 DEF StateMachineOk

\* Losing the last event leaves a sequence the reader still accepts.
LEMMA FrontKeepsStateMachine ==
  ASSUME NEW events \in Seq(Events), StateMachineOk(events), events # <<>>
  PROVE  StateMachineOk(SubSeq(events, 1, Len(events) - 1))
<1> DEFINE n == Len(events)
           front == SubSeq(events, 1, n - 1)
<1>1. /\ n \in Nat /\ n >= 1 /\ DOMAIN events = 1 .. n /\ DOMAIN front = 1 .. n - 1
      /\ \A i \in 1 .. n - 1 : front[i] = events[i]
  OBVIOUS
<1>2. ASSUME NEW i \in DOMAIN front
      PROVE  /\ WakeOpenBefore(front, i) = WakeOpenBefore(events, i)
             /\ StartOpenBefore(front, i) = StartOpenBefore(events, i)
             /\ \A j \in WakeOpenBefore(events, i) \cup StartOpenBefore(events, i) :
                  front[j] = events[j]
  BY <1>1 DEF WakeOpenBefore, StartOpenBefore
<1>3. ASSUME NEW i \in DOMAIN front
      PROVE  EventPlaced(front, i)
  <2>1. front[i] = events[i] /\ EventPlaced(events, i)
    BY <1>1 DEF StateMachineOk
  <2> HIDE DEF front
  <2>2. QED
    BY <1>2, <2>1 DEF EventPlaced
<1>4. QED
  BY <1>3 DEF StateMachineOk

-----------------------------------------------------------------------------
(* Every operation keeps the invariant.                                    *)

LEMMA InitHolds == Init => IInv
<1> SUFFICES ASSUME Init PROVE IInv
  OBVIOUS
<1> USE ConstantsAssumption DEF Init
<1>1. TypeOK
  BY DEF TypeOK, NoJournal, NoDraft
<1>2. HolderOk /\ LogSized /\ DraftOk
  BY DEF HolderOk, LogSized, DraftOk, NoJournal
<1>3. StartsNamed /\ LogsValid /\ UnresolvedOnlyInLatest
  BY DEF StartsNamed, LogsValid, StateMachineOk, UnresolvedOnlyInLatest
<1>4. ChainsHeld
  BY DEF ChainsHeld, SessionsBefore
<1>5. QED
  BY <1>1, <1>2, <1>3, <1>4 DEF IInv

\* ChainStart reads nothing but the logs of earlier sessions.
LEMMA ChainStartFrame ==
  ASSUME TypeOK, ChainsHeld, NEW s \in Sessions,
         SessionsBefore(s)' = SessionsBefore(s),
         \A t \in SessionsBefore(s) : log'[t] = log[t]
  PROVE  ChainStart(s)' = ChainStart(s)
<1>1. CASE SessionsBefore(s) = {}
  BY <1>1 DEF ChainStart
<1>2. CASE SessionsBefore(s) # {}
  <2> DEFINE last == CHOOSE t \in SessionsBefore(s) : \A u \in SessionsBefore(s) : u <= t
  <2>1. last \in SessionsBefore(s)
    BY <1>2 DEF ChainsHeld
  <2>2. log'[last] = log[last]
    BY <2>1
  <2>3. ChainStart(s) = LastFingerprint(last)
    BY <1>2 DEF ChainStart
  <2>4. ChainStart(s)' = log'[last][Len(log'[last])].fingerprint
    BY <1>2 DEF ChainStart, LastFingerprint
  <2>5. QED
    BY <2>2, <2>3, <2>4 DEF LastFingerprint
<1>3. QED
  BY <1>1, <1>2

\* A fingerprint number is a natural number.
LEMMA ChainStartTyped ==
  ASSUME TypeOK, ChainsHeld, NEW s \in Sessions
  PROVE  ChainStart(s) \in Nat
<1>1. CASE SessionsBefore(s) = {}
  BY <1>1 DEF ChainStart
<1>2. CASE SessionsBefore(s) # {}
  <2> DEFINE last == CHOOSE t \in SessionsBefore(s) : \A u \in SessionsBefore(s) : u <= t
  <2>1. last \in SessionsBefore(s)
    BY <1>2 DEF ChainsHeld
  <2>2. log[last] \in Seq(Events) /\ log[last] # <<>>
    BY <2>1 DEF SessionsBefore, TypeOK
  <2>3. log[last][Len(log[last])] \in Events
    BY <2>2
  <2>4. LastFingerprint(last) \in Nat
    BY <2>3 DEF LastFingerprint, Events
  <2>5. QED
    BY <1>2, <2>4 DEF ChainStart
<1>3. QED
  BY <1>1, <1>2

LEMMA OpenKeeps ==
  ASSUME IInv, NEW p \in Processes, NEW s \in Sessions, Open(p, s)
  PROVE  IInv'
<1> USE DEF IInv
<1>1. /\ lock = NoProcess /\ lock' = p /\ p # NoProcess
      /\ journal' = [session |-> s, chainStart |-> ChainStart(s), step |-> "open", draft |-> NoDraft]
      /\ dirs' = dirs \cup {s} /\ UNCHANGED <<log, torn, minted>>
      /\ RootValidFor(s)
  BY ConstantsAssumption DEF Open
<1>2. TypeOK'
  BY <1>1, ChainStartTyped DEF TypeOK
<1>3. \A t \in dirs : t <= s /\ (t # s => ~ Unresolved(log[t]))
  BY <1>1 DEF RootValidFor
<1>4. dirs \subseteq Sessions /\ Sessions \subseteq Nat
  BY ConstantsAssumption DEF TypeOK
<1>5. HolderOk'
  BY <1>1, <1>3, <1>4 DEF HolderOk
<1>6. LogSized' /\ DraftOk' /\ StartsNamed' /\ LogsValid'
  BY <1>1 DEF LogSized, DraftOk, StartsNamed, LogsValid
<1>7. UnresolvedOnlyInLatest'
  BY <1>1, <1>3, <1>4 DEF UnresolvedOnlyInLatest
<1>8. ASSUME NEW t \in Sessions
      PROVE  /\ SessionsBefore(t)' = SessionsBefore(t)
             /\ ChainStart(t)' = ChainStart(t)
  <2>1. log[s] # <<>> => s \in dirs
    BY DEF LogSized
  <2>2. SessionsBefore(t)' = SessionsBefore(t)
    BY <1>1, <2>1 DEF SessionsBefore
  <2>3. QED
    BY <1>1, <2>2, ChainStartFrame
<1>9. Linked(log[s], ChainStart(s))
  <2>1. CASE s \in dirs
    BY <2>1 DEF ChainsHeld
  <2>2. CASE s \notin dirs
    BY <2>2 DEF LogSized, Linked
  <2>3. QED
    BY <2>1, <2>2
<1>10. ChainsHeld'
  BY <1>1, <1>4, <1>8, <1>9 DEF ChainsHeld, Linked
<1>11. QED
  BY <1>2, <1>5, <1>6, <1>7, <1>10

\* What every action that leaves the files alone keeps of the chains.
LEMMA ChainsFrame ==
  ASSUME TypeOK, ChainsHeld, UNCHANGED <<dirs, log>>,
         lock' # NoProcess =>
           /\ lock' = lock
           /\ journal'.chainStart = journal.chainStart
           /\ journal'.session = journal.session
  PROVE  ChainsHeld'
<1>1. ASSUME NEW s \in Sessions
      PROVE  SessionsBefore(s)' = SessionsBefore(s) /\ ChainStart(s)' = ChainStart(s)
  <2>1. SessionsBefore(s)' = SessionsBefore(s)
    BY DEF SessionsBefore
  <2>2. QED
    BY <2>1, ChainStartFrame
<1>2. dirs \subseteq Sessions
  BY DEF TypeOK
<1>3. QED
  BY <1>1, <1>2 DEF ChainsHeld, Linked

LEMMA CreateEventKeeps ==
  ASSUME IInv, NEW p \in Processes, MayAppend(p),
         NEW kind \in Kinds, NEW family \in Families \cup {NoFamily},
         NEW attempt \in AttemptIds, NEW at \in Times,
         kind = "started" =>
           /\ attempt.session = journal.session
           /\ attempt.sequence = Len(log[journal.session]) + 1,
         CreateEvent(kind, family, attempt, at)
  PROVE  IInv'
<1> USE DEF IInv
<1> DEFINE s == journal.session
           prev == IF log[s] = <<>> THEN journal.chainStart ELSE LastFingerprint(s)
           draft == [kind |-> kind, family |-> family, attempt |-> attempt, at |-> at,
                     prev |-> prev, fingerprint |-> minted + 1]
<1>1. /\ lock = p /\ p # NoProcess /\ minted < MaxEvents /\ journal.step = "open"
      /\ NextEventOk(log[s], kind, family, attempt)
      /\ journal' = [journal EXCEPT !.step = "creating", !.draft = draft]
      /\ torn' = torn \cup {s} /\ minted' = minted + 1
      /\ UNCHANGED <<lock, dirs, log>>
  BY ConstantsAssumption DEF MayAppend, CreateEvent
<1>2. s \in dirs /\ s \in Sessions /\ log[s] \in Seq(Events) /\ minted \in Nat
  BY <1>1 DEF HolderOk, TypeOK
<1>3. prev \in Nat
  <2>1. CASE log[s] = <<>>
    BY <2>1 DEF TypeOK
  <2>2. CASE log[s] # <<>>
    <3>1. log[s][Len(log[s])] \in Events
      BY <1>2, <2>2
    <3>2. QED
      BY <2>2, <3>1 DEF LastFingerprint, Events
  <2>3. QED
    BY <2>1, <2>2
<1>4. draft \in Events
  BY <1>2, <1>3 DEF Events
<1>5. journal.session \in Sessions \cup {0} /\ journal.chainStart \in Nat
  BY DEF TypeOK
<1> HIDE DEF prev
<1>6. /\ journal'.session = s /\ journal'.chainStart = journal.chainStart
      /\ journal'.step = "creating" /\ journal'.draft = draft
  BY <1>1 DEF TypeOK
<1>7. TypeOK'
  <2> HIDE DEF draft
  <2>1. journal' \in [session : Sessions \cup {0}, chainStart : Nat,
                      step : {"closed", "open", "creating", "written"},
                      draft : Events \cup {NoDraft}]
    BY <1>1, <1>4 DEF TypeOK
  <2>2. minted' \in Nat
    BY <1>1, <1>2
  <2>3. torn' \subseteq dirs
    BY <1>1, <1>2 DEF TypeOK
  <2>4. QED
    BY <1>1, <2>1, <2>2, <2>3 DEF TypeOK
<1>8. HolderOk'
  BY <1>1, <1>6 DEF HolderOk
<1>9. LogSized'
  BY <1>1, <1>2, <1>6, ConstantsAssumption DEF LogSized, TypeOK
<1>10. DraftOk'
  BY <1>1, <1>4, <1>6 DEF DraftOk, prev, LastFingerprint
<1>11. StartsNamed' /\ LogsValid' /\ UnresolvedOnlyInLatest'
  BY <1>1 DEF StartsNamed, LogsValid, UnresolvedOnlyInLatest
<1>12. ChainsHeld'
  BY <1>1, <1>6, ChainsFrame
<1>13. QED
  BY <1>7, <1>8, <1>9, <1>10, <1>11, <1>12

LEMMA AppendKeeps ==
  ASSUME IInv, NEW p \in Processes,
         \/ AppendStart(p)
         \/ AppendTerminal(p)
         \/ AppendReview(p)
         \/ AppendWakeReservation(p)
         \/ AppendWakeRecord(p)
  PROVE  IInv'
<1>1. MayAppend(p)
  BY DEF AppendStart, AppendTerminal, AppendReview, AppendWakeReservation, AppendWakeRecord
<1>2. journal.session \in Sessions /\ Len(log[journal.session]) \in Nat
  BY <1>1, ConstantsAssumption DEF IInv, MayAppend, HolderOk, TypeOK
<1>3. ASSUME NEW plan \in Plans
      PROVE  /\ NewAttemptId(plan) \in AttemptIds
             /\ NewAttemptId(plan).session = journal.session
             /\ NewAttemptId(plan).sequence = Len(log[journal.session]) + 1
  <2>1. Len(log[journal.session]) <= minted /\ minted \in Nat
    BY <1>2 DEF IInv, LogSized, TypeOK
  <2>2. minted < MaxEvents /\ MaxEvents \in Nat
    BY <1>1, ConstantsAssumption DEF MayAppend
  <2>3. Len(log[journal.session]) + 1 \in 1 .. MaxEvents
    BY <1>2, <2>1, <2>2
  <2>4. QED
    BY <1>2, <2>3 DEF NewAttemptId, AttemptIds
<1>4. KnownAttempts \subseteq AttemptIds
  <2>1. ASSUME NEW t \in Sessions, NEW i \in DOMAIN log[t]
        PROVE  log[t][i].attempt \in AttemptIds
    <3>1. log[t] \in Seq(Events)
      BY DEF IInv, TypeOK
    <3>2. log[t][i] \in Events
      BY <3>1
    <3>3. QED
      BY <3>2 DEF Events
  <2>2. QED
    BY <2>1 DEF KnownAttempts
<1>5. CASE AppendStart(p)
  <2>1. PICK f \in Families, plan \in Plans, at \in Times :
          CreateEvent("started", f, NewAttemptId(plan), at)
    BY <1>5 DEF AppendStart
  <2>2. QED
    BY <1>1, <1>3, <2>1, CreateEventKeeps DEF Kinds
<1>6. CASE AppendTerminal(p)
  <2>1. PICK f \in Families, a \in KnownAttempts, at \in Times :
          CreateEvent("terminal", f, a, at)
    BY <1>6 DEF AppendTerminal
  <2>2. QED
    BY <1>1, <1>4, <2>1, CreateEventKeeps DEF Kinds
<1>7. CASE AppendReview(p)
  <2>1. PICK plan \in Plans, at \in Times :
          CreateEvent("reviewed", NoFamily, NewAttemptId(plan), at)
    BY <1>7 DEF AppendReview
  <2>2. QED
    BY <1>1, <1>3, <2>1, CreateEventKeeps DEF Kinds
<1>8. CASE AppendWakeReservation(p)
  <2>1. PICK plan \in Plans, at \in Times :
          CreateEvent("wakeReserved", NoFamily, NewAttemptId(plan), at)
    BY <1>8 DEF AppendWakeReservation
  <2>2. QED
    BY <1>1, <1>3, <2>1, CreateEventKeeps DEF Kinds
<1>9. CASE AppendWakeRecord(p)
  <2>1. PICK plan \in Plans, at \in Times :
          \E a \in KnownAttempts \cup {NewAttemptId(plan)} :
            CreateEvent("wakeRecorded", NoFamily, a, at)
    BY <1>9 DEF AppendWakeRecord
  <2>2. PICK a \in KnownAttempts \cup {NewAttemptId(plan)} :
          CreateEvent("wakeRecorded", NoFamily, a, at)
    BY <2>1
  <2>3. a \in AttemptIds
    BY <1>3, <1>4
  <2>4. QED
    BY <1>1, <2>2, <2>3, CreateEventKeeps DEF Kinds
<1>10. QED
  BY <1>5, <1>6, <1>7, <1>8, <1>9

\* Changing the latest session's log disturbs no other session's chain.
LEMMA ChainsAfterLatest ==
  ASSUME TypeOK, ChainsHeld, NEW last \in dirs, \A t \in dirs : t <= last,
         NEW events \in Seq(Events), Linked(events, ChainStart(last)),
         log' = [log EXCEPT ![last] = events], dirs' = dirs,
         lock' # NoProcess =>
           /\ lock' = lock
           /\ journal'.chainStart = journal.chainStart
           /\ journal'.session = journal.session
  PROVE  ChainsHeld'
<1>1. dirs \subseteq Sessions /\ Sessions \subseteq Nat /\ log \in [Sessions -> Seq(Events)]
  BY ConstantsAssumption DEF TypeOK
<1>2. log'[last] = events /\ \A t \in Sessions \ {last} : log'[t] = log[t]
  BY <1>1
<1>3. ASSUME NEW s \in Sessions, s <= last
      PROVE  SessionsBefore(s)' = SessionsBefore(s) /\ ChainStart(s)' = ChainStart(s)
  <2>1. SessionsBefore(s)' = SessionsBefore(s)
    BY <1>1, <1>2, <1>3 DEF SessionsBefore
  <2>2. \A t \in SessionsBefore(s) : log'[t] = log[t]
    BY <1>1, <1>2, <1>3 DEF SessionsBefore
  <2>3. QED
    BY <2>1, <2>2, ChainStartFrame
<1>4. ASSUME NEW s \in Sessions, SessionsBefore(s)' # {}
      PROVE  \E t \in SessionsBefore(s)' : \A u \in SessionsBefore(s)' : u <= t
  <2>1. CASE s <= last
    BY <1>3, <1>4, <2>1 DEF ChainsHeld
  <2>2. CASE s > last /\ events # <<>>
    <3>1. last \in SessionsBefore(s)' /\ \A u \in SessionsBefore(s)' : u <= last
      BY <1>1, <1>2, <2>2 DEF SessionsBefore
    <3>2. QED
      BY <3>1
  <2>3. CASE s > last /\ events = <<>>
    <3>1. ASSUME NEW t \in dirs
          PROVE  (t < s /\ log'[t] # <<>>) <=> (t < last /\ log[t] # <<>>)
      BY <1>1, <1>2, <2>3
    <3>2. SessionsBefore(s)' = SessionsBefore(last)
      BY <3>1 DEF SessionsBefore
    <3>3. QED
      BY <1>1, <1>4, <3>2 DEF ChainsHeld
  <2>4. QED
    BY <1>1, <2>1, <2>2, <2>3
<1>5. \A s \in dirs : Linked(log[s], ChainStart(s))'
  BY <1>1, <1>2, <1>3 DEF ChainsHeld, Linked
<1>6. \A s \in dirs :
        lock' # NoProcess /\ journal'.session = s => journal'.chainStart = ChainStart(s)'
  BY <1>1, <1>3 DEF ChainsHeld
<1>7. QED
  BY <1>4, <1>5, <1>6 DEF ChainsHeld

LEMMA WriteEventKeeps ==
  ASSUME IInv, NEW p \in Processes, WriteEvent(p)
  PROVE  IInv'
<1> USE DEF IInv
<1> DEFINE s == journal.session
           events == Append(log[s], journal.draft)
<1>1. /\ lock = p /\ p # NoProcess /\ journal.step = "creating"
      /\ log' = [log EXCEPT ![s] = events] /\ torn' = torn \ {s}
      /\ journal' = [journal EXCEPT !.step = "written"] /\ UNCHANGED <<lock, dirs, minted>>
  BY ConstantsAssumption DEF WriteEvent
<1>2. /\ s \in dirs /\ s \in Sessions /\ \A t \in dirs : t <= s
      /\ dirs \subseteq Sessions /\ Sessions \subseteq Nat
      /\ log[s] \in Seq(Events) /\ minted \in Nat
  BY <1>1, ConstantsAssumption DEF HolderOk, TypeOK
<1>3. journal.draft \in Events /\ events \in Seq(Events)
  BY <1>1, <1>2 DEF DraftOk
<1>4. /\ journal'.session = s /\ journal'.chainStart = journal.chainStart
      /\ journal'.step = "written" /\ journal'.draft = journal.draft
  BY <1>1 DEF TypeOK
<1>5. /\ Len(events) = Len(log[s]) + 1
      /\ \A i \in 1 .. Len(log[s]) : events[i] = log[s][i]
      /\ events[Len(log[s]) + 1] = journal.draft
      /\ DOMAIN events = 1 .. Len(log[s]) + 1 /\ DOMAIN log[s] = 1 .. Len(log[s])
      /\ Len(log[s]) \in Nat
  BY <1>2, <1>3
<1>6. log'[s] = events /\ \A t \in Sessions \ {s} : log'[t] = log[t]
  BY <1>1, <1>2 DEF TypeOK
<1>7. StateMachineOk(events)
  BY <1>1, <1>2, <1>3, AppendKeepsStateMachine DEF DraftOk, LogsValid
<1>8. Linked(log[s], ChainStart(s)) /\ journal.chainStart = ChainStart(s)
  BY <1>1, <1>2 DEF ChainsHeld
<1>9. Linked(events, ChainStart(s))
  <2>1. journal.draft.prev = IF log[s] = <<>> THEN ChainStart(s)
                             ELSE log[s][Len(log[s])].fingerprint
    BY <1>1, <1>8 DEF DraftOk, LastFingerprint
  <2>2. log[s] = <<>> <=> Len(log[s]) = 0
    BY <1>2
  <2>3. ASSUME NEW i \in 1 .. Len(log[s])
        PROVE  events[i].prev = IF i = 1 THEN ChainStart(s) ELSE events[i - 1].fingerprint
    <3>1. log[s][i].prev = IF i = 1 THEN ChainStart(s) ELSE log[s][i - 1].fingerprint
      BY <1>5, <1>8 DEF Linked
    <3>2. i # 1 => i - 1 \in 1 .. Len(log[s])
      BY <1>5
    <3> HIDE DEF events
    <3>3. QED
      BY <1>5, <3>1, <3>2
  <2>4. ASSUME NEW i \in {Len(log[s]) + 1}
        PROVE  events[i].prev = IF i = 1 THEN ChainStart(s) ELSE events[i - 1].fingerprint
    <3> HIDE DEF events
    <3>1. i - 1 = Len(log[s]) /\ (i = 1 <=> Len(log[s]) = 0)
      BY <1>5
    <3>2. i # 1 => events[i - 1] = log[s][Len(log[s])]
      BY <1>5, <3>1
    <3>3. QED
      BY <1>5, <2>1, <2>2, <3>1, <3>2
  <2> HIDE DEF events
  <2>5. DOMAIN events = 1 .. Len(log[s]) \cup {Len(log[s]) + 1}
    BY <1>5
  <2>6. QED
    BY <2>3, <2>4, <2>5 DEF Linked
<1> HIDE DEF events
<1>10. TypeOK'
  <2>1. log' \in [Sessions -> Seq(Events)]
    BY <1>1, <1>3 DEF TypeOK
  <2>2. journal' \in [session : Sessions \cup {0}, chainStart : Nat,
                      step : {"closed", "open", "creating", "written"},
                      draft : Events \cup {NoDraft}]
    BY <1>1 DEF TypeOK
  <2>3. QED
    BY <1>1, <2>1, <2>2 DEF TypeOK
<1>11. HolderOk' /\ DraftOk'
  BY <1>1, <1>4 DEF HolderOk, DraftOk
<1>12. LogSized'
  <2>1. Len(log[s]) < minted
    BY <1>1 DEF LogSized
  <2>2. \A t \in Sessions : Len(log'[t]) <= minted
    BY <1>2, <1>5, <1>6, <2>1 DEF LogSized
  <2>3. QED
    BY <1>1, <1>2, <1>4, <1>6, <2>2 DEF LogSized
<1>13. StartsNamed'
  BY <1>1, <1>5, <1>6 DEF StartsNamed, DraftOk
<1>14. LogsValid'
  BY <1>6, <1>7 DEF LogsValid
<1>15. UnresolvedOnlyInLatest'
  BY <1>1, <1>2, <1>6 DEF UnresolvedOnlyInLatest
<1>16. ChainsHeld'
  BY <1>1, <1>2, <1>3, <1>4, <1>9, ChainsAfterLatest
<1>17. QED
  BY <1>10, <1>11, <1>12, <1>13, <1>14, <1>15, <1>16

LEMMA QuietStepKeeps ==
  ASSUME IInv, NEW p \in Processes, Acknowledge(p) \/ Close(p) \/ Die(p)
  PROVE  IInv'
<1> USE DEF IInv
<1>1. /\ lock = p /\ p # NoProcess /\ journal.step # "closed"
      /\ UNCHANGED <<dirs, log, torn, minted>>
      /\ \/ lock' = NoProcess /\ journal' = NoJournal
         \/ lock' = lock /\ journal' = [journal EXCEPT !.step = "open", !.draft = NoDraft]
  BY ConstantsAssumption DEF Acknowledge, Close, Die, HolderOk
<1>2. journal' = [journal EXCEPT !.step = "open", !.draft = NoDraft] =>
        /\ journal'.session = journal.session /\ journal'.chainStart = journal.chainStart
        /\ journal'.step = "open"
  BY DEF TypeOK
<1>3. TypeOK'
  <2>1. journal' \in [session : Sessions \cup {0}, chainStart : Nat,
                      step : {"closed", "open", "creating", "written"},
                      draft : Events \cup {NoDraft}]
    <3> HIDE DEF NoDraft
    <3>1. CASE journal' = NoJournal
      BY <3>1 DEF NoJournal
    <3>2. CASE journal' = [journal EXCEPT !.step = "open", !.draft = NoDraft]
      BY <3>2 DEF TypeOK
    <3>3. QED
      BY <1>1, <3>1, <3>2
  <2>2. lock' \in Processes \cup {NoProcess}
    BY <1>1
  <2>3. QED
    BY <1>1, <2>1, <2>2 DEF TypeOK
<1>4. HolderOk' /\ LogSized' /\ DraftOk'
  BY <1>1, <1>2 DEF HolderOk, LogSized, DraftOk, NoJournal
<1>5. StartsNamed' /\ LogsValid' /\ UnresolvedOnlyInLatest'
  BY <1>1 DEF StartsNamed, LogsValid, UnresolvedOnlyInLatest
<1>6. ChainsHeld'
  BY <1>1, <1>2, ChainsFrame
<1>7. QED
  BY <1>3, <1>4, <1>5, <1>6

LEMMA HostLosesEntryKeeps ==
  ASSUME IInv, NEW p \in Processes, HostLosesEntry(p), log' # log
  PROVE  IInv'
<1> USE DEF IInv
<1> DEFINE s == journal.session
           events == SubSeq(log[s], 1, Len(log[s]) - 1)
<1>1. /\ lock = p /\ p # NoProcess /\ lock' = NoProcess /\ journal' = NoJournal
      /\ journal.step = "written"
      /\ torn' = torn \ {s} /\ log' = [log EXCEPT ![s] = events]
      /\ UNCHANGED <<dirs, minted>>
  BY ConstantsAssumption DEF HostLosesEntry
<1>2. /\ s \in dirs /\ s \in Sessions /\ \A t \in dirs : t <= s
      /\ dirs \subseteq Sessions /\ Sessions \subseteq Nat
      /\ log[s] \in Seq(Events) /\ minted \in Nat
  BY <1>1, ConstantsAssumption DEF HolderOk, TypeOK
<1>3. log'[s] = events /\ \A t \in Sessions \ {s} : log'[t] = log[t]
  BY <1>1, <1>2 DEF TypeOK
<1>4. log[s] # <<>>
  <2>1. SUFFICES ASSUME log[s] = <<>> PROVE FALSE
    OBVIOUS
  <2>2. events = <<>>
    BY <2>1
  <2>3. log' = log
    BY <1>1, <1>2, <2>1, <2>2 DEF TypeOK
  <2>4. QED
    BY <2>3
<1>5. /\ events \in Seq(Events)
      /\ Len(events) = Len(log[s]) - 1 /\ Len(log[s]) \in Nat
      /\ DOMAIN events = 1 .. Len(log[s]) - 1 /\ DOMAIN log[s] = 1 .. Len(log[s])
      /\ \A i \in DOMAIN events : events[i] = log[s][i]
  BY <1>2, <1>4
<1>6. StateMachineOk(events)
  BY <1>2, <1>4, FrontKeepsStateMachine DEF LogsValid
<1>7. Linked(events, ChainStart(s))
  <2>1. Linked(log[s], ChainStart(s))
    BY <1>2 DEF ChainsHeld
  <2>2. ASSUME NEW i \in DOMAIN events
        PROVE  events[i].prev = IF i = 1 THEN ChainStart(s) ELSE events[i - 1].fingerprint
    <3>1. i \in DOMAIN log[s] /\ (i # 1 => i - 1 \in DOMAIN events)
      BY <1>5
    <3> HIDE DEF events
    <3>2. QED
      BY <1>5, <2>1, <3>1 DEF Linked
  <2> HIDE DEF events
  <2>3. QED
    BY <2>2 DEF Linked
<1> HIDE DEF events
<1>8. TypeOK'
  <2>1. log' \in [Sessions -> Seq(Events)]
    BY <1>1, <1>5 DEF TypeOK
  <2>2. QED
    BY <1>1, <2>1 DEF TypeOK, NoJournal
<1>9. HolderOk' /\ DraftOk'
  BY <1>1 DEF HolderOk, DraftOk, NoJournal
<1>10. LogSized'
  <2>1. \A t \in Sessions : Len(log'[t]) <= minted
    BY <1>2, <1>3, <1>5 DEF LogSized
  <2>2. \A t \in Sessions : log'[t] # <<>> => t \in dirs
    BY <1>2, <1>3 DEF LogSized
  <2>3. QED
    BY <1>1, <2>1, <2>2 DEF LogSized, NoJournal
<1>11. StartsNamed'
  BY <1>3, <1>5 DEF StartsNamed
<1>12. LogsValid'
  BY <1>3, <1>6 DEF LogsValid
<1>13. UnresolvedOnlyInLatest'
  BY <1>1, <1>2, <1>3 DEF UnresolvedOnlyInLatest
<1>14. ChainsHeld'
  BY <1>1, <1>2, <1>5, <1>7, ChainsAfterLatest
<1>15. QED
  BY <1>8, <1>9, <1>10, <1>11, <1>12, <1>13, <1>14

\* Losing a file cut short touches no event.
LEMMA HostLosesTornKeeps ==
  ASSUME IInv, NEW p \in Processes, HostLosesEntry(p), log' = log
  PROVE  IInv'
<1> USE DEF IInv
<1>1. /\ lock' = NoProcess /\ journal' = NoJournal /\ torn' \subseteq torn
      /\ UNCHANGED <<dirs, log, minted>>
  BY DEF HostLosesEntry
<1>2. TypeOK'
  BY <1>1 DEF TypeOK, NoJournal
<1>3. HolderOk' /\ LogSized' /\ DraftOk'
  BY <1>1 DEF HolderOk, LogSized, DraftOk, NoJournal
<1>4. StartsNamed' /\ LogsValid' /\ UnresolvedOnlyInLatest'
  BY <1>1 DEF StartsNamed, LogsValid, UnresolvedOnlyInLatest
<1>5. ChainsHeld'
  BY <1>1, ChainsFrame
<1>6. QED
  BY <1>2, <1>3, <1>4, <1>5

LEMMA StutterKeeps == IInv /\ UNCHANGED vars => IInv'
<1> SUFFICES ASSUME IInv, UNCHANGED vars PROVE IInv'
  OBVIOUS
<1> USE DEF IInv, vars
<1>1. TypeOK' /\ HolderOk' /\ LogSized'
  BY DEF TypeOK, HolderOk, LogSized
<1>2. DraftOk' /\ StartsNamed' /\ LogsValid' /\ UnresolvedOnlyInLatest'
  BY DEF DraftOk, StartsNamed, LogsValid, UnresolvedOnlyInLatest, LastFingerprint
<1>3. ChainsHeld'
  BY ChainsFrame
<1>4. QED
  BY <1>1, <1>2, <1>3

THEOREM Inductive == Spec => []IInv
<1>1. ASSUME IInv, [Next]_vars
      PROVE  IInv'
  <2>1. CASE UNCHANGED vars
    BY <1>1, <2>1, StutterKeeps
  <2>2. ASSUME NEW p \in Processes, NEW s \in Sessions, Open(p, s)
        PROVE  IInv'
    BY <1>1, <2>2, OpenKeeps
  <2>3. ASSUME NEW p \in Processes,
               \/ AppendStart(p) \/ AppendTerminal(p) \/ AppendReview(p)
               \/ AppendWakeReservation(p) \/ AppendWakeRecord(p)
        PROVE  IInv'
    BY <1>1, <2>3, AppendKeeps
  <2>4. ASSUME NEW p \in Processes, WriteEvent(p)
        PROVE  IInv'
    BY <1>1, <2>4, WriteEventKeeps
  <2>5. ASSUME NEW p \in Processes, Acknowledge(p) \/ Close(p) \/ Die(p)
        PROVE  IInv'
    BY <1>1, <2>5, QuietStepKeeps
  <2>6. ASSUME NEW p \in Processes, HostLosesEntry(p)
        PROVE  IInv'
    BY <1>1, <2>6, HostLosesEntryKeeps, HostLosesTornKeeps
  <2>7. QED
    BY <1>1, <2>1, <2>2, <2>3, <2>4, <2>5, <2>6 DEF Next
<1>2. QED
  BY <1>1, InitHolds, PTL DEF Spec

-----------------------------------------------------------------------------
(* The serial ledger.                                                      *)

\* A reservation with any later event about a wake behind it has its own record between
\* the two.
WakesClosed(events) ==
  \A j, k \in DOMAIN events :
    j < k /\ events[j].kind = "wakeReserved" /\ events[k].kind \in {"wakeReserved", "wakeRecorded"} =>
      \E m \in j + 1 .. k : events[m].kind = "wakeRecorded" /\ events[m].attempt = events[j].attempt

WakesNamed(s) ==
  \A i \in DOMAIN log[s] : log[s][i].kind = "wakeReserved" => log[s][i].attempt.session = s

\* What the ledger needs besides: wakes are closed one by one, their identities name
\* their session, and there is a latest session.
LedgerOk ==
  /\ \A s \in Sessions : WakesClosed(log[s]) /\ WakesNamed(s)
  /\ journal.step = "creating" /\ journal.draft.kind = "wakeReserved" =>
       journal.draft.attempt.session = journal.session
  /\ dirs # {} => \E m \in dirs : \A t \in dirs : t <= m

LEMMA AppendKeepsWakes ==
  ASSUME NEW events \in Seq(Events), NEW e \in Events, WakesClosed(events),
         NextEventOk(events, e.kind, e.family, e.attempt)
  PROVE  WakesClosed(Append(events, e))
<1> DEFINE n == Len(events)
           after == Append(events, e)
<1>1. /\ n \in Nat /\ DOMAIN events = 1 .. n /\ DOMAIN after = 1 .. n + 1
      /\ \A i \in 1 .. n : after[i] = events[i]
      /\ after[n + 1] = e
  OBVIOUS
<1> HIDE DEF after, n
<1>2. SUFFICES ASSUME NEW j \in 1 .. n + 1, NEW k \in 1 .. n + 1, j < k,
                      after[j].kind = "wakeReserved",
                      after[k].kind \in {"wakeReserved", "wakeRecorded"}
               PROVE  \E m \in j + 1 .. k : /\ after[m].kind = "wakeRecorded"
                                            /\ after[m].attempt = after[j].attempt
  BY <1>1 DEF WakesClosed, after
<1>3. j \in 1 .. n /\ after[j] = events[j]
  BY <1>1, <1>2
<1>4. ASSUME NEW i \in j + 1 .. n, i <= k, events[i].kind \in {"wakeReserved", "wakeRecorded"}
      PROVE  \E m \in j + 1 .. k : /\ after[m].kind = "wakeRecorded"
                                   /\ after[m].attempt = after[j].attempt
  <2>1. i \in 1 .. n /\ j < i
    BY <1>1, <1>3, <1>4
  <2>2. PICK m \in j + 1 .. i : events[m].kind = "wakeRecorded" /\ events[m].attempt = events[j].attempt
    BY <1>1, <1>2, <1>3, <1>4, <2>1 DEF WakesClosed
  <2>3. m \in 1 .. n /\ m \in j + 1 .. k
    BY <1>1, <1>3, <1>4, <2>1
  <2>4. QED
    BY <1>1, <1>3, <2>2, <2>3
<1>5. CASE k \in 1 .. n
  BY <1>1, <1>2, <1>3, <1>4, <1>5
<1>6. CASE k = n + 1
  <2>1. CASE \E i \in j + 1 .. n : events[i].kind \in {"wakeReserved", "wakeRecorded"}
    BY <1>1, <1>4, <1>6, <2>1
  <2>2. CASE \A i \in j + 1 .. n : events[i].kind \notin {"wakeReserved", "wakeRecorded"}
    <3>1. j \in UnresolvedWake(events)
      BY <1>1, <1>2, <1>3, <2>2 DEF UnresolvedWake
    <3>2. e.kind = "wakeRecorded" /\ e.attempt = events[j].attempt
      BY <1>1, <1>2, <1>6, <3>1 DEF NextEventOk
    <3>3. k \in j + 1 .. k
      BY <1>1, <1>2
    <3>4. QED
      BY <1>1, <1>3, <1>6, <3>2, <3>3
  <2>3. QED
    BY <2>1, <2>2
<1>7. QED
  BY <1>1, <1>5, <1>6

LEMMA FrontKeepsWakes ==
  ASSUME NEW events \in Seq(Events), WakesClosed(events), events # <<>>
  PROVE  WakesClosed(SubSeq(events, 1, Len(events) - 1))
<1> DEFINE n == Len(events)
           front == SubSeq(events, 1, n - 1)
<1>1. /\ n \in Nat /\ DOMAIN events = 1 .. n /\ DOMAIN front = 1 .. n - 1
      /\ \A i \in 1 .. n - 1 : front[i] = events[i]
  OBVIOUS
<1> HIDE DEF front, n
<1>2. SUFFICES ASSUME NEW j \in 1 .. n - 1, NEW k \in 1 .. n - 1, j < k,
                      front[j].kind = "wakeReserved",
                      front[k].kind \in {"wakeReserved", "wakeRecorded"}
               PROVE  \E m \in j + 1 .. k : /\ front[m].kind = "wakeRecorded"
                                            /\ front[m].attempt = front[j].attempt
  BY <1>1 DEF WakesClosed, front, n
<1>3. PICK m \in j + 1 .. k : events[m].kind = "wakeRecorded" /\ events[m].attempt = events[j].attempt
  BY <1>1, <1>2 DEF WakesClosed
<1>4. m \in 1 .. n - 1
  BY <1>1
<1>5. QED
  BY <1>1, <1>3, <1>4

Front(events) == SubSeq(events, 1, Len(events) - 1)
LastOf(events) == events[Len(events)]
AttemptIn(events) == IdentityAt(events, UnresolvedStart(events))
WakeIn(events) == IdentityAt(events, UnresolvedWake(events))

\* What the last event of a session changes in what is open there.
LEMMA LastEvent ==
  ASSUME NEW events \in Seq(Events), events # <<>>, StateMachineOk(events), WakesClosed(events),
         NEW front, front = Front(events), NEW e, e = LastOf(events)
  PROVE  /\ e.kind = "started" => /\ AttemptIn(front) = NoAttempt /\ AttemptIn(events) = e.attempt
                                  /\ WakeIn(front) = WakeIn(events)
         /\ e.kind = "terminal" => /\ AttemptIn(front) = e.attempt /\ AttemptIn(events) = NoAttempt
                                   /\ WakeIn(front) = WakeIn(events)
         /\ e.kind = "reviewed" => /\ AttemptIn(front) = NoAttempt /\ AttemptIn(events) = NoAttempt
                                   /\ WakeIn(front) = WakeIn(events)
         /\ e.kind = "wakeReserved" =>
              /\ AttemptIn(front) = NoAttempt /\ AttemptIn(events) = NoAttempt
              /\ WakeIn(front) = NoAttempt /\ WakeIn(events) = e.attempt
         /\ e.kind = "wakeRecorded" =>
              /\ AttemptIn(front) = NoAttempt /\ AttemptIn(events) = NoAttempt
              /\ WakeIn(events) = NoAttempt
<1> DEFINE n == Len(events)
           a == AttemptIn(front)
           b == AttemptIn(events)
           v == WakeIn(front)
           w == WakeIn(events)
<1>1. /\ n \in Nat /\ n >= 1 /\ DOMAIN events = 1 .. n /\ DOMAIN front = 1 .. n - 1
      /\ Len(front) = n - 1 /\ e = events[n] /\ e \in Events
      /\ \A i \in 1 .. n - 1 : front[i] = events[i]
  <2>1. n \in Nat /\ n >= 1 /\ DOMAIN events = 1 .. n
    OBVIOUS
  <2>2. n \in 1 .. n /\ n - 1 \in Nat
    BY <2>1
  <2>3. e \in Events /\ e = events[n]
    BY <2>1, <2>2 DEF LastOf
  <2>4. /\ DOMAIN front = 1 .. n - 1 /\ Len(front) = n - 1
        /\ \A i \in 1 .. n - 1 : front[i] = events[i]
    BY <2>1, <2>2 DEF Front
  <2>5. QED
    BY <2>1, <2>3, <2>4
<1>0. /\ a = IdentityAt(front, UnresolvedStart(front))
      /\ b = IdentityAt(events, UnresolvedStart(events))
      /\ v = IdentityAt(front, UnresolvedWake(front))
      /\ w = IdentityAt(events, UnresolvedWake(events))
  BY DEF AttemptIn, WakeIn
<1> HIDE DEF n, a, b, v, w
<1>2. e.kind \in Kinds /\ EventPlaced(events, n)
  BY <1>1 DEF Events, StateMachineOk
<1>3. UnresolvedStart(events) = IF e.kind = "started" THEN {n} ELSE {}
  BY <1>1 DEF UnresolvedStart, n
<1>4. b = IF e.kind = "started" THEN e.attempt ELSE NoAttempt
  BY <1>0, <1>1, <1>3 DEF IdentityAt
<1>5. UnresolvedStart(front) = StartOpenBefore(events, n)
  BY <1>1 DEF UnresolvedStart, StartOpenBefore
<1>6. a = IF e.kind = "terminal" THEN e.attempt ELSE NoAttempt
  <2>1. CASE e.kind = "terminal"
    <3>1. PICK j \in UnresolvedStart(front) : events[j].attempt = e.attempt
      BY <1>1, <1>2, <1>5, <2>1 DEF EventPlaced
    <3>2. \A i \in UnresolvedStart(front) : i = j /\ front[i] = events[i]
      BY <1>1, <3>1 DEF UnresolvedStart
    <3>3. QED
      BY <1>0, <2>1, <3>1, <3>2 DEF IdentityAt
  <2>2. CASE e.kind # "terminal"
    BY <1>0, <1>1, <1>2, <1>5, <2>2 DEF EventPlaced, IdentityAt
  <2>3. QED
    BY <2>1, <2>2
<1>7. ASSUME NEW j \in UnresolvedWake(front)
      PROVE  /\ j \in 1 .. n - 1 /\ events[j].kind = "wakeReserved" /\ front[j] = events[j]
             /\ \A k \in j + 1 .. n - 1 : events[k].kind \notin {"wakeReserved", "wakeRecorded"}
             /\ j \in WakeOpenBefore(events, n)
  <2>1. /\ j \in 1 .. n - 1 /\ front[j] = events[j] /\ events[j].kind = "wakeReserved"
        /\ \A k \in 1 .. n - 1 : k > j =>
             /\ events[k].kind # "wakeReserved"
             /\ ~ (events[k].kind = "wakeRecorded" /\ events[k].attempt = events[j].attempt)
    BY <1>1 DEF UnresolvedWake
  <2>2. ASSUME NEW k \in j + 1 .. n - 1, events[k].kind \in {"wakeReserved", "wakeRecorded"}
        PROVE  FALSE
    <3>1. j \in 1 .. n /\ k \in 1 .. n /\ j < k
      BY <1>1, <2>1
    <3>2. PICK m \in j + 1 .. k : events[m].kind = "wakeRecorded" /\ events[m].attempt = events[j].attempt
      BY <1>1, <2>1, <2>2, <3>1 DEF WakesClosed
    <3>3. m \in 1 .. n - 1 /\ m > j
      BY <1>1, <2>1, <3>1
    <3>4. QED
      BY <2>1, <3>2, <3>3
  <2>3. QED
    BY <2>1, <2>2 DEF WakeOpenBefore
<1>8. CASE e.kind = "wakeReserved"
  <2>1. UnresolvedWake(front) = {}
    BY <1>1, <1>2, <1>7, <1>8 DEF EventPlaced
  <2>2. UnresolvedWake(events) = {n}
    BY <1>1, <1>8 DEF UnresolvedWake
  <2>3. QED
    BY <1>0, <1>1, <1>4, <1>6, <1>8, <2>1, <2>2 DEF IdentityAt, a, b, v, w
<1>9. CASE e.kind = "wakeRecorded"
  <2>1. ASSUME NEW j \in UnresolvedWake(events)
        PROVE  FALSE
    <3>1. /\ j \in 1 .. n - 1 /\ events[j].kind = "wakeReserved" /\ events[j].attempt # e.attempt
          /\ \A k \in 1 .. n : k > j =>
               /\ events[k].kind # "wakeReserved"
               /\ ~ (events[k].kind = "wakeRecorded" /\ events[k].attempt = events[j].attempt)
      BY <1>1, <1>9 DEF UnresolvedWake
    <3>2. j \in UnresolvedWake(front)
      BY <1>1, <3>1 DEF UnresolvedWake
    <3>3. QED
      BY <1>1, <1>2, <1>7, <1>9, <3>1, <3>2 DEF EventPlaced
  <2>2. UnresolvedWake(events) = {}
    BY <2>1
  <2>3. QED
    BY <1>0, <1>1, <1>4, <1>6, <1>9, <2>2 DEF IdentityAt, a, b, v, w
<1>10. CASE e.kind \notin {"wakeReserved", "wakeRecorded"}
  <2>1. UnresolvedWake(events) = UnresolvedWake(front)
    BY <1>1, <1>10 DEF UnresolvedWake
  <2>2. CASE UnresolvedWake(front) = {}
    BY <1>0, <2>1, <2>2, <1>1, <1>2, <1>4, <1>6, <1>10 DEF IdentityAt, Kinds, a, b, v, w
  <2>3. CASE UnresolvedWake(front) # {}
    <3>1. (CHOOSE i \in UnresolvedWake(front) : TRUE) \in UnresolvedWake(front)
      BY <2>3
    <3>2. v = w
      BY <1>0, <1>7, <2>1, <2>3, <3>1 DEF IdentityAt
    <3>3. QED
      BY <1>1, <1>2, <1>4, <1>6, <1>10, <3>2 DEF Kinds, a, b, v, w
  <2>4. QED
    BY <2>2, <2>3
<1>11. QED
  BY <1>8, <1>9, <1>10 DEF a, b, v, w

\* An append up to its file: no event, no session, and a reservation names its session.
LEMMA Creates ==
  ASSUME IInv, NEW p \in Processes,
         \/ AppendStart(p) \/ AppendTerminal(p) \/ AppendReview(p)
         \/ AppendWakeReservation(p) \/ AppendWakeRecord(p)
  PROVE  /\ UNCHANGED <<lock, dirs, log>> /\ journal.step = "open"
         /\ journal'.step = "creating" /\ journal'.session = journal.session
         /\ journal'.draft.kind = "wakeReserved" =>
              journal'.draft.attempt.session = journal.session
<1>1. journal.step = "open" /\ TypeOK
  BY DEF AppendStart, AppendTerminal, AppendReview, AppendWakeReservation, AppendWakeRecord,
         MayAppend, IInv
<1>2. ASSUME NEW kind, NEW family, NEW attempt, NEW at, CreateEvent(kind, family, attempt, at)
      PROVE  /\ UNCHANGED <<lock, dirs, log>>
             /\ journal'.step = "creating" /\ journal'.session = journal.session
             /\ journal'.draft.kind = kind /\ journal'.draft.attempt = attempt
  <2> DEFINE draft == [kind |-> kind, family |-> family, attempt |-> attempt, at |-> at,
                       prev |-> IF log[journal.session] = <<>> THEN journal.chainStart
                                ELSE LastFingerprint(journal.session),
                       fingerprint |-> minted + 1]
  <2>1. /\ journal' = [journal EXCEPT !.step = "creating", !.draft = draft]
        /\ UNCHANGED <<lock, dirs, log>>
    BY <1>2 DEF CreateEvent
  <2>2. draft.kind = kind /\ draft.attempt = attempt
    OBVIOUS
  <2> HIDE DEF draft
  <2>3. QED
    BY <1>1, <2>1, <2>2 DEF TypeOK
<1>3. \A plan : NewAttemptId(plan).session = journal.session
  BY DEF NewAttemptId
<1>4. CASE AppendStart(p)
  BY <1>1, <1>2, <1>4 DEF AppendStart
<1>5. CASE AppendTerminal(p)
  BY <1>1, <1>2, <1>5 DEF AppendTerminal
<1>6. CASE AppendReview(p)
  BY <1>1, <1>2, <1>6 DEF AppendReview
<1>7. CASE AppendWakeReservation(p)
  BY <1>1, <1>2, <1>3, <1>7 DEF AppendWakeReservation
<1>8. CASE AppendWakeRecord(p)
  BY <1>1, <1>2, <1>8 DEF AppendWakeRecord
<1>9. QED
  BY <1>4, <1>5, <1>6, <1>7, <1>8

\* A complete event file: the event the holder had in hand, at the end of its session.
LEMMA Writes ==
  ASSUME IInv, NEW p \in Processes, WriteEvent(p)
  PROVE  /\ lock = p /\ UNCHANGED <<lock, dirs>> /\ journal.step = "creating"
         /\ journal'.step = "written" /\ journal'.session = journal.session
         /\ journal.session \in dirs /\ journal.session \in Sessions
         /\ log[journal.session] \in Seq(Events) /\ journal.draft \in Events
         /\ log'[journal.session] = Append(log[journal.session], journal.draft)
         /\ \A t \in Sessions \ {journal.session} : log'[t] = log[t]
BY ConstantsAssumption DEF IInv, WriteEvent, TypeOK, HolderOk, DraftOk

\* The loss of an unsynced entry: the event behind those acknowledged, if it was written.
LEMMA Loses ==
  ASSUME IInv, NEW p \in Processes, HostLosesEntry(p)
  PROVE  /\ dirs' = dirs /\ journal' = NoJournal /\ journal.session \in Sessions
         /\ \/ log' = log /\ journal.step = "creating"
            \/ /\ journal.step = "written"
               /\ log'[journal.session] =
                    SubSeq(log[journal.session], 1, Len(log[journal.session]) - 1)
               /\ \A t \in Sessions \ {journal.session} : log'[t] = log[t]
BY ConstantsAssumption DEF IInv, HostLosesEntry, TypeOK, HolderOk

LEMMA Settles ==
  ASSUME IInv, NEW p \in Processes, Acknowledge(p) \/ Close(p) \/ Die(p)
  PROVE  /\ UNCHANGED <<dirs, log>> /\ lock = p /\ lock # NoProcess
         /\ journal'.step \in {"open", "closed"}
<1>1. UNCHANGED <<dirs, log>> /\ lock = p
  BY DEF Acknowledge, Close, Die
<1>2. journal' = NoJournal \/ journal' = [journal EXCEPT !.step = "open", !.draft = NoDraft]
  BY DEF Acknowledge, Close, Die
<1>3. CASE journal' = NoJournal
  BY <1>1, <1>3, ConstantsAssumption DEF NoJournal
<1>4. CASE journal' = [journal EXCEPT !.step = "open", !.draft = NoDraft]
  <2>1. journal'.step = "open"
    BY <1>4 DEF IInv, TypeOK
  <2>2. QED
    BY <1>1, <2>1, ConstantsAssumption
<1>5. QED
  BY <1>2, <1>3, <1>4

LEMMA LedgerOkKept == IInv /\ LedgerOk /\ [Next]_vars => LedgerOk'
<1> SUFFICES ASSUME IInv, LedgerOk, [Next]_vars PROVE LedgerOk'
  OBVIOUS
<1>1. CASE UNCHANGED vars
  BY <1>1 DEF vars, LedgerOk, WakesNamed
<1>2. ASSUME NEW p \in Processes, NEW s \in Sessions, Open(p, s)
      PROVE  LedgerOk'
  <2>1. /\ log' = log /\ journal'.step = "open" /\ dirs' = dirs \cup {s}
        /\ \A t \in dirs : t <= s
    BY <1>2 DEF Open, RootValidFor
  <2>2. s <= s
    BY ConstantsAssumption
  <2>3. \A t \in Sessions : WakesClosed(log'[t]) /\ WakesNamed(t)'
    BY <2>1 DEF LedgerOk, WakesNamed
  <2>4. \A t \in dirs' : t <= s
    BY <2>1, <2>2
  <2>5. s \in dirs' /\ journal'.step # "creating"
    BY <2>1
  <2>6. QED
    BY <2>3, <2>4, <2>5 DEF LedgerOk
<1>3. ASSUME NEW p \in Processes,
             \/ AppendStart(p) \/ AppendTerminal(p) \/ AppendReview(p)
             \/ AppendWakeReservation(p) \/ AppendWakeRecord(p)
      PROVE  LedgerOk'
  BY <1>3, Creates DEF LedgerOk, WakesNamed
<1>4. ASSUME NEW p \in Processes, WriteEvent(p)
      PROVE  LedgerOk'
  <2> DEFINE s == journal.session
             d == journal.draft
  <2>1. /\ dirs' = dirs /\ journal.step = "creating" /\ journal'.step = "written"
        /\ s \in Sessions /\ log[s] \in Seq(Events) /\ d \in Events
        /\ log'[s] = Append(log[s], d) /\ \A t \in Sessions \ {s} : log'[t] = log[t]
    BY <1>4, Writes
  <2>2. NextEventOk(log[s], d.kind, d.family, d.attempt)
    BY <2>1 DEF IInv, DraftOk
  <2>3. d.kind = "wakeReserved" => d.attempt.session = s
    BY <2>1 DEF LedgerOk
  <2>4. WakesClosed(log[s]) /\ WakesNamed(s)
    BY <2>1 DEF LedgerOk
  <2> HIDE DEF s, d
  <2>5. WakesClosed(log'[s])
    BY <2>1, <2>2, <2>4, AppendKeepsWakes
  <2>6. \A i \in DOMAIN log'[s] : log'[s][i].kind = "wakeReserved" => log'[s][i].attempt.session = s
    <3>1. /\ DOMAIN log'[s] = 1 .. Len(log[s]) + 1 /\ DOMAIN log[s] = 1 .. Len(log[s])
          /\ \A i \in 1 .. Len(log[s]) : log'[s][i] = log[s][i]
          /\ log'[s][Len(log[s]) + 1] = d /\ Len(log[s]) \in Nat
      BY <2>1
    <3>2. QED
      BY <2>3, <2>4, <3>1 DEF WakesNamed
  <2>7. QED
    BY <2>1, <2>5, <2>6 DEF LedgerOk, WakesNamed
<1>5. ASSUME NEW p \in Processes, Acknowledge(p) \/ Close(p) \/ Die(p)
      PROVE  LedgerOk'
  BY <1>5, Settles DEF LedgerOk, WakesNamed
<1>6. ASSUME NEW p \in Processes, HostLosesEntry(p)
      PROVE  LedgerOk'
  <2> DEFINE s == journal.session
  <2>1. dirs' = dirs /\ journal'.step = "closed" /\ s \in Sessions
    BY <1>6, Loses DEF NoJournal
  <2>2. CASE log' = log
    BY <2>1, <2>2 DEF LedgerOk, WakesNamed
  <2>3. CASE log' # log
    <3>1. /\ log'[s] = SubSeq(log[s], 1, Len(log[s]) - 1)
          /\ \A t \in Sessions \ {s} : log'[t] = log[t]
      BY <1>6, <2>3, Loses
    <3>2. log[s] \in Seq(Events) /\ WakesClosed(log[s]) /\ WakesNamed(s)
      BY <2>1 DEF IInv, TypeOK, LedgerOk
    <3> HIDE DEF s
    <3>3. WakesClosed(log'[s])
      <4>1. CASE log[s] = <<>>
        <5>1. DOMAIN log'[s] = {}
          BY <3>1, <4>1
        <5>2. QED
          BY <5>1 DEF WakesClosed
      <4>2. CASE log[s] # <<>>
        BY <3>1, <3>2, <4>2, FrontKeepsWakes
      <4>3. QED
        BY <4>1, <4>2
    <3>4. \A i \in DOMAIN log'[s] : i \in DOMAIN log[s] /\ log'[s][i] = log[s][i]
      BY <3>1, <3>2
    <3>5. ASSUME NEW t \in Sessions PROVE WakesClosed(log'[t]) /\ WakesNamed(t)'
      <4>1. CASE t = s
        BY <3>2, <3>3, <3>4, <4>1 DEF WakesNamed
      <4>2. CASE t # s
        BY <3>1, <4>2 DEF LedgerOk, WakesNamed
      <4>3. QED
        BY <4>1, <4>2
    <3>6. QED
      BY <2>1, <3>5 DEF LedgerOk
  <2>4. QED
    BY <2>2, <2>3
<1>7. QED
  BY <1>1, <1>2, <1>3, <1>4, <1>5, <1>6 DEF Next

LEMMA LatestIs ==
  ASSUME IInv, NEW s \in dirs, \A t \in dirs : t <= s
  PROVE  LatestSession = s /\ s \in Sessions /\ s # 0
<1>1. dirs \subseteq Nat /\ dirs \subseteq Sessions /\ 0 \notin Sessions
  BY ConstantsAssumption DEF IInv, TypeOK
<1>2. \A m \in dirs : (\A t \in dirs : t <= m) => m = s
  BY <1>1
<1>3. QED
  BY <1>1, <1>2 DEF LatestSession

ledgerVars == <<LatestSession, OpenAttempt, OpenWake, ClosedAttempts>>

\* The ledger reads nothing but the sessions and the acknowledged events.
LEMMA SameLedger ==
  ASSUME IInv, LedgerOk, dirs' = dirs, \A s \in Sessions : Acknowledged(s)' = Acknowledged(s)
  PROVE  UNCHANGED ledgerVars
<1>1. LatestSession' = LatestSession
  BY DEF LatestSession
<1>2. dirs # {} => LatestSession \in Sessions
  BY LatestIs DEF LedgerOk
<1>3. dirs # {} => Acknowledged(LatestSession)' = Acknowledged(LatestSession)
  <2>1. ASSUME NEW s \in Sessions, LatestSession = s
        PROVE  Acknowledged(LatestSession)' = Acknowledged(LatestSession)
    BY <1>1, <2>1 DEF Acknowledged
  <2>2. QED
    BY <1>2, <2>1
<1>4. OpenAttempt' = OpenAttempt /\ OpenWake' = OpenWake
  BY <1>3 DEF OpenAttempt, OpenWake
<1>5. ClosedAttempts' = ClosedAttempts
  BY DEF ClosedAttempts
<1>6. QED
  BY <1>1, <1>4, <1>5 DEF ledgerVars

\* What a ledger that is not in the middle of an append says.
LEMMA LedgerReads ==
  ASSUME IInv, NEW s \in dirs, \A t \in dirs : t <= s
  PROVE  /\ LatestSession = s
         /\ OpenAttempt = AttemptIn(Acknowledged(s))
         /\ OpenWake = WakeIn(Acknowledged(s))
<1>1. LatestSession = s
  BY LatestIs
<1>2. QED
  BY <1>1 DEF OpenAttempt, OpenWake, Acknowledged, AttemptIn, WakeIn

\* A closed attempt was started before, in its session and at the place it names.
LEMMA ClosedWasStarted ==
  ASSUME IInv, NEW s \in Sessions, NEW i \in DOMAIN log[s], log[s][i].kind = "terminal"
  PROVE  log[s][i].attempt.session = s /\ log[s][i].attempt.sequence = i - 1
<1>1. EventPlaced(log[s], i)
  BY DEF IInv, LogsValid, StateMachineOk
<1>2. PICK j \in StartOpenBefore(log[s], i) : log[s][j].attempt = log[s][i].attempt
  BY <1>1 DEF EventPlaced
<1>3. j = i - 1 /\ j \in DOMAIN log[s] /\ log[s][j].kind = "started"
  BY <1>2 DEF StartOpenBefore
<1>4. log[s][j].attempt.session = s /\ log[s][j].attempt.sequence = j
  BY <1>3 DEF IInv, StartsNamed
<1>5. QED
  BY <1>2, <1>3, <1>4

\* An append that returns: its event is one step of the ledger, or none.
LEMMA Commits ==
  ASSUME IInv, LedgerOk, journal.step = "written", UNCHANGED <<dirs, log>>,
         journal'.step \in {"open", "closed"}, lock # NoProcess
  PROVE  Ledger!Next \/ UNCHANGED ledgerVars
<1> DEFINE s == journal.session
           events == log[s]
           front == Front(events)
           e == LastOf(events)
<1>1. /\ s \in dirs /\ s \in Sessions /\ \A t \in dirs : t <= s
      /\ events \in Seq(Events) /\ StateMachineOk(events) /\ WakesClosed(events)
      /\ WakesNamed(s)
  BY DEF IInv, HolderOk, TypeOK, LogsValid, LedgerOk
<1>2. /\ Acknowledged(s) = front
      /\ \A t \in Sessions \ {s} : Acknowledged(t) = log[t]
      /\ \A t \in Sessions : Acknowledged(t)' = log[t]
  BY DEF Acknowledged, Front
<1>3. CASE events = <<>>
  <2>1. front = events
    BY <1>3 DEF Front
  <2>2. \A t \in Sessions : Acknowledged(t)' = Acknowledged(t)
    BY <1>2, <2>1
  <2>3. QED
    BY <2>2, SameLedger
<1>4. CASE events # <<>>
  <2> DEFINE n == Len(events)
  <2>1. /\ n \in Nat /\ n >= 1 /\ DOMAIN events = 1 .. n /\ DOMAIN front = 1 .. n - 1
        /\ \A i \in 1 .. n - 1 : front[i] = events[i]
        /\ n \in DOMAIN events /\ e \in Events /\ e = events[n]
    BY <1>1, <1>4 DEF Front, LastOf
  <2>2. /\ LatestSession = s /\ LatestSession' = s
        /\ OpenAttempt = AttemptIn(front)
        /\ OpenWake = WakeIn(front)
    BY <1>1, <1>2, LedgerReads DEF LatestSession
  <2>3. /\ OpenAttempt' = AttemptIn(events)
        /\ OpenWake' = WakeIn(events)
    <3>1. Acknowledged(LatestSession)' = events
      BY <2>2 DEF Acknowledged
    <3>2. QED
      BY <1>1, <3>1 DEF OpenAttempt, OpenWake, AttemptIn, WakeIn
  <2>4. ClosedAttempts' = ClosedAttempts \cup (IF e.kind = "terminal" THEN {e.attempt} ELSE {})
    <3>1. ClosedAttempts =
            UNION {{Acknowledged(t)[i].attempt :
                      i \in {j \in DOMAIN Acknowledged(t) : Acknowledged(t)[j].kind = "terminal"}} :
                     t \in Sessions}
      BY DEF ClosedAttempts
    <3>2. ClosedAttempts' =
            UNION {{log[t][i].attempt : i \in {j \in DOMAIN log[t] : log[t][j].kind = "terminal"}} :
                     t \in Sessions}
      BY <1>2 DEF ClosedAttempts
    <3>3. ASSUME NEW a \in ClosedAttempts'
          PROVE  a \in ClosedAttempts \/ (e.kind = "terminal" /\ a = e.attempt)
      <4>1. PICK t \in Sessions : \E i \in DOMAIN log[t] :
              log[t][i].kind = "terminal" /\ a = log[t][i].attempt
        BY <3>2
      <4>2. PICK i \in DOMAIN log[t] : log[t][i].kind = "terminal" /\ a = log[t][i].attempt
        BY <4>1
      <4>3. CASE t # s \/ i # n
        <5>1. i \in DOMAIN Acknowledged(t) /\ Acknowledged(t)[i] = log[t][i]
          BY <1>2, <2>1, <4>2, <4>3
        <5>2. QED
          BY <3>1, <4>2, <5>1
      <4>4. QED
        BY <2>1, <4>2, <4>3
    <3>4. ASSUME NEW a \in ClosedAttempts
          PROVE  a \in ClosedAttempts'
      <4>1. PICK t \in Sessions : \E i \in DOMAIN Acknowledged(t) :
              Acknowledged(t)[i].kind = "terminal" /\ a = Acknowledged(t)[i].attempt
        BY <3>1
      <4>2. PICK i \in DOMAIN Acknowledged(t) :
              Acknowledged(t)[i].kind = "terminal" /\ a = Acknowledged(t)[i].attempt
        BY <4>1
      <4>3. i \in DOMAIN log[t] /\ Acknowledged(t)[i] = log[t][i]
        BY <1>2, <2>1, <4>2
      <4>4. QED
        BY <3>2, <4>2, <4>3
    <3>5. e.kind = "terminal" => e.attempt \in ClosedAttempts'
      BY <1>1, <2>1, <3>2
    <3>6. QED
      BY <3>3, <3>4, <3>5
  <2>5. /\ e.kind = "started" => OpenAttempt = NoAttempt /\ OpenAttempt' = e.attempt /\ OpenWake = OpenWake'
        /\ e.kind = "terminal" => OpenAttempt = e.attempt /\ OpenAttempt' = NoAttempt /\ OpenWake = OpenWake'
        /\ e.kind = "reviewed" => OpenAttempt = NoAttempt /\ OpenAttempt' = NoAttempt /\ OpenWake = OpenWake'
        /\ e.kind = "wakeReserved" => /\ OpenAttempt = NoAttempt /\ OpenAttempt' = NoAttempt
                                      /\ OpenWake = NoAttempt /\ OpenWake' = e.attempt
        /\ e.kind = "wakeRecorded" => OpenAttempt = NoAttempt /\ OpenAttempt' = NoAttempt /\ OpenWake' = NoAttempt
    BY <1>1, <1>4, <2>2, <2>3, LastEvent
  <2>6. e.attempt \in AttemptIds /\ e.attempt # NoAttempt /\ e.kind \in Kinds
    <3>1. e.attempt \in AttemptIds /\ e.kind \in Kinds
      BY <2>1 DEF Events
    <3>2. e.attempt.session # 0
      BY <3>1, ConstantsAssumption DEF AttemptIds
    <3>3. QED
      BY <3>1, <3>2 DEF NoAttempt
  <2>7. e.kind = "started" => e.attempt.session = s /\ e.attempt.sequence = n
    BY <1>1, <2>1 DEF IInv, StartsNamed
  <2>8. e.kind = "wakeReserved" => e.attempt.session = s
    BY <1>1, <2>1 DEF WakesNamed
  <2>9. e.kind = "started" => e.attempt \notin ClosedAttempts
    <3> SUFFICES ASSUME e.kind = "started", e.attempt \in ClosedAttempts PROVE FALSE
      OBVIOUS
    <3>1. PICK t \in Sessions : \E i \in DOMAIN Acknowledged(t) :
            Acknowledged(t)[i].kind = "terminal" /\ e.attempt = Acknowledged(t)[i].attempt
      BY DEF ClosedAttempts
    <3>2. PICK i \in DOMAIN Acknowledged(t) :
            Acknowledged(t)[i].kind = "terminal" /\ e.attempt = Acknowledged(t)[i].attempt
      BY <3>1
    <3>3. i \in DOMAIN log[t] /\ Acknowledged(t)[i] = log[t][i] /\ log[t] \in Seq(Events)
      BY <1>2, <2>1, <3>2 DEF IInv, TypeOK
    <3>4. e.attempt.session = t /\ e.attempt.sequence = i - 1 /\ i \in Nat
      <4>1. DOMAIN log[t] = 1 .. Len(log[t]) /\ Len(log[t]) \in Nat
        BY <3>3
      <4> HIDE DEF s, events, front, e, n
      <4>2. QED
        BY <3>2, <3>3, <4>1, ClosedWasStarted
    <3>5. t = s /\ i = n + 1
      BY <2>1, <2>7, <3>4
    <3>6. QED
      BY <1>2, <2>1, <3>2, <3>5
  <2> HIDE DEF s, events, front, e, n
  <2>10. CASE e.kind = "started"
    <3>1. Ledger!StartAttempt(e.attempt)
      BY <2>2, <2>4, <2>5, <2>7, <2>9, <2>10 DEF Ledger!StartAttempt
    <3>2. QED
      BY <2>6, <3>1 DEF Ledger!Next
  <2>11. CASE e.kind = "terminal"
    <3>1. Ledger!CloseAttempt
      BY <2>2, <2>4, <2>5, <2>6, <2>11 DEF Ledger!CloseAttempt
    <3>2. QED
      BY <3>1 DEF Ledger!Next
  <2>12. CASE e.kind = "reviewed"
    BY <2>2, <2>4, <2>5, <2>12 DEF ledgerVars
  <2>13. CASE e.kind = "wakeReserved"
    <3>1. Ledger!ReserveWake(e.attempt)
      BY <2>2, <2>4, <2>5, <2>8, <2>13 DEF Ledger!ReserveWake
    <3>2. QED
      BY <2>6, <3>1 DEF Ledger!Next
  <2>14. CASE e.kind = "wakeRecorded"
    <3>1. CASE OpenWake = NoAttempt
      BY <2>2, <2>4, <2>5, <2>14, <3>1 DEF ledgerVars
    <3>2. CASE OpenWake # NoAttempt
      <4>1. Ledger!ResolveWake
        BY <2>2, <2>4, <2>5, <2>14, <3>2 DEF Ledger!ResolveWake
      <4>2. QED
        BY <4>1 DEF Ledger!Next
    <3>3. QED
      BY <3>1, <3>2
  <2>15. QED
    BY <2>6, <2>10, <2>11, <2>12, <2>13, <2>14 DEF Kinds
<1>5. QED
  BY <1>3, <1>4

\* A session is entered: nothing changes for the ledger, or it moves on, with nothing open.
LEMMA Opens ==
  ASSUME IInv, LedgerOk, NEW p \in Processes, NEW s \in Sessions, Open(p, s)
  PROVE  Ledger!Next \/ UNCHANGED ledgerVars
<1>1. /\ lock = NoProcess /\ dirs' = dirs \cup {s} /\ log' = log
      /\ journal'.step = "open" /\ \A t \in dirs : t <= s /\ (t # s => ~ Unresolved(log[t]))
      /\ dirs \subseteq Sessions /\ Sessions \subseteq Nat /\ 0 \notin Sessions
  BY ConstantsAssumption DEF Open, RootValidFor, IInv, TypeOK
<1>2. \A t \in Sessions : Acknowledged(t) = log[t] /\ Acknowledged(t)' = log[t]
  BY <1>1 DEF Acknowledged, IInv, HolderOk, NoJournal
<1>3. CASE s \in dirs
  BY <1>1, <1>2, <1>3, SameLedger
<1>4. CASE s \notin dirs
  <2>1. log[s] = <<>>
    BY <1>4 DEF IInv, LogSized
  <2>2. LatestSession' = s
    <3>1. s \in dirs' /\ \A t \in dirs' : t <= s
      BY <1>1
    <3>2. \A m \in dirs' : (\A t \in dirs' : t <= m) => m = s
      BY <1>1, <3>1
    <3>3. QED
      BY <3>1, <3>2 DEF LatestSession
  <2>3. OpenAttempt' = NoAttempt /\ OpenWake' = NoAttempt
    <3>1. dirs' # {} /\ Acknowledged(LatestSession)' = <<>>
      BY <1>1, <2>1, <2>2 DEF Acknowledged
    <3>2. UnresolvedStart(<<>>) = {} /\ UnresolvedWake(<<>>) = {}
      BY DEF UnresolvedStart, UnresolvedWake
    <3>3. QED
      BY <3>1, <3>2 DEF OpenAttempt, OpenWake, IdentityAt
  <2>4. OpenAttempt = NoAttempt /\ OpenWake = NoAttempt /\ LatestSession < s
    <3>1. CASE dirs = {}
      BY <1>1, <3>1 DEF OpenAttempt, OpenWake, LatestSession
    <3>2. CASE dirs # {}
      <4>1. PICK m \in dirs : \A t \in dirs : t <= m
        BY <3>2 DEF LedgerOk
      <4>2. /\ LatestSession = m /\ OpenAttempt = AttemptIn(log[m]) /\ OpenWake = WakeIn(log[m])
        BY <1>1, <1>2, <4>1, LedgerReads
      <4>3. ~ Unresolved(log[m]) /\ m < s
        BY <1>1, <1>4, <4>1
      <4>4. QED
        BY <4>2, <4>3 DEF Unresolved, AttemptIn, WakeIn, IdentityAt
    <3>3. QED
      BY <3>1, <3>2
  <2>5. ClosedAttempts' = ClosedAttempts
    BY <1>2 DEF ClosedAttempts
  <2>6. Ledger!BeginSession(s)
    BY <1>1, <2>2, <2>3, <2>4, <2>5 DEF Ledger!BeginSession
  <2>7. QED
    BY <2>6 DEF Ledger!Next
<1>5. QED
  BY <1>3, <1>4

LEMMA LedgerStep == IInv /\ LedgerOk /\ [Next]_vars => Ledger!Next \/ UNCHANGED ledgerVars
<1> SUFFICES ASSUME IInv, LedgerOk, [Next]_vars
             PROVE  Ledger!Next \/ UNCHANGED ledgerVars
  OBVIOUS
<1>1. \A s \in Sessions : Acknowledged(s) = IF journal.step = "written" /\ journal.session = s
                                            THEN SubSeq(log[s], 1, Len(log[s]) - 1) ELSE log[s]
  BY DEF Acknowledged
<1>2. CASE UNCHANGED vars
  <2>1. \A s \in Sessions : Acknowledged(s)' = Acknowledged(s)
    BY <1>2 DEF vars, Acknowledged
  <2>2. QED
    BY <1>2, <2>1, SameLedger DEF vars
<1>3. ASSUME NEW p \in Processes, NEW s \in Sessions, Open(p, s)
      PROVE  Ledger!Next \/ UNCHANGED ledgerVars
  BY <1>3, Opens
<1>4. ASSUME NEW p \in Processes,
             \/ AppendStart(p) \/ AppendTerminal(p) \/ AppendReview(p)
             \/ AppendWakeReservation(p) \/ AppendWakeRecord(p)
      PROVE  UNCHANGED ledgerVars
  <2>1. dirs' = dirs /\ log' = log /\ journal.step = "open" /\ journal'.step = "creating"
    BY <1>4, Creates
  <2>2. \A s \in Sessions : Acknowledged(s)' = Acknowledged(s)
    BY <2>1 DEF Acknowledged
  <2>3. QED
    BY <2>1, <2>2, SameLedger
<1>5. ASSUME NEW p \in Processes, WriteEvent(p)
      PROVE  UNCHANGED ledgerVars
  <2>1. /\ dirs' = dirs /\ journal.step = "creating" /\ journal'.step = "written"
        /\ journal'.session = journal.session /\ journal.session \in Sessions
        /\ log[journal.session] \in Seq(Events) /\ journal.draft \in Events
        /\ log'[journal.session] = Append(log[journal.session], journal.draft)
        /\ \A t \in Sessions \ {journal.session} : log'[t] = log[t]
    BY <1>5, Writes
  <2>2. ASSUME NEW s \in Sessions
        PROVE  Acknowledged(s)' = Acknowledged(s)
    <3>1. CASE s = journal.session
      <4>1. Acknowledged(s)' = SubSeq(log'[s], 1, Len(log'[s]) - 1)
        BY <2>1, <3>1 DEF Acknowledged
      <4>2. log[s] \in Seq(Events) /\ log'[s] = Append(log[s], journal.draft)
        BY <2>1, <3>1
      <4>3. SubSeq(log'[s], 1, Len(log'[s]) - 1) = log[s]
        BY <2>1, <4>2
      <4>4. QED
        BY <2>1, <4>1, <4>3 DEF Acknowledged
    <3>2. CASE s # journal.session
      BY <2>1, <3>2 DEF Acknowledged
    <3>3. QED
      BY <3>1, <3>2
  <2>3. QED
    BY <2>1, <2>2, SameLedger
<1>6. ASSUME NEW p \in Processes, Acknowledge(p) \/ Close(p) \/ Die(p)
      PROVE  Ledger!Next \/ UNCHANGED ledgerVars
  <2>1. UNCHANGED <<dirs, log>> /\ lock # NoProcess /\ journal'.step \in {"open", "closed"}
    BY <1>6, Settles
  <2>2. CASE journal.step = "written"
    BY <2>1, <2>2, Commits
  <2>3. CASE journal.step # "written"
    <3>1. \A s \in Sessions : Acknowledged(s)' = Acknowledged(s)
      BY <2>1, <2>3 DEF Acknowledged
    <3>2. QED
      BY <2>1, <3>1, SameLedger
  <2>4. QED
    BY <2>2, <2>3
<1>7. ASSUME NEW p \in Processes, HostLosesEntry(p)
      PROVE  UNCHANGED ledgerVars
  <2>1. /\ dirs' = dirs /\ journal'.step = "closed" /\ journal.session \in Sessions
        /\ \/ log' = log /\ journal.step = "creating"
           \/ /\ journal.step = "written"
              /\ log'[journal.session] =
                   SubSeq(log[journal.session], 1, Len(log[journal.session]) - 1)
              /\ \A t \in Sessions \ {journal.session} : log'[t] = log[t]
    BY <1>7, Loses DEF NoJournal
  <2>2. \A s \in Sessions : Acknowledged(s)' = log'[s]
    BY <2>1 DEF Acknowledged
  <2>3. \A s \in Sessions : log'[s] = Acknowledged(s)
    BY <2>1 DEF Acknowledged
  <2>4. QED
    BY <2>1, <2>2, <2>3, SameLedger
<1>8. QED
  BY <1>2, <1>3, <1>4, <1>5, <1>6, <1>7 DEF Next

-----------------------------------------------------------------------------
(* The results.                                                            *)

\* Type correctness of the journal.
THEOREM TypeCorrect == Spec => []TypeOK
<1>1. IInv => TypeOK
  BY DEF IInv
<1>2. QED
  BY <1>1, Inductive, PTL

\* An unresolved attempt or wake is always in the latest session on disk, so
\* locked_daily_eod_run_journal never refuses to open it for recovery on account
\* of a later session.
THEOREM UnresolvedStaysReachable == Spec => []UnresolvedOnlyInLatest
<1>1. IInv => UnresolvedOnlyInLatest
  BY DEF IInv
<1>2. QED
  BY <1>1, Inductive, PTL

\* A terminal event closes exactly the start it follows: new_attempt_id and
\* _validate_next_event together keep stale holders out.
THEOREM TerminalsMatch == Spec => []TerminalClosesItsStart
<1>1. ASSUME IInv, NEW s \in Sessions, NEW i \in DOMAIN log[s], log[s][i].kind = "terminal"
      PROVE  /\ i > 1
             /\ log[s][i - 1].kind = "started"
             /\ log[s][i - 1].family = log[s][i].family
             /\ log[s][i - 1].attempt = log[s][i].attempt
             /\ log[s][i].attempt.session = s
             /\ log[s][i].attempt.sequence = i - 1
  <2>1. EventPlaced(log[s], i)
    BY <1>1 DEF IInv, LogsValid, StateMachineOk
  <2>2. PICK j \in StartOpenBefore(log[s], i) :
          log[s][j].attempt = log[s][i].attempt /\ log[s][j].family = log[s][i].family
    BY <1>1, <2>1 DEF EventPlaced
  <2>3. j = i - 1 /\ j \in DOMAIN log[s] /\ log[s][j].kind = "started"
    BY <2>2 DEF StartOpenBefore
  <2>4. log[s] \in Seq(Events)
    BY <1>1 DEF IInv, TypeOK
  <2>5. i > 1
    BY <1>1, <2>3, <2>4
  <2>6. log[s][j].attempt.session = s /\ log[s][j].attempt.sequence = j
    BY <1>1, <2>3 DEF IInv, StartsNamed
  <2>7. QED
    BY <2>2, <2>3, <2>5, <2>6
<1>2. IInv => TerminalClosesItsStart
  BY <1>1 DEF TerminalClosesItsStart
<1>3. QED
  BY <1>2, Inductive, PTL

\* What append writes, every later reader accepts, through all sessions.
THEOREM WriterAgreesWithReader == Spec => []UntornRootReadable
<1>1. IInv => UntornRootReadable
  BY DEF IInv, UntornRootReadable, Readable, ChainsHeld, LogsValid, TypeOK
<1>2. QED
  BY <1>1, Inductive, PTL

\* A file cut short closes the run root for good, whatever session is asked for.
THEOREM FailsClosed == Spec => TornRootStaysClosed
<1>1. ASSUME IInv, [Next]_vars, torn # {}, lock = NoProcess
      PROVE  lock' = NoProcess
  <2>1. CASE UNCHANGED vars
    BY <1>1, <2>1 DEF vars
  <2>2. ASSUME NEW p \in Processes, NEW s \in Sessions, Open(p, s)
        PROVE  FALSE
    <3>1. PICK t \in torn : t \in dirs
      BY <1>1 DEF IInv, TypeOK
    <3>2. Readable(t, ChainStart(t))
      BY <2>2, <3>1 DEF Open, RootValidFor
    <3>3. QED
      BY <3>1, <3>2 DEF Readable
  <2>3. ASSUME NEW p \in Processes, lock = p
        PROVE  FALSE
    BY <1>1, <2>3, ConstantsAssumption
  <2>4. CASE Next
    <3>1. PICK p \in Processes :
            \/ \E s \in Sessions : Open(p, s)
            \/ AppendStart(p) \/ AppendTerminal(p) \/ AppendReview(p)
            \/ AppendWakeReservation(p) \/ AppendWakeRecord(p)
            \/ WriteEvent(p) \/ Acknowledge(p) \/ Close(p) \/ Die(p) \/ HostLosesEntry(p)
      BY <2>4 DEF Next
    <3>2. (\E s \in Sessions : Open(p, s)) \/ lock = p
      BY <3>1 DEF AppendStart, AppendTerminal, AppendReview, AppendWakeReservation,
                  AppendWakeRecord, MayAppend, WriteEvent, Acknowledge, Close, Die, HostLosesEntry
    <3>3. QED
      BY <2>2, <2>3, <3>2
  <2>5. QED
    BY <1>1, <2>1, <2>4
<1>2. IInv /\ [Next]_vars => (torn # {} /\ lock = NoProcess => lock' = NoProcess)
  BY <1>1
<1>3. QED
  BY <1>2, Inductive, PTL DEF Spec, TornRootStaysClosed

\* What append has returned, no crash, lost entry or later holder takes away.
THEOREM AcknowledgedIsForever == Spec => AcknowledgedEventsStay
<1> DEFINE Stays(s) == \A i \in DOMAIN Acknowledged(s) :
                         i \in DOMAIN Acknowledged(s)' /\ Acknowledged(s)'[i] = Acknowledged(s)[i]
<1>1. ASSUME IInv, UNCHANGED log, NEW s \in Sessions,
             journal'.step # "written"
      PROVE  Stays(s)
  <2>1. log[s] \in Seq(Events)
    BY <1>1 DEF IInv, TypeOK
  <2>2. Acknowledged(s)' = log[s]
    BY <1>1 DEF Acknowledged
  <2>3. CASE Acknowledged(s) = log[s]
    BY <2>2, <2>3
  <2>4. CASE Acknowledged(s) = SubSeq(log[s], 1, Len(log[s]) - 1)
    BY <2>1, <2>2, <2>4
  <2>5. QED
    BY <2>3, <2>4 DEF Acknowledged
<1>2. ASSUME IInv, NEW p \in Processes, WriteEvent(p), NEW s \in Sessions
      PROVE  Stays(s)
  <2>1. /\ journal.step = "creating" /\ journal'.step = "written"
        /\ journal'.session = journal.session
        /\ log' = [log EXCEPT ![journal.session] = Append(@, journal.draft)]
    BY <1>2 DEF WriteEvent, IInv, TypeOK
  <2>2. journal.draft \in Events /\ log \in [Sessions -> Seq(Events)]
    BY <1>2, <2>1 DEF IInv, DraftOk, TypeOK
  <2>3. Acknowledged(s) = log[s]
    BY <2>1 DEF Acknowledged
  <2>4. CASE s = journal.session
    <3>1. log'[s] = Append(log[s], journal.draft) /\ log[s] \in Seq(Events)
      BY <2>1, <2>2, <2>4
    <3>2. Acknowledged(s)' = SubSeq(log'[s], 1, Len(log'[s]) - 1)
      BY <2>1, <2>4 DEF Acknowledged
    <3>3. Acknowledged(s)' = log[s]
      BY <2>2, <3>1, <3>2
    <3>4. QED
      BY <2>3, <3>3
  <2>5. CASE s # journal.session
    <3>1. log'[s] = log[s] /\ Acknowledged(s)' = log'[s]
      BY <2>1, <2>2, <2>5 DEF Acknowledged
    <3>2. QED
      BY <2>3, <3>1
  <2>6. QED
    BY <2>4, <2>5
<1>3. ASSUME IInv, NEW p \in Processes, HostLosesEntry(p), journal.step = "written",
             NEW s \in Sessions
      PROVE  Stays(s)
  <2>1. /\ journal'.step = "closed"
        /\ log' = [log EXCEPT ![journal.session] = SubSeq(@, 1, Len(@) - 1)]
    BY <1>3 DEF HostLosesEntry, NoJournal
  <2>2. log'[s] = Acknowledged(s)
    BY <1>3, <2>1 DEF Acknowledged, IInv, TypeOK
  <2>3. Acknowledged(s)' = log'[s]
    BY <2>1 DEF Acknowledged
  <2>4. QED
    BY <2>2, <2>3
<1>4. ASSUME IInv, [Next]_vars, NEW s \in Sessions
      PROVE  Stays(s)
  <2>1. CASE UNCHANGED vars
    BY <2>1 DEF vars, Acknowledged
  <2>2. ASSUME NEW p \in Processes,
               \/ \E t \in Sessions : Open(p, t)
               \/ AppendStart(p) \/ AppendTerminal(p) \/ AppendReview(p)
               \/ AppendWakeReservation(p) \/ AppendWakeRecord(p)
        PROVE  Stays(s)
    <3>1. CASE \E t \in Sessions : Open(p, t)
      BY <3>1, <1>1, <1>4 DEF Open
    <3>2. ASSUME NEW kind, NEW family, NEW attempt, NEW at, CreateEvent(kind, family, attempt, at)
          PROVE  Stays(s)
      <4>1. log' = log /\ journal'.step = "creating"
        BY <1>4, <3>2 DEF CreateEvent, IInv, TypeOK
      <4>2. QED
        BY <1>1, <1>4, <4>1
    <3>3. QED
      BY <2>2, <3>1, <3>2 DEF AppendStart, AppendTerminal, AppendReview, AppendWakeReservation,
                              AppendWakeRecord
  <2>3. ASSUME NEW p \in Processes,
               \/ Acknowledge(p) \/ Close(p) \/ Die(p)
               \/ HostLosesEntry(p) /\ journal.step # "written"
        PROVE  Stays(s)
    <3>1. /\ log' = log
          /\ \/ journal' = NoJournal
             \/ journal' = [journal EXCEPT !.step = "open", !.draft = NoDraft]
      BY <2>3 DEF Acknowledge, Close, Die, HostLosesEntry
    <3>2. journal'.step # "written"
      <4>1. TypeOK
        BY <1>4 DEF IInv
      <4>2. CASE journal' = NoJournal
        BY <4>2 DEF NoJournal
      <4>3. CASE journal' = [journal EXCEPT !.step = "open", !.draft = NoDraft]
        <5>1. journal'.step = "open"
          BY <4>1, <4>3 DEF TypeOK
        <5>2. QED
          BY <5>1
      <4>4. QED
        BY <3>1, <4>2, <4>3
    <3>3. QED
      BY <1>1, <1>4, <3>1, <3>2
  <2>4. QED
    BY <1>2, <1>3, <1>4, <2>1, <2>2, <2>3 DEF Next
<1>5. IInv /\ [Next]_vars => \A s \in Sessions : Stays(s)
  BY <1>4
<1>6. QED
  BY <1>5, Inductive, PTL DEF Spec, AcknowledgedEventsStay

\* Through crashes, torn files, lost entries and any number of holders, what the journal
\* acknowledges is a serial ledger of transitions.
THEOREM IsSerialLedger == Spec => ImplementsLedger
<1>1. Init => LedgerOk /\ Ledger!Init
  <2> SUFFICES ASSUME Init PROVE LedgerOk /\ Ledger!Init
    OBVIOUS
  <2>1. dirs = {} /\ \A s \in Sessions : log[s] = <<>> /\ Acknowledged(s) = <<>>
    BY DEF Init, Acknowledged, NoJournal
  <2>2. ClosedAttempts = {}
    BY <2>1 DEF ClosedAttempts
  <2>3. LedgerOk
    BY <2>1 DEF Init, LedgerOk, WakesClosed, WakesNamed, NoJournal
  <2>4. Ledger!Init
    BY <2>1, <2>2 DEF Ledger!Init, LatestSession, OpenAttempt, OpenWake
  <2>5. QED
    BY <2>3, <2>4
<1>2. IInv /\ LedgerOk /\ [Next]_vars => [Ledger!Next]_(Ledger!ledger)
  BY LedgerStep DEF ledgerVars, Ledger!ledger
<1>3. QED
  BY <1>1, <1>2, LedgerOkKept, Inductive, PTL DEF Spec, ImplementsLedger, Ledger!Spec
=============================================================================
