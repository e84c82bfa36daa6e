----------------------------- MODULE SerialLedger -----------------------------
(***************************************************************************)
(* What the daily run journal promises its callers: a single serial ledger *)
(* of transitions.  One session is current; within it at most one attempt  *)
(* and at most one wake are open; an attempt is closed once and for all;   *)
(* and the ledger moves to a later session only with nothing open.         *)
(***************************************************************************)
EXTENDS Integers

CONSTANTS
  Sessions,    \* session dates, positive numbers in date order
  AttemptIds,  \* attempt identities, each naming its session
  NoAttempt    \* nothing open, no member of AttemptIds

VARIABLES
  session,   \* the current session, 0 before the first
  attempt,   \* the open attempt
  wake,      \* the open wake reservation
  closed     \* the attempts that were closed

ledger == <<session, attempt, wake, closed>>

Init ==
  /\ session = 0
  /\ attempt = NoAttempt
  /\ wake = NoAttempt
  /\ closed = {}

\* Nothing may be open when a later session begins.
BeginSession(s) ==
  /\ s > session
  /\ attempt = NoAttempt
  /\ wake = NoAttempt
  /\ session' = s
  /\ UNCHANGED <<attempt, wake, closed>>

\* An attempt starts under an identity that was never closed.
StartAttempt(a) ==
  /\ attempt = NoAttempt
  /\ a \notin closed
  /\ a.session = session
  /\ attempt' = a
  /\ UNCHANGED <<session, wake, closed>>

CloseAttempt ==
  /\ attempt # NoAttempt
  /\ attempt' = NoAttempt
  /\ closed' = closed \cup {attempt}
  /\ UNCHANGED <<session, wake>>

\* A wake is reserved and resolved only between attempts.
ReserveWake(a) ==
  /\ attempt = NoAttempt
  /\ wake = NoAttempt
  /\ a.session = session
  /\ wake' = a
  /\ UNCHANGED <<session, attempt, closed>>

ResolveWake ==
  /\ attempt = NoAttempt
  /\ wake # NoAttempt
  /\ wake' = NoAttempt
  /\ UNCHANGED <<session, attempt, closed>>

Next ==
  \/ \E s \in Sessions : BeginSession(s)
  \/ \E a \in AttemptIds : StartAttempt(a) \/ ReserveWake(a)
  \/ CloseAttempt
  \/ ResolveWake

Spec == Init /\ [][Next]_ledger
=============================================================================
