---------------------------- MODULE ServedRelease ----------------------------
(***************************************************************************)
(* What an active pointer promises its readers: the release they are       *)
(* served is replaced either by one never served before or by the one      *)
(* served just before it.                                                  *)
(***************************************************************************)
CONSTANTS
  Releases,    \* releases that may be published
  Base,        \* what is served before the first of them
  BaseServes   \* whether Base is itself a release one can go back to

VARIABLES
  active,      \* the release served
  previous,    \* the release served before it
  used         \* the releases ever published

Init == active = Base /\ previous = Base /\ used = {}

Publish(r) ==
  /\ r \notin used
  /\ active' = r
  /\ previous' = active
  /\ used' = used \cup {r}

Undo ==
  /\ used # {}
  /\ previous # Base \/ BaseServes
  /\ active' = previous
  /\ previous' = active
  /\ used' = used

Spec == Init /\ [][Undo \/ \E r \in Releases : Publish(r)]_<<active, previous, used>>
=============================================================================
