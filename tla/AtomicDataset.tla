---------------------------- MODULE AtomicDataset ----------------------------
(***************************************************************************)
(* What canonical publication promises a reader: one session's dataset     *)
(* appears whole, in one step, from one plan, and never changes.           *)
(***************************************************************************)
CONSTANTS Plans, Components, NoDataset

VARIABLE dataset   \* what a reader that looks for the completion marker sees

Init == dataset = NoDataset

Publish ==
  /\ dataset = NoDataset
  /\ \E plan \in Plans : dataset' = [c \in Components |-> plan]

Spec == Init /\ [][Publish]_dataset
=============================================================================
