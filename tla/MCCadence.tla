----------------------------- MODULE MCCadence -----------------------------
(* Instances of Cadence for TLC. *)
EXTENDS Cadence, TLC

MCPolicies == {[wakes |-> 3, window |-> 5, interval |-> 1],
               [wakes |-> 2, window |-> 4, interval |-> 2]}

Symmetry == Permutations(Runners)
=============================================================================
