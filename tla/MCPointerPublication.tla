------------------------- MODULE MCPointerPublication -------------------------
(***************************************************************************)
(* Instances of the publication of the two consumers.                      *)
(***************************************************************************)
EXTENDS PointerPublication, TLC

CONSTANTS p1, p2

Symmetric == Permutations(Publishers)

\* Bounds by consumer: the Snapshot is where a pointer can come back.
Plans == [intelligence |-> 1, snapshot |-> 2]
Undos == [intelligence |-> 0, snapshot |-> 2]
=============================================================================
