--------------------------- MODULE MCCanonicalApply ---------------------------
(***************************************************************************)
(* Instances of the canonical Apply.                                       *)
(***************************************************************************)
EXTENDS CanonicalApply

CONSTANTS p1, p2
=============================================================================
