----------------------------- MODULE MCAcquisition -----------------------------
(* Small instances of Acquisition.                                         *)
EXTENDS Acquisition, TLC

Delays == <<1, 2>>
Identical == Permutations(Operators)
=============================================================================
