----------------------------- MODULE MCDailyChain -----------------------------
(***************************************************************************)
(* Instances of the daily chain.                                           *)
(***************************************************************************)
EXTENDS DailyChain
=============================================================================
