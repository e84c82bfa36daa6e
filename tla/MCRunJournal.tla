----------------------------- MODULE MCRunJournal -----------------------------
(* Small instances of RunJournal and its refinement of SerialLedger.       *)
EXTENDS RunJournal, TLC

Holders == Permutations(Processes)
=============================================================================
