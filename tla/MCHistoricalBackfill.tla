----------------------- MODULE MCHistoricalBackfill -----------------------
(* Two sessions to fill and one that the daily chain appends, batches of   *)
(* one session, one retry; any three faults, at most two of them transient *)
(* errors and at most one of each other kind.                              *)
EXTENDS HistoricalBackfill
MCBudget == [any |-> 3, transient |-> 2, permanent |-> 1, rejected |-> 1,
             exception |-> 1, kill |-> 1, research |-> 1]
OneResearchWrite == [f \in FaultKinds |-> IF f \in {"any", "research"} THEN 1 ELSE 0]
=============================================================================
