-------------------------- MODULE MCDailyCoordinator --------------------------
(* Small instances of DailyCoordinator.                                    *)
EXTENDS DailyCoordinator

CONSTANTS watcher, operator

Chain == <<"fetch", "apply", "offline", "review">>
ByHand == {0, 2, 3}
NothingByHand == {0}
Modes == [p \in {watcher, operator} |->
            IF p = watcher THEN {"observe", "authorized", "review"}
            ELSE {"observe", "recover", "authorized", "review"}]
=============================================================================
