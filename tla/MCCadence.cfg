SPECIFICATION CadenceSpec
CONSTANTS
  Runners = {r1, r2}
  Policies <- MCPolicies
  WakeLimit = 3
  WindowLimit = 5
  IntervalFloor = 1
  MaxTime = 4
SYMMETRY Symmetry
INVARIANTS CadenceTypeOK NoReplay OneAtATime KeepsItsPolicy
CHECK_DEADLOCK FALSE
