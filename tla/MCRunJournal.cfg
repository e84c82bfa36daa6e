CONSTANTS
  Processes = {p1, p2}
  NoProcess = NoProcess
  Sessions = {1, 2, 3}
  Families = {action, fetch}
  Plans = {plan}
  Times = {0, 1}
  MaxEvents = 4
SPECIFICATION Spec
INVARIANTS
  TypeOK
  UnresolvedOnlyInLatest
PROPERTIES
  ImplementsLedger
SYMMETRY Holders
CHECK_DEADLOCK FALSE
