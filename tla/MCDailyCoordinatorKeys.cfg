SPECIFICATION Spec
CONSTANTS
  watcher = watcher
  operator = operator
  Slots = {watcher, operator}
  ModesOf <- Modes
  Operations <- Chain
  HandMade <- NothingByHand
  Due = 0
  Deadline = 0
  RetryDelay = 1
  MaxFetches = 2
  MaxTime = 2
  MaxAttempts = 1
  MaxFaults = 0
INVARIANT
  SameStateSameKey
CHECK_DEADLOCK FALSE
