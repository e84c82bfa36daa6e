SPECIFICATION Spec
CONSTANTS
  watcher = watcher
  operator = operator
  Slots = {watcher, operator}
  ModesOf <- Modes
  Operations <- Chain
  HandMade <- ByHand
  Due = 0
  Deadline = 0
  RetryDelay = 1
  MaxFetches = 2
  MaxTime = 1
  MaxAttempts = 2
  MaxFaults = 1
INVARIANTS
  TypeOK
  MailedOnceAsRecorded
  ExecutedIsTrue
PROPERTIES
  StartsNextOnly
  InterruptionIsMailed
CHECK_DEADLOCK FALSE
