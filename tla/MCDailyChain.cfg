SPECIFICATION Spec
CONSTANTS
  MaxAttempts = 12
  MaxChanges = 1
INVARIANTS
  TypeOK
  PassedIsOneLineage
  UndisturbedNeverBlocked
PROPERTY
  JournalTellsTheTruth
CHECK_DEADLOCK FALSE
