SPECIFICATION Spec
CONSTANTS
  p1 = p1
  p2 = p2
  Appliers = {p1, p2}
  NTargets = 3
  MaxPlans = 2
  MaxAttempts = 2
  MaxForeign = 1
  RecoverLive = FALSE
INVARIANTS
  TypeOK
  PrefixOfOnePlan
  SucceededIsWhole
  NotCompletedWroteNothing
PROPERTY
  ImplementsAtomicDataset
CHECK_DEADLOCK FALSE
