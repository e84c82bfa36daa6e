SPECIFICATION Spec
CONSTANTS
  p1 = p1
  p2 = p2
  Publishers = {p1, p2}
  MaxPlans <- Plans
  MaxAttempts = 1
  MaxUndos <- Undos
  MaxResidue = 1
  MaxOutside = 1
  RecoverLive = FALSE
INVARIANTS
  TypeOK
  ServesComplete
  NotCompletedWroteNothing
PROPERTIES
  ActivatedAsApproved
  SuccessWasServed
  ImplementsServedRelease
SYMMETRY Symmetric
CHECK_DEADLOCK FALSE
