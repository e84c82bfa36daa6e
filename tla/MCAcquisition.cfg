CONSTANTS
  Operators = {o1, o2}
  Close = 1
  Stabilization = 1
  Deadline = 3
  MaxAttempts = 3
  RetryDelay <- Delays
  RetryAfters = {0, 2, 3}
  MaxRetryAfter = 2
  BasicProfile = TRUE
  MaxPlanAge = 1
  MaxReviewLead = 1
  MaxTime = 6
SPECIFICATION Spec
INVARIANTS
  TypeOK
  BudgetKept
  HistoryStaysAcceptable
  ReadyPackageIsCurrent
SYMMETRY Identical
CHECK_DEADLOCK FALSE
