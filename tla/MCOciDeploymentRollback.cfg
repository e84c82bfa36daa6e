SPECIFICATION Spec
CONSTANTS
  d1 = d1
  d2 = d2
  q1 = q1
  q2 = q2
  r1 = r1
  r2 = r2
  r3 = r3
  None = None
  Deployers = {d1, d2}
  Recoverers = {q1}
  Releases = {r1, r2, r3}
  First = r1
  MaxAttempts = 3
PROPERTY
  RollbackKeepsServing
CHECK_DEADLOCK FALSE
