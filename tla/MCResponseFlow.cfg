CONSTANTS
  r1 = r1
  r2 = r2
  r3 = r3
  s1 = s1
  s2 = s2
  None = None
  Requests = {r1, r2, r3}
  Sessions = {s1, s2}
  SessionOf <- TwoAndOne
  MaxIterations = 1
  PendingTtl = 0
  MaxTime = 1
  MaxReloads = 1
  Disciplined = FALSE
SPECIFICATION Spec
INVARIANT TypeOK
INVARIANT SettledNotPending
INVARIANT SessionIsolation
INVARIANT ReleaseIsBacked
PROPERTY GatedWhileOn
CHECK_DEADLOCK FALSE
