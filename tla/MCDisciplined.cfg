CONSTANTS
  r1 = r1
  r2 = r2
  r3 = r3
  s1 = s1
  s2 = s2
  None = None
  Requests = {r1, r2, r3}
  Sessions = {s1, s2}
  SessionOf <- AllInOne
  MaxIterations = 2
  PendingTtl = 0
  MaxTime = 1
  MaxReloads = 0
  Disciplined = TRUE
SPECIFICATION FairSpec
PROPERTY FeedbackIsOriginal
PROPERTY DroppedOnlyWhenDue
PROPERTY GateSpec
PROPERTY Answered
CHECK_DEADLOCK FALSE
