SPECIFICATION Spec
CONSTANTS
  Turns = {t1, t2, t3}
  MaxRounds = 2
  TTL = 3
  MaxRows = 3
  MaxBytes = 10
  MaxEntry = 5
  MaxPrompt = 5
  MaxTime = 7
INVARIANT
  RoundsKeepHistory
CHECK_DEADLOCK FALSE
