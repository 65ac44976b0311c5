SPECIFICATION Spec
CONSTANTS
  Turns = {t1, t2, t3}
  MaxRounds = 2
  TTL = 3
  MaxRows = 3
  MaxBytes = 10
  MaxEntry = 4
  MaxPrompt = 4
  MaxTime = 7
INVARIANTS
  TypeOK
  CapsHold
  
PROPERTIES
  DropsOnlyOldest
  AnswerIsRemembered
CHECK_DEADLOCK FALSE
SYMMETRY Symmetric
