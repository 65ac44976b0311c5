SPECIFICATION Spec
CONSTANTS
  MaxChars = 14
  Lengths = {1, 12}
  MaxPosts = 3
  MaxCalls = 2
  MaxDeltas = 2
  MaxOutputs = 2
  PerModel = FALSE
INVARIANTS
  TypeOK
  AnswerIsWhole
  CallsAnsweredOnce
  TruncationIsSound
  SamePrompt
CHECK_DEADLOCK FALSE
