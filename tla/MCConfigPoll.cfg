SPECIFICATION Spec
CONSTANTS
  None = None
  Unknown = Unknown
  openrouter = openrouter
  requesty = requesty
  plain = plain
  tagged = tagged
  Providers = {openrouter, requesty}
  Aliases = {plain, tagged}
  Normal <- MCNormal
  Doubled = {requesty}
  Unnoticed = {requesty}
  MaxEdits = 3
INVARIANTS
  TypeOK
  LiveEqualsRestart
  NoLeak
  SwitchTakesEffect
PROPERTIES
  Converges
CHECK_DEADLOCK FALSE
