SPECIFICATION Spec
CONSTANTS
  openrouter = openrouter
  requesty = requesty
  deepinfra = deepinfra
  Requests = {r1, r2}
  Providers = {openrouter, requesty}
  Metered = {openrouter}
  RowProvider <- Pinned
  MaxPosts = 1
  MaxTasks = 2
  MaxChecks = 2
INVARIANTS

  MismatchIsExplained

SYMMETRY Symmetry
CHECK_DEADLOCK FALSE
