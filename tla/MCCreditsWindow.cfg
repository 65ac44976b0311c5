SPECIFICATION Spec
CONSTANTS
  openrouter = openrouter
  requesty = requesty
  deepinfra = deepinfra
  Requests = {r1, r2}
  Providers = {openrouter, requesty}
  Metered = {openrouter}
  RowProvider <- Unpinned
  MaxPosts = 1
  MaxTasks = 2
  MaxChecks = 2
INVARIANTS
  TypeOK
  MismatchIsExplained
  BaselineInOrder
SYMMETRY Symmetry
CHECK_DEADLOCK FALSE
