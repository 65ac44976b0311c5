SPECIFICATION Spec
CONSTANTS
  Handlers = {h1, h2, h3}
  MaxRows = 2
  Limit = 2
  Window = 2
  Latest = 3
  MaxStarts = 2
INVARIANTS
  TypeOK
  SchemaIsComplete
  ListIsOrdered
  MissedOnlyTies
SYMMETRY Symmetry
CHECK_DEADLOCK FALSE
