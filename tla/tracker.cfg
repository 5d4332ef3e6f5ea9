SPECIFICATION Spec
CONSTANTS
  Jobs = {j1, j2}
  Linked = {j1}
  NoJob = NoJob
  MaxMoves = 4
INVARIANTS
  TypeOK
  OnlyActiveShown
  OneLoop
  NeverWaitsForNothing
PROPERTIES
  Settles
CHECK_DEADLOCK FALSE
