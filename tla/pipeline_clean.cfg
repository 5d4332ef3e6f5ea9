SPECIFICATION Spec
CONSTANTS
  Jobs = {j1, j2}
  Workers = {w1, w2}
  MaxRetries = 1
  MaxBacklog = 2
  Backends = {"mysql", "memory"}
  Faults <- CleanFaults
  MaxFaults = 2
  MaxCrashes = 0
SYMMETRY Symmetry
INVARIANTS
  OneCarrier
  WorkspaceExclusive
PROPERTIES
  Lifecycle
  FalseMeansMissing
