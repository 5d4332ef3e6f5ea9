SPECIFICATION Spec
CONSTANTS
  Jobs = {j1}
  Workers = {w1, w2}
  MaxRetries = 1
  MaxBacklog = 1
  Backends = {"mysql", "memory"}
  Faults <- NothingRefused
  MaxFaults = 2
  MaxCrashes = 2
SYMMETRY Symmetry
INVARIANTS
  TypeOK
  MessageOwnership
  RetriesExhausted
  CompletedHasAnalysis
