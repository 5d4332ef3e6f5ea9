SPECIFICATION Spec
CONSTANTS
  Jobs = {j1, j2}
  Workers = {w1, w2}
  MaxRetries = 1
  MaxBacklog = 1
  Backends = {"mysql", "memory"}
  Faults = {}
  MaxFaults = 0
  MaxCrashes = 0
INVARIANTS
  QueuedIsWaiting
