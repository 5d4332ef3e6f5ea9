SPECIFICATION Spec
CONSTANTS
  Jobs = {j1}
  Workers = {w1, w2}
  MaxRetries = 1
  MaxBacklog = 1
  Backends = {"mysql"}
  Faults = {"xadd_refused"}
  MaxFaults = 1
  MaxCrashes = 0
INVARIANTS
  SettledRowIsComplete
