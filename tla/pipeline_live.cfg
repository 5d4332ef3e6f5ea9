SPECIFICATION FairSpec
CONSTANTS
  Jobs = {j1}
  Workers = {w1, w2}
  MaxRetries = 1
  MaxBacklog = 1
  Backends = {"mysql", "memory"}
  Faults <- AnyFault
  MaxFaults = 2
  MaxCrashes = 1
INVARIANTS
  NoJobLost
PROPERTIES
  AcceptedJobSettles
  BacklogDrains
