SPECIFICATION Spec
CONSTANTS
  Jobs = {j1}
  Workers = {w1, w2}
  MaxRetries = 1
  MaxBacklog = 1
  Backends = {"mysql"}
  Faults = {}
  MaxFaults = 0
  MaxCrashes = 1
PROPERTIES
  TerminalIsFinal
