SPECIFICATION WatchSpec
CONSTANTS
  Jobs = {j1, j2}
  Workers = {w1, w2}
  Watched = j1
  MaxRetries = 1
  MaxBacklog = 2
  Backends = {"mysql"}
  Faults <- CleanFaults
  MaxFaults = 1
  MaxCrashes = 0
SYMMETRY Symmetry
INVARIANTS
  ActiveIsBusy
  TotalsAtRest
  DetailsAgree
PROPERTIES
  AnswersAdvance
