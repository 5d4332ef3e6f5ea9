SPECIFICATION Spec
CONSTANTS
  Trees <- MCTrees
  Pushes <- MCPushes
  Hosts <- MCHosts
  Responses <- MCResponses
  MaxAttempts = 2
  MaxCrashes = 1
INVARIANTS
  TypeOK
  HealthInRange
  DetectorsAgree
  ClaimsOfAbsence
  SettledReport
CHECK_DEADLOCK FALSE
