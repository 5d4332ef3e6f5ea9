SPECIFICATION Spec
CONSTANTS
  MaxOutput = 2
  MaxWritten = 3
INVARIANTS
  TypeOK
  SuccessIsReal
  FailureHasReason
  NothingLeftBehind
  NoStrayKill
  DescriptorsClosed
  OutputCapped
PROPERTIES
  Returns
CHECK_DEADLOCK FALSE
