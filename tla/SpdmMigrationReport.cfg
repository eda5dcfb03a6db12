SPECIFICATION Spec
CONSTANTS
  Kind = "migration"
  Settings <- MCFaultless
  Interferences = 0
  NoValue = NoValue
INVARIANTS FailureIsReported
CHECK_DEADLOCK FALSE
