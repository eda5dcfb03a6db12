SPECIFICATION Spec
CONSTANTS
  Kind = "rebind"
  Settings <- MCFaultless
  Interferences = 0
  NoValue = NoValue
INVARIANTS EndsUponEndSession
CHECK_DEADLOCK FALSE
