SPECIFICATION Spec
CONSTANTS
  Kind = "rebind"
  Settings <- MCAll
  Interferences = 2
  NoValue = NoValue
INVARIANTS TypeOK ApprovedIsInstalled InstalledIsAttested
PROPERTIES BothSidesEnd CompatibleComplete
CHECK_DEADLOCK FALSE
