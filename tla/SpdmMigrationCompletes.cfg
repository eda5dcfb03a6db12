SPECIFICATION Spec
CONSTANTS
  Kind = "migration"
  Settings <- MCFaultless
  Interferences = 0
  NoValue = NoValue
PROPERTIES MigrationCompletes
CHECK_DEADLOCK FALSE
