CONSTANTS
  Settings <- MCSettings
  KeyFields = 2
  Rounds = 2
  NoValue = NoValue
SPECIFICATION Spec
INVARIANTS
  TypeOK
  DisclosedToAccepted
PROPERTIES
  Transferred
  WritesAreBacked
  EveryRequestAnswered
  CompatibleSucceed
CHECK_DEADLOCK FALSE
