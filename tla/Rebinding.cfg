SPECIFICATION Spec
CONSTANTS
  Sessions = {r1, r2}
  Settings <- MCRefusals
  NoValue = NoValue
INVARIANTS TypeOK InstalledTogether InstalledIsAccepted SuccessIsOffered ApprovalIsUsed
PROPERTIES EveryRebindingEnds CompatibleComplete
CHECK_DEADLOCK FALSE
