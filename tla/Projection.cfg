SPECIFICATION Spec
CONSTANTS
  Providers = {"claude", "opencode", "other"}
  MaxTurns = 2
  MaxRows = 5
  MaxPrompts = 2
CHECK_DEADLOCK FALSE
INVARIANTS
  TypeOK
  SameTranscript
  TurnsInOrder
  NothingOutlivesItsTurn
PROPERTIES
  SettledStaysSettled
