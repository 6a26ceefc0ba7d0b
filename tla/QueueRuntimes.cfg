SPECIFICATION Spec
CONSTANTS
  Runtimes = {r1, r2}
  Entries = {e1}
  Clients = {c1}
  NoRuntime = NoRuntime
  NoEntry = NoEntry
  Projections = {"full"}
  SaveOutcomes = {TRUE}
  MaxQueueings = 1
  MaxPrompts = 1
  MaxWakes = 0
  MaxCrashes = 0
  ChannelBound = 1
CHECK_DEADLOCK FALSE
SYMMETRY Symmetry
INVARIANTS
  TypeOK
PROPERTIES
  StopHoldsQueue
