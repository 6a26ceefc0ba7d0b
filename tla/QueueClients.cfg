SPECIFICATION Spec
CONSTANTS
  Runtimes = {r1}
  Entries = {e1, e2}
  Clients = {c1, c2}
  NoRuntime = NoRuntime
  NoEntry = NoEntry
  Projections = {"full"}
  SaveOutcomes = {TRUE}
  MaxQueueings = 1
  MaxPrompts = 0
  MaxWakes = 1
  MaxCrashes = 0
  ChannelBound = 1
CHECK_DEADLOCK FALSE
SYMMETRY Symmetry
INVARIANTS
  OneSubmissionPerQueueing
PROPERTIES
  QueueOrderStable
  FollowUpsKept
