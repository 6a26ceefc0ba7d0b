SPECIFICATION Spec
CONSTANTS
  Runtimes = {r1}
  Entries = {e1}
  Clients = {c1}
  NoRuntime = NoRuntime
  NoEntry = NoEntry
  Projections = {"full", "blank"}
  SaveOutcomes = {TRUE, FALSE}
  MaxQueueings = 2
  MaxPrompts = 0
  MaxWakes = 1
  MaxCrashes = 1
  ChannelBound = 2
CHECK_DEADLOCK FALSE
INVARIANTS
  OneSubmissionPerQueueing
  CleanRowIsDurable
