SPECIFICATION LiveSpec
CONSTANTS
  Runtimes = {r1}
  Entries = {e1}
  Clients = {c1}
  NoRuntime = NoRuntime
  NoEntry = NoEntry
  Projections = {"full", "blank"}
  SaveOutcomes = {TRUE}
  MaxQueueings = 1
  MaxPrompts = 1
  MaxWakes = 1
  MaxCrashes = 0
  ChannelBound = 1
CHECK_DEADLOCK FALSE
PROPERTIES
  FollowUpRuns
