SPECIFICATION LiveSpec
CONSTANTS
  Runtimes = {r1, r2}
  NoRuntime = NoRuntime
  JournalBound = 1
  QueueBound = 2
  PendingBound = 1
  OtherReplay = 1
  MaxEvents = 2
  MaxClients = 2
  MaxRestarts = 1
CHECK_DEADLOCK FALSE
INVARIANTS
  TypeOK
  ReplayComplete
PROPERTIES
  ImplementsEventLog
  EventsArrive
