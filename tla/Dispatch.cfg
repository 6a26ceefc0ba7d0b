SPECIFICATION LiveSpec
CONSTANTS
  q1 = q1
  q2 = q2
  r1 = r1
  r2 = r2
  Requests = {q1, q2}
  Runtimes = {r1, r2}
  NoRuntime = NoRuntime
  Commands <- MCCommands
  Sends <- MCSends
  CacheBound = 1
  MaxMailboxes = 2
  MaxPanics = 1
  MaxSpawnFailures = 1
CHECK_DEADLOCK FALSE
INVARIANTS
  TypeOK
  NoneLeftBehind
  RetriedOnce
  HubFollowsBackend
PROPERTIES
  ServedInOrder
  RequestAnswered
