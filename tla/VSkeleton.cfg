SPECIFICATION Spec
CONSTANTS
  Clients = {c1}
  NoRow = NoRow
  NoClient = NoClient
  Failure = Failure
  NoResult = NoResult
  MaxSaves = 2
  MaxSeq = 1
  Budget = 2
CHECK_DEADLOCK FALSE
PROPERTY HistoryKept
