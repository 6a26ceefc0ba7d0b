SPECIFICATION Spec
CONSTANTS
  Clients = {c1, c2}
  NoRow = NoRow
  NoClient = NoClient
  Failure = Failure
  NoResult = NoResult
  MaxSaves = 2
  MaxSeq = 2
  Budget = 2
SYMMETRY Symmetry
CHECK_DEADLOCK FALSE
INVARIANTS
  TypeOK
  RemovedStaysRemoved
  ArchiveIsCommanded
  NewestProjectionKept
  OthersDropRemoved
