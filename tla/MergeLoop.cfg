SPECIFICATION Spec
CONSTANTS
  Entries = {e1, e2, e3}
CHECK_DEADLOCK FALSE
INVARIANTS
  LoopMerges
  LoopIsOnlyMerge
