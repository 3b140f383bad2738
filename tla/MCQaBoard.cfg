SPECIFICATION Spec
CONSTANTS
  Items = {1}
  BatchOf <- MCBatchOf
  MaxBatches = 1
  Providers = {"notion", "trello"}
  Verdicts = {"pending", "passed"}
  SyncsCap = 1
  MaxMoves = 5
  MaxFaults = 1
INVARIANTS
  QaTypeOK
PROPERTIES
  NewerVerdictStands
  MirrorSettles
  VerdictReachesRelease
CHECK_DEADLOCK FALSE
