SPECIFICATION Spec
CONSTANTS
  MaxRows = 3
  FirstRows = 2
  Authored = {2}
  Watched = 2
  MaxErased = 1
  MaxNonces = 2
  MaxFlips = 2
  MaxFaults = 1
  PageSize = 2
  TasksCap = 1
INVARIANTS
  TypeOK
  NewestReGateApplied
PROPERTIES
  FanOutReachesAll
  SweepsRecur
CHECK_DEADLOCK FALSE
