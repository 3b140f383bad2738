CONSTANTS
  w1 = w1
  w2 = w2
  Writers = {w1, w2}
  MaxWrites = 2
  MaxMoves = 2
SPECIFICATION Spec
SYMMETRY Requests
INVARIANTS
  ClaTypeOK
  ChainNeverForks
  RestIsInLegal
CHECK_DEADLOCK FALSE
