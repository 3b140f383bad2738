SPECIFICATION BudgetSpec
CONSTANTS
  Calls = {c1, c2}
  Limit = 8
  DEFAULT_LIMIT = 4
  Hour = 2
  Lags <- ClockLags
  MaxMishaps = 1
SYMMETRY Symmetry
INVARIANT BudgetTypeOK
INVARIANT BulkWithinItsShare
INVARIANT StopsOnlyWhenSpent
