SPECIFICATION Spec
CHECK_DEADLOCK FALSE
CONSTANTS
  MaxActs = 2
  MaxDecisions = 2
  MaxFaults = 0
  MaxSteps = 4
INVARIANT
  ApprovedIsReopened
