SPECIFICATION FairSpec
CHECK_DEADLOCK FALSE
CONSTANTS
  MaxActs = 2
  MaxDecisions = 3
  MaxFaults = 1
  MaxSteps = 4
INVARIANTS
  TypeOK
  NeverApprovedStaysClosed
  BotCloseIsOnRecord
PROPERTY
  SweepHeals
