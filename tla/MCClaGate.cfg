SPECIFICATION ClaGateSpec
CONSTANTS
  Drives = {"drive"}
  MaxHead = 2
  MaxTurns = 2
  MaxOthers = 1
  MaxSteps = 2
CHECK_DEADLOCK FALSE
INVARIANT ClaGateTypeOK
INVARIANT HeadHasItsChecks
INVARIANT ChecksTellTheCoverage
PROPERTY SweepRegates
