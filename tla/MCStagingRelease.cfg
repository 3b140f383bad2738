SPECIFICATION ReleaseSpec
CONSTANTS
  p1 = p1
  p2 = p2
  PRs = {p1, p2}
  Grades = {"passed"}
  ReconcilesCap = 2
  SuggestFrom = 1
  MaxMerges = 2
  MaxReleases = 2
  MaxExtras = 1
INVARIANTS
  ReleaseTypeOK
  ManifestConverges
  NoVerdictOutlivesItsMerge
PROPERTY
  VerdictsSurvivePasses
SYMMETRY Symmetry
CHECK_DEADLOCK FALSE
