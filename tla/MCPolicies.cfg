CONSTANTS
  Signed <- MCSigned
  Bundles <- MCBundles
  Windows <- MCWindows
  Spans <- MCSpans
  Cands = {x}
  MaxTime = 4
  MaxRevisions = 3
  MaxRotations = 1
  MaxCohorts = 2
  MaxContracts = 1
SPECIFICATION Spec
INVARIANTS
  PinsHold
  SettlesWithItsPolicies
  MeasuredFamilyServes
CHECK_DEADLOCK FALSE
