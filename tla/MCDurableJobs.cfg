CONSTANTS
  Jobs <- MCJobs
  MaxAttempts <- MCMaxAttempts
  Rank <- MCRank
  LeaseMs = 3
  Horizon = 7
SPECIFICATION Spec
INVARIANTS
  AppliedOnce
  LeasesDisjoint
PROPERTIES
  RowsStaySound
  KeepsContract
CHECK_DEADLOCK FALSE
