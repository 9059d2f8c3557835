CONSTANTS
  Memories = {m1, m2}
  Cands = {c1}
  Cohorts = {k1}
  Policies <- MCPolicies
  Limit <- MCLimit
  MaxDelta <- MCLimit
  NoCand = NoCand
  NoCohort = NoCohort
  MaxRevisions = 4
SPECIFICATION LiveSpec
INVARIANTS
  LearnedByEffect
  WithinCapacity
PROPERTIES
  PublishesLawfully
  FreezeEnds
CHECK_DEADLOCK FALSE
