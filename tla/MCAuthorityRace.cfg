CONSTANTS
  Memories = {m1}
  Cands = {c1, c2}
  Cohorts = {k1, k2}
  Policies <- MCWidePolicy
  Limit <- MCWide
  MaxDelta <- MCWide
  NoCand = NoCand
  NoCohort = NoCohort
  MaxRevisions = 3
SPECIFICATION Spec
SYMMETRY MCSymmetry
INVARIANTS
  MeasuredMerges
  FrozenWhileMeasured
PROPERTY PublishesLawfully
CHECK_DEADLOCK FALSE
