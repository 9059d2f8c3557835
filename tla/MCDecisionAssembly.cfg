SPECIFICATION Spec
CONSTANTS
  Capsules = {1, 2, 3}
  Obligations = {"fix", "avoid", "note"}
  Hard = {"fix", "avoid"}
  Prohibitions = {"avoid"}
  Requires <- MCRequires
  Problems <- MCProblems
  LaneLimit <- MCLaneLimit
  SelectedLimit = 2
  FrameBytes = 2
  RefBytes = 1
  HardWeight = 4
  AdvisoryWeight = 1
  AuthorityBonus <- MCAuthorityBonus
  FreshnessBonus <- MCFreshnessBonus
INVARIANTS
  SelectionIsSound
  ExecuteIsSound
  LateRefusalsAreKnown
