CONSTANTS
  Memories <- MCMemories
  Families <- MCFamilies
  Inputs <- MCInputs
  Moves <- MCMoves
  Never = 9
  MaxOps = 5
SPECIFICATION Spec
INVARIANTS
  HistoryHolds
  AuditsReplay
  OutageIsRerecorded
PROPERTIES
  WritesAreLawful
CHECK_DEADLOCK FALSE
