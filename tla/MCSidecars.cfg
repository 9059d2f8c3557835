CONSTANTS
  Memories <- MCMemories
  Batches <- MCBatches
  Of <- MCOf
  Decisions <- MCDecisions
  MaxTries <- MCMaxTries
  Versions = {1, 2}
SPECIFICATION SidecarsSpec
INVARIANTS
  WritersUndisturbed
  AnsweredOnDisk
  LeftoversAreLate
CHECK_DEADLOCK FALSE
