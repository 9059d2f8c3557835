CONSTANTS
  Process <- MCProcess
  Call <- MCCall
  Of <- MCOf
  Kind <- MCKind
  Inside <- MCInside
  None = "none"
  Horizon = 1
SPECIFICATION FairSpec
INVARIANTS
  NeverBehindACommit
  FlatRollbackLeavesNoTrace
PROPERTIES
  EveryCallAnswered
CHECK_DEADLOCK FALSE
