CONSTANTS
  Decisions <- MCDecisions
  EpisodeOf <- MCEpisodeOf
  Open = 2
  Close = 3
  Deadline = 3
  Cutoff = 4
  Terms <- MCTerms
  MaxAttempts = 2
  LeaseMs = 2
  PollMs = 1
  Workers = {w1, w2}
  Horizon = 5
  EvidencePolicies <- MCEvidencePolicies
  MaxArm = 4
SPECIFICATION Spec
INVARIANTS
  CertificateIsCensus
  DiesOnlyForCause
  VerdictHolds
PROPERTIES
  SettlementEnds
CHECK_DEADLOCK FALSE
