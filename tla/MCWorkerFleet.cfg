CONSTANTS
  Workers <- MCWorkers
  Jobs <- MCJobs
  MaxAttempts <- MCMaxAttempts
  BatchSize = 2
  MaxMishaps = 1
  MaxSignals = 1
SPECIFICATION Spec
INVARIANTS
  AnswersAgree
PROPERTIES
  KeepsContract
  StopsDrained
  JobsSettle
  StopsEventually
