SPECIFICATION FairSpec
CONSTANTS
  w1 = w1
  w2 = w2
  i1 = i1
  i2 = i2
  Workers = {w1, w2}
  Installs = {i1, i2}
  MaxRetries <- MCRetries
  MaxFailures = 2
  MaxPasses = 1
  MaxWebhooks <- MCWebhooks
INVARIANTS
  PassAccountsForInstalls
  DiagnosedIsNotSynced
  FailuresNotOvercounted
  DegradedAtLimit
PROPERTIES
  PassEnds
CHECK_DEADLOCK FALSE
