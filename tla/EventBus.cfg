SPECIFICATION FairSpec
CONSTANTS
  c1 = c1
  c2 = c2
  c3 = c3
  c4 = c4
  c5 = c5
  A = A
  B = B
  Colon = Colon
  Created = Created
  Deleted = Deleted
  Unknown = Unknown
  Timeout = Timeout
  Rejected = Rejected
  NoKey = NoKey
  Calls = {c1, c2, c3, c4, c5}
  Chars <- MCChars
  Separator <- Colon
  Topics <- MCTopics
  Errors <- MCErrors
  Event <- MCEvents
  Registrations <- MCRegistrations
  AclRules <- MCRules
  DefaultAllow = TRUE
INVARIANTS
  OneCallPerKey
  DuplicateHasHolder
  MetricsBalance
  RetryBudget
  TakenWhereConfigured
PROPERTIES
  NoAttemptAfterFatalError
  PublishReturns
  ImplementsContract
CHECK_DEADLOCK FALSE
