SPECIFICATION Spec
CONSTANTS
  w1 = w1
  w2 = w2
  i1 = i1
  i2 = i2
  Workers = {w1}
  Installs = {i1}
  MaxRetries <- MCRetries
  MaxFailures = 2
  MaxPasses = 2
  MaxWebhooks <- MCWebhooks
PROPERTIES
  WebhookStatePersists
CHECK_DEADLOCK FALSE
