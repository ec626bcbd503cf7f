SPECIFICATION ConsumerFairSpec
CONSTANTS
  Payments = {p1}
  Workers = {w1}
  LockIds = {i1, i2}
  None = None
  LockTTL = 1
  WebhookAttempts = 1
  Copies = {c1, c2, c3}
  MaxRetries = 1
  BaseDelay = 1
  ExpirationFactor = 2
  MaxMishaps = 1
PROPERTIES EventuallyResolved
