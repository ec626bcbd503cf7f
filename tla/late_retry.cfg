SPECIFICATION ConsumerSpec
CONSTANTS
  Payments = {p1}
  Workers = {w1}
  LockIds = {i1, i2}
  None = None
  LockTTL = 120
  WebhookAttempts = 3
  Copies = {c1, c2, c3}
  MaxRetries = 3
  BaseDelay = 1
  ExpirationFactor = 1000
  MaxMishaps = 0
SYMMETRY Symmetry
INVARIANTS RetriesOnTime
