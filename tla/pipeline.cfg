SPECIFICATION PipelineFairSpec
CONSTANTS
  Payments = {1}
  Workers = {w1}
  LockIds = {i1, i2}
  None = None
  LockTTL = 0
  WebhookAttempts = 1
  Copies = {c1, c2}
  MaxRetries = 0
  BaseDelay = 1
  ExpirationFactor = 2
  MaxMishaps = 1
  Keys = {k1}
  Requests = {r1}
  Relays = {a1}
  BatchSize = 1
  ClaimTTL = 0
INVARIANTS PipelineTypeOK PipelineInv OnlyCommittedHandled NeverLost QuietInv OneMessageEach
PROPERTIES ServiceImplementsLifecycle EventuallyHandled
