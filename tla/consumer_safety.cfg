SPECIFICATION ConsumerSpec
CONSTANTS
  Payments = {p1}
  Workers = {w1, w2}
  LockIds = {i1, i2, i3}
  None = None
  LockTTL = 1
  WebhookAttempts = 1
  Copies = {c1, c2, c3, c4}
  MaxRetries = 1
  BaseDelay = 1
  ExpirationFactor = 2
  MaxMishaps = 1
SYMMETRY Symmetry
INVARIANTS ConsumerTypeOK ConsumerInv LoneInv PatienceInv NothingLost TruthUnlessDuplicated ChargeMatchesRow ErrorMeansUndelivered DeadLetterHasCause
