SPECIFICATION Spec
CONSTANTS
  Payments = {p1}
  Workers = {w1, w2}
  LockIds = {i1, i2, i3}
  None = None
  LockTTL = 1
  WebhookAttempts = 2
SYMMETRY LockIdSymmetry
INVARIANTS TypeOK LeaseExclusion DoneMeansDelivered ProcessorInv
PROPERTIES OutcomeFinal LockKeptForOwner ImplementsLifecycle
