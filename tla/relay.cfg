SPECIFICATION FairSpec
CONSTANTS
  Events = {1, 2, 3}
  Poison = {1}
  Relays = {r1, r2}
  None = None
  BatchSize = 2
  LockTTL = 0
  MaxMishaps = 2
INVARIANTS TypeOK RelayInv PublishedWasSent ClaimExclusion OnceInv DuplicateHasCause
PROPERTIES EventuallyPublished
