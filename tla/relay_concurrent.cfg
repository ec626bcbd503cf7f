SPECIFICATION Spec
CONSTANTS
  Events = {1, 2, 3}
  Poison = {}
  Relays = {r1, r2}
  None = None
  BatchSize = 2
  LockTTL = 1
  MaxMishaps = 2
SYMMETRY Symmetry
INVARIANTS NoConcurrentPublish
