SPECIFICATION Spec
CONSTANTS
  Workers = {w1, w2}
  Targets = {t1, t2}
  None = None
  LeaseTime = 1
  Interval = 1
  Backoff = 1
  Cooldown = 2
  ClaimLimit = 2
  MaxTime = 3
  MaxClaims = 3
SYMMETRY Symmetry
INVARIANTS TypeOK LeaseInv OvertakenIsFenced
PROPERTIES LeaseProtected ResultsFenced ImplementsFencedStore
