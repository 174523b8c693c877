SPECIFICATION SyncSpec
CONSTANTS
  Workers = {w1, w2}
  Targets = {t1}
  Rules = {t1}
  None = None
  NoCopy = NoCopy
  LeaseTime = 1
  Interval = 1
  Backoff = 1
  Cooldown = 2
  ClaimLimit = 1
  MaxTime = 4
  MaxClaims = 2
PROPERTIES NewLeaseStays
