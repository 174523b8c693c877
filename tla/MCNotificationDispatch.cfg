SPECIFICATION Spec
CONSTANTS
  Dispatchers = {d1, d2}
  Guarded = {d1}
  n1 = n1
  n2 = n2
  Notifications = {n1, n2}
  Key <- OneKey
  Similar <- BothSimilar
  Unconfigured = {n2}
  Cooldown = 1
  MaxRetries = 2
  LeaseTime = 1
  BatchSize = 2
  Operators = {o1, o2}
  MaxRequeues = 2
  MaxRows = 1
  MaxAge = 2
  MaxFaults = 1
INVARIANTS TypeOK SilencedForAnother NoEarlyFailure
PROPERTIES ResultsFenced LeaseExclusive Settles
