SPECIFICATION Spec
CONSTANTS
  Workers = {w1, w2}
  Hosts = {github, api}
  ApiHost = api
  Free = Free
  Lease = 2
  Delays = {1, 2}
  Attempts = 2
  RequestTime = 1
  MaxTime = 4
INVARIANT TypeOK
PROPERTIES WindowRespected ClaimKept
