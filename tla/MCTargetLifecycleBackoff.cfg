SPECIFICATION Spec
CONSTANTS
  Interval = 2
  BaseBackoff = 2
  MaxBackoff = 3
  MaxFailures = 3
  Ladder <- ThreeRungs
  JitterDivisor = 2
  RetryAfterCap = 8
  LeaseTime = 3
  MaxRun = 2
  NoObject = NoObject
PROPERTY BackoffIsTemporary
