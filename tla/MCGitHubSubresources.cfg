SPECIFICATION Spec
CONSTANTS
  Interval = 1
  BaseBackoff = 1
  MaxBackoff = 1
  MaxFailures = 2
  Ladder <- MCLadder
  JitterDivisor = 2
  RetryAfterCap = 3
  WatchLists <- MCWatchLists
  Values <- MCValues
  NoValue = NoValue
  NoEtag = NoEtag
  Threshold = 2
  EmittedCap = 2
  RetryAfters = {3}
  MaxChanges <- MCMaxChanges
INVARIANTS NoBlindEtag ReportedOnce
PROPERTIES MovesAreReported FailureOfAnyCounts
