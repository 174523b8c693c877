SPECIFICATION InvestigationSpec
CONSTANTS
  Workers = {w1, w2}
  Dispatchers = {d1}
  Count = 2
  Importance <- MCImportance
  BatchSize = 2
  MaxRetries = 2
  Backoff = 1
  MaxSteps = 3
  MaxPages = 1
  Pages = {0, 2}
  MaxCrashes = 1
INVARIANTS InvestigationTypeOK RetriesBounded
PROPERTIES EveryEligibleSettles
CHECK_DEADLOCK FALSE
