SPECIFICATION Spec
CONSTANTS
  Extractors = {"price", "title"}
  Found <- MCFound
  Triggers <- MCTriggers
  TimeWindow = 1
  Ids = {"i1", "i2"}
  Hashes = {"h1", "h2"}
  FeedCap = 1
  NoEtag = NoEtag
  SendsEtag = {TRUE, FALSE}
  MaxEntries = 2
  MaxChanges = 2
  MaxEdits = 1
INVARIANTS EtagMeansBaseline KnownEntriesStored
PROPERTIES TriggeredChangeStored CatchesUp
CHECK_DEADLOCK FALSE
