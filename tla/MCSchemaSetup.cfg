SPECIFICATION Spec
CONSTANTS
  Processes = {p1, p2}
  NoteColumns = {"dispatch_owner", "dispatch_token"}
  TargetColumns = {"claim_token", "tags"}
  MaxCrashes = 1
  MaxErrors = 1
INVARIANTS TypeOK OpenIsComplete
PROPERTIES OpensAgain
