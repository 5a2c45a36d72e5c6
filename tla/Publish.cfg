\* Two runs are published to a collector that may do anything.
SPECIFICATION FairSpec
CONSTANTS
  RunIds = {r1, r2}
  Attempts = 3
  Faults = {"refused", "http_error", "no_answer", "redirected", "not_http", "pruned"}
  None = None
INVARIANTS
  ReportsAreTrue
  DuplicatesAreLostAnswers
PROPERTIES
  PublishEnds
