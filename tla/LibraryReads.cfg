\* Every read beside a client that ingests, reviews, restores and prunes.
SPECIFICATION ReadSpec
CONSTANTS
  Clients = {c1}
  Readers = {q1}
  RunIds = {r1}
  Traces = {t1, t2}
  Labels = {NoLabel, golden}
  Decisions = {Pending, accepted}
  Ops = {"ingest", "annotate", "restore", "prune"}
  ReadOps = {"get_run", "error_timeline", "decision_history", "export", "preview"}
  MaxHistory = 2
  HistoryPage = 1
  HistoryLimit = 1
  MaxNow = 2
  Attempts = 2
  ComparisonIds = {}
  Ages = {1}
  SpanIds = {s1, s2}
  ToolSpans = {s1, s2}
  NoLabel = NoLabel
  Pending = Pending
  None = None
  t1 = t1
  s1 = s1
  s2 = s2
  golden = golden
  accepted = accepted
  SpansOf <- MCSpansOf
  Bundled <- MCBundled
INVARIANTS
  AnswersAreSound
PROPERTIES
  PreviewsComeTrue
  NoConflictNoChange
