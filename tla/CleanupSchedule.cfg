\* The server starts and stops its scheduler; passes may outlast the wait of
\* stop().  No symmetry, for liveness.
SPECIFICATION FairSchedulerSpec
CONSTANTS
  Sweepers = {w1, w2}
  RunIds = {r1}
  Traces = {t1}
  Labels = {NoLabel}
  ComparisonIds = {}
  MaxNow = 2
  Attempts = 2
  Decisions = {Pending}
  Ages = {1}
  SpanIds = {s1, s2}
  NoLabel = NoLabel
  Pending = Pending
  None = None
  t1 = t1
  s1 = s1
  s2 = s2
  OlderThan = 1
  KeepLabeled = TRUE
  SlowPasses = TRUE
  SpansOf <- MCSpansOf
  Bundled <- MCBundled
INVARIANTS
PROPERTIES
  StopEndsThreads
  DueRunsGo
