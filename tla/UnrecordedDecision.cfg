\* Two reviewers decide on one run at the same time.
SPECIFICATION Spec
CONSTANTS
  Clients = {c1, c2}
  RunIds = {r1}
  Traces = {t1}
  Decisions = {Pending, accepted}
  Labels = {NoLabel, golden}
  Ops = {"ingest", "annotate"}
  MaxHistory = 2
  MaxNow = 0
  Attempts = 2
  HistoryLimit = 1
  ComparisonIds = {x1}
  Ages = {1}
  SpanIds = {s1, s2}
  NoLabel = NoLabel
  Pending = Pending
  None = None
  t1 = t1
  s1 = s1
  s2 = s2
  golden = golden
  accepted = accepted
  SpansOf <- MCSpansOf
  Bundled <- MCBundled
SYMMETRY Symmetry
PROPERTIES
  EachChangedDecisionIsRecorded
