\* Operations that write what no earlier read decided; two clients, no symmetry, for liveness.
SPECIFICATION FairSpec
CONSTANTS
  Clients = {c1, c2}
  RunIds = {r1, r2}
  Traces = {t1}
  Decisions = {Pending, accepted}
  Labels = {NoLabel, golden}
  Ops = {"ingest", "bulk_label", "save_comparison", "delete_comparison"}
  MaxHistory = 2
  MaxNow = 1
  Attempts = 2
  HistoryLimit = 1
  ComparisonIds = {x1}
  Ages = {1}
  SpanIds = {s1, s2}
  NoLabel = NoLabel
  Pending = Pending
  None = None
  t1 = t1
  s1 = s1
  s2 = s2
  golden = golden
  accepted = accepted
  SpansOf <- MCSpansOf
  Bundled <- MCBundled
PROPERTIES
  ImplementsAtomicStore
  CallsEnd
