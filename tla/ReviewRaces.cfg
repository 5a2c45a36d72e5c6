\* Two clients call every operation on one run.
SPECIFICATION Spec
CONSTANTS
  Clients = {c1, c2}
  RunIds = {r1}
  Traces = {t1}
  Decisions = {Pending, accepted}
  Labels = {NoLabel, golden}
  Ops = {"ingest", "restore", "annotate", "bulk_label", "bulk_decide", "prune", "save_comparison", "delete_comparison"}
  MaxHistory = 1
  MaxNow = 2
  Attempts = 2
  HistoryLimit = 1
  ComparisonIds = {x1}
  Ages = {1}
  SpanIds = {s1, s2}
  NoLabel = NoLabel
  Pending = Pending
  None = None
  t1 = t1
  s1 = s1
  s2 = s2
  golden = golden
  accepted = accepted
  SpansOf <- MCSpansOf
  Bundled <- MCBundled
SYMMETRY Symmetry
INVARIANTS
  TypeOK
  TablesConsistent
  ReadsAreCurrent
PROPERTIES
  AtomicUnlessOvertaken
  ReviewIsLocal
  HistoryBreaksOnlyInARace
  IntegrityErrorsAreRaces
  OnlyExpiredRunsGo
  ComparisonsStay
