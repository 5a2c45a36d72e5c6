\* Two sweepers delete the same run while it is ingested, labeled and compared; no
\* symmetry, for liveness.
SPECIFICATION FairSpec
CONSTANTS
  Sweepers = {w1, w2}
  RunIds = {r1}
  Traces = {t1}
  Labels = {NoLabel, golden}
  ComparisonIds = {x1}
  MaxNow = 2
  Attempts = 2
  Decisions = {Pending}
  Ages = {1}
  SpanIds = {s1, s2}
  NoLabel = NoLabel
  Pending = Pending
  None = None
  t1 = t1
  s1 = s1
  s2 = s2
  SpansOf <- MCSpansOf
  Bundled <- MCBundled
INVARIANTS
PROPERTIES
  LoggedCountIsExact
  LastSweepNeverGoesBack
  SweepsEnd
