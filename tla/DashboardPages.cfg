\* Two runs, lists of at most one run, one change and midnight during a walk.
SPECIFICATION PageSpec
CONSTANTS
  RunIds = {r1, r2}
  Traces = {t1, t2, t3}
  Labels = {NoLabel}
  Decisions = {Pending}
  ComparisonIds = {}
  Bundled = {}
  Ages = {1}
  HistoryLimit = 1
  MaxHistory = 1
  MaxNow = 2
  TicksPerDay = 2
  ListLimit = 1
  DayLimit = 1
  MaxCommits = 1
  SpanIds = {s1, s2, s3}
  ToolSpans = {s1, s2}
  ErrorSpans = {s3}
  FailedCalls = {s2}
  NoLabel = NoLabel
  Pending = Pending
  None = None
  r1 = r1
  r2 = r2
  t1 = t1
  t2 = t2
  t3 = t3
  s1 = s1
  s2 = s2
  s3 = s3
  bot = bot
  helper = helper
  SpansOf <- MCSpansOf
  AgentOf <- MCAgentOf
  StartedAt <- MCStartedAt
  OffsetOf <- MCOffsetOf
  IdOrder <- MCIdOrder
  Matching <- MCMatching
  Requests <- MCRequests
INVARIANTS
  PanelsAgree
  RowsMatchTheirDetails
  ClickedDaysOpen
