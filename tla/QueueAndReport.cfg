\* Two runs on pages of one row; the second trace failed.
SPECIFICATION ReportSpec
CONSTANTS
  RunIds = {r1, r2}
  Traces = {t1, t2}
  FailedTraces = {t2}
  Decisions = {Pending, accepted}
  Labels = {NoLabel, golden}
  PageSize = 1
  MaxCommits = 1
  MaxHistory = 1
  MaxNow = 2
  HistoryLimit = 1
  ComparisonIds = {x1}
  Ages = {1}
  SpanIds = {s1, s2}
  NoLabel = NoLabel
  Pending = Pending
  None = None
  r1 = r1
  r2 = r2
  t1 = t1
  t2 = t2
  s1 = s1
  s2 = s2
  golden = golden
  accepted = accepted
  SpansOf <- MCSpansOf
  StartedAt <- MCStartedAt
  IdOrder <- MCIdOrder
  bot = bot
  helper = helper
  AgentOf <- MCAgentOf
  SourceOf <- MCSourceOf
  FolderOf <- MCFolderOf
  ToolSpans = {s1}
  RetentionAge = 1
  Bundled <- MCBundled
INVARIANTS
  TablesAgree
  
  WalksShowAll
  ReportsAddUp
PROPERTIES
  BulkReviewsEmptyTheQueue
