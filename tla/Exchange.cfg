\* A command and a server on an old database, runs of three IDs.
SPECIFICATION Spec
CONSTANTS
  Processes = {command, server}
  Command = command
  Server = server
  Tables <- MCTables
  Runs = "runs"
  ExtraColumns <- MCExtraColumns
  Releases <- MCReleases
  RunIds = {r1, r2, f1}
  TraceIds = {w1, o1}
  SpanIds = {sa, sb, h1, h2, Blank}
  Agents = {bot, other}
  Zones <- MCZones
  UserKeys = {"note", "otlp.events", "workbench.status"}
  UserValues = {null, text, listed, happened, bare, "error"}
  Decoded <- MCDecoded
  EventsDecoded <- MCEventsDecoded
  Tags = Tags
  Blank = Blank
  IdOrder <- MCIdOrder
  SpanHex <- MCSpanHex
  TraceHex <- MCTraceHex
  Derived <- MCDerived
  Documents <- MCDocuments
  Payloads <- MCPayloads
  MaxJobs = 2
  MaxChanges = 1
  MaxFailures = 1
  Formats = {"json", "otlp"}
  FileName <- MCFileName
  Tools = {search}
  Keys = {param}
  Scalars = {v1, Null}
  ValueOf <- MCValueOf
  Null = Null
  Errors = {timeout}
  Recorded <- MCRecorded
  MaxCalls = 2
  None = None
  r1 = r1
  r2 = r2
  f1 = f1
  w1 = w1
  o1 = o1
  sa = sa
  sb = sb
  h1 = h1
  h2 = h2
  bot = bot
  other = other
  search = search
  param = param
  v1 = v1
  null = null
  text = text
  listed = listed
  happened = happened
  bare = bare
  n1 = n1
  n2 = n2
  x1 = x1
  timeout = timeout
INVARIANTS
  MigrationsTolerateEachOther
  RoundTripsKeepEvidence
  ExportsComeBack
  ImportsApplyAPrefix
