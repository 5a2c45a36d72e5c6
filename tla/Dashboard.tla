------------------------------- MODULE Dashboard -------------------------------
(***************************************************************************)
(* The dashboard of main.py and the reads of storage.py behind it: the     *)
(* list or search of runs, the failure trend and its overlay, the status   *)
(* breakdown, the runs of one day and the agents to choose from.  The API  *)
(* routes under /api/trend return single parts of the page.                *)
(*                                                                         *)
(* The page is put together from ten SELECTs and more, each at a moment of *)
(* its own, and three readings of the clock, while any client changes the  *)
(* library.  A tick of the clock is a part of a day; a trace keeps its     *)
(* start with the UTC offset of its producer.                              *)
(*                                                                         *)
(* The variable since is not in the program: what happened since the       *)
(* first page of a walk by day links was asked for.                        *)
(***************************************************************************)
EXTENDS AtomicStore, Functions

CONSTANTS
  AgentOf,       \* AgentOf[t]: the agent that trace t names
  StartedAt,     \* StartedAt[t]: the tick at which the run of trace t started
  OffsetOf,      \* OffsetOf[t]: the UTC offset of that timestamp, in ticks
  IdOrder,       \* IdOrder[r]: the place of run ID r among all IDs
  ToolSpans,     \* span IDs whose kind is tool
  ErrorSpans,    \* span IDs whose status is error
  FailedCalls,   \* tool spans whose outcome is failure
  Matching,      \* Matching[q]: traces whose text a query q occurs in
  TicksPerDay,
  Requests,      \* the page requests readers make
  ListLimit,     \* rows of the list (20)
  DayLimit,      \* rows of a day (100)
  MaxCommits     \* bound: commits of clients during a walk

Agents == {AgentOf[t] : t \in Traces}
Queries == DOMAIN Matching

Request == [query : Queries \cup {None}, days : Nat \ {0}, agent : Agents \cup {None},
            compare : Agents \cup {None}, day : Int \cup {None}]

ASSUME DashboardAssumption ==
  /\ DOMAIN AgentOf = Traces
  /\ StartedAt \in [Traces -> Int] /\ OffsetOf \in [Traces -> Int]
  /\ IdOrder \in [RunIds -> Nat] /\ IsInjective(IdOrder)
  /\ IsFiniteSet(RunIds) /\ None \notin Int
  /\ ToolSpans \cup ErrorSpans \cup FailedCalls \subseteq SpanIds
  /\ FailedCalls \subseteq ToolSpans
  /\ \A q \in Queries : Matching[q] \subseteq Traces
  /\ TicksPerDay \in Nat \ {0}
  /\ Requests \subseteq Request
  /\ ListLimit \in Nat \ {0} /\ DayLimit \in Nat \ {0} /\ MaxCommits \in Nat

VARIABLES
  page,     \* the page under way or shown, or None
  since

pageVars == <<runs, spans, history, comparisons, now, page, since>>

-----------------------------------------------------------------------------
(* Rows of runs.                                                           *)

(* Mutant: only the status of a span counts, not the outcome of its call.  *)
FailedByStatus(S) == S \cap ErrorSpans

Failed(S) == S \cap (ErrorSpans \cup FailedCalls)

(* TraceDocument.status, the status column of the row.                     *)
Status(r) ==
  IF SpansOf[runs[r].trace] \cap (ErrorSpans \cup FailedCalls) # {} THEN "error" ELSE "ok"

(* started_at is stored as it was written, with its offset; the day is the *)
(* first ten characters of that text, and the text is what rows are        *)
(* ordered by.                                                             *)
WallClock(r) == StartedAt[runs[r].trace] + OffsetOf[runs[r].trace]
Day(tick) == tick \div TicksPerDay
StartDay(r) == Day(WallClock(r))

(* ORDER BY started_at DESC, run_id DESC                                   *)
Later(r, s) ==
  \/ WallClock(r) > WallClock(s)
  \/ WallClock(r) = WallClock(s) /\ IdOrder[r] > IdOrder[s]

(* The place of r in R in that order.                                      *)
Place(R, r) == Cardinality({s \in R : Later(s, r)}) + 1

AtMost(n, limit) == IF n < limit THEN n ELSE limit

(* LIMIT                                                                   *)
Newest(R, limit) ==
  [i \in 1 .. AtMost(Cardinality(R), limit) |-> CHOOSE r \in R : Place(R, r) = i]

Summaries(R, limit) ==
  [i \in DOMAIN Newest(R, limit) |->
     LET r == Newest(R, limit)[i] IN [run_id |-> r, status |-> Status(r)]]

StoredRuns == {r \in RunIds : Stored(r)}

OfAgent(agent) == {r \in StoredRuns : agent \in {None, AgentOf[runs[r].trace]}}

(* list_runs, or search_runs for a query.                                  *)
Listed(query) ==
  Summaries({r \in StoredRuns : query = None \/ runs[r].trace \in Matching[query]}, ListLimit)

StartedOn(day, agent) == {r \in OfAgent(agent) : StartDay(r) = day}

RunsOnDay(day, agent) == Summaries(StartedOn(day, agent), DayLimit)

(* The first day of a window that ends today.                              *)
WindowStart(days) == Day(now) - (days - 1)

Point(day, R) ==
  [day |-> day, runs |-> Cardinality(R),
   failures |-> Cardinality({r \in R : Status(r) = "error"})]

(* Mutant: a run counts on every day since it started.                     *)
FailureTrendSoFar(start, days, agent) ==
  [i \in 1 .. days |->
     Point(start + i - 1, {r \in OfAgent(agent) : StartDay(r) <= start + i - 1})]

FailureTrend(start, days, agent) ==
  [i \in 1 .. days |-> Point(start + i - 1, StartedOn(start + i - 1, agent))]

Bar(day, R) ==
  [day |-> day,
   statuses |-> [status \in {Status(r) : r \in R} |->
                   Cardinality({r \in R : Status(r) = status})]]

StatusTrend(start, days, agent) ==
  [i \in 1 .. days |-> Bar(start + i - 1, StartedOn(start + i - 1, agent))]

-----------------------------------------------------------------------------
(* A page: its request, the answers it has got, and the read it is at.     *)

NoAnswers ==
  [list |-> << >>, list_tools |-> << >>, start |-> 0, trend |-> << >>,
   compare_start |-> 0, compare |-> << >>, day |-> << >>, day_tools |-> << >>,
   errors |-> << >>, status_start |-> 0, status |-> << >>, agents |-> {}]

Page(request, clicked) ==
  [request |-> request, clicked |-> clicked, at |-> "list", got |-> NoAnswers]

Loading == page # None /\ page.at # "shown"
Shown == page # None /\ page.at = "shown"

Overlaid(request) == request.compare \notin {None, request.agent}

Days(series) == {series[i].day : i \in 1 .. Len(series)}

(* A day outside the trend window is ignored.                              *)
DayIgnored == page.request.day \notin Days(page.got.trend)

ToolsOf(row) == Cardinality(spans[row.run_id] \cap ToolSpans)

(* Every trend takes today anew before its SELECT.                         *)
Answer(part) ==
  LET q == page.request
      got == page.got
  IN  CASE part = "list"          -> Listed(q.query)
        [] part = "list_tools"    -> Append(got.list_tools, ToolsOf(got.list[Len(got.list_tools) + 1]))
        [] part = "start"         -> WindowStart(q.days)
        [] part = "trend"         -> FailureTrend(got.start, q.days, q.agent)
        [] part = "compare_start" -> WindowStart(q.days)
        [] part = "compare"       -> FailureTrend(got.compare_start, q.days, q.compare)
        [] part = "day"           -> IF DayIgnored THEN << >> ELSE RunsOnDay(q.day, q.agent)
        [] part = "day_tools"     -> Append(got.day_tools, ToolsOf(got.day[Len(got.day_tools) + 1]))
        [] part = "errors"        -> [i \in 1 .. Len(got.day) |-> Failed(spans[got.day[i].run_id])]
        [] part = "status_start"  -> WindowStart(q.days)
        [] part = "status"        -> StatusTrend(got.status_start, q.days, q.agent)
        [] part = "agents"        -> {AgentOf[runs[r].trace] : r \in StoredRuns}

(* _summarize_runs: one SELECT for each row, and one more for their errors.*)
AfterDay(got) ==
  IF Len(got.day_tools) < Len(got.day) THEN "day_tools"
  ELSE IF got.day # << >> THEN "errors" ELSE "status_start"

AfterCompare(request) == IF request.day # None THEN "day" ELSE "status_start"

After(part, got, request) ==
  CASE part \in {"list", "list_tools"} ->
         IF Len(got.list_tools) < Len(got.list) THEN "list_tools" ELSE "start"
    [] part = "start" -> "trend"
    [] part = "trend" -> IF Overlaid(request) THEN "compare_start" ELSE AfterCompare(request)
    [] part = "compare_start" -> "compare"
    [] part = "compare" -> AfterCompare(request)
    [] part \in {"day", "day_tools"} -> AfterDay(got)
    [] part = "errors" -> "status_start"
    [] part = "status_start" -> "status"
    [] part = "status" -> "agents"
    [] part = "agents" -> "shown"

Read ==
  /\ Loading
  /\ LET got == [page.got EXCEPT ![page.at] = Answer(page.at)]
     IN  page' = [page EXCEPT !.got = got, !.at = After(page.at, got, page.request)]
  /\ UNCHANGED <<vars, since>>

Nothing == [changed |-> {}, midnight |-> FALSE, commits |-> 0]

Open(request) ==
  /\ ~Loading
  /\ page' = Page(request, None)
  /\ since' = Nothing
  /\ UNCHANGED vars

(* Mutant: the link of a day forgets the agent.                            *)
DayLinkForAll(day) ==
  [page.request EXCEPT !.day = day, !.query = None, !.compare = None, !.agent = None]

(* _day_href: the link keeps the agent and the window size.                *)
DayLink(day) ==
  [page.request EXCEPT !.day = day, !.query = None, !.compare = None]

(* The reviewer follows the link of a day of the chart.                    *)
Click ==
  /\ Shown /\ page.clicked = None
  /\ \E i \in 1 .. Len(page.got.trend) :
        page' = Page(DayLink(page.got.trend[i].day), page.got.trend[i])
  /\ UNCHANGED <<vars, since>>

-----------------------------------------------------------------------------
(* Anybody changes the library.                                            *)
Changed == {r \in RunIds : runs'[r] # runs[r] \/ spans'[r] # spans[r]}

StoreStep ==
  /\ page # None => since.commits < MaxCommits
  /\ \/ \E r \in RunIds, trace \in Traces : Ingest(r, trace)
     \/ \E R \in SUBSET RunIds, age \in Ages : PruneRuns(R, now - age, TRUE)
  /\ since' = IF page = None THEN since
              ELSE [since EXCEPT !.changed = @ \cup Changed, !.commits = @ + 1]
  /\ UNCHANGED page

Midnight ==
  /\ Tick
  /\ since' = [since EXCEPT !.midnight = @ \/ (page # None /\ Day(now') # Day(now))]
  /\ UNCHANGED page

PageInit == Init /\ page = None /\ since = Nothing

PageNext == StoreStep \/ Midnight \/ (\E request \in Requests : Open(request)) \/ Read \/ Click

PageSpec == PageInit /\ [][PageNext]_pageVars

-----------------------------------------------------------------------------
Quiet == since.changed = {} /\ ~since.midnight

Count(f, k) == IF k \in DOMAIN f THEN f[k] ELSE 0

FailedRows == {i \in 1 .. Len(page.got.day) : page.got.day[i].status = "error"}

(* README.md:1809 and :1829: a page nobody disturbed, by a change of the   *)
(* library or by midnight, tells one story in all its panels.  Each panel  *)
(* has SQL of its own: the bars of a day add up to its point of the trend, *)
(* failures to failures; the overlay lies on the same days and, without an *)
(* agent filter, never above the line of all agents; the list of a day     *)
(* shows the runs its point counts, up to the limit; an agent the trend    *)
(* counts can be chosen.                                                   *)
PanelsAgree ==
  Shown /\ Quiet =>
    LET got == page.got
        q == page.request
    IN  /\ \A i \in 1 .. q.days :
             LET point == got.trend[i]
                 bar == got.status[i]
             IN  /\ bar.day = point.day
                 /\ Count(bar.statuses, "error") = point.failures
                 /\ Count(bar.statuses, "error") + Count(bar.statuses, "ok") = point.runs
                 /\ Overlaid(q) =>
                      /\ got.compare[i].day = point.day
                      /\ q.agent = None => /\ got.compare[i].runs <= point.runs
                                           /\ got.compare[i].failures <= point.failures
                 /\ q.day = point.day =>
                      /\ Len(got.day) = AtMost(point.runs, DayLimit)
                      /\ Cardinality(FailedRows) <= point.failures
                      /\ point.runs <= DayLimit => Cardinality(FailedRows) = point.failures
                 /\ q.agent # None /\ point.runs > 0 => q.agent \in got.agents

(* runs_on_day, "Each summary includes ordered failed-span details", and   *)
(* the tool counts of both lists: of a run nobody changed while the page   *)
(* was made, the details say what the row says.  Changes of other runs,    *)
(* which move rows in and out of the lists, never mix them up.             *)
RowsMatchTheirDetails ==
  Shown =>
    /\ \A i \in 1 .. Len(page.got.list) :
         LET r == page.got.list[i].run_id
         IN  r \notin since.changed =>
               page.got.list_tools[i] = Cardinality(SpansOf[runs[r].trace] \cap ToolSpans)
    /\ \A i \in 1 .. Len(page.got.day) :
         LET r == page.got.day[i].run_id
         IN  r \notin since.changed =>
               /\ page.got.day_tools[i] = Cardinality(SpansOf[runs[r].trace] \cap ToolSpans)
               /\ page.got.errors[i] # {} <=> page.got.day[i].status = "error"

(* runs_on_day, "A reviewer clicks a day on the trend chart and sees the   *)
(* runs that started that day": as many as the point that was clicked      *)
(* counts.  Midnight between the two pages moves the window; the day is    *)
(* still shown unless it was the oldest.                                   *)
ClickedDaysOpen ==
  Shown /\ page.clicked # None /\ since.changed = {} =>
    \/ Len(page.got.day) = AtMost(page.clicked.runs, DayLimit)
    \/ since.midnight /\ page.clicked.day < page.got.trend[1].day

-----------------------------------------------------------------------------
(* Statements of the documentation the code refutes.                       *)

(* README.md:1805, "It uses the UTC day": on a quiet page the trend counts *)
(* on each day the runs that started on that UTC day.                      *)
TrendUsesUtcDays ==
  Shown /\ Quiet =>
    \A i \in 1 .. page.request.days :
       page.got.trend[i].runs =
         Cardinality({r \in OfAgent(page.request.agent) :
                        Day(StartedAt[runs[r].trace]) = page.got.trend[i].day})

(* storage.py:1009, "Both series share one UTC calendar window".           *)
SeriesShareOneWindow ==
  Shown /\ Overlaid(page.request) =>
    \A i \in 1 .. page.request.days : page.got.compare[i].day = page.got.trend[i].day

(* list_runs, "Return recent run summaries": no run left out started after *)
(* one that is listed.                                                     *)
ListsAreRecent ==
  Shown /\ Quiet /\ page.request.query = None =>
    LET shown == {page.got.list[i].run_id : i \in 1 .. Len(page.got.list)}
    IN  \A r \in shown, s \in StoredRuns \ shown :
           StartedAt[runs[s].trace] <= StartedAt[runs[r].trace]
=============================================================================
