---------------------------- MODULE DashboardProofs ----------------------------
(***************************************************************************)
(* The panels of a page agree, rows match their details and the links of   *)
(* days open the runs they count, for every library, request, size of a    *)
(* list and length of a window, whatever clients do between the SELECTs.   *)
(*                                                                         *)
(* No two SELECTs of a page read the same library, so an invariant of the  *)
(* shown page alone is not inductive.  PageInv says of each answer, from   *)
(* the moment it is read, how it relates to the library and the clock of   *)
(* now: details of a row to the run as long as nobody changed that run     *)
(* (DetailsInv), starts of windows to the window of today (WindowsInv),    *)
(* and counts to what their SELECT would give now as long as nobody        *)
(* changed any run (AnswersInv).                                           *)
(***************************************************************************)
EXTENDS Dashboard, LibraryProofs, FiniteSetTheorems

-----------------------------------------------------------------------------
(***************************************************************************)
(* Rows in their order.                                                    *)
(***************************************************************************)

(* Sets of stored runs are finite, and their runs have a date. *)
LEMMA StoredSets ==
  ASSUME TypeOK, NEW R \in SUBSET StoredRuns
  PROVE  /\ R \subseteq RunIds /\ IsFiniteSet(R) /\ Cardinality(R) \in Nat
         /\ \A S \in SUBSET R : IsFiniteSet(S) /\ Cardinality(S) \in Nat
         /\ \A r \in R : /\ runs[r] \in Row /\ WallClock(r) \in Int /\ StartDay(r) \in Int
                         /\ IdOrder[r] \in Nat
<1>1. R \subseteq RunIds
  BY DEF StoredRuns
<1>2. IsFiniteSet(R) /\ \A S \in SUBSET R : IsFiniteSet(S)
  BY <1>1, DashboardAssumption, FS_Subset
<1>3. \A r \in R : runs[r] \in Row
  BY DEF StoredRuns, Stored, TypeOK, TablesTypeOK
<1>4. \A r \in R : WallClock(r) \in Int
  BY <1>3, DashboardAssumption DEF WallClock, Row
<1>5. \A r \in R : StartDay(r) \in Int
  BY <1>4, DashboardAssumption DEF StartDay, Day
<1>6. QED
  BY <1>1, <1>2, <1>3, <1>4, <1>5, FS_CardinalityType, DashboardAssumption

(* IDs break ties, so what is later has the smaller place. *)
LEMMA PlacesFollowOrder ==
  ASSUME TypeOK, NEW R \in SUBSET StoredRuns, NEW r \in R, NEW s \in R
  PROVE  /\ Place(R, r) \in 1 .. Cardinality(R)
         /\ Place(R, r) = Place(R, s) => r = s
<1> DEFINE Before(q) == {p \in R : Later(p, q)}
<1>1. \A q \in R : WallClock(q) \in Int /\ IdOrder[q] \in Nat
  BY StoredSets
<1>2. \A p, q \in R : p # q => IdOrder[p] # IdOrder[q]
  BY StoredSets, DashboardAssumption DEF IsInjective
<1>3. /\ \A q \in R : ~Later(q, q)
      /\ \A p, q \in R : p # q => Later(p, q) \/ Later(q, p)
      /\ \A o, p, q \in R : Later(o, p) /\ Later(p, q) => Later(o, q)
  BY <1>1, <1>2 DEF Later
<1>4. \A q \in R : /\ Before(q) \subseteq R /\ q \notin Before(q)
                   /\ IsFiniteSet(Before(q)) /\ Cardinality(Before(q)) \in Nat
  BY <1>3, StoredSets
<1>5. \A p, q \in R : Later(p, q) => /\ Before(p) \subseteq Before(q) /\ Before(p) # Before(q)
  BY <1>3
<1>6. \A q \in R : Place(R, q) = Cardinality(Before(q)) + 1
  BY DEF Place
<1> HIDE DEF Before
<1>7. \A p, q \in R : Later(p, q) => Cardinality(Before(p)) < Cardinality(Before(q))
  BY <1>4, <1>5, FS_Subset
<1>8. Place(R, r) = Place(R, s) => r = s
  BY <1>3, <1>4, <1>6, <1>7
<1>9. Cardinality(Before(r)) < Cardinality(R)
  BY <1>4, StoredSets, FS_Subset
<1>10. QED
  BY <1>4, <1>6, <1>8, <1>9, StoredSets

(* A place for every run, and a run for every place. *)
LEMMA PlacesAreTaken ==
  ASSUME TypeOK, NEW R \in SUBSET StoredRuns, NEW i \in 1 .. Cardinality(R)
  PROVE  \E r \in R : Place(R, r) = i
<1> DEFINE n == Cardinality(R)
           f == [r \in R |-> Place(R, r)]
<1>1. n \in Nat /\ IsFiniteSet(R)
  BY StoredSets
<1>2. IsFiniteSet(1 .. n) /\ Cardinality(1 .. n) = n
  BY <1>1, FS_Interval
<1>3. f \in Injection(R, 1 .. n)
  BY PlacesFollowOrder DEF Injection, IsInjective
<1> HIDE DEF f
<1>4. f \in Surjection(R, 1 .. n)
  BY <1>1, <1>2, <1>3, FS_Injection
<1>5. QED
  BY <1>4 DEF Surjection, f

Summary == [run_id : RunIds, status : {"ok", "error"}]

(* The rows of a list are runs. *)
LEMMA RowsNameRuns ==
  \A rows \in Seq(Summary) : \A i \in 1 .. Len(rows) : rows[i].run_id \in RunIds
<1> SUFFICES ASSUME NEW rows \in Seq(Summary), NEW i \in 1 .. Len(rows)
             PROVE  rows[i].run_id \in RunIds
  OBVIOUS
<1>1. rows[i] \in Summary
  OBVIOUS
<1>2. QED
  BY <1>1 DEF Summary

(* A list shows as many runs as there are, up to the limit, and each once. *)
LEMMA ListsShowRuns ==
  ASSUME TypeOK, NEW R \in SUBSET StoredRuns, NEW limit \in Nat, NEW rows,
         rows = Summaries(R, limit)
  PROVE  /\ rows \in Seq(Summary) /\ Len(rows) = AtMost(Cardinality(R), limit)
         /\ \A i \in 1 .. Len(rows) : /\ rows[i].run_id \in R
                                      /\ rows[i].status = Status(rows[i].run_id)
         /\ \A i, j \in 1 .. Len(rows) : rows[i].run_id = rows[j].run_id => i = j
         /\ Cardinality(R) <= limit =>
              \A r \in R : \E i \in 1 .. Len(rows) : rows[i].run_id = r
<1> DEFINE n == AtMost(Cardinality(R), limit)
           newest == Newest(R, limit)
<1>1. /\ Cardinality(R) \in Nat /\ n \in Nat /\ n <= Cardinality(R)
      /\ Cardinality(R) <= limit => n = Cardinality(R)
  BY StoredSets DEF AtMost
<1>2. DOMAIN newest = 1 .. n
  BY DEF Newest
<1>3. ASSUME NEW i \in 1 .. n
      PROVE  newest[i] \in R /\ Place(R, newest[i]) = i
  <2>1. i \in 1 .. Cardinality(R)
    BY <1>1
  <2>2. newest[i] = CHOOSE r \in R : Place(R, r) = i
    BY DEF Newest
  <2>3. QED
    BY <2>1, <2>2, PlacesAreTaken
<1> HIDE DEF n, newest
<1>4. rows = [i \in 1 .. n |-> [run_id |-> newest[i], status |-> Status(newest[i])]]
  BY <1>2 DEF Summaries, newest
<1>5. \A i \in 1 .. n : rows[i] = [run_id |-> newest[i], status |-> Status(newest[i])]
  BY <1>4
<1>6. ASSUME NEW i \in 1 .. n
      PROVE  rows[i] \in Summary
  <2>1. PICK r \in RunIds, status \in {"ok", "error"} :
          rows[i] = [run_id |-> r, status |-> status]
    BY <1>3, <1>5, StoredSets DEF Status
  <2>2. QED
    BY <2>1 DEF Summary
<1>7. rows \in Seq(Summary) /\ Len(rows) = n
  BY <1>1, <1>4, <1>6
<1>8. Cardinality(R) <= limit => \A r \in R : \E i \in 1 .. n : newest[i] = r
  <2> SUFFICES ASSUME Cardinality(R) <= limit, NEW r \in R
               PROVE  newest[Place(R, r)] = r /\ Place(R, r) \in 1 .. n
    OBVIOUS
  <2>1. Place(R, r) \in 1 .. n
    BY <1>1, PlacesFollowOrder
  <2>2. newest[Place(R, r)] \in R /\ Place(R, newest[Place(R, r)]) = Place(R, r)
    BY <1>3, <2>1
  <2>3. QED
    BY <2>1, <2>2, PlacesFollowOrder
<1>9. QED
  BY <1>3, <1>5, <1>7, <1>8 DEF n

(* How long a list is. *)
LEMMA ListLengths ==
  ASSUME TypeOK, NEW R \in SUBSET StoredRuns, NEW limit \in Nat, NEW rows,
         rows = Summaries(R, limit)
  PROVE  Len(rows) = AtMost(Cardinality(R), limit)
<1>1. /\ rows \in Seq(Summary) /\ Len(rows) = AtMost(Cardinality(R), limit)
      /\ \A i \in 1 .. Len(rows) : /\ rows[i].run_id \in R
                                   /\ rows[i].status = Status(rows[i].run_id)
      /\ \A i, j \in 1 .. Len(rows) : rows[i].run_id = rows[j].run_id => i = j
  BY ListsShowRuns
<1>2. QED
  BY <1>1

(* The failed rows of a list are among the failed runs, and are all of     *)
(* them if the list is complete.                                           *)
LEMMA ListsShowFailures ==
  ASSUME TypeOK, NEW R \in SUBSET StoredRuns, NEW limit \in Nat, NEW rows,
         rows = Summaries(R, limit)
  PROVE  LET shown == {i \in 1 .. Len(rows) : rows[i].status = "error"}
             failed == {r \in R : Status(r) = "error"}
         IN  /\ Cardinality(shown) <= Cardinality(failed)
             /\ Cardinality(R) <= limit => Cardinality(shown) = Cardinality(failed)
<1> DEFINE shown == {i \in 1 .. Len(rows) : rows[i].status = "error"}
           failed == {r \in R : Status(r) = "error"}
           f == [i \in shown |-> rows[i].run_id]
<1>1. IsFiniteSet(failed)
  BY StoredSets
<1>2. \A i, j \in 1 .. Len(rows) : rows[i].run_id = rows[j].run_id => i = j
  <2> HIDE DEF shown, failed, f
  <2>1. /\ rows \in Seq(Summary) /\ Len(rows) = AtMost(Cardinality(R), limit)
        /\ \A i \in 1 .. Len(rows) : /\ rows[i].run_id \in R
                                     /\ rows[i].status = Status(rows[i].run_id)
        /\ \A i, j \in 1 .. Len(rows) : rows[i].run_id = rows[j].run_id => i = j
    BY ListsShowRuns
  <2>2. QED
    BY <2>1
<1>3. f \in Injection(shown, failed)
  <2>1. \A i \in shown : /\ rows[i].run_id \in R /\ i \in 1 .. Len(rows)
                          /\ Status(rows[i].run_id) = "error"
    BY ListsShowRuns
  <2>2. \A i, j \in shown : rows[i].run_id = rows[j].run_id => i = j
    BY <1>2
  <2>3. f \in [shown -> failed]
    BY <2>1
  <2>4. QED
    BY <2>2, <2>3 DEF Injection, IsInjective
<1>4. Cardinality(R) <= limit => f \in Surjection(shown, failed)
  <2> SUFFICES ASSUME Cardinality(R) <= limit, NEW r \in failed
               PROVE  \E i \in shown : f[i] = r
    BY <1>3 DEF Injection, Surjection
  <2>1. PICK i \in 1 .. Len(rows) : rows[i].run_id = r
    BY ListsShowRuns
  <2>2. rows[i].status = "error"
    BY <2>1, ListsShowRuns
  <2>3. QED
    BY <2>1, <2>2
<1> HIDE DEF f
<1>5. QED
  BY <1>1, <1>3, <1>4, FS_Injection

-----------------------------------------------------------------------------
(***************************************************************************)
(* What a page holds.                                                      *)
(***************************************************************************)

Parts == {"list", "list_tools", "start", "trend", "compare_start", "compare", "day",
          "day_tools", "errors", "status_start", "status", "agents"}

(* The reads before the window is known, before the trend, and so on.      *)
UpToStart == {"list", "list_tools", "start"}
UpToTrend == UpToStart \cup {"trend"}
UpToWindow == UpToTrend \cup {"compare_start"}
UpToCompare == UpToWindow \cup {"compare"}
UpToDay == UpToCompare \cup {"day"}
UpToErrors == UpToDay \cup {"day_tools", "errors"}
UpToBars == UpToErrors \cup {"status_start", "status"}

ToolCounts == {Cardinality(S \cap ToolSpans) : S \in SUBSET SpanIds}

ToolsRecorded(r) == Cardinality(SpansOf[runs[r].trace] \cap ToolSpans)

PageOK ==
  /\ page = [request |-> page.request, clicked |-> page.clicked,
             at |-> page.at, got |-> page.got]
  /\ page.request \in Request
  /\ page.at \in Parts \cup {"shown"} /\ DOMAIN page.got = Parts
  /\ page.got.list \in Seq(Summary) /\ page.got.day \in Seq(Summary)
  /\ page.got.list_tools \in Seq(ToolCounts) /\ page.got.day_tools \in Seq(ToolCounts)

(* The details got so far are those of the rows, one by one.               *)
DetailsInv ==
  LET got == page.got
      changed == since.changed
  IN  /\ page.at = "list" => got.list = << >>
      /\ Len(got.list_tools) <= Len(got.list)
      /\ page.at = "list_tools" => Len(got.list_tools) < Len(got.list)
      /\ page.at \notin {"list", "list_tools"} => Len(got.list_tools) = Len(got.list)
      /\ \A i \in 1 .. Len(got.list) : got.list[i].run_id \notin changed =>
           /\ Stored(got.list[i].run_id)
           /\ i <= Len(got.list_tools) =>
                got.list_tools[i] = ToolsRecorded(got.list[i].run_id)
      /\ page.at \in UpToDay => got.day = << >>
      /\ Len(got.day_tools) <= Len(got.day)
      /\ page.at = "day_tools" => Len(got.day_tools) < Len(got.day)
      /\ page.at # "day_tools" => Len(got.day_tools) = Len(got.day)
      /\ \A i \in 1 .. Len(got.day) : got.day[i].run_id \notin changed =>
           /\ Stored(got.day[i].run_id) /\ got.day[i].status = Status(got.day[i].run_id)
           /\ i <= Len(got.day_tools) =>
                got.day_tools[i] = ToolsRecorded(got.day[i].run_id)
           /\ page.at \notin UpToErrors =>
                (got.errors[i] # {} <=> got.day[i].status = "error")

(* The windows got so far start no later than one that would start now,    *)
(* and at the same day unless midnight has passed; the day that was        *)
(* clicked lies in them, unless midnight has moved them past it.           *)
StartOK(start) ==
  /\ start \in Int /\ start <= WindowStart(page.request.days)
  /\ ~since.midnight => start = WindowStart(page.request.days)

HoldsClicked(start) ==
  /\ page.clicked.day <= start + page.request.days - 1
  /\ ~since.midnight => start <= page.clicked.day

WindowsInv ==
  /\ page.at \notin UpToStart => StartOK(page.got.start)
  /\ page.at \notin UpToWindow /\ Overlaid(page.request) => StartOK(page.got.compare_start)
  /\ page.at \notin UpToErrors \cup {"status_start"} => StartOK(page.got.status_start)
  /\ page.clicked # None =>
       /\ page.clicked.day \in Int /\ page.request.day = page.clicked.day
       /\ HoldsClicked(WindowStart(page.request.days))
       /\ page.at \notin UpToStart => HoldsClicked(page.got.start)

(* A trend has a point for every day of its window.                        *)
TrendInv ==
  page.at \notin UpToTrend =>
    /\ page.got.trend \in [1 .. page.request.days -> [day : Int, runs : Nat, failures : Nat]]
    /\ \A i \in 1 .. page.request.days : page.got.trend[i].day = page.got.start + i - 1

(* As long as no run changes, each answer is what its SELECT would give    *)
(* now.                                                                    *)
AnswersInv ==
  LET got == page.got
      q == page.request
  IN  since.changed = {} =>
        /\ page.at \notin UpToTrend => got.trend = FailureTrend(got.start, q.days, q.agent)
        /\ page.at \notin UpToCompare /\ Overlaid(q) =>
             got.compare = FailureTrend(got.compare_start, q.days, q.compare)
        /\ page.at \notin UpToDay /\ q.day # None =>
             got.day = IF DayIgnored THEN << >> ELSE RunsOnDay(q.day, q.agent)
        /\ page.at \notin UpToBars =>
             got.status = StatusTrend(got.status_start, q.days, q.agent)
        /\ page.at = "shown" => got.agents = {AgentOf[runs[r].trace] : r \in StoredRuns}
        /\ page.clicked # None =>
             page.clicked.runs = Cardinality(StartedOn(page.clicked.day, q.agent))

SinceOK ==
  /\ since = [changed |-> since.changed, midnight |-> since.midnight,
              commits |-> since.commits]
  /\ since.changed \subseteq RunIds /\ since.midnight \in BOOLEAN /\ since.commits \in Nat

StoreInv == TypeOK /\ TablesAgree

PageInv ==
  /\ StoreInv /\ SinceOK
  /\ page # None => PageOK /\ DetailsInv /\ WindowsInv /\ TrendInv /\ AnswersInv

-----------------------------------------------------------------------------
(* The page is asked for. *)
LEMMA InitPageInv == PageInit => PageInv
<1> SUFFICES ASSUME PageInit PROVE PageInv
  OBVIOUS
<1>1. StoreInv
  BY DEF PageInit, Init, TablesInit, StoreInv, TypeOK, TablesTypeOK, TablesAgree, Stored,
         RowsBelongToRuns, SpansMatchTrace, DecisionStamped, ComparisonsBelongToRuns
<1>2. SinceOK
  BY DEF PageInit, Nothing, SinceOK
<1>3. QED
  BY <1>1, <1>2 DEF PageInit, PageInv

(* Changes of the library keep its tables. *)
LEMMA StoreStepKeepsTables ==
  ASSUME StoreInv, StoreStep
  PROVE  StoreInv' /\ now' = now
<1>1. ASSUME NEW r \in RunIds, NEW trace \in Traces, Ingest(r, trace)
      PROVE  StoreInv' /\ now' = now
  <2>1. Ingested(r, trace) /\ now' = now /\ now' \in Nat
    BY <1>1 DEF Ingest, StoreInv, TypeOK, TablesTypeOK
  <2>2. QED
    BY <2>1, IngestedTypes, IngestedAgrees DEF StoreInv, TypeOK
<1>2. ASSUME NEW R \in SUBSET RunIds, NEW age \in Ages, PruneRuns(R, now - age, TRUE)
      PROVE  StoreInv' /\ now' = now
  <2>1. PICK E \in SUBSET RunIds : Deleted(E)
    BY <1>2 DEF PruneRuns
  <2>2. now' = now /\ now' \in Nat
    BY <1>2 DEF PruneRuns, StoreInv, TypeOK, TablesTypeOK
  <2>3. QED
    BY <2>1, <2>2, DeletedTypes, DeletedAgrees DEF StoreInv, TypeOK
<1>3. QED
  BY <1>1, <1>2 DEF StoreStep

(* What SELECTs give is the same in the same library, and windows start    *)
(* the same day on the same day. *)
LEMMA SameAnswers ==
  ASSUME runs' = runs
  PROVE  /\ StoredRuns' = StoredRuns
         /\ \A r : Status(r)' = Status(r) /\ StartDay(r)' = StartDay(r)
         /\ \A agent : OfAgent(agent)' = OfAgent(agent)
         /\ \A start, days, agent :
               /\ FailureTrend(start, days, agent)' = FailureTrend(start, days, agent)
               /\ StatusTrend(start, days, agent)' = StatusTrend(start, days, agent)
         /\ \A day, agent : /\ RunsOnDay(day, agent)' = RunsOnDay(day, agent)
                            /\ StartedOn(day, agent)' = StartedOn(day, agent)
         /\ {AgentOf[runs[r].trace] : r \in StoredRuns}'
              = {AgentOf[runs[r].trace] : r \in StoredRuns}
<1>1. StoredRuns' = StoredRuns
  BY DEF StoredRuns, Stored
<1>2. \A r : Status(r)' = Status(r) /\ WallClock(r)' = WallClock(r)
  BY DEF Status, WallClock
<1>3. /\ \A r : StartDay(r)' = StartDay(r)
      /\ \A r, s : Later(r, s)' = Later(r, s)
  BY <1>2 DEF StartDay, Later
<1>4. \A agent : OfAgent(agent)' = OfAgent(agent)
  BY <1>1 DEF OfAgent
<1>5. \A day, agent : StartedOn(day, agent)' = StartedOn(day, agent)
  BY <1>3, <1>4 DEF StartedOn
<1>6. \A start, days, agent :
         /\ FailureTrend(start, days, agent)' = FailureTrend(start, days, agent)
         /\ StatusTrend(start, days, agent)' = StatusTrend(start, days, agent)
  <2>1. \A day, R : Point(day, R)' = Point(day, R) /\ Bar(day, R)' = Bar(day, R)
    BY <1>2 DEF Point, Bar
  <2>2. QED
    BY <1>5, <2>1 DEF FailureTrend, StatusTrend
<1>7. \A R, limit : Summaries(R, limit)' = Summaries(R, limit)
  <2>1. \A R, r : Place(R, r)' = Place(R, r)
    BY <1>3 DEF Place
  <2>2. \A R, limit : Newest(R, limit)' = Newest(R, limit)
    BY <2>1 DEF Newest
  <2>3. QED
    BY <1>2, <2>2 DEF Summaries
<1>8. \A day, agent : RunsOnDay(day, agent)' = RunsOnDay(day, agent)
  BY <1>5, <1>7 DEF RunsOnDay
<1>9. QED
  BY <1>1, <1>2, <1>3, <1>4, <1>5, <1>6, <1>8

(* Later ticks belong to no earlier day. *)
LEMMA DaysPass ==
  ASSUME NEW tick \in Nat
  PROVE  Day(tick) \in Int /\ Day(tick + 1) \in Int /\ Day(tick) <= Day(tick + 1)
<1>1. PICK n \in Nat \ {0} : n = TicksPerDay
  BY DashboardAssumption
<1>2. tick \div n \in Int /\ (tick + 1) \div n \in Int /\ tick \div n <= (tick + 1) \div n
  BY <1>1
<1>3. QED
  BY <1>1, <1>2 DEF Day

(* Answers stay what SELECTs would give while the library stays. *)
LEMMA AnswersStay ==
  ASSUME AnswersInv, runs' = runs, page' = page, since'.changed = {} => since.changed = {}
  PROVE  AnswersInv'
<1> SUFFICES ASSUME since'.changed = {}
             PROVE  AnswersInv'
  BY DEF AnswersInv
<1> DEFINE got == page.got
           q == page.request
<1>1. since.changed = {} /\ got' = got /\ q' = q /\ (DayIgnored <=> DayIgnored')
  BY DEF DayIgnored
<1>2. page.at \notin UpToTrend => got.trend = FailureTrend(got.start, q.days, q.agent)'
  BY <1>1, SameAnswers DEF AnswersInv
<1>3. page.at \notin UpToCompare /\ Overlaid(q) =>
        got.compare = FailureTrend(got.compare_start, q.days, q.compare)'
  BY <1>1, SameAnswers DEF AnswersInv
<1>4. page.at \notin UpToDay /\ q.day # None =>
        got.day = IF DayIgnored' THEN << >> ELSE RunsOnDay(q.day, q.agent)'
  BY <1>1, SameAnswers DEF AnswersInv
<1>5. page.at \notin UpToBars => got.status = StatusTrend(got.status_start, q.days, q.agent)'
  BY <1>1, SameAnswers DEF AnswersInv
<1>6. page.at = "shown" => got.agents = {AgentOf[runs[r].trace] : r \in StoredRuns}'
  BY <1>1, SameAnswers DEF AnswersInv
<1>7. page.clicked # None =>
        page.clicked.runs = Cardinality(StartedOn(page.clicked.day, q.agent)')
  BY <1>1, SameAnswers DEF AnswersInv
<1>8. QED
  BY <1>1, <1>2, <1>3, <1>4, <1>5, <1>6, <1>7 DEF AnswersInv

(* A change of the library is seen in the runs it changed. *)
LEMMA StoreStepKeepsPage ==
  ASSUME PageInv, StoreStep
  PROVE  PageInv'
<1>1. StoreInv' /\ now' = now /\ page' = page
  BY StoreStepKeepsTables DEF PageInv, StoreStep
<1>2. CASE page = None
  BY <1>1, <1>2 DEF PageInv, StoreStep, SinceOK
<1>3. CASE page # None
  <2>1. /\ since' = [since EXCEPT !.changed = @ \cup Changed, !.commits = @ + 1]
        /\ SinceOK
    BY <1>3 DEF StoreStep, PageInv
  <2>2. /\ since'.changed = since.changed \cup Changed /\ since'.midnight = since.midnight
        /\ SinceOK'
    <3>1. PICK changed, midnight, commits :
            since = [changed |-> changed, midnight |-> midnight, commits |-> commits]
      BY <2>1 DEF SinceOK
    <3>2. since' = [changed |-> changed \cup Changed, midnight |-> midnight,
                    commits |-> commits + 1]
      BY <2>1, <3>1
    <3>3. changed \subseteq RunIds /\ midnight \in BOOLEAN /\ commits \in Nat
      BY <2>1, <3>1 DEF SinceOK
    <3>4. QED
      BY <3>1, <3>2, <3>3 DEF SinceOK, Changed
  <2>3. PageOK'
    BY <1>1, <1>3 DEF PageInv, PageOK
  <2>4. \A r \in RunIds \ since'.changed : r \notin since.changed /\ runs'[r] = runs[r]
    BY <2>2 DEF Changed
  <2>5. DetailsInv'
    <3>1. PageOK /\ DetailsInv
      BY <1>3 DEF PageInv
    <3>2. /\ \A i \in 1 .. Len(page.got.list) : page.got.list[i].run_id \in RunIds
          /\ \A i \in 1 .. Len(page.got.day) : page.got.day[i].run_id \in RunIds
      BY <3>1, RowsNameRuns DEF PageOK
    <3>3. \A r \in RunIds \ since'.changed :
            /\ r \notin since.changed /\ Stored(r)' = Stored(r) /\ Status(r)' = Status(r)
            /\ ToolsRecorded(r)' = ToolsRecorded(r)
      BY <2>4 DEF Stored, Status, ToolsRecorded
    <3>4. QED
      BY <1>1, <3>1, <3>2, <3>3 DEF DetailsInv
  <2>6. WindowsInv' /\ TrendInv'
    <3>1. \A days : WindowStart(days)' = WindowStart(days)
      BY <1>1 DEF WindowStart
    <3>2. WindowsInv /\ TrendInv
      BY <1>3 DEF PageInv
    <3>3. QED
      BY <1>1, <2>2, <3>1, <3>2 DEF WindowsInv, StartOK, HoldsClicked, TrendInv
  <2>7. AnswersInv'
    <3>1. CASE since'.changed = {}
      <4>1. since.changed = {} /\ \A r \in RunIds : runs'[r] = runs[r]
        BY <2>2, <2>4, <3>1
      <4>2. /\ runs \in [RunIds -> Row \cup {None}] /\ runs' \in [RunIds -> Row \cup {None}]
        BY <1>1 DEF PageInv, StoreInv, TypeOK, TablesTypeOK
      <4>3. runs' = runs
        BY <4>1, <4>2
      <4>4. QED
        BY <1>1, <1>3, <4>1, <4>3, AnswersStay DEF PageInv
    <3>2. QED
      BY <3>1 DEF AnswersInv
  <2>8. QED
    BY <1>1, <2>2, <2>3, <2>5, <2>6, <2>7 DEF PageInv
<1>4. QED
  BY <1>2, <1>3

(* Midnight moves the window on. *)
LEMMA MidnightKeepsPage ==
  ASSUME PageInv, Midnight
  PROVE  PageInv'
<1>1. /\ page' = page /\ now' = now + 1 /\ now \in Nat
      /\ runs' = runs /\ spans' = spans /\ history' = history /\ comparisons' = comparisons
  BY DEF Midnight, Tick, tables, PageInv, StoreInv, TypeOK, TablesTypeOK
<1>2. StoreInv'
  BY <1>1, UnchangedAgrees DEF PageInv, StoreInv, TypeOK, TablesTypeOK, tables
<1>3. /\ since'.changed = since.changed
      /\ since'.midnight = (since.midnight \/ (page # None /\ Day(now') # Day(now)))
      /\ SinceOK'
  <2>1. PICK changed, midnight, commits :
          since = [changed |-> changed, midnight |-> midnight, commits |-> commits]
    BY DEF PageInv, SinceOK
  <2>2. since' = [changed |-> changed, commits |-> commits,
                  midnight |-> midnight \/ (page # None /\ Day(now') # Day(now))]
    BY <2>1 DEF Midnight
  <2>3. changed \subseteq RunIds /\ midnight \in BOOLEAN /\ commits \in Nat
    BY <2>1 DEF PageInv, SinceOK
  <2>4. QED
    BY <2>1, <2>2, <2>3 DEF SinceOK
<1>4. CASE page # None
  <2>1. PageOK' /\ DetailsInv'
    BY <1>1, <1>3, <1>4
    DEF PageInv, PageOK, DetailsInv, Stored, Status, ToolsRecorded
  <2>2. TrendInv'
    BY <1>1, <1>4 DEF PageInv, TrendInv
  <2>3. WindowsInv'
    <3>1. /\ Day(now) \in Int /\ Day(now') \in Int /\ Day(now) <= Day(now')
          /\ ~since'.midnight => ~since.midnight /\ Day(now') = Day(now)
      BY <1>1, <1>3, <1>4, DaysPass
    <3>2. PICK days \in Nat : days = page.request.days
      BY <1>4 DEF PageInv, PageOK, Request
    <3>3. /\ WindowStart(days) \in Int /\ WindowStart(days)' \in Int
          /\ WindowStart(days) <= WindowStart(days)'
          /\ ~since'.midnight => ~since.midnight /\ WindowStart(days)' = WindowStart(days)
      BY <3>1, <3>2 DEF WindowStart
    <3>4. \A start : StartOK(start) => StartOK(start)'
      BY <1>1, <3>2, <3>3 DEF StartOK
    <3>5. \A start : HoldsClicked(start) => HoldsClicked(start)'
      BY <1>1, <3>3 DEF HoldsClicked
    <3>6. WindowsInv
      BY <1>4 DEF PageInv
    <3>7. page.clicked # None => HoldsClicked(WindowStart(page.request.days))'
      <4> SUFFICES ASSUME page.clicked # None
                   PROVE  HoldsClicked(WindowStart(page.request.days))'
        OBVIOUS
      <4>1. page.clicked.day \in Int /\ HoldsClicked(WindowStart(days))
        BY <3>2, <3>6 DEF WindowsInv
      <4>2. PICK day \in Int : day = page.clicked.day
        BY <4>1
      <4>3. QED
        BY <1>1, <3>2, <3>3, <4>1, <4>2 DEF HoldsClicked
    <3>8. QED
      BY <1>1, <3>4, <3>5, <3>6, <3>7 DEF WindowsInv
  <2>4. AnswersInv'
    BY <1>1, <1>3, <1>4, AnswersStay DEF PageInv
  <2>5. QED
    BY <1>2, <1>3, <2>1, <2>2, <2>3, <2>4 DEF PageInv
<1>5. QED
  BY <1>1, <1>2, <1>3, <1>4 DEF PageInv

(* What the library is when no SELECT changes it. *)
LEMMA ReadsKeepTables ==
  ASSUME StoreInv, UNCHANGED vars
  PROVE  StoreInv'
<1>1. /\ runs' = runs /\ spans' = spans /\ history' = history /\ comparisons' = comparisons
      /\ now' = now
  BY DEF vars
<1>2. QED
  BY <1>1, UnchangedAgrees DEF StoreInv, TypeOK, TablesTypeOK, tables

(* A page that was just asked for has no answers yet. *)
LEMMA FreshPage ==
  ASSUME NEW request \in Request, NEW clicked, page' = Page(request, clicked)
  PROVE  /\ page' # None => PageOK' /\ DetailsInv' /\ TrendInv'
         /\ page'.request = request /\ page'.clicked = clicked /\ page'.at = "list"
<1>1. /\ page' = [request |-> request, clicked |-> clicked, at |-> "list", got |-> NoAnswers]
      /\ page'.got = NoAnswers /\ page'.at = "list"
      /\ page'.request = request /\ page'.clicked = clicked
  BY DEF Page
<1>2. /\ NoAnswers.list = << >> /\ NoAnswers.list_tools = << >>
      /\ NoAnswers.day = << >> /\ NoAnswers.day_tools = << >>
      /\ DOMAIN NoAnswers = Parts
  BY DEF NoAnswers, Parts
<1>3. PageOK'
  <2>1. /\ << >> \in Seq(Summary) /\ << >> \in Seq(ToolCounts)
        /\ "list" \in Parts \cup {"shown"}
    BY DEF Parts
  <2>2. /\ page'.got.list = << >> /\ page'.got.list_tools = << >>
        /\ page'.got.day = << >> /\ page'.got.day_tools = << >>
        /\ DOMAIN page'.got = Parts
    BY <1>1, <1>2
  <2>3. page' = [request |-> page'.request, clicked |-> page'.clicked,
                 at |-> page'.at, got |-> page'.got]
    BY <1>1
  <2>4. QED
    BY <1>1, <2>1, <2>2, <2>3 DEF PageOK
<1>4. DetailsInv'
  BY <1>1, <1>2 DEF DetailsInv, UpToDay, UpToCompare, UpToWindow, UpToTrend, UpToStart
<1>5. TrendInv'
  BY <1>1 DEF TrendInv, UpToTrend, UpToStart
<1>6. QED
  BY <1>1, <1>3, <1>4, <1>5

(* A new page starts with no answers, and with nothing that happened. *)
LEMMA OpenKeepsPage ==
  ASSUME PageInv, NEW request \in Requests, Open(request)
  PROVE  PageInv'
<1>1. /\ page' = Page(request, None) /\ since' = Nothing /\ UNCHANGED vars
      /\ request \in Request
  BY DashboardAssumption DEF Open
<1>2. StoreInv'
  BY <1>1, ReadsKeepTables DEF PageInv
<1>3. SinceOK'
  BY <1>1 DEF SinceOK, Nothing
<1>4. /\ page' # None => PageOK' /\ DetailsInv' /\ TrendInv'
      /\ page'.clicked = None /\ page'.at = "list"
  BY <1>1, FreshPage
<1>5. WindowsInv'
  BY <1>4 DEF WindowsInv, UpToErrors, UpToDay, UpToCompare, UpToWindow, UpToTrend, UpToStart
<1>6. AnswersInv'
  BY <1>4
  DEF AnswersInv, UpToBars, UpToErrors, UpToDay, UpToCompare, UpToWindow, UpToTrend, UpToStart
<1>7. QED
  BY <1>2, <1>3, <1>4, <1>5, <1>6 DEF PageInv

(* The day of a link is a day of the window, and its count is that of the  *)
(* trend. *)
LEMMA ClickKeepsPage ==
  ASSUME PageInv, Click
  PROVE  PageInv'
<1>1. /\ page # None /\ page.at = "shown" /\ since' = since /\ UNCHANGED vars
      /\ PageOK /\ WindowsInv /\ TrendInv /\ AnswersInv
  BY DEF Click, Shown, PageInv
<1>2. "shown" \notin UpToBars /\ "shown" \notin UpToErrors /\ "shown" \notin UpToTrend
      /\ "shown" \notin UpToStart /\ "shown" # "status_start"
  BY DEF UpToBars, UpToErrors, UpToDay, UpToCompare, UpToWindow, UpToTrend, UpToStart
<1>3. PICK q \in Request : q = page.request
  BY <1>1 DEF PageOK
<1>4. PICK days \in Nat \ {0} : days = q.days
  BY DEF Request
<1>5. PICK trend \in [1 .. days -> [day : Int, runs : Nat, failures : Nat]] :
        /\ trend = page.got.trend
        /\ \A i \in 1 .. days : trend[i].day = page.got.start + i - 1
  BY <1>1, <1>2, <1>3, <1>4 DEF TrendInv
<1>6. Len(trend) = days
  BY <1>5
<1>7. PICK i \in 1 .. days : page' = Page(DayLink(trend[i].day), trend[i])
  BY <1>5, <1>6 DEF Click
<1>8. PICK day \in Int : day = trend[i].day
  BY <1>5
<1>9. PICK link : link = DayLink(day)
  OBVIOUS
<1>10. link \in Request /\ link.days = days /\ link.agent = q.agent /\ link.day = day
  <2>1. PICK query, agent, compare, clicked :
          /\ agent \in Agents \cup {None}
          /\ q = [query |-> query, days |-> days, agent |-> agent, compare |-> compare,
                  day |-> clicked]
    BY <1>3, <1>4 DEF Request
  <2>2. link = [q EXCEPT !.day = day, !.query = None, !.compare = None]
    BY <1>3, <1>9 DEF DayLink
  <2>3. link = [query |-> None, days |-> days, agent |-> agent, compare |-> None, day |-> day]
    BY <2>1, <2>2
  <2>4. QED
    BY <2>1, <2>3 DEF Request
<1>11. /\ page' # None => PageOK' /\ DetailsInv' /\ TrendInv'
       /\ page'.request = link /\ page'.clicked = trend[i] /\ page'.at = "list"
  BY <1>7, <1>8, <1>9, <1>10, FreshPage
<1>12. StoreInv' /\ SinceOK' /\ WindowStart(days)' = WindowStart(days)
  BY <1>1, ReadsKeepTables DEF PageInv, SinceOK, WindowStart, vars
<1>13. WindowsInv'
  <2>1. PICK start \in Int :
          /\ start = page.got.start /\ start <= WindowStart(days)
          /\ ~since.midnight => start = WindowStart(days)
    BY <1>1, <1>2, <1>3, <1>4 DEF WindowsInv, StartOK
  <2>2. day = start + i - 1
    BY <1>5, <1>8, <2>1
  <2>3. WindowStart(days) \in Int
    <3>1. Day(now) \in Int
      BY DaysPass DEF PageInv, StoreInv, TypeOK, TablesTypeOK
    <3>2. QED
      BY <3>1 DEF WindowStart
  <2>4. HoldsClicked(WindowStart(days))'
    BY <1>1, <1>8, <1>10, <1>11, <1>12, <2>1, <2>2, <2>3 DEF HoldsClicked
  <2>5. QED
    BY <1>8, <1>10, <1>11, <2>4
    DEF WindowsInv, UpToErrors, UpToDay, UpToCompare, UpToWindow, UpToTrend, UpToStart
<1>14. AnswersInv'
  <2>1. since.changed = {} => trend[i].runs = Cardinality(StartedOn(day, q.agent))
    <3> SUFFICES ASSUME since.changed = {}
                 PROVE  trend[i].runs = Cardinality(StartedOn(day, q.agent))
      OBVIOUS
    <3>1. trend = FailureTrend(page.got.start, days, q.agent)
      BY <1>1, <1>2, <1>3, <1>4, <1>5 DEF AnswersInv
    <3>2. trend[i] = Point(page.got.start + i - 1, StartedOn(page.got.start + i - 1, q.agent))
      BY <3>1 DEF FailureTrend
    <3>3. QED
      BY <1>5, <1>8, <3>2 DEF Point
  <2>2. runs' = runs
    BY <1>1 DEF vars
  <2>3. StartedOn(day, q.agent)' = StartedOn(day, q.agent)
    BY <2>2, SameAnswers
  <2>4. QED
    BY <1>1, <1>8, <1>10, <1>11, <2>1, <2>3
    DEF AnswersInv, UpToBars, UpToErrors, UpToDay, UpToCompare, UpToWindow, UpToTrend, UpToStart
<1>15. QED
  BY <1>11, <1>12, <1>13, <1>14 DEF PageInv

(* A read adds one answer. *)
LEMMA ReadAddsAnswer ==
  ASSUME PageOK, page # None, Read
  PROVE  /\ page.at \in Parts /\ UNCHANGED <<vars, since>>
         /\ page' = [request |-> page.request, clicked |-> page.clicked,
                     at |-> page'.at, got |-> page'.got]
         /\ page'.request = page.request /\ page'.clicked = page.clicked
         /\ DOMAIN page'.got = Parts
         /\ page'.got[page.at] = Answer(page.at)
         /\ \A part \in Parts \ {page.at} : page'.got[part] = page.got[part]
         /\ page'.at = After(page.at, page'.got, page.request)
<1>1. PICK request, clicked, at, got :
        /\ page = [request |-> request, clicked |-> clicked, at |-> at, got |-> got]
        /\ at \in Parts \cup {"shown"} /\ DOMAIN got = Parts
  BY DEF PageOK
<1>2. PICK next : next = [page.got EXCEPT ![page.at] = Answer(page.at)]
  OBVIOUS
<1>3. /\ page' = [page EXCEPT !.got = next, !.at = After(page.at, next, page.request)]
      /\ page.at # "shown" /\ UNCHANGED <<vars, since>>
  BY <1>2 DEF Read, Loading
<1>4. page' = [request |-> request, clicked |-> clicked,
               at |-> After(page.at, next, page.request), got |-> next]
  BY <1>1, <1>3
<1>5. /\ page'.got = next /\ page'.at = After(page.at, next, page.request)
      /\ page'.request = request /\ page'.clicked = clicked
  BY <1>4
<1>6. at \in Parts /\ page.at = at /\ page.got = got
  BY <1>1, <1>3
<1>7. /\ DOMAIN next = Parts /\ next[at] = Answer(page.at)
      /\ \A part \in Parts \ {at} : next[part] = got[part]
  BY <1>1, <1>2, <1>6
<1>8. QED
  BY <1>1, <1>3, <1>4, <1>5, <1>6, <1>7

(* How a page goes from read to read. *)
LEMMA ReadsFollowInOrder ==
  ASSUME PageOK, page # None, Read
  PROVE  /\ page'.at \in Parts \cup {"shown"}
         /\ page'.at # "list"
         /\ page'.at = "list_tools" =>
              /\ page.at \in {"list", "list_tools"}
              /\ Len(page'.got.list_tools) < Len(page'.got.list)
         /\ page'.at \notin {"list", "list_tools"} /\ page.at \in {"list", "list_tools"} =>
              ~(Len(page'.got.list_tools) < Len(page'.got.list))
         /\ page'.at \notin UpToStart => page.at = "start" \/ page.at \notin UpToStart
         /\ page'.at \notin UpToTrend => page.at = "trend" \/ page.at \notin UpToTrend
         /\ page'.at \notin UpToWindow =>
              \/ page.at = "compare_start" \/ page.at \notin UpToWindow
              \/ ~Overlaid(page.request)
         /\ page'.at \notin UpToCompare =>
              \/ page.at = "compare" \/ page.at \notin UpToCompare
              \/ ~Overlaid(page.request)
         /\ page'.at \in UpToDay => page.at \in UpToCompare
         /\ page'.at \notin UpToDay =>
              \/ page.at = "day" \/ page.at \notin UpToDay
              \/ page.at \in UpToCompare /\ page.request.day = None
         /\ page'.at = "day_tools" =>
              /\ page.at \in {"day", "day_tools"}
              /\ Len(page'.got.day_tools) < Len(page'.got.day)
         /\ page'.at # "day_tools" /\ page.at \in {"day", "day_tools"} =>
              ~(Len(page'.got.day_tools) < Len(page'.got.day))
         /\ page'.at \notin UpToErrors =>
              \/ page.at = "errors" \/ page.at \notin UpToErrors
              \/ page.at \in UpToCompare
              \/ page.at \in {"day", "day_tools"} /\ page'.got.day = << >>
         /\ page'.at \notin UpToErrors \cup {"status_start"} =>
              page.at = "status_start" \/ page.at \notin UpToErrors \cup {"status_start"}
         /\ page'.at \notin UpToBars => page.at = "status" \/ page.at \notin UpToBars
         /\ page'.at = "shown" => page.at = "agents"
<1> DEFINE at == page.at
           q == page.request
           got == page'.got
<1>1. page.at \in Parts /\ page'.at = After(at, got, q)
  BY ReadAddsAnswer
<1>2. CASE at \in {"list", "list_tools"}
  <2>1. page'.at = IF Len(got.list_tools) < Len(got.list) THEN "list_tools" ELSE "start"
    BY <1>1, <1>2 DEF After
  <2>2. QED
    BY <1>2, <2>1 DEF Parts, UpToBars, UpToErrors, UpToDay, UpToCompare, UpToWindow,
                      UpToTrend, UpToStart
<1>3. CASE at \in {"start", "compare_start", "status_start", "errors", "status", "agents"}
  <2>1. \/ at = "start" /\ page'.at = "trend"
        \/ at = "compare_start" /\ page'.at = "compare"
        \/ at = "errors" /\ page'.at = "status_start"
        \/ at = "status_start" /\ page'.at = "status"
        \/ at = "status" /\ page'.at = "agents"
        \/ at = "agents" /\ page'.at = "shown"
    BY <1>1, <1>3 DEF After
  <2>2. QED
    BY <1>3, <2>1 DEF Parts, UpToBars, UpToErrors, UpToDay, UpToCompare, UpToWindow,
                      UpToTrend, UpToStart
<1>4. CASE at \in {"trend", "compare"}
  <2>1. \/ at = "trend" /\ Overlaid(q) /\ page'.at = "compare_start"
        \/ /\ at = "compare" \/ ~Overlaid(q)
           /\ \/ q.day # None /\ page'.at = "day"
              \/ q.day = None /\ page'.at = "status_start"
    BY <1>1, <1>4 DEF After, AfterCompare
  <2>2. QED
    BY <1>4, <2>1 DEF Parts, UpToBars, UpToErrors, UpToDay, UpToCompare, UpToWindow,
                      UpToTrend, UpToStart
<1>5. CASE at \in {"day", "day_tools"}
  <2>1. \/ Len(got.day_tools) < Len(got.day) /\ page'.at = "day_tools"
        \/ /\ ~(Len(got.day_tools) < Len(got.day))
           /\ \/ got.day # << >> /\ page'.at = "errors"
              \/ got.day = << >> /\ page'.at = "status_start"
    BY <1>1, <1>5 DEF After, AfterDay
  <2>2. QED
    BY <1>5, <2>1 DEF Parts, UpToBars, UpToErrors, UpToDay, UpToCompare, UpToWindow,
                      UpToTrend, UpToStart
<1>6. QED
  BY <1>1, <1>2, <1>3, <1>4, <1>5 DEF Parts

(* What one read gives, part by part. *)
LEMMA Answers ==
  LET q == page.request
      got == page.got
  IN  /\ Answer("list") = Listed(q.query)
      /\ Answer("list_tools") =
           Append(got.list_tools, ToolsOf(got.list[Len(got.list_tools) + 1]))
      /\ Answer("start") = WindowStart(q.days)
      /\ Answer("trend") = FailureTrend(got.start, q.days, q.agent)
      /\ Answer("compare_start") = WindowStart(q.days)
      /\ Answer("compare") = FailureTrend(got.compare_start, q.days, q.compare)
      /\ Answer("day") = IF DayIgnored THEN << >> ELSE RunsOnDay(q.day, q.agent)
      /\ Answer("day_tools") =
           Append(got.day_tools, ToolsOf(got.day[Len(got.day_tools) + 1]))
      /\ Answer("errors") = [i \in 1 .. Len(got.day) |-> Failed(spans[got.day[i].run_id])]
      /\ Answer("status_start") = WindowStart(q.days)
      /\ Answer("status") = StatusTrend(got.status_start, q.days, q.agent)
      /\ Answer("agents") = {AgentOf[runs[r].trace] : r \in StoredRuns}
BY DEF Answer

(* The rows of both lists are rows of stored runs. *)
LEMMA ListedRows ==
  ASSUME TypeOK, NEW rows,
         \/ \E query : rows = Listed(query)
         \/ rows = << >>
         \/ \E day, agent : rows = RunsOnDay(day, agent)
  PROVE  /\ rows \in Seq(Summary)
         /\ \A i \in 1 .. Len(rows) : /\ rows[i].run_id \in RunIds /\ Stored(rows[i].run_id)
                                      /\ rows[i].status = Status(rows[i].run_id)
<1>1. CASE rows = << >>
  BY <1>1
<1>2. ASSUME NEW R \in SUBSET StoredRuns, NEW limit \in Nat, rows = Summaries(R, limit)
      PROVE  /\ rows \in Seq(Summary)
             /\ \A i \in 1 .. Len(rows) : /\ rows[i].run_id \in R
                                          /\ rows[i].status = Status(rows[i].run_id)
  <2>1. /\ rows \in Seq(Summary) /\ Len(rows) = AtMost(Cardinality(R), limit)
        /\ \A i \in 1 .. Len(rows) : /\ rows[i].run_id \in R
                                     /\ rows[i].status = Status(rows[i].run_id)
        /\ \A i, j \in 1 .. Len(rows) : rows[i].run_id = rows[j].run_id => i = j
    BY <1>2, ListsShowRuns
  <2>2. QED
    BY <2>1
<1>3. \A query : {r \in StoredRuns : query = None \/ runs[r].trace \in Matching[query]}
                   \in SUBSET StoredRuns
  OBVIOUS
<1>4. \A day, agent : StartedOn(day, agent) \in SUBSET StoredRuns
  BY DEF StartedOn, OfAgent
<1>5. CASE rows # << >>
  <2>1. PICK R \in SUBSET StoredRuns : \E limit \in Nat : rows = Summaries(R, limit)
    BY <1>3, <1>4, <1>5, DashboardAssumption DEF Listed, RunsOnDay
  <2>2. PICK limit \in Nat : rows = Summaries(R, limit)
    BY <2>1
  <2>3. /\ rows \in Seq(Summary)
        /\ \A i \in 1 .. Len(rows) : /\ rows[i].run_id \in R
                                     /\ rows[i].status = Status(rows[i].run_id)
    BY <1>2, <2>2
  <2>4. QED
    BY <2>3 DEF StoredRuns
<1>6. QED
  BY <1>1, <1>5

(* The tool spans of a run, read on their own, are those of its document.  *)
LEMMA ToolsAreRecorded ==
  ASSUME StoreInv, NEW row, row.run_id \in RunIds
  PROVE  /\ ToolsOf(row) \in ToolCounts
         /\ Stored(row.run_id) => ToolsOf(row) = ToolsRecorded(row.run_id)
<1>1. spans[row.run_id] \in SUBSET SpanIds
  BY DEF StoreInv, TypeOK, TablesTypeOK
<1>2. Stored(row.run_id) => spans[row.run_id] = SpansOf[runs[row.run_id].trace]
  BY DEF StoreInv, TablesAgree, SpansMatchTrace
<1>3. QED
  BY <1>1, <1>2 DEF ToolsOf, ToolsRecorded, ToolCounts

(* What is read has the type of its part. *)
LEMMA ReadKeepsTypes ==
  ASSUME StoreInv, PageOK, page # None, DetailsInv, Read
  PROVE  PageOK'
<1>1. /\ page.at \in Parts
      /\ page' = [request |-> page'.request, clicked |-> page'.clicked,
                  at |-> page'.at, got |-> page'.got]
      /\ page'.request = page.request
      /\ DOMAIN page'.got = Parts
      /\ page'.got[page.at] = Answer(page.at)
      /\ \A part \in Parts \ {page.at} : page'.got[part] = page.got[part]
  BY ReadAddsAnswer
<1>2. page'.at \in Parts \cup {"shown"}
  BY ReadsFollowInOrder
<1>3. \A rows \in Seq(Summary) : \A i \in 1 .. Len(rows) : rows[i].run_id \in RunIds
  BY RowsNameRuns
<1>4. page'.got.list \in Seq(Summary) /\ page'.got.day \in Seq(Summary)
  <2>1. Answer("list") \in Seq(Summary) /\ Answer("day") \in Seq(Summary)
    BY Answers, ListedRows DEF StoreInv
  <2>2. QED
    BY <1>1, <2>1 DEF PageOK, Parts
<1>5. page'.got.list_tools \in Seq(ToolCounts)
  <2>1. CASE page.at = "list_tools"
    <3>1. PICK row : row = page.got.list[Len(page.got.list_tools) + 1]
      OBVIOUS
    <3>2. row.run_id \in RunIds
      <4>1. page.got.list \in Seq(Summary) /\ Len(page.got.list_tools) \in Nat
        BY DEF PageOK
      <4>2. Len(page.got.list_tools) < Len(page.got.list)
        BY <2>1 DEF DetailsInv
      <4>3. Len(page.got.list_tools) + 1 \in 1 .. Len(page.got.list)
        BY <4>1, <4>2
      <4>4. QED
        BY <1>3, <3>1, <4>1, <4>3
    <3>3. page'.got.list_tools = Append(page.got.list_tools, ToolsOf(row))
      BY <1>1, <2>1, <3>1, Answers
    <3>4. QED
      BY <3>2, <3>3, ToolsAreRecorded DEF PageOK
  <2>2. QED
    BY <1>1, <2>1 DEF PageOK, Parts
<1>6. page'.got.day_tools \in Seq(ToolCounts)
  <2>1. CASE page.at = "day_tools"
    <3>1. PICK row : row = page.got.day[Len(page.got.day_tools) + 1]
      OBVIOUS
    <3>2. row.run_id \in RunIds
      <4>1. page.got.day \in Seq(Summary) /\ Len(page.got.day_tools) \in Nat
        BY DEF PageOK
      <4>2. Len(page.got.day_tools) < Len(page.got.day)
        BY <2>1 DEF DetailsInv
      <4>3. Len(page.got.day_tools) + 1 \in 1 .. Len(page.got.day)
        BY <4>1, <4>2
      <4>4. QED
        BY <1>3, <3>1, <4>1, <4>3
    <3>3. page'.got.day_tools = Append(page.got.day_tools, ToolsOf(row))
      BY <1>1, <2>1, <3>1, Answers
    <3>4. QED
      BY <3>2, <3>3, ToolsAreRecorded DEF PageOK
  <2>2. QED
    BY <1>1, <2>1 DEF PageOK, Parts
<1>7. QED
  BY <1>1, <1>2, <1>4, <1>5, <1>6 DEF PageOK

(* A window starts on the day its clock is read. *)
LEMMA ReadKeepsWindows ==
  ASSUME StoreInv, PageOK, page # None, WindowsInv, TrendInv, Read
  PROVE  WindowsInv' /\ TrendInv'
<1>1. /\ page.at \in Parts /\ since' = since /\ now' = now
      /\ page'.request = page.request /\ page'.clicked = page.clicked
      /\ page'.got[page.at] = Answer(page.at)
      /\ \A part \in Parts \ {page.at} : page'.got[part] = page.got[part]
  BY ReadAddsAnswer DEF vars
<1>2. /\ page'.at \notin UpToStart => page.at = "start" \/ page.at \notin UpToStart
      /\ page'.at \notin UpToTrend => page.at = "trend" \/ page.at \notin UpToTrend
      /\ page'.at \notin UpToWindow =>
           \/ page.at = "compare_start" \/ page.at \notin UpToWindow
           \/ ~Overlaid(page.request)
      /\ page'.at \notin UpToErrors \cup {"status_start"} =>
           page.at = "status_start" \/ page.at \notin UpToErrors \cup {"status_start"}
  BY ReadsFollowInOrder
<1>3. \A days : WindowStart(days)' = WindowStart(days)
  BY <1>1 DEF WindowStart
<1>4. PICK days \in Nat \ {0} : days = page.request.days
  BY DEF PageOK, Request
<1>5. WindowStart(days) \in Int /\ StartOK(WindowStart(days))
  <2>1. Day(now) \in Int
    BY DaysPass DEF StoreInv, TypeOK, TablesTypeOK
  <2>2. WindowStart(days) \in Int
    BY <2>1 DEF WindowStart
  <2>3. QED
    BY <1>4, <2>2 DEF StartOK
<1>6. /\ \A start : StartOK(start) => StartOK(start)'
      /\ \A start : HoldsClicked(start) => HoldsClicked(start)'
  BY <1>1, <1>3 DEF StartOK, HoldsClicked
<1>7. page'.at \notin UpToStart =>
        /\ StartOK(page'.got.start)
        /\ page.clicked # None => HoldsClicked(page'.got.start)
  <2>1. CASE page.at = "start"
    <3>1. page'.got.start = WindowStart(days)
      BY <1>1, <1>4, <2>1, Answers
    <3>2. QED
      BY <1>4, <1>5, <3>1 DEF WindowsInv
  <2>2. CASE page.at # "start"
    <3>1. page'.got.start = page.got.start
      BY <1>1, <2>2 DEF Parts
    <3>2. QED
      BY <1>2, <2>2, <3>1 DEF WindowsInv
  <2>3. QED
    BY <2>1, <2>2
<1>8. page'.at \notin UpToWindow /\ Overlaid(page.request) => StartOK(page'.got.compare_start)
  <2>1. CASE page.at = "compare_start"
    <3>1. page'.got.compare_start = WindowStart(days)
      BY <1>1, <1>4, <2>1, Answers
    <3>2. QED
      BY <1>5, <3>1
  <2>2. CASE page.at # "compare_start"
    <3>1. page'.got.compare_start = page.got.compare_start
      BY <1>1, <2>2 DEF Parts
    <3>2. QED
      BY <1>2, <2>2, <3>1 DEF WindowsInv
  <2>3. QED
    BY <2>1, <2>2
<1>9. page'.at \notin UpToErrors \cup {"status_start"} => StartOK(page'.got.status_start)
  <2>1. CASE page.at = "status_start"
    <3>1. page'.got.status_start = WindowStart(days)
      BY <1>1, <1>4, <2>1, Answers
    <3>2. QED
      BY <1>5, <3>1
  <2>2. CASE page.at # "status_start"
    <3>1. page'.got.status_start = page.got.status_start
      BY <1>1, <2>2 DEF Parts
    <3>2. QED
      BY <1>2, <2>2, <3>1 DEF WindowsInv
  <2>3. QED
    BY <2>1, <2>2
<1>10. WindowsInv'
  BY <1>1, <1>3, <1>6, <1>7, <1>8, <1>9 DEF WindowsInv
<1>11. TrendInv'
  <2>1. CASE page.at = "trend"
    <3>1. PICK start \in Int : start = page.got.start
      BY <2>1 DEF WindowsInv, StartOK, UpToStart
    <3>2. page'.got.start = start
      BY <1>1, <2>1, <3>1 DEF Parts
    <3>3. page'.got.trend = FailureTrend(start, days, page.request.agent)
      BY <1>1, <1>4, <2>1, <3>1, Answers
    <3>4. PICK agent : agent = page.request.agent
      OBVIOUS
    <3>5. \A i \in 1 .. days :
            Point(start + i - 1, StartedOn(start + i - 1, agent))
              \in [day : Int, runs : Nat, failures : Nat]
      <4> SUFFICES ASSUME NEW i \in 1 .. days
                   PROVE  Point(start + i - 1, StartedOn(start + i - 1, agent))
                            \in [day : Int, runs : Nat, failures : Nat]
        OBVIOUS
      <4>1. PICK R \in SUBSET StoredRuns : R = StartedOn(start + i - 1, agent)
        BY DEF StartedOn, OfAgent
      <4>2. Cardinality(R) \in Nat /\ Cardinality({r \in R : Status(r) = "error"}) \in Nat
        BY StoredSets DEF StoreInv
      <4>3. QED
        BY <4>1, <4>2 DEF Point
    <3>6. page'.got.trend = [i \in 1 .. days |->
                               Point(start + i - 1, StartedOn(start + i - 1, agent))]
      BY <3>3, <3>4 DEF FailureTrend
    <3>7. \A i \in 1 .. days :
            Point(start + i - 1, StartedOn(start + i - 1, agent)).day = start + i - 1
      BY DEF Point
    <3>8. /\ page'.got.trend \in [1 .. days -> [day : Int, runs : Nat, failures : Nat]]
          /\ \A i \in 1 .. days : page'.got.trend[i].day = start + i - 1
      BY <3>5, <3>6, <3>7
    <3>9. QED
      BY <1>1, <1>4, <3>2, <3>8 DEF TrendInv
  <2>2. CASE page.at \in UpToTrend \ {"trend"}
    BY <1>2, <2>2 DEF TrendInv
  <2>3. CASE page.at \notin UpToTrend
    <3>1. page'.got.start = page.got.start /\ page'.got.trend = page.got.trend
      BY <1>1, <2>3 DEF Parts, UpToTrend, UpToStart
    <3>2. QED
      BY <1>1, <2>3, <3>1 DEF TrendInv
  <2>4. QED
    BY <2>1, <2>2, <2>3
<1>12. QED
  BY <1>10, <1>11

(* A list and the details of its rows that were read so far. *)
TakesRows(rows, tools) ==
  \A i \in 1 .. Len(rows) : rows[i].run_id \notin since.changed =>
    /\ Stored(rows[i].run_id)
    /\ i <= Len(tools) => tools[i] = ToolsRecorded(rows[i].run_id)

(* One more row gets its details. *)
LEMMA DetailsGrow ==
  ASSUME StoreInv, NEW rows \in Seq(Summary), NEW tools \in Seq(ToolCounts),
         Len(tools) < Len(rows), TakesRows(rows, tools)
  PROVE  LET more == Append(tools, ToolsOf(rows[Len(tools) + 1]))
         IN  Len(more) = Len(tools) + 1 /\ Len(more) <= Len(rows) /\ TakesRows(rows, more)
<1>1. PICK row : row = rows[Len(tools) + 1]
  OBVIOUS
<1>2. row.run_id \in RunIds
  BY <1>1, RowsNameRuns
<1>3. PICK n \in ToolCounts :
        n = ToolsOf(row) /\ (Stored(row.run_id) => n = ToolsRecorded(row.run_id))
  <2>1. /\ ToolsOf(row) \in ToolCounts
        /\ Stored(row.run_id) => ToolsOf(row) = ToolsRecorded(row.run_id)
    BY <1>2, ToolsAreRecorded
  <2>2. QED
    BY <2>1
<1>4. PICK more \in Seq(ToolCounts) : more = Append(tools, n)
  <2>1. Append(tools, n) \in Seq(ToolCounts)
    OBVIOUS
  <2>2. QED
    BY <2>1
<1>5. /\ Len(more) = Len(tools) + 1 /\ more[Len(tools) + 1] = n
      /\ \A i \in 1 .. Len(tools) : more[i] = tools[i]
  BY <1>4
<1>6. TakesRows(rows, more)
  <2> SUFFICES ASSUME NEW i \in 1 .. Len(rows), rows[i].run_id \notin since.changed
               PROVE  /\ Stored(rows[i].run_id)
                      /\ i <= Len(more) => more[i] = ToolsRecorded(rows[i].run_id)
    BY DEF TakesRows
  <2>1. /\ Stored(rows[i].run_id)
        /\ i <= Len(tools) => tools[i] = ToolsRecorded(rows[i].run_id)
    BY DEF TakesRows
  <2>2. CASE i = Len(tools) + 1
    BY <1>1, <1>3, <1>5, <2>1, <2>2
  <2>3. CASE i # Len(tools) + 1
    BY <1>5, <2>1, <2>3
  <2>4. QED
    BY <2>2, <2>3
<1>7. QED
  BY <1>1, <1>3, <1>4, <1>5, <1>6

(* A run whose row says it failed has a failed span, read on its own. *)
LEMMA FailuresAreRecorded ==
  ASSUME StoreInv, NEW r \in RunIds, Stored(r)
  PROVE  Failed(spans[r]) # {} <=> Status(r) = "error"
<1>1. spans[r] = SpansOf[runs[r].trace]
  BY DEF StoreInv, TablesAgree, SpansMatchTrace
<1>2. QED
  BY <1>1 DEF Failed, Status

(* Details are added to the rows they were asked for. *)
LEMMA ReadKeepsDetails ==
  ASSUME StoreInv, PageOK, page # None, DetailsInv, Read
  PROVE  DetailsInv'
<1> DEFINE got == page.got
<1>1. /\ page.at \in Parts /\ since' = since
      /\ runs' = runs /\ spans' = spans
      /\ page'.got[page.at] = Answer(page.at)
      /\ \A part \in Parts \ {page.at} : page'.got[part] = got[part]
  BY ReadAddsAnswer DEF vars
<1>2. /\ page'.at # "list"
      /\ page'.at = "list_tools" =>
           /\ page.at \in {"list", "list_tools"}
           /\ Len(page'.got.list_tools) < Len(page'.got.list)
      /\ page'.at \notin {"list", "list_tools"} /\ page.at \in {"list", "list_tools"} =>
           ~(Len(page'.got.list_tools) < Len(page'.got.list))
      /\ page'.at \in UpToDay => page.at \in UpToCompare
      /\ page'.at = "day_tools" =>
           /\ page.at \in {"day", "day_tools"}
           /\ Len(page'.got.day_tools) < Len(page'.got.day)
      /\ page'.at # "day_tools" /\ page.at \in {"day", "day_tools"} =>
           ~(Len(page'.got.day_tools) < Len(page'.got.day))
      /\ page'.at \notin UpToErrors =>
           \/ page.at = "errors" \/ page.at \notin UpToErrors
           \/ page.at \in UpToCompare
           \/ page.at \in {"day", "day_tools"} /\ page'.got.day = << >>
  BY ReadsFollowInOrder
<1>3. PageOK'
  BY ReadKeepsTypes
<1>4. /\ Len(got.list) \in Nat /\ Len(got.list_tools) \in Nat
      /\ Len(got.day) \in Nat /\ Len(got.day_tools) \in Nat
      /\ Len(page'.got.list) \in Nat /\ Len(page'.got.list_tools) \in Nat
      /\ Len(page'.got.day) \in Nat /\ Len(page'.got.day_tools) \in Nat
  BY <1>3 DEF PageOK
<1>5. \A rows, tools : TakesRows(rows, tools)' = TakesRows(rows, tools)
  BY <1>1 DEF TakesRows, Stored, ToolsRecorded
<1>6. /\ Len(page'.got.list_tools) <= Len(page'.got.list)
      /\ page.at \notin {"list", "list_tools"} =>
           Len(page'.got.list_tools) = Len(page'.got.list)
      /\ TakesRows(page'.got.list, page'.got.list_tools)
  <2>1. TakesRows(got.list, got.list_tools)
    BY DEF DetailsInv, TakesRows
  <2>2. CASE page.at = "list"
    <3>1. /\ page'.got.list = Listed(page.request.query)
          /\ page'.got.list_tools = got.list_tools /\ Len(got.list_tools) = 0
      BY <1>1, <1>4, <2>2, Answers DEF Parts, DetailsInv
    <3>2. \A i \in 1 .. Len(page'.got.list) : Stored(page'.got.list[i].run_id)
      BY <3>1, ListedRows DEF StoreInv
    <3>3. QED
      BY <1>4, <2>2, <3>1, <3>2 DEF TakesRows
  <2>3. CASE page.at = "list_tools"
    <3>1. /\ page'.got.list = got.list
          /\ page'.got.list_tools =
               Append(got.list_tools, ToolsOf(got.list[Len(got.list_tools) + 1]))
      BY <1>1, <2>3, Answers DEF Parts
    <3>2. QED
      BY <2>1, <2>3, <3>1, DetailsGrow DEF PageOK, DetailsInv
  <2>4. CASE page.at \notin {"list", "list_tools"}
    <3>1. page'.got.list = got.list /\ page'.got.list_tools = got.list_tools
      BY <1>1, <2>4 DEF Parts
    <3>2. QED
      BY <1>4, <2>1, <2>4, <3>1 DEF DetailsInv
  <2>5. QED
    BY <2>2, <2>3, <2>4
<1>7. page'.at \in UpToDay => page'.got.day = << >>
  <2> SUFFICES ASSUME page'.at \in UpToDay
               PROVE  page'.got.day = << >>
    OBVIOUS
  <2>1. page.at \in UpToDay /\ page.at # "day"
    BY <1>2 DEF UpToDay, UpToCompare, UpToWindow, UpToTrend, UpToStart
  <2>2. QED
    BY <1>1, <2>1 DEF DetailsInv, Parts
<1>8. /\ Len(page'.got.day_tools) <= Len(page'.got.day)
      /\ page.at \notin {"day", "day_tools"} =>
           Len(page'.got.day_tools) = Len(page'.got.day)
      /\ TakesRows(page'.got.day, page'.got.day_tools)
  <2>1. TakesRows(got.day, got.day_tools)
    BY DEF DetailsInv, TakesRows
  <2>2. CASE page.at = "day"
    <3>1. /\ \/ page'.got.day = << >>
             \/ page'.got.day = RunsOnDay(page.request.day, page.request.agent)
          /\ page'.got.day_tools = got.day_tools
      BY <1>1, <2>2, Answers DEF Parts
    <3>2. Len(got.day_tools) = 0
      BY <1>4, <2>2 DEF DetailsInv, UpToDay
    <3>3. \A i \in 1 .. Len(page'.got.day) : Stored(page'.got.day[i].run_id)
      BY <3>1, ListedRows DEF StoreInv
    <3>4. QED
      BY <1>4, <2>2, <3>1, <3>2, <3>3 DEF TakesRows
  <2>3. CASE page.at = "day_tools"
    <3>1. /\ page'.got.day = got.day
          /\ page'.got.day_tools =
               Append(got.day_tools, ToolsOf(got.day[Len(got.day_tools) + 1]))
      BY <1>1, <2>3, Answers DEF Parts
    <3>2. QED
      BY <2>1, <2>3, <3>1, DetailsGrow DEF PageOK, DetailsInv
  <2>4. CASE page.at \notin {"day", "day_tools"}
    <3>1. page'.got.day = got.day /\ page'.got.day_tools = got.day_tools
      BY <1>1, <2>4 DEF Parts
    <3>2. QED
      BY <1>4, <2>1, <2>4, <3>1 DEF DetailsInv
  <2>5. QED
    BY <2>2, <2>3, <2>4
<1>9. ASSUME NEW i \in 1 .. Len(page'.got.day), page'.got.day[i].run_id \notin since.changed
      PROVE  page'.got.day[i].status = Status(page'.got.day[i].run_id)
  <2>1. CASE page.at = "day"
    <3>1. \/ page'.got.day = << >>
          \/ page'.got.day = RunsOnDay(page.request.day, page.request.agent)
      BY <1>1, <2>1, Answers
    <3>2. QED
      BY <3>1, ListedRows DEF StoreInv
  <2>2. CASE page.at # "day"
    <3>1. page'.got.day = got.day
      BY <1>1, <2>2 DEF Parts
    <3>2. QED
      BY <1>9, <3>1 DEF DetailsInv
  <2>3. QED
    BY <2>1, <2>2
<1>10. ASSUME NEW i \in 1 .. Len(page'.got.day), page'.got.day[i].run_id \notin since.changed,
              page'.at \notin UpToErrors
       PROVE  page'.got.errors[i] # {} <=> page'.got.day[i].status = "error"
  <2>1. CASE page.at = "errors"
    <3>1. PICK r \in RunIds : r = page'.got.day[i].run_id
      BY <1>3, RowsNameRuns DEF PageOK
    <3>2. Stored(r)
      BY <1>8, <1>10, <3>1 DEF TakesRows
    <3>3. page'.got.day = got.day
      BY <1>1, <2>1 DEF Parts
    <3>4. page'.got.errors = [j \in 1 .. Len(got.day) |-> Failed(spans[got.day[j].run_id])]
      BY <1>1, <2>1, Answers
    <3>5. page'.got.errors[i] = Failed(spans[r])
      BY <3>1, <3>3, <3>4
    <3>6. QED
      BY <1>9, <1>10, <3>1, <3>2, <3>5, FailuresAreRecorded
  <2>2. CASE page.at \notin UpToErrors
    <3>1. page'.got.day = got.day /\ page'.got.errors = got.errors
      BY <1>1, <2>2 DEF Parts, UpToErrors, UpToDay
    <3>2. QED
      BY <1>10, <2>2, <3>1 DEF DetailsInv
  <2>3. CASE page.at \in UpToCompare
    <3>1. page'.got.day = << >>
      BY <1>1, <2>3 DEF DetailsInv, Parts, UpToDay, UpToCompare, UpToWindow, UpToTrend, UpToStart
    <3>2. QED
      BY <3>1
  <2>4. QED
    BY <1>2, <1>10, <2>1, <2>2, <2>3
<1>11. DetailsInv'
  <2>1. \A i \in 1 .. Len(page'.got.list) : page'.got.list[i].run_id \notin since.changed =>
          /\ Stored(page'.got.list[i].run_id)
          /\ i <= Len(page'.got.list_tools) =>
               page'.got.list_tools[i] = ToolsRecorded(page'.got.list[i].run_id)
    BY <1>6 DEF TakesRows
  <2>2. \A i \in 1 .. Len(page'.got.day) : page'.got.day[i].run_id \notin since.changed =>
          /\ Stored(page'.got.day[i].run_id)
          /\ i <= Len(page'.got.day_tools) =>
               page'.got.day_tools[i] = ToolsRecorded(page'.got.day[i].run_id)
    BY <1>8 DEF TakesRows
  <2>3. page'.at \notin {"list", "list_tools"} =>
          Len(page'.got.list_tools) = Len(page'.got.list)
    BY <1>2, <1>4, <1>6
  <2>4. page'.at # "day_tools" => Len(page'.got.day_tools) = Len(page'.got.day)
    BY <1>2, <1>4, <1>8
  <2>5. \A r : Stored(r)' = Stored(r) /\ Status(r)' = Status(r)
               /\ ToolsRecorded(r)' = ToolsRecorded(r)
    BY <1>1 DEF Stored, Status, ToolsRecorded
  <2>6. QED
    BY <1>1, <1>2, <1>6, <1>7, <1>8, <1>9, <1>10, <2>1, <2>2, <2>3, <2>4, <2>5 DEF DetailsInv
<1>12. QED
  BY <1>11

(* An answer is what its SELECT gives when it is read. *)
LEMMA ReadKeepsAnswers ==
  ASSUME StoreInv, PageOK, page # None, AnswersInv, Read
  PROVE  AnswersInv'
<1> SUFFICES ASSUME since'.changed = {}
             PROVE  AnswersInv'
  BY DEF AnswersInv
<1> DEFINE got == page.got
           next == page'.got
           q == page.request
<1>1. /\ page.at \in Parts /\ since.changed = {} /\ runs' = runs
      /\ page'.request = q /\ page'.clicked = page.clicked
      /\ next[page.at] = Answer(page.at)
      /\ \A part \in Parts \ {page.at} : next[part] = got[part]
  BY ReadAddsAnswer DEF vars
<1>2. /\ page'.at \notin UpToTrend => page.at = "trend" \/ page.at \notin UpToTrend
      /\ page'.at \notin UpToCompare =>
           \/ page.at = "compare" \/ page.at \notin UpToCompare \/ ~Overlaid(q)
      /\ page'.at \notin UpToDay =>
           \/ page.at = "day" \/ page.at \notin UpToDay
           \/ page.at \in UpToCompare /\ q.day = None
      /\ page'.at \notin UpToBars => page.at = "status" \/ page.at \notin UpToBars
      /\ page'.at = "shown" => page.at = "agents"
  BY ReadsFollowInOrder
<1>3. page'.at \notin UpToTrend => next.trend = FailureTrend(next.start, q.days, q.agent)
  <2>1. CASE page.at = "trend"
    <3>1. next.trend = FailureTrend(got.start, q.days, q.agent) /\ next.start = got.start
      BY <1>1, <2>1, Answers DEF Parts
    <3>2. QED
      BY <3>1
  <2>2. CASE page.at \notin UpToTrend
    <3>1. next.trend = got.trend /\ next.start = got.start
      BY <1>1, <2>2 DEF Parts, UpToTrend, UpToStart
    <3>2. QED
      BY <1>1, <2>2, <3>1 DEF AnswersInv
  <2>3. QED
    BY <1>2, <2>1, <2>2
<1>4. page'.at \notin UpToCompare /\ Overlaid(q) =>
        next.compare = FailureTrend(next.compare_start, q.days, q.compare)
  <2>1. CASE page.at = "compare"
    <3>1. /\ next.compare = FailureTrend(got.compare_start, q.days, q.compare)
          /\ next.compare_start = got.compare_start
      BY <1>1, <2>1, Answers DEF Parts
    <3>2. QED
      BY <3>1
  <2>2. CASE page.at \notin UpToCompare
    <3>1. next.compare = got.compare /\ next.compare_start = got.compare_start
      BY <1>1, <2>2 DEF Parts, UpToCompare, UpToWindow
    <3>2. QED
      BY <1>1, <2>2, <3>1 DEF AnswersInv
  <2>3. QED
    BY <1>2, <2>1, <2>2
<1>5. page'.at \notin UpToDay /\ q.day # None =>
        next.day = IF DayIgnored' THEN << >> ELSE RunsOnDay(q.day, q.agent)
  <2> SUFFICES ASSUME page'.at \notin UpToDay, q.day # None
               PROVE  next.day = IF DayIgnored' THEN << >> ELSE RunsOnDay(q.day, q.agent)
    OBVIOUS
  <2>1. CASE page.at = "day"
    <3>1. next.trend = got.trend
      BY <1>1, <2>1 DEF Parts
    <3>2. DayIgnored <=> DayIgnored'
      BY <1>1, <3>1 DEF DayIgnored
    <3>3. QED
      BY <1>1, <2>1, <3>2, Answers
  <2>2. CASE page.at \notin UpToDay
    <3>1. next.trend = got.trend /\ next.day = got.day
      BY <1>1, <2>2 DEF Parts, UpToDay, UpToCompare, UpToWindow, UpToTrend
    <3>2. DayIgnored <=> DayIgnored'
      BY <1>1, <3>1 DEF DayIgnored
    <3>3. got.day = IF DayIgnored THEN << >> ELSE RunsOnDay(q.day, q.agent)
      BY <1>1, <2>2 DEF AnswersInv
    <3>4. QED
      BY <3>1, <3>2, <3>3
  <2>3. QED
    BY <1>2, <2>1, <2>2
<1>6. page'.at \notin UpToBars => next.status = StatusTrend(next.status_start, q.days, q.agent)
  <2>1. CASE page.at = "status"
    <3>1. /\ next.status = StatusTrend(got.status_start, q.days, q.agent)
          /\ next.status_start = got.status_start
      BY <1>1, <2>1, Answers DEF Parts
    <3>2. QED
      BY <3>1
  <2>2. CASE page.at \notin UpToBars
    <3>1. next.status = got.status /\ next.status_start = got.status_start
      BY <1>1, <2>2 DEF Parts, UpToBars
    <3>2. QED
      BY <1>1, <2>2, <3>1 DEF AnswersInv
  <2>3. QED
    BY <1>2, <2>1, <2>2
<1>7. page'.at = "shown" => next.agents = {AgentOf[runs[r].trace] : r \in StoredRuns}
  BY <1>1, <1>2, Answers
<1>8. page.clicked # None => page.clicked.runs = Cardinality(StartedOn(page.clicked.day, q.agent))
  BY <1>1 DEF AnswersInv
<1>9. /\ \A start, days, agent :
           /\ FailureTrend(start, days, agent)' = FailureTrend(start, days, agent)
           /\ StatusTrend(start, days, agent)' = StatusTrend(start, days, agent)
      /\ \A day, agent : /\ RunsOnDay(day, agent)' = RunsOnDay(day, agent)
                         /\ StartedOn(day, agent)' = StartedOn(day, agent)
      /\ {AgentOf[runs[r].trace] : r \in StoredRuns}' = {AgentOf[runs[r].trace] : r \in StoredRuns}
      /\ \A request : Overlaid(request)' = Overlaid(request)
  BY <1>1, SameAnswers DEF Overlaid
<1>10. QED
  BY <1>1, <1>3, <1>4, <1>5, <1>6, <1>7, <1>8, <1>9 DEF AnswersInv

(* A read keeps all that is known about a page. *)
LEMMA ReadKeepsPage ==
  ASSUME PageInv, Read
  PROVE  PageInv'
<1>1. page # None /\ StoreInv /\ SinceOK /\ PageOK /\ DetailsInv /\ WindowsInv /\ TrendInv /\ AnswersInv
  BY DEF Read, Loading, PageInv
<1>2. UNCHANGED vars /\ since' = since
  BY <1>1, ReadAddsAnswer
<1>3. StoreInv' /\ SinceOK'
  BY <1>1, <1>2, ReadsKeepTables DEF SinceOK
<1>4. PageOK'
  BY <1>1, ReadKeepsTypes
<1>5. DetailsInv'
  BY <1>1, ReadKeepsDetails
<1>6. WindowsInv' /\ TrendInv'
  BY <1>1, ReadKeepsWindows
<1>7. AnswersInv'
  BY <1>1, ReadKeepsAnswers
<1>8. QED
  BY <1>3, <1>4, <1>5, <1>6, <1>7 DEF PageInv

(* So does a step of anything else. *)
LEMMA StutterKeepsPage ==
  ASSUME PageInv, UNCHANGED pageVars
  PROVE  PageInv'
<1>1. UNCHANGED vars /\ page' = page /\ since' = since /\ runs' = runs /\ now' = now
  BY DEF pageVars, vars
<1>2. StoreInv' /\ SinceOK'
  BY <1>1, ReadsKeepTables DEF PageInv, SinceOK
<1>3. CASE page # None
  <2>1. PageOK /\ DetailsInv /\ WindowsInv /\ TrendInv /\ AnswersInv
    BY <1>3 DEF PageInv
  <2>2. PageOK' /\ DetailsInv'
    BY <1>1, <2>1 DEF PageOK, DetailsInv, Stored, Status, ToolsRecorded
  <2>3. WindowsInv' /\ TrendInv'
    BY <1>1, <2>1 DEF WindowsInv, StartOK, HoldsClicked, WindowStart, TrendInv
  <2>4. AnswersInv'
    BY <1>1, <2>1, AnswersStay
  <2>5. QED
    BY <1>2, <2>2, <2>3, <2>4 DEF PageInv
<1>4. QED
  BY <1>1, <1>2, <1>3 DEF PageInv

(* PageInv is inductive. *)
LEMMA NextPageInv == PageInv /\ [PageNext]_pageVars => PageInv'
<1> SUFFICES ASSUME PageInv, [PageNext]_pageVars
             PROVE  PageInv'
  OBVIOUS
<1>1. CASE StoreStep
  BY <1>1, StoreStepKeepsPage
<1>2. CASE Midnight
  BY <1>2, MidnightKeepsPage
<1>3. CASE \E request \in Requests : Open(request)
  BY <1>3, OpenKeepsPage
<1>4. CASE Read
  BY <1>4, ReadKeepsPage
<1>5. CASE Click
  BY <1>5, ClickKeepsPage
<1>6. CASE UNCHANGED pageVars
  BY <1>6, StutterKeepsPage
<1>7. QED
  BY <1>1, <1>2, <1>3, <1>4, <1>5, <1>6 DEF PageNext

-----------------------------------------------------------------------------
(***************************************************************************)
(* What readers see.                                                       *)
(***************************************************************************)

(* Every page is put together from answers that are right one by one.      *)
THEOREM PagesStaySound == PageSpec => []PageInv
<1>1. PageInit => PageInv
  BY InitPageInv
<1>2. PageInv /\ [PageNext]_pageVars => PageInv'
  BY NextPageInv
<1>3. QED
  BY <1>1, <1>2, PTL DEF PageSpec

(* A shown page has been read to its end. *)
LEMMA ShownIsLast ==
  /\ "shown" \notin UpToStart /\ "shown" \notin UpToTrend /\ "shown" \notin UpToWindow
  /\ "shown" \notin UpToCompare /\ "shown" \notin UpToDay /\ "shown" \notin UpToErrors
  /\ "shown" \notin UpToErrors \cup {"status_start"} /\ "shown" \notin UpToBars
  /\ "shown" \notin {"list", "list_tools"} /\ "shown" # "day_tools"
BY DEF UpToBars, UpToErrors, UpToDay, UpToCompare, UpToWindow, UpToTrend, UpToStart

(* Rows and details of a run nobody changed agree (runs_on_day, "Each      *)
(* summary includes ordered failed-span details").                         *)
THEOREM RowsAlwaysMatchTheirDetails == PageSpec => []RowsMatchTheirDetails
<1>1. ASSUME PageInv
      PROVE  RowsMatchTheirDetails
  <2> SUFFICES ASSUME Shown
               PROVE  RowsMatchTheirDetails
    BY DEF RowsMatchTheirDetails
  <2>1. /\ page.at = "shown" /\ DetailsInv
        /\ Len(page.got.list) \in Nat /\ Len(page.got.day) \in Nat
    BY <1>1 DEF Shown, PageInv, PageOK
  <2>2. \A i \in 1 .. Len(page.got.list) : page.got.list[i].run_id \notin since.changed =>
          page.got.list_tools[i] = ToolsRecorded(page.got.list[i].run_id)
    BY <2>1, ShownIsLast DEF DetailsInv
  <2>3. \A i \in 1 .. Len(page.got.day) : page.got.day[i].run_id \notin since.changed =>
          /\ page.got.day_tools[i] = ToolsRecorded(page.got.day[i].run_id)
          /\ page.got.errors[i] # {} <=> page.got.day[i].status = "error"
    BY <2>1, ShownIsLast DEF DetailsInv
  <2>4. QED
    BY <2>2, <2>3 DEF RowsMatchTheirDetails, ToolsRecorded
<1>2. QED
  BY <1>1, PagesStaySound, PTL

(* A link of a day opens the runs its point counts, unless midnight moved  *)
(* the window past the day ("A reviewer clicks a day on the trend chart    *)
(* and sees the runs that started that day").                              *)
THEOREM ClickedDaysAlwaysOpen == PageSpec => []ClickedDaysOpen
<1>1. ASSUME PageInv
      PROVE  ClickedDaysOpen
  <2> SUFFICES ASSUME Shown, page.clicked # None, since.changed = {}
               PROVE  \/ Len(page.got.day) = AtMost(page.clicked.runs, DayLimit)
                      \/ since.midnight /\ page.clicked.day < page.got.trend[1].day
    BY DEF ClickedDaysOpen
  <2>1. page.at = "shown" /\ TypeOK /\ PageOK /\ WindowsInv /\ TrendInv /\ AnswersInv
    BY <1>1 DEF Shown, PageInv, StoreInv
  <2>2. PICK days \in Nat \ {0} : days = page.request.days
    BY <2>1 DEF PageOK, Request
  <2>3. PICK day \in Int : day = page.clicked.day /\ page.request.day = day
    BY <2>1 DEF WindowsInv
  <2>4. PICK start \in Int :
          /\ start = page.got.start /\ day <= start + days - 1
          /\ ~since.midnight => start <= day
    BY <2>1, <2>2, <2>3, ShownIsLast DEF WindowsInv, StartOK, HoldsClicked
  <2>5. PICK trend \in [1 .. days -> [day : Int, runs : Nat, failures : Nat]] :
          /\ trend = page.got.trend
          /\ \A i \in 1 .. days : trend[i].day = start + i - 1
    BY <2>1, <2>2, <2>4, ShownIsLast DEF TrendInv
  <2>6. PICK S : S = StartedOn(day, page.request.agent)
    OBVIOUS
  <2>7. /\ page.got.day = IF DayIgnored THEN << >> ELSE RunsOnDay(day, page.request.agent)
        /\ page.clicked.runs = Cardinality(S)
    BY <2>1, <2>3, <2>6, ShownIsLast, DashboardAssumption DEF AnswersInv
  <2>8. CASE ~DayIgnored
    <3>1. page.got.day = Summaries(S, DayLimit) /\ S \in SUBSET StoredRuns
      BY <2>6, <2>7, <2>8 DEF RunsOnDay, StartedOn, OfAgent
    <3>2. PICK rows : rows = page.got.day
      OBVIOUS
    <3>3. Len(rows) = AtMost(Cardinality(S), DayLimit)
      BY <2>1, <3>1, <3>2, ListLengths, DashboardAssumption
    <3>4. QED
      BY <2>7, <3>2, <3>3
  <2>9. CASE DayIgnored
    <3>1. \A i \in 1 .. days : day # start + i - 1
      <4>1. Len(trend) = days
        BY <2>5
      <4>2. \A i \in 1 .. days : day # trend[i].day
        BY <2>3, <2>5, <2>9, <4>1 DEF DayIgnored, Days
      <4>3. QED
        BY <2>5, <4>2
    <3>2. day < start
      <4> SUFFICES ASSUME start <= day
                   PROVE  FALSE
        OBVIOUS
      <4>1. day - start + 1 \in 1 .. days
        BY <2>4
      <4>2. day # start + (day - start + 1) - 1
        BY <3>1, <4>1
      <4>3. QED
        BY <4>2
    <3>3. since.midnight
      BY <2>4, <3>2
    <3>4. trend[1].day = start
      BY <2>5
    <3>5. QED
      BY <2>3, <2>5, <3>2, <3>3, <3>4
  <2>10. QED
    BY <2>8, <2>9
<1>2. QED
  BY <1>1, PagesStaySound, PTL

(* The bars of a day add up to its runs. *)
LEMMA BarsAddUp ==
  ASSUME TypeOK, NEW day, NEW S \in SUBSET StoredRuns
  PROVE  LET statuses == Bar(day, S).statuses
             point == Point(day, S)
         IN  /\ Bar(day, S).day = day /\ point.day = day
             /\ point.runs = Cardinality(S)
             /\ point.failures = Cardinality({r \in S : Status(r) = "error"})
             /\ Count(statuses, "error") = point.failures
             /\ Count(statuses, "error") + Count(statuses, "ok") = point.runs
<1> DEFINE OfStatus(status) == {r \in S : Status(r) = status}
           statuses == [status \in {Status(r) : r \in S} |-> Cardinality(OfStatus(status))]
<1>1. Bar(day, S) = [day |-> day, statuses |-> statuses]
  BY DEF Bar
<1>2. /\ Point(day, S).day = day /\ Point(day, S).runs = Cardinality(S)
      /\ Point(day, S).failures = Cardinality(OfStatus("error"))
  BY DEF Point
<1>3. \A status : Count(statuses, status) = Cardinality(OfStatus(status))
  <2> SUFFICES ASSUME NEW status
               PROVE  Count(statuses, status) = Cardinality(OfStatus(status))
    OBVIOUS
  <2>1. CASE status \in {Status(r) : r \in S}
    BY <2>1 DEF Count
  <2>2. CASE status \notin {Status(r) : r \in S}
    <3>1. OfStatus(status) = {}
      BY <2>2
    <3>2. status \notin DOMAIN statuses
      BY <2>2
    <3>3. QED
      BY <3>1, <3>2, FS_EmptySet DEF Count
  <2>3. QED
    BY <2>1, <2>2
<1>4. /\ OfStatus("error") \cup OfStatus("ok") = S
      /\ OfStatus("error") \cap OfStatus("ok") = {}
  BY DEF Status
<1>5. /\ IsFiniteSet(OfStatus("error")) /\ Cardinality(OfStatus("error")) \in Nat
      /\ IsFiniteSet(OfStatus("ok")) /\ Cardinality(OfStatus("ok")) \in Nat
  BY StoredSets
<1>6. Cardinality(OfStatus("error")) + Cardinality(OfStatus("ok")) = Cardinality(S)
  <2> HIDE DEF OfStatus
  <2>1. Cardinality(S) = Cardinality(OfStatus("error")) + Cardinality(OfStatus("ok")) - Cardinality({})
    BY <1>4, <1>5, FS_Union
  <2>2. QED
    BY <1>5, <2>1, FS_EmptySet
<1>7. Bar(day, S).day = day /\ Bar(day, S).statuses = statuses
  BY <1>1
<1> HIDE DEF statuses
<1>8. QED
  BY <1>2, <1>3, <1>6, <1>7

(* All panels of a page nobody disturbed tell one story (README.md:1809    *)
(* and :1829).                                                             *)
THEOREM PanelsAlwaysAgree == PageSpec => []PanelsAgree
<1>1. ASSUME PageInv
      PROVE  PanelsAgree
  <2> SUFFICES ASSUME Shown, Quiet
               PROVE  PanelsAgree
    BY DEF PanelsAgree
  <2>1. /\ page.at = "shown" /\ TypeOK /\ PageOK /\ WindowsInv /\ AnswersInv /\ TrendInv
        /\ since.changed = {} /\ ~since.midnight
    BY <1>1 DEF Shown, Quiet, PageInv, StoreInv
  <2>2. PICK q : q = page.request
    OBVIOUS
  <2>3. PICK got : got = page.got
    OBVIOUS
  <2>4. PICK days \in Nat \ {0} : days = q.days
    BY <2>1, <2>2 DEF PageOK, Request
  <2>5. PICK start \in Int :
          /\ start = got.start /\ start = got.status_start
          /\ Overlaid(q) => start = got.compare_start
    BY <2>1, <2>2, <2>3, ShownIsLast DEF WindowsInv, StartOK
  <2>6. /\ got.trend = FailureTrend(start, days, q.agent)
        /\ got.status = StatusTrend(start, days, q.agent)
        /\ Overlaid(q) => got.compare = FailureTrend(start, days, q.compare)
        /\ got.agents = {AgentOf[runs[r].trace] : r \in StoredRuns}
    BY <2>1, <2>2, <2>3, <2>4, <2>5, ShownIsLast DEF AnswersInv
  <2>7. q.day # None => got.day = IF DayIgnored THEN << >> ELSE RunsOnDay(q.day, q.agent)
    BY <2>1, <2>2, <2>3, ShownIsLast DEF AnswersInv
  <2>8. \A day, agent : StartedOn(day, agent) \in SUBSET StoredRuns
    BY DEF StartedOn, OfAgent
  <2>9. ASSUME NEW i \in 1 .. days
        PROVE  LET point == got.trend[i]
                   bar == got.status[i]
               IN  /\ bar.day = point.day
                   /\ Count(bar.statuses, "error") = point.failures
                   /\ Count(bar.statuses, "error") + Count(bar.statuses, "ok") = point.runs
                   /\ Overlaid(q) =>
                        /\ got.compare[i].day = point.day
                        /\ q.agent = None => /\ got.compare[i].runs <= point.runs
                                             /\ got.compare[i].failures <= point.failures
                   /\ q.day = point.day =>
                        /\ Len(got.day) = AtMost(point.runs, DayLimit)
                        /\ Cardinality(FailedRows) <= point.failures
                        /\ point.runs <= DayLimit => Cardinality(FailedRows) = point.failures
                   /\ q.agent # None /\ point.runs > 0 => q.agent \in got.agents
    <3>1. PICK day \in Int : day = start + i - 1
      OBVIOUS
    <3>2. PICK S \in SUBSET StoredRuns : S = StartedOn(day, q.agent)
      BY <2>8
    <3>3. PICK point : point = Point(day, S)
      OBVIOUS
    <3>4. PICK bar : bar = Bar(day, S)
      OBVIOUS
    <3>5. got.trend[i] = point /\ got.status[i] = bar
      BY <2>6, <3>1, <3>2, <3>3, <3>4 DEF FailureTrend, StatusTrend
    <3>6. /\ bar.day = day /\ point.day = day
          /\ point.runs = Cardinality(S)
          /\ point.failures = Cardinality({r \in S : Status(r) = "error"})
          /\ Count(bar.statuses, "error") = point.failures
          /\ Count(bar.statuses, "error") + Count(bar.statuses, "ok") = point.runs
      BY <2>1, <3>3, <3>4, BarsAddUp
    <3>7. ASSUME Overlaid(q)
          PROVE  /\ got.compare[i].day = point.day
                 /\ q.agent = None => /\ got.compare[i].runs <= point.runs
                                      /\ got.compare[i].failures <= point.failures
      <4>1. PICK T \in SUBSET StoredRuns : T = StartedOn(day, q.compare)
        BY <2>8
      <4>2. PICK other : other = Point(day, T)
        OBVIOUS
      <4>3. got.compare[i] = other
        BY <2>6, <3>1, <3>7, <4>1, <4>2 DEF FailureTrend
      <4>4. /\ other.day = day /\ other.runs = Cardinality(T)
            /\ other.failures = Cardinality({r \in T : Status(r) = "error"})
        BY <4>2 DEF Point
      <4>5. q.agent = None => T \subseteq S
        BY <3>2, <4>1 DEF StartedOn, OfAgent
      <4>6. q.agent = None =>
              {r \in T : Status(r) = "error"} \subseteq {r \in S : Status(r) = "error"}
        BY <4>5
      <4>7. IsFiniteSet(S) /\ IsFiniteSet({r \in S : Status(r) = "error"})
        BY <2>1, StoredSets
      <4>8. q.agent = None => /\ other.runs <= point.runs
                              /\ other.failures <= point.failures
        BY <3>6, <4>4, <4>5, <4>6, <4>7, FS_Subset
      <4>9. QED
        BY <3>6, <4>3, <4>4, <4>8
    <3>8. ASSUME q.day = day
          PROVE  /\ Len(got.day) = AtMost(point.runs, DayLimit)
                 /\ Cardinality(FailedRows) <= point.failures
                 /\ point.runs <= DayLimit => Cardinality(FailedRows) = point.failures
      <4>1. ~DayIgnored
        <5>1. Len(got.trend) = days
          BY <2>6 DEF FailureTrend
        <5>2. QED
          BY <2>2, <2>3, <3>5, <3>6, <3>8, <5>1 DEF DayIgnored, Days
      <4>2. q.day # None
        BY <3>8, DashboardAssumption
      <4>3. PICK rows : rows = got.day
        OBVIOUS
      <4>4. rows = Summaries(S, DayLimit)
        BY <2>7, <3>2, <3>8, <4>1, <4>2, <4>3 DEF RunsOnDay
      <4>5. Len(rows) = AtMost(Cardinality(S), DayLimit)
        BY <2>1, <4>4, ListLengths, DashboardAssumption
      <4>6. LET shown == {j \in 1 .. Len(rows) : rows[j].status = "error"}
                failed == {r \in S : Status(r) = "error"}
            IN  /\ Cardinality(shown) <= Cardinality(failed)
                /\ Cardinality(S) <= DayLimit => Cardinality(shown) = Cardinality(failed)
        <5>1. DayLimit \in Nat
          BY DashboardAssumption
        <5>2. QED
          BY <2>1, <4>4, <5>1, ListsShowFailures
      <4>7. FailedRows = {j \in 1 .. Len(rows) : rows[j].status = "error"}
        BY <2>3, <4>3 DEF FailedRows
      <4>8. QED
        BY <3>6, <4>3, <4>5, <4>6, <4>7
    <3>9. ASSUME q.agent # None, point.runs > 0
          PROVE  q.agent \in got.agents
      <4>1. S # {}
        BY <3>6, <3>9, FS_EmptySet
      <4>2. PICK r \in S : TRUE
        BY <4>1
      <4>3. r \in StoredRuns /\ AgentOf[runs[r].trace] = q.agent
        BY <3>2, <3>9, <4>2 DEF StartedOn, OfAgent
      <4>4. QED
        BY <2>6, <4>3
    <3>10. QED
      BY <3>5, <3>6, <3>7, <3>8, <3>9
  <2>10. QED
    BY <2>2, <2>3, <2>4, <2>9 DEF PanelsAgree
<1>2. QED
  BY <1>1, PagesStaySound, PTL
=============================================================================
