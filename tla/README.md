# Agent Trace Workbench: a verification project

TLA+ models of `agent_trace_workbench` (Python, one SQLite library, several threads and
processes on it), model-checked with TLC, with the core proved in TLAPS.
Paths such as `storage.py:540` are relative to `src/agent_trace_workbench/` unless they begin
with another directory; `README.md:1789` is the repository's README.

## 1. The system

The workbench records the runs of agents. A *run* is a JSON trace (a tree of spans, some of
them tool calls). Runs arrive over HTTP, from a watched directory, by the command line or in
review bundles; they are kept in one SQLite database in WAL mode; reviewers label them and
decide on them; old runs are deleted on a schedule; runs are replayed, compared and published
to an OpenTelemetry collector. Nothing but the database is shared: the request threads of the
server, its cleanup thread, the watcher process and every command open connections of their
own, one per operation (`storage.py:145`).

| component | state it keeps | operations | talks to | what is hard |
|---|---|---|---|---|
| Trace library, writes (`storage.py`) | tables runs, spans, comparisons, review_decision_history | ingest, restore_review_bundle, update_annotations, bulk_set_labels, bulk_set_decisions, prune_runs, save_comparison, delete_comparison | every other component calls it | sqlite3 begins a transaction at the first write, not at a SELECT: an operation that reads first writes later on what may be outdated; lock errors, retries, crashes |
| Trace library, reads of one run | none | get_run, error_timeline, span_detail, decision_history, preview, bundle export | the writers' tables | several SELECTs, no transaction around them |
| Retention sweeps | cleanup_log | sweep_runs (protected_runs, prune_runs, _record_sweep), last_sweep | runs, other sweepers | six statements, two write transactions, each retried on its own |
| Cleanup scheduler (`scheduler.py`) | `_thread`, `_stop`, `_last_error` | start, stop, sweep, _run, status | server lifespan, sweeps | threads, a join with a timeout, a shared event |
| Directory watcher (`ingestion.py`) | `_signatures`, `_issues` | scan, watch_directory | files that change under it, ingest | a signature taken before the read, memory replaced at the end of a scan |
| Review queue | none (a page or list in the client) | unreviewed_runs, unreviewed_count, unreviewed_run_ids, `review` command | all writers | paging by offset, list-then-write |
| Library report | none | library_report | all writers | ten SELECTs, joined by name |
| Collector export (`collector.py`) | attempts | export_run_to_collector, `publish` command | network, collector | lost answers, redirects, retries, runs pruned meanwhile |
| Replay engine (`replay.py`, `handlers.py`) | handlers, policy | register, load_config, replay | code of the user | raising handlers, configurations that fail midway, side-effect budget |
| Run comparison (`compare.py`) | none | compare_runs | stored traces | two notions of equality, runs of different length |
| Lists, search, trends (`storage.py`, the dashboard of `main.py`) | none | list_runs, search_runs, trend_agents, failure_trend, failure_trend_overlay, status_trend, runs_on_day | all writers, the clock | a page of more than ten SELECTs and three readings of the clock, each panel with SQL of its own; midnight between two of them; days cut from texts with offsets |
| Schema and migration | tables and columns of the database | initialize, `_ensure_extra_columns` | other processes doing the same | each column checked first and added later, in commits of their own; kills and locks anywhere |
| Trace contract (`models.py`), OTLP (`otlp.py`) | none | validation, order, status; trace_to_otlp_json, parse_otlp_json | | round trips: identifiers hashed, attributes split and joined, times in nanoseconds |
| Command line and server handlers (`cli.py`, `main.py`) | files; the job at hand | ingest, import-otlp, export, POST /api/otlp/traces, publish, review, watch | all of the above | several calls per command, each a transaction of its own, with an end possible after each |
| CSV/JSON rendering, HTML, telemetry | none | | | |

What makes each component correct is stated by the properties of section 3.

## 2. Modules

```
 Library ──┬── AtomicStore ──── ReviewQueue ── LibraryReport        (what callers may expect)
  tables   │        ▲ refinement
  effects  ├── TraceStore ───── LibraryReads                        (what clients do)
           └── Sweeps ───────── Scheduler
           AtomicStore ──────── Dashboard
 Watcher          Collector          ToolCalls ─┬─ Replay ──┬─ Evaluation
                                                └─ Compare ─┤
                                                            └─ Otlp ─┬─ Exchange
                                                         Migration ──┘
 LibraryProofs ─┬─ AtomicStoreProofs   (rests on LibraryReport)
                ├─ TraceStoreProofs    (rests on AtomicStore and LibraryReads)
                └─ DashboardProofs     (rests on Dashboard)
 SweepsProofs   (rests on Scheduler)            WatcherProofs     CollectorProofs
 DocumentProofs (rests on Evaluation and Exchange)
```

- **Library** — the tables of `SCHEMA` as functions from run IDs (`runs`, `spans`, `history`,
  `comparisons`, the clock `now`) and the *effect* of each write transaction (`Ingested`,
  `Restored`, `Annotated`, `BulkDecided`, `Deleted` ...). A committed SQLite transaction is one
  change of the tables; `Deleted` includes the ON DELETE CASCADE of the three other tables.
- **AtomicStore** — the store as documented: one step per operation, reading and writing at once.
- **TraceStore** — the store as it runs. Per client: `call`, `pc` (read, history, begin, commit,
  readback, and `run_b`), `seen` (what the SELECT returned), `attempts`, `result`; one `lock`. `Read`
  and `ReadHistory` are SELECTs outside any transaction, `Read` and `ReadRunB` the two lookups the
  API makes before it saves a comparison (`main.py:670`); `BeginWrite` is the first write statement,
  which takes SQLite's write lock; `LockTimeout`/`LockError` are a busy timeout inside
  `_retry_on_lock` (the operation runs again from its SELECT, or raises); one `Commit...` action
  per operation applies its effect *with the values read earlier*; `RollBack` is an
  IntegrityError; `ReadBack` the `get_run` after the commit; `Crash` a process that dies.
- **LibraryReads** — extends TraceStore by readers whose requests are sequences of SELECTs
  (`SelectsOf`), with any number of commits between two of them, and by what callers make of
  an answer: `Resolved` and `HasConflicts` of a restore preview, the review of an export.
- **Sweeps** — `sweep_runs`, statement by statement: list the protected runs, select the expired
  ones, count spans and comparisons, DELETE, INSERT the log row; both writes are retried as the
  code retries them. A process dies with all its threads, so `Crash` takes any set of sweepers.
  Everybody else's operations are single steps (`Others`).
- **Scheduler** — extends Sweeps by `CleanupScheduler` and the server's lifespan: its threads are
  the sweepers. `Joined` is the end of `stop()`'s ten-second join, successful or not (constant
  `SlowPasses`); `Exit` ends the process with its daemon threads.
- **Watcher** — `DirectoryWatcher.scan` in its steps (list, stat, read, ingest, report, replace the
  memory) while agents write, rewrite and remove files. Faults are a constant.
- **ReviewQueue** — over AtomicStore: the review page (rows, then count, then Next/Previous/reload)
  and the `review` command (list, then a bulk write).
- **LibraryReport** — extends ReviewQueue by the report's SELECTs in their order and the rows put
  together from them. The operators are evaluated on the tables of each SELECT's moment.
- **Collector** — `publish` and `_post`: one action per outcome of a request.
- **ToolCalls, Replay, Compare, Evaluation** — tool calls with the two equalities the code uses
  (`==` and the canonical hash), the replay engine with its configurations and policies, the
  comparison as operators, and a library whose runs go through both.
- **Dashboard** — over AtomicStore: a page of the dashboard read by read (`page.at`: the list or
  search, its details row by row, each reading of the clock and each SELECT of the trend, the overlay,
  the runs of a day, their details and the status bars, the agents), each read at a moment of its own;
  `After` is the order of the calls; then the click on a day of the chart.
  A tick of the clock is a part of a day, so that midnight comes between two panels.
- **Migration** — `initialize` statement by statement: the CREATEs of the script, the look at the
  columns, one ALTER TABLE for each that was missing, `duplicate column name` taken as done. Any
  number of processes, on databases of any release, killed or locked out between statements.
- **Otlp** — trace documents with their validators, and both conversions as operators:
  `trace_to_otlp_json`, `parse_otlp_json`, and `RoundTrip`.
- **Exchange** — extends Otlp and Migration by the jobs that move runs: `export` of one run or
  all, `ingest` and `import-otlp` of the files it wrote, posted payloads. One step per read, file
  or ingest; others record and prune meanwhile; processes are killed, and a file they write is
  then cut short.
- **MC\*.tla** give TLC instances their constants. `*Proofs.tla` hold the proofs.

Definitions keep the source's names where TLA+ allows it; `PROJECT.json` maps each one to the
lines it stands for. A definition that follows a comment "Mutant:" is a plausible bug, not part
of any specification; each property is shown to fail for one of them.

### Ghosts

Variables that are not in the program only remember: `stale` (runs others changed since a
client's read), `overtaken` (the same for a reader), `removed` (what a sweep's DELETE took),
`recorded` and `noticed` (last document ingested from a file; whether a rewrite changed its
signature), `since` (what happened since a session opened the queue), `received`, `lost`,
`redirected` (the collector's side), Exchange's `touched` (runs others changed since a job began)
and `spent` (what is used of the bounds). No guard of a program step reads them, but for the
bounds in `since.commits` and `spent`.

### Abstractions

A trace body, label, decision, document, span is a model value; notes are treated like labels by
every statement and are merged with them; `decision_at` is only set or NULL; durations, agents and
ordering of spans matter where LibraryReport says so. The clock advances at any moment and the
cutoff of a prune is an age before the moment of the call. Comparison IDs (uuid4) are fresh.
Watched files carry a signature that changes with every write, except with the fault `coarse`.
In Otlp, what the attribute encoding does to a value is the table `Decoded` (and `EventsDecoded`
under the keys of events, links and trace state, where no value is null). Nothing is assumed of
them: `otlp.py:318` and `:349` may read a value differently a second time. The hashes that make IDs of OTLP's form are the tables `SpanHex`, `TraceHex` and `Derived`. Times are counted in
half seconds, the coarsest unit that shows what `int()` does to times before 1970. `None` is a missing
value and `Blank` the empty text, which `to_hex` hashes like any other ID. Attributes of the user's
under `workbench.tool_call` and the parent keys are abstracted to `Reserved`, the keys an import takes
for fields. In Dashboard,
the texts a search query occurs in are the table `Matching`.
A handler returns a JSON value; one whose result cannot be encoded makes `canonical_hash` raise
out of the replay (`default=str` leaves only mappings with mixed keys), which is left out.

## 3. Runs

Every passing run explores its whole state space; deadlock is checked in all of them. (In
Exchange the bounds end all work, so `Rest` lets an instance without work left stay as it is.)

| run | module | bounds | why they are enough |
|---|---|---|---|
| ReviewRaces | MCTraceStore | 2 clients, 1 run, all 8 operations, 2 decisions, 2 labels, 1 bundle (accepted with an empty history, as README.md:949 shows one), 2 attempts, calls start with histories of at most 1 entry (so 2 may arise), HistoryLimit 1, clock 0..2 | a race needs one overtaken client and one overtaker on one run; the limit of a bundle is exceeded, locks time out once and for good, a run is ingested, expires and is ingested again |
| SingleStatements | MCTraceStore | 2 clients, 2 runs, ingest, bulk label, save and delete comparison, 2 attempts, clock 0..1 | the comparison of two different runs and label sets of several runs occur; liveness, so no symmetry |
| ConcurrentSweeps | MCSweeps | 2 sweepers, 1 run, 2 labels, 1 comparison, 2 attempts, clock 0..2 | both sweeps select the same run, either deletes it first, it comes back, and log rows with equal and different times are inserted in both orders |
| CleanupSchedule | MCScheduler | 2 threads, 1 run, passes slower than `stop()`, 2 attempts, clock 0..2 | the second thread is the one a restart creates beside an abandoned one; a third would repeat it |
| WatchedDirectory | MCWatcher | 2 files, 2 documents of one run, 3 writes, faults locked, pruned, coarse | a file is written, scanned, rewritten during the next scan and once more after it; the other file carries the same run |
| LibraryReads | MCLibraryReads | 1 reader, 1 client, 1 run, 2 traces, 2 labels, 2 decisions, histories up to 2 entries, page and limit 1, clock 0..2 | a read has at most six SELECTs and one client can commit between any two; the history outgrows the page |
| Publish | MCCollector | 2 runs, 3 attempts (the code's), every fault | each run sees every sequence of outcomes, and one run is exported after another failed |
| ReplaysAndComparisons | MCEvaluation | 2 tools, 2 keys, traces of up to 2 of 5 calls, configurations of up to 2 handlers, all levels and policies | added, removed, changed and equal positions, 1 and 1.0, null and missing keys, a key that differs beside one that does not, duplicate and broken handlers |
| QueueAndReport | MCLibraryReport | 2 runs, 2 traces (one failed) of 2 agents and 2 sources, pages of 1, 1 commit during a session, clock 0..2 | the queue has more than one page; a run enters or leaves it between two reads |
| DashboardPages | MCDashboard | 2 runs, 3 traces of 2 agents (one run ahead of UTC, one behind), days of 2 ticks, windows of 1 and 2 days, 25 requests, lists of 1 row, 1 commit during a walk, clock 0..2 | a change or a midnight falls between any two panels; a list is full; a run is dated to a day other than its UTC day; 945,000 states |
| Exchange | MCExchange | 2 processes, 3 releases of a schema of 2 tables and 2 extra columns, 4 documents of 2 runs, 2 posted payloads, 2 jobs, 1 change by others, 1 kill or lock | both processes migrate at once, one dies in between and opens again; an export is followed by its import, with a run recorded or pruned during either; two runs share a file name, two groups a run ID; 1,660,000 states |

What they show:

- **ReviewRaces** — `TablesConsistent`: no interleaving, roll back or crash leaves rows that
  contradict each other. `ReadsAreCurrent`: what a client read is still so, up to what others
  changed since (retries drop it). `AtomicUnlessOvertaken`: a commit whose SELECT nobody has
  overtaken does what the atomic operation of AtomicStore does, for all eight operations.
  `HistoryBreaksOnlyInARace`, `ReviewIsLocal`, `OnlyExpiredRunsGo`, `ComparisonsStay`,
  `IntegrityErrorsAreRaces`: exactly how far an overtaken SELECT can do harm: a decision history
  that does not lead to its decision, a keep-local restore that writes over a review, a run
  deleted that was no longer expired, an IntegrityError for a run that was pruned. Nothing else
  goes wrong. A bundle may bring any history (`models.py:192` asks for a stamp and a length only),
  so a history is not asked to explain its decision from nothing: it has to lead there from its
  *origin*, the first insert or what a bundle brought.
- **SingleStatements** — the operations whose writes rest on no earlier read implement AtomicStore
  (refinement, `Atomic!Spec`), and every call ends.
- **ConcurrentSweeps** — a log row counts the runs its own sweep removed although candidates were
  deleted by another sweep or the prune was retried; `last_sweep` never goes back; sweeps end.
- **CleanupSchedule** — threads whose stop event stays set end, from any step; a failed pass does
  not end the loop, so no run stays due for good while the server is up.
- **WatchedDirectory** — a skipped file was ingested as it is; repeated issues are true; a valid
  file left alone is ingested in the end, through errors, interrupts and restarts.
- **LibraryReads** — `AnswersAreSound`: an answer no commit overtook is one state of the run, and
  an export is importable whatever commits fall between its reads; previews come true and "no conflict" means no change while nobody touches the run.
- **Publish** — reports are true up to redirects and lost answers, at most three copies arrive and
  more than one only after a lost answer, and the command ends.
- **ReplaysAndComparisons** — whatever configurations were loaded, a replay and a comparison of its
  outcome agree position by position; comparing back and forth tells the same of each position, but
  for the arguments of one that a run does not have; the keys listed are the least set of keys
  that makes the mappings equal when taken over from the other.
- **QueueAndReport** — the invariants of AtomicStore (`HistoriesExplain`, from origins, as above),
  and: a walk to the last page has shown every run that waited all the while unless one left the
  queue; a review of the whole queue empties it; report rows add up. Each is stated for a library
  that does not change (or not that way) during the session, since the code promises no more.
- **DashboardPages** — on a page no commit and no midnight disturbed, the panels tell one story:
  bars add up to the points of the trend, the overlay never exceeds it, the list of a day has the
  runs its point counts. Details belong to their rows even while other runs come and go, and the
  link of a day opens what was clicked, midnight included.
- **Exchange** — a library that is open has every table and column, whoever migrated it at the same
  time, and an opening fails only when locked out. A round trip through OTLP keeps the calls, the
  status and the structure of a run; a second one changes attribute values at most, and none that are
  read as before; a finished export can be imported again and
  yields the runs that stayed as they were; an import, ended wherever, has stored a prefix.

Type invariants (`TypeOK` and its kin) are conjuncts of the inductive invariants of section 5 and, for
the store, of ReviewRaces; the other runs leave them out.

### Fairness

- TraceStore, Sweeps: weak fairness of each client's next step. The thread runs; waits on the lock
  are bounded by the busy timeout (5 s) and the attempts, so the step is always enabled. Nobody
  is assumed to call, crash or let the clock tick.
- LibraryReads, ReviewQueue, LibraryReport, Evaluation, Dashboard, Exchange: safety only, no
  fairness.
- Scheduler: weak fairness of the loop, and strong fairness of `Deleting`: no other connection
  keeps the write lock for good, so a DELETE tried again every interval is served at last.
- Watcher: weak fairness of the scan. `ValidFilesAreRecorded` asks that the watcher is running from
  some time on (`pc # "exited"`): restarts after errors are the operator's.
- Collector: weak fairness of the command and of the outcome of a request; `urlopen` has a timeout,
  so `NoAnswer` is always possible and the only outcome assumed once the payload is sent.

## 4. Where the code and its documentation disagree

One run checks a documented statement that TLC refutes:

- **UnrecordedDecision** — `storage.py:9`: "Each changed decision gets a local history row." Two
  reviewers read `pending`; one accepts; the other sets `pending`, sees no change and writes no
  row: the decision went back unrecorded.

The modules define further statements of documentation and comments that the models refute, under
"Statements of the documentation ..." or at their end. To see the behaviour, put the statement in the
place of the INVARIANTS and PROPERTIES of the configuration named and run TLC on its module.

| configuration (module) | statement | what happens |
|---|---|---|
| ReviewRaces (MCTraceStore) | PROPERTY `LabelProtects`, README.md:1789, "A label protects a run from age-based cleanup" | the prune deletes by IDs selected earlier; a label that arrives in between does not save the run |
| | PROPERTY `ReingestResetsClock`, README.md:1542 | the same with a re-ingest |
| | PROPERTY `KeepLocalPreserves`, README.md:1062 | a review committed after a keep-local restore's SELECT is written over |
| | PROPERTY `MissingRunIsNone`, storage.py:1271 | the history INSERT of a run pruned after the SELECT raises IntegrityError |
| ConcurrentSweeps (MCSweeps) | PROPERTY `EveryDeletionIsLogged`, storage.py:15 | the log INSERT fails, or the process ends, after the DELETE was committed |
| | PROPERTY `DeletedSpansAreCounted`, storage.py:506 | a re-ingest between the count and the DELETE |
| | PROPERTY `ProtectedRunsAreSkipped`, storage.py:480 | a label removed between listing and selection |
| CleanupSchedule (MCScheduler) | INVARIANT `OneBackgroundThread`, scheduler.py:20, "from one background thread" | `stop()` gives up after ten seconds in a slow pass, the next `start()` clears the event the old thread has not seen, and both loop (not with `SlowPasses = FALSE`) |
| | INVARIANT `StopWaitsForPass`, scheduler.py:59 | `stop()` returns during a pass |
| WatchedDirectory (MCWatcher) | INVARIANT `PollsUntilInterrupted`, ingestion.py:205 | `ingest` returns `{}` for a run pruned before the read back: KeyError ends the watcher |
| UnreadableOnce (MCWatcher), as it is | PROPERTY `ValidFilesAreRecorded`, README.md:63, with fault `unreadable` | a file that could not be read once is not opened again while its signature stays |
| LibraryReads (MCLibraryReads) | INVARIANT `AnswersAreSnapshots`, README.md:1132 | a re-ingest between two SELECTs of `get_run` |
| | INVARIANT `ExportedHistoriesExplain`, README.md:1132 | a decision between two reads of an export |
| | INVARIANT `BundlesCarryHistory`, README.md:1905 | an export carries the newest 50 history entries only |
| QueueAndReport (MCLibraryReport) | INVARIANT `EmptyPagesMeanReviewed`, templates/review.html:55 | an emptied later page says that every run is reviewed |
| Publish (MCCollector) | INVARIANT `FailedExportsKeepReports`, README.md:1126 | an answer that is not HTTP, or a run pruned meanwhile, ends the command before it prints |
| DashboardPages (MCDashboard) | INVARIANT `TrendUsesUtcDays`, README.md:1805, "It uses the UTC day" | the day is cut from the text of `started_at`, in the offset it was written with |
| | INVARIANT `SeriesShareOneWindow`, storage.py:1009 | midnight between the two readings of the clock: the overlay lies one day later |
| | INVARIANT `ListsAreRecent`, storage.py (`list_runs`, "recent run summaries") | rows are ordered by the same text; a run ahead of UTC displaces a later one |
| ReplaysAndComparisons (MCEvaluation) | INVARIANT `DirectionsAgree`, README.md:785, "Each row marks argument, result, and outcome deltas" | a position only one run has marks its arguments as changed where it is removed (`compare.py:118`) and not where it is added (`compare.py:103`) |
| Exchange (MCExchange) | INVARIANT `SecondTripIsLossless`, otlp.py:6 | attributes of an event in list form become a dict on the first import and `{}` on the second |
| | INVARIANT `ImportsReport`, README.md:851, "converts each resource span group into one run and stores it" | a run pruned before its read back is `{}`, and `_run_summary` raises KeyError with documents still to store |
| | INVARIANT `ConversionIsLossless`, otlp.py:6 | offsets, the agent version "" and fields of the user's are not kept |
| | INVARIANT `AllRoundTripsKeepEvidence`, README.md:926 | an attribute under a key of the workbench is taken for the field; times before 1970 are cut the other way; a parent with the empty name comes back as its hash |
| | INVARIANT `ExportsAreComplete`, README.md:917 | two run IDs that become one file name: the second export overwrites the first |
| | INVARIANT `GroupsBecomeRuns`, otlp.py:46 | two groups of one trace get one run ID, and the second replaces the first |

`scheduler.py:93`: `_last_error` is cleared by `start()` only, so `status()` shows an old error beside a
later good pass; no text says otherwise.

## 5. Proofs

Proved by TLAPS for all values of the constants, under the ASSUMEs of the modules. What they ask:

- Library: traces have spans, NoLabel and Pending exist, None is no row. `BundleAssumption`: the decision
  of a posted bundle is stamped (`ReviewContext`, `models.py:203`); its history may be anything.
- LibraryReads: the page of a history is no longer than the history a bundle may carry
  (`DECISION_HISTORY_PAGE_LIMIT`), or exports would lose more than the code's do.
- ToolCalls: `Null` is a scalar equal to no other, scalars are no mappings, recorded calls are calls.
- Otlp, Exchange: `None` and `Blank` are none of the values a field can have, IDs are ordered, the
  tables that stand for hashes give IDs; the documents that can be ingested
  satisfy the validators (`Valid`), payloads have finitely many spans.
- TraceStore: a bundle that is posted carries no more history than a bundle may
  (`HistoryLimit`, enforced by `models.py`), and the bound on histories is no smaller.
- Scheduler: its age is one of the ages in use; there are runs to sweep at all.
- LibraryReport, Dashboard: a trace has one agent and one source, tool spans are finitely many, places
  of run IDs are unique, days are never `None`.
- Everywhere: runs, clients, files and processes are finitely many, bounds are numbers.

Each is evaluated by TLC on the instance of a passing run.

**The library.**

- `LibraryProofs` — lemmas on each effect: the type of the tables it leaves (`...Types`), that it keeps
  them in agreement (`...Agrees`) and histories explained (`...Explains`). Both store modules
  change tables by these effects only, so both proofs rest on the same lemmas.
- `AtomicStoreProofs` — `IInv == TypeOK /\ TablesAgree /\ HistoriesExplain` is inductive. The
  conjuncts need each other: a new run's history explains `pending` only because tables that agree
  have no history rows of a missing run. `Explains` asks for *some* origin that the history
  continues, since the program does not keep it: decisions older than the history table, and
  bundles that carry them, have entries that explain nothing. A restore starts a new origin
  (`OriginExplains`), a decision continues the one at hand (`RecordedExplains`). Theorems `TypeCorrect`, `TablesAlwaysAgree`,
  `HistoriesAlwaysExplain`.
  The same module proves the review queue, on LibraryReport's specification: a walk through pages
  is safe because `WalkInv` holds between its requests: unless a run has left the queue, every run that
  waited since the start still waits, and those among them that stand before the end of the page at
  hand have been shown. A run's place in the queue is the number of runs before it, so what others
  ingest can move a waiting run to a later place but never to an earlier one (a count of a finite
  set); that is the whole reason why a walk by offset misses nothing unless the queue shrinks.
  `ListInv`: a list of IDs is the queue until the library changes. Theorems `WalksAlwaysShowAll`,
  `BulkReviewsAlwaysEmptyTheQueue`, `QueueTypes`, `ReviewersSeeSoundTables`.
  Then the report. Sums over rows are sizes of sets here: `Total(f)` counts the squares of the bars
  of `f`, so no induction over rows is needed, and `PartsAddUp` maps the squares one to one to
  the elements of disjoint parts that cover a set. With it the rows of agents and of folders, each of
  which counts the runs of one GROUP BY, add up to the totals (`AgentRowsAddUp`, `SourceRowsAddUp`), and
  `ExpiredRunsDivide` splits the old runs into deletable and protected. `ReportInv` carries each
  answer from its SELECT to the end of the report: it is what the SELECT would give now as long as
  nothing was committed. Theorem `ReportsAlwaysAddUp`.
- `TraceStoreProofs` — `IInv == TypeOK /\ TablesConsistent /\ ReadsAreCurrent` is inductive.
  `TablesConsistent` alone is not: a keep-local restore commits a review that it read earlier, and
  only `ReadsAreCurrent` knows that this is a stamped row of its time; `TypeOK` carries that a
  client commits exactly while it holds the lock. A commit is one of eight effects (`CommitKeepsTables`)
  and either ends the call or moves it to the read back; all other steps leave the tables alone
  (`QuietTypes`, `QuietReads`). Theorems `TypeCorrect`, `TablesStayConsistent`, `ReadsStayCurrent`.
  From the invariant follow the action properties `HistoriesBreakOnlyInRaces`, `RunsGoOnlyExpired`,
  `ReviewsStayLocal`, `ComparisonsOutliveWrites` and `IntegrityErrorsNeedRaces`: a step either is
  quiet or is one client's commit (`StepCommitsOrIsQuiet`), and each commit is examined by
  `CommitExplains`, `CommitRemovesExpired`, `CommitReviews`, `CommitDropsComparison`; the last one
  examines roll backs (`IntegrityIsRollBack`): the run that a foreign key misses is one that the call
  found, so `ReadsAreCurrent` makes it stale. This covers the two lookups before a comparison.
  Then the store as it runs against the store as documented. `CallInv` adds what
  calls in flight keep true of themselves: IDs of comparisons are fresh, a cutoff is an age before
  some past moment, a review that is about to be kept fits a bundle. `CommitsAreAtomic`: tables
  change only by a tick, by a step of AtomicStore, or by a commit whose read was overtaken. The bound
  on histories, which the program does not have, must not be what stops a commit: `HistoriesAlwaysHaveRoom`
  shows that each history keeps an entry free for every call that has still to decide on its run (a
  count of the calls in flight, `HistoriesHaveRoom`). `SingleStatementsAreAtomic`: with only
  the operations of `SingleStatements` on offer, the whole specification implements AtomicStore.
  Last, the readers. `ReadersDoNotDisturb`: LibraryReads' specification implies TraceStore's, so that
  everything above holds beside any number of readers. `ReadInv` says of each reader what its
  answers so far are worth: unless a commit overtook it, every part is what the tables say now, and
  overtaken or not, the parts of an export fit each other as far as an import asks (`AnswersStaySound`).
  `PreviewsAlwaysComeTrue` and `NoConflictsNoChanges` compare a preview with the commit that follows it.

**The components around it.**

- `SweepsProofs` — `RemovedIsCounted`: up to its DELETE a sweep has removed and counted nothing,
  from it on `deleted_runs` is the size of `removed`, and the candidates it selected cover what it
  removed. So `LoggedCountsAreExact` for any number of sweepers; `LastSweepStaysNewest` because
  the row chosen has the greatest `ran_at`.
  Over it the scheduler: `SchedulerInv` says which thread is where in its loop and that only a
  thread in a pass has a sweep; then `SchedulerImplementsSweeps`: each step of the threads, of `stop()`,
  of the server and of its end is a step of Sweeps or leaves its variables alone, so both theorems hold
  of the server's threads (`SchedulerLogsExactly`), abandoned ones included. `FastPassesRunAlone` is what
  remains of "one background thread" and "stop waits" (section 4): both hold if no pass outlasts
  the join of `stop()`.
- `WatcherProofs` — follows a file from the signature taken, through the read, to what the scan
  remembers: in each step the file is as recorded or its signature has moved on
  (`SignaturesAreOld`, `InHand`, `VisitedFilesAreRecorded`). `SkipsHideNothing` holds under every
  fault; `RepeatedIssuesStayReal` assumes that files can always be read (no fault `unreadable`): the
  issue of a file that could not be read for a moment is repeated when it can be again.
- `CollectorProofs` — a run waits at one place of `todo` (`EachRunOnce`) and has not been received
  (`WaitingRunsAreNotReceived`), and the attempts of the run at hand bound its copies.
  `ReportsStayTrue`, `DuplicatesNeedLostAnswers`.
- `DashboardProofs` — no two SELECTs of a page read the same library, so what the shown page promises is
  not inductive. `PageInv` relates each answer, from the moment it is read, to the library and the
  clock of now: details to the run of their row as long as nobody changed that run (`DetailsInv`),
  starts of windows to today's window, equal until midnight and never ahead of it (`WindowsInv`), counts
  and lists to what their SELECT would give now as long as nobody changed any run (`AnswersInv`). All
  of it is preserved by commits, midnight, every read and the click (`PagesStaySound`). Lists are
  places in an order (`PlacesFollowOrder`, `PlacesAreTaken`: IDs break ties, so each place up to the number
  of runs is taken once), hence a list has as many rows, and as many failed ones, as the count
  of its day says up to the limit (`ListsShowRuns`, `ListsShowFailures`). Theorems `PanelsAlwaysAgree`,
  `RowsAlwaysMatchTheirDetails`, `ClickedDaysAlwaysOpen`.
- `DocumentProofs` — two parts. Evaluation: `EngineTypeOK /\ AnswerInv` is inductive: an answer kept is the replay, or the
  comparison, of the traces it names. `ReplaysAgree` rests on the two equalities of the code: a step
  is reproduced iff the canonical hashes agree, a position is equal iff the calls are `==`, and
  both see a call's outcome but not the same numbers (1 and 1.0). `ComparisonsAreMirrored` goes
  through every status a position can have. For `ListedKeysAreChanged`, mappings are equal but for
  nulls iff they map every key to the same value (`EqualKeyByKey`), and taking over a set of keys
  changes these keys and no other (`PatchedKeys`); so the listed keys, and no fewer, make the
  mappings equal (`KeysDiffer`).
  Migration and Exchange: `OpeningInv`: the schema only grows, and what is still missing from it is on
  the list of every process that has not finished. `OpeningsAreSafe` for any number of
  processes, tables, columns and releases; `ExchangeImplementsMigration`: every step of the
  exchange is a step of Migration or leaves its variables alone; hence `MigrationsAreSafe`.
  Documents: `SpansComeBack` and `DocumentsComeBack` compute what `parse_otlp_json` makes of what
  `trace_to_otlp_json` wrote; spans are identified by their place in the order of their start
  (`Ranks`, `SortedAlike`), which a stable sort and the sequence attribute bring back.
  `RoundTripsAlwaysKeepEvidence` holds for every library of `Regular` documents, not only for the four of the
  instance, and for every table `Decoded`: a second trip ends where the first did but for attribute values
  (`KeptDocuments`), and exactly there for `Settled` documents. Jobs: `ExchangeInv` says that the library holds valid documents, that each file on disk is
  cut short or is the conversion of a document its library held, and what each job has done of its work.
  From it `ExportsAlwaysComeBack` and `ImportsAlwaysApplyAPrefix`, for any number of processes,
  files and kills.

What proof attempts found out about the models, which were put right: `NoConflictNoChange` was false with
two clients (the second overtakes the restore between its own SELECT and its commit; the run must not
be stale for it); a span whose parent has the empty name does not survive a round trip, the code
hashes it (`Regular` excludes it, section 4 lists it); bundles need the assumption on page and limit above;
Sweeps could lose one sweep at a time only, while the end of a server loses those of all its
threads at once (`Crash` now takes a set); `library_report` counts the tool rows of all runs in one SELECT,
where the model added up counts by run.

Only model-checked: liveness (which, with ENABLED, is out of the prover's reach) in TraceStore, Sweeps,
Scheduler, Watcher and Collector. Every invariant and every action property of the passing runs that
says nothing of fairness is a theorem. What the recursive definitions of the community modules
compute by induction over data cannot be proved here; where a theorem needed such a sum or a sort it
is defined by cardinalities instead (`Total`, `Place`).

## 6. Not modelled

- Text: CSV and JSON rendering (`export.py` but for what a bundle carries), HTML templates, the
  rounding of `failure_rate`, hashes behind IDs, lengths of texts, the match of a search on labels.
- HTTP routing and request validation, argument parsing, telemetry: they change no state and are
  present as the calls they make. A handler or command of one call is that call.
- `list_comparisons` and `runs_by_ids`: one SELECT each, with the details Dashboard models.
- Commands: the loop of `cleanup --every` (Scheduler's loop without threads), the single file named
  by `export --output`, the csv and review formats of `export` (the review bundle is LibraryReads').
- `library_report`'s durations and its tenth SELECT (`last_sweep`, in Sweeps).
- `CleanupScheduler.enabled` reads `_thread` twice and is one step here. Handlers that mutate the
  recorded arguments are outside a model of values.

## 7. Plan

1. Written: every module of section 2, and the proofs of section 5.
2. Prove next: that replay budgets only shrink; the refuted statements of section 4 under the
   conditions that make them true (a single client, no midnight), as `FastPassesRunAlone` does for
   the scheduler.
3. Model next: the `cleanup --every` loop beside the server's scheduler, as a second owner of
   sweeps; restores in Exchange (review bundles among the formats).
