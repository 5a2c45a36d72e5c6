----------------------------- MODULE LibraryReads -----------------------------
(***************************************************************************)
(* The read operations of TraceStore (storage.py) that take more than one  *)
(* SELECT, and the review bundle export of the API (main.py) that calls    *)
(* three of them, next to the writing clients of TraceStore.tla.           *)
(*                                                                         *)
(* A connection that only SELECTs is never in a transaction, so each       *)
(* statement sees the library as last committed at its own moment.  A read *)
(* is a sequence of SELECTs and writers may commit between any two.        *)
(*                                                                         *)
(* The variable overtaken is not in the program: whether a commit changed  *)
(* the run of a read since its first SELECT.                               *)
(***************************************************************************)
EXTENDS TraceStore

CONSTANTS
  Readers,      \* threads and processes that read
  ReadOps,      \* the read operations they call
  ToolSpans,    \* span IDs whose kind is tool
  HistoryPage   \* entries decision_history returns (50 unless asked otherwise)

ReadOpNames == {"get_run", "error_timeline", "decision_history", "export", "preview"}

ASSUME ReadAssumption ==
  /\ ReadOps \subseteq ReadOpNames
  /\ ToolSpans \subseteq SpanIds
  /\ HistoryPage \in Nat \ {0} /\ HistoryPage <= HistoryLimit

VARIABLES
  request,   \* request[q]: the read q is in, or got its answer of, or None
  selects,   \* the SELECTs still to be made
  view,      \* what the SELECTs made so far returned
  overtaken

readVars == <<request, selects, view, overtaken>>
storeVars == <<runs, spans, history, comparisons, now,
               call, pc, seen, attempts, lock, result, stale>>
allVars == <<runs, spans, history, comparisons, now,
             call, pc, seen, attempts, lock, result, stale,
             request, selects, view, overtaken>>

-----------------------------------------------------------------------------
(* Requests and answers.                                                   *)

Request ==
  [op : ReadOps \ {"preview"}, run : RunIds]
    \cup [op : ReadOps \cap {"preview"}, run : RunIds, trace : Traces,
          review : Bundled, policy : Policies]

ASSUME RequestAssumption == None \notin Request

GetRun == <<"row", "tools", "spans">>
DecisionHistory == <<"exists", "page">>

(* span_detail selects what error_timeline does, one span of it.           *)
SelectsOf(op) ==
  CASE op = "get_run"          -> GetRun
    [] op = "error_timeline"   -> <<"row", "spans">>
    [] op = "decision_history" -> DecisionHistory
    [] op = "export"           -> <<"trace">> \o GetRun \o DecisionHistory
    [] op = "preview"          -> <<"row", "history">>

(* None where nothing was selected, and as the row of a missing run.       *)
NoView == [trace |-> None, row |-> None, tool_count |-> 0, spans |-> {}, history |-> << >>]

(* LIMIT: the newest entries.                                              *)
Page(changes) ==
  SubSeq(changes, IF Len(changes) > HistoryPage THEN Len(changes) - HistoryPage + 1 ELSE 1,
         Len(changes))

(* Mutant: the history is selected without a LIMIT.                        *)
SelectedUnlimited(part, v, r) ==
  CASE part = "trace"   -> [v EXCEPT !.trace = runs[r].trace]
    [] part = "row"     -> [v EXCEPT !.row = runs[r]]
    [] part = "tools"   -> [v EXCEPT !.tool_count = Cardinality(spans[r] \cap ToolSpans)]
    [] part = "spans"   -> [v EXCEPT !.spans = spans[r]]
    [] part = "exists"  -> v
    [] OTHER            -> [v EXCEPT !.history = history[r]]

(* What the view is after one more SELECT.                                 *)
Selected(part, v, r) ==
  CASE part = "trace"   -> [v EXCEPT !.trace = runs[r].trace]
    [] part = "row"     -> [v EXCEPT !.row = runs[r]]
    [] part = "tools"   -> [v EXCEPT !.tool_count = Cardinality(spans[r] \cap ToolSpans)]
    [] part = "spans"   -> [v EXCEPT !.spans = spans[r]]
    [] part = "exists"  -> v
    [] part = "page"    -> [v EXCEPT !.history = Page(history[r])]
    [] part = "history" -> [v EXCEPT !.history = history[r]]

-----------------------------------------------------------------------------
(* Steps of a reader.                                                      *)

Selecting(q) == selects[q] # << >>
Answered(q) == request[q] # None /\ ~Selecting(q)

Ask(q) ==
  /\ ~Selecting(q)
  /\ \E k \in Request :
        /\ request' = [request EXCEPT ![q] = k]
        /\ selects' = [selects EXCEPT ![q] = SelectsOf(k.op)]
  /\ view' = [view EXCEPT ![q] = NoView]
  /\ overtaken' = [overtaken EXCEPT ![q] = FALSE]
  /\ UNCHANGED storeVars

(* The operation looks for the run itself in this SELECT.                  *)
LooksForRun(part) == part \in {"trace", "row", "exists"}

Select(q) ==
  /\ Selecting(q)
  /\ LooksForRun(Head(selects[q])) => Stored(request[q].run)
  /\ view' = [view EXCEPT ![q] = Selected(Head(selects[q]), @, request[q].run)]
  /\ selects' = [selects EXCEPT ![q] = Tail(@)]
  /\ UNCHANGED <<storeVars, request, overtaken>>

(* None, or 404.  A preview of a run that is not there is an answer.       *)
NotFound(q) ==
  /\ Selecting(q)
  /\ LooksForRun(Head(selects[q])) /\ ~Stored(request[q].run)
  /\ ~(request[q].op = "export" /\ Head(selects[q]) = "exists")
  /\ selects' = [selects EXCEPT ![q] = << >>]
  /\ request' = [request EXCEPT ![q] = IF @.op = "preview" THEN @ ELSE None]
  /\ view' = [view EXCEPT ![q] = NoView]
  /\ UNCHANGED <<storeVars, overtaken>>

(* decision_history(run_id) or []: the export goes on without a history.   *)
ExportsNoHistory(q) ==
  /\ Selecting(q)
  /\ request[q].op = "export" /\ Head(selects[q]) = "exists"
  /\ ~Stored(request[q].run)
  /\ selects' = [selects EXCEPT ![q] = << >>]
  /\ UNCHANGED <<storeVars, request, view, overtaken>>

ReadStep(q) == Select(q) \/ NotFound(q) \/ ExportsNoHistory(q)

(* A step of the writing clients.                                          *)
ClientStep ==
  /\ Next
  /\ overtaken' = [q \in Readers |->
                     \/ overtaken[q]
                     \/ request[q] # None /\ request[q].run \in ChangedRuns]
  /\ UNCHANGED <<request, selects, view>>

ReadInit ==
  /\ Init
  /\ request = [q \in Readers |-> None]
  /\ selects = [q \in Readers |-> << >>]
  /\ view = [q \in Readers |-> NoView]
  /\ overtaken = [q \in Readers |-> FALSE]

ReadNext == ClientStep \/ \E q \in Readers : Ask(q) \/ ReadStep(q)

ReadSpec == ReadInit /\ [][ReadNext]_allVars

-----------------------------------------------------------------------------
(* What callers make of an answer.                                         *)

(* The review in an answer: of a bundle exported, or a run previewed.       *)
ReviewIn(v) ==
  [label            |-> v.row.label,
   decision         |-> v.row.decision,
   decision_at      |-> v.row.decision_at,
   decision_history |-> v.history]

(* Mutant: the traces are not compared.                                    *)
ReviewConflicts(k, v) == v.row # None /\ ReviewIn(v) # k.review

(* has_conflicts: the bundle differs from the stored run in the trace or   *)
(* in a review field.                                                      *)
HasConflicts(k, v) ==
  v.row # None /\ (v.row.trace # k.trace \/ ReviewIn(v) # k.review)

(* Mutant: resolved shows the bundle's review under either policy.         *)
ResolvedFromBundle(k, v) == k.review

(* resolved["review"]                                                      *)
Resolved(k, v) ==
  IF v.row # None /\ k.policy = "keep-local" THEN ReviewIn(v) ELSE k.review

-----------------------------------------------------------------------------
(* Type invariant: an answer is complete, one under way is a prefix.       *)
Parts == {"trace", "row", "tools", "spans", "exists", "page", "history"}

ReadTypeOK ==
  \A q \in Readers :
    /\ request[q] \in Request \cup {None}
    /\ \A i \in 1 .. Len(selects[q]) : selects[q][i] \in Parts
    /\ request[q] = None => ~Selecting(q)
    /\ view[q].row \in Row \cup {None} /\ view[q].trace \in Traces \cup {None}
    /\ view[q].spans \subseteq SpanIds
    /\ Answered(q) /\ request[q].op # "preview" /\ request[q].op # "decision_history"
         => view[q].row # None

(* storage.py:1130, main.py:577 and models.py:192: whatever commits fall   *)
(* between its reads, an answer has the row it was asked for, and if none  *)
(* of them changed the run, its row, spans and counts are of one trace; an *)
(* exported review bundle is one the import validates, a decision with its *)
(* timestamp and no longer history than a bundle may carry, however many   *)
(* decisions the run has seen.                                             *)
AnswersAreSound ==
  \A q \in Readers : Answered(q) /\ request[q].op \in {"get_run", "error_timeline", "export"} =>
     LET v == view[q]
     IN  /\ v.row # None
         /\ ~overtaken[q] =>
              /\ v.spans = SpansOf[v.row.trace]
              /\ request[q].op # "error_timeline" =>
                   v.tool_count = Cardinality(SpansOf[v.row.trace] \cap ToolSpans)
              /\ request[q].op = "export" => v.trace = v.row.trace
         /\ request[q].op = "export" =>
              /\ Stamped(ReviewIn(v).decision, ReviewIn(v).decision_at)
              /\ Len(ReviewIn(v).decision_history) <= HistoryLimit

(* README.md:99, a preview "resolves review fields with an explicit        *)
(* policy": while nobody changes the run, resolved is the review a restore *)
(* of the bundle under that policy leaves in the library.                  *)
PreviewsComeTrue ==
  [][\A q \in Readers, c \in Clients :
        /\ Answered(q) /\ request[q].op = "preview" /\ ~overtaken[q]
        /\ CommitRestore(c)
        /\ call[c].run = request[q].run /\ call[c].trace = request[q].trace
        /\ call[c].review = request[q].review /\ call[c].policy = request[q].policy
        /\ call[c].run \notin stale[c]
        => LET r == call[c].run
           IN  ReviewOf(r)' = Resolved(request[q], view[q])]_allVars

(* has_conflicts = False on a stored run: the restore changes neither the  *)
(* trace nor the review, under either policy, unless it is one that keeps  *)
(* a review it read before another client changed it.                      *)
NoConflictNoChange ==
  [][\A q \in Readers, c \in Clients :
        /\ Answered(q) /\ request[q].op = "preview" /\ ~overtaken[q]
        /\ view[q].row # None /\ ~HasConflicts(request[q], view[q])
        /\ CommitRestore(c)
        /\ call[c].run = request[q].run /\ call[c].trace = request[q].trace
        /\ call[c].review = request[q].review /\ call[c].policy = request[q].policy
        /\ call[c].run \notin stale[c]
        => LET r == call[c].run
           IN  ReviewOf(r)' = ReviewOf(r) /\ runs'[r].trace = runs[r].trace]_allVars

-----------------------------------------------------------------------------
(* Statements of the documentation the interleavings refute.               *)

(* README.md:91, "Readers keep a committed snapshot", and README.md:1132:  *)
(* the row and the spans of one answer belong to the same trace.           *)
AnswersAreSnapshots ==
  \A q \in Readers : Answered(q) /\ request[q].op \in {"get_run", "error_timeline"} =>
     /\ view[q].spans = SpansOf[view[q].row.trace]
     /\ request[q].op = "get_run" =>
          view[q].tool_count = Cardinality(view[q].spans \cap ToolSpans)

(* README.md:1132 once more, of the export: the bundle joins a decision    *)
(* with the history that led to it.                                        *)
ExportedHistoriesExplain ==
  \A q \in Readers : Answered(q) /\ request[q].op = "export" =>
     Explains(view[q].history, view[q].row.decision)

(* README.md:1905, review bundle files contain the "decision history" of   *)
(* the run: all of it, if nobody changes the run meanwhile.                *)
BundlesCarryHistory ==
  \A q \in Readers : Answered(q) /\ request[q].op = "export" /\ ~overtaken[q] =>
     view[q].history = history[request[q].run]
=============================================================================
