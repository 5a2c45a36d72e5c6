------------------------------- MODULE Library -------------------------------
(***************************************************************************)
(* The tables of the trace library (storage.py, SCHEMA) and the effect     *)
(* each committed write transaction of TraceStore has on them.  SQLite     *)
(* commits a transaction as a whole, so an effect is one change of the     *)
(* tables; when its statements run, and on what earlier read they rest, is *)
(* the business of the modules that use it: AtomicStore (what the store    *)
(* promises) and TraceStore (what its clients do).                         *)
(***************************************************************************)
EXTENDS Integers, Sequences, FiniteSets

CONSTANTS
  RunIds,        \* run IDs that trace documents carry
  Traces,        \* bodies of trace documents
  SpanIds,       \* span IDs
  SpansOf,       \* SpansOf[t]: the spans of trace t
  Labels,        \* labels, NoLabel among them
  NoLabel,       \* the empty label
  Decisions,     \* review decisions, Pending among them
  Pending,       \* the decision of a run nobody reviewed
  Bundled,       \* review contexts that arrive in review bundles
  ComparisonIds, \* IDs of saved comparisons
  Ages,          \* retention ages callers ask for, in ticks of the clock
  None           \* Python's None, and the row that does not exist

VARIABLES
  runs,          \* runs[r]: the row of run r, or None
  spans,         \* spans[r]: span IDs of the rows of run r
  history,       \* history[r]: decision changes of run r, oldest first
  comparisons,   \* rows of the comparisons table
  now            \* the clock behind CURRENT_TIMESTAMP

tables == <<runs, spans, history, comparisons>>

-----------------------------------------------------------------------------
(* Rows.  A note is treated like a label everywhere in the store, so one   *)
(* field stands for both; decision_at only matters as set or NULL.         *)

Row == [trace : Traces, ingested_at : Nat, label : Labels,
        decision : Decisions, decision_at : BOOLEAN]

Change == [previous_decision : Decisions, decision : Decisions]

Comparison == [comparison_id : ComparisonIds, run_a : RunIds, run_b : RunIds]

Review == [label : Labels, decision : Decisions, decision_at : BOOLEAN,
           decision_history : Seq(Change)]

(* ReviewContext.validate_decision_timestamp *)
Stamped(decision, decision_at) == decision_at <=> decision # Pending

(* Where the history of a stored run may start: an ingest inserts the run  *)
(* pending with no history, a bundle brings a decision and a history of    *)
(* its own.  Nothing makes these two fit each other.                       *)
Origin(decision, changes) == [decision |-> decision, decision_history |-> changes]

Origins ==
  {Origin(Pending, << >>)}
    \cup {Origin(review.decision, review.decision_history) : review \in Bundled}

(* The decision after entry i of changes, where entries up to n were       *)
(* brought along together with decision from.                              *)
DecisionAfter(changes, n, from, i) == IF i = n THEN from ELSE changes[i].decision

(* A history explains a decision if it continues one of its origins: each  *)
(* further entry is a change of the decision so far, and together they     *)
(* lead to the decision.                                                   *)
Continues(origin, changes, decision) ==
  LET brought == origin.decision_history
      n       == Len(brought)
      prior(i) == DecisionAfter(changes, n, origin.decision, i - 1)
  IN  /\ n <= Len(changes)
      /\ \A i \in 1 .. n : changes[i] = brought[i]
      /\ \A i \in n + 1 .. Len(changes) :
            /\ changes[i].previous_decision = prior(i)
            /\ changes[i].decision # prior(i)
      /\ DecisionAfter(changes, n, origin.decision, Len(changes)) = decision

Explains(changes, decision) ==
  \E origin \in Origins : Continues(origin, changes, decision)

ASSUME LibraryAssumption ==
  /\ SpansOf \in [Traces -> SUBSET SpanIds]
  /\ NoLabel \in Labels
  /\ Pending \in Decisions
  /\ Ages \subseteq Nat \ {0}
  /\ None \notin Row \cup Labels \cup Decisions

(* What ReviewContext asks of a posted bundle; it says nothing of how the  *)
(* history and the decision fit together (README.md:949 shows a bundle of  *)
(* an accepted run with no history).                                       *)
ASSUME BundleAssumption ==
  /\ Bundled \subseteq Review
  /\ \A review \in Bundled : Stamped(review.decision, review.decision_at)

Stored(r) == runs[r] # None

(* What a review bundle exports for run r, and what a restore replaces.    *)
ReviewOf(r) ==
  [label            |-> runs[r].label,
   decision         |-> runs[r].decision,
   decision_at      |-> runs[r].decision_at,
   decision_history |-> history[r]]

(* The retention query: last ingested before the cutoff and, unless the    *)
(* caller says otherwise, without a label.                                 *)
Expired(row, cutoff, keep_labeled) ==
  /\ row # None
  /\ row.ingested_at < cutoff
  /\ keep_labeled => row.label = NoLabel

-----------------------------------------------------------------------------
(* Effects of the write transactions.                                      *)

(* Mutant: INSERT OR REPLACE, which gives the row its defaults again.      *)
UpsertedByReplace(r, trace) ==
  [trace |-> trace, ingested_at |-> now, label |-> NoLabel,
   decision |-> Pending, decision_at |-> FALSE]

(* INSERT ... ON CONFLICT(run_id) DO UPDATE: a conflict keeps the review   *)
(* columns and restarts the retention clock.                               *)
Upserted(r, trace) ==
  IF Stored(r)
  THEN [runs[r] EXCEPT !.trace = trace, !.ingested_at = now]
  ELSE [trace |-> trace, ingested_at |-> now, label |-> NoLabel,
        decision |-> Pending, decision_at |-> FALSE]

(* Mutant: the run is deleted and inserted, and the delete cascades.       *)
IngestedAnew(r, trace) ==
  /\ runs' = [runs EXCEPT ![r] = Upserted(r, trace)]
  /\ spans' = [spans EXCEPT ![r] = SpansOf[trace]]
  /\ comparisons' = {c \in comparisons : r \notin {c.run_a, c.run_b}}
  /\ UNCHANGED history

Ingested(r, trace) ==
  /\ runs' = [runs EXCEPT ![r] = Upserted(r, trace)]
  /\ spans' = [spans EXCEPT ![r] = SpansOf[trace]]
  /\ UNCHANGED <<history, comparisons>>

Reviewed(row, review) ==
  [row EXCEPT !.label = review.label,
              !.decision = review.decision,
              !.decision_at = review.decision_at]

(* Mutant: the review columns are restored, the history is left.           *)
RestoredColumns(r, trace, review) ==
  /\ runs' = [runs EXCEPT ![r] = Reviewed(Upserted(r, trace), review)]
  /\ spans' = [spans EXCEPT ![r] = SpansOf[trace]]
  /\ UNCHANGED <<history, comparisons>>

Restored(r, trace, review) ==
  /\ runs' = [runs EXCEPT ![r] = Reviewed(Upserted(r, trace), review)]
  /\ spans' = [spans EXCEPT ![r] = SpansOf[trace]]
  /\ history' = [history EXCEPT ![r] = review.decision_history]
  /\ UNCHANGED comparisons

(* Mutant: a return to pending keeps its timestamp.                        *)
DecidedAndStamped(row, decision) ==
  [row EXCEPT !.decision = decision, !.decision_at = TRUE]

Decided(row, decision) ==
  [row EXCEPT !.decision = decision, !.decision_at = decision # Pending]

Annotate(row, label, decision) ==
  LET labeled == IF label = None THEN row ELSE [row EXCEPT !.label = label]
  IN  IF decision = None THEN labeled ELSE Decided(labeled, decision)

Recorded(changes, previous, decision) ==
  Append(changes, [previous_decision |-> previous, decision |-> decision])

(* One UPDATE of the row and, when the decision differs from the one read  *)
(* earlier, one INSERT into the history.                                   *)
Annotated(r, label, decision, previous) ==
  /\ runs' = [runs EXCEPT ![r] = Annotate(runs[r], label, decision)]
  /\ history' = IF decision \in {None, previous} THEN history
                ELSE [history EXCEPT
                        ![r] = Recorded(history[r], previous, decision)]
  /\ UNCHANGED <<spans, comparisons>>

BulkLabeled(R, label) ==
  /\ runs' = [r \in RunIds |-> IF r \in R /\ Stored(r)
                               THEN [runs[r] EXCEPT !.label = label]
                               ELSE runs[r]]
  /\ UNCHANGED <<spans, history, comparisons>>

(* Mutant: an entry is due for every row read, changed or not.             *)
ChangingAll(R, decision, read) == {r \in R : read[r] # None}

(* Rows of R that the SELECT returned with another decision: each gets an  *)
(* entry in the history.                                                   *)
Changing(R, decision, read) ==
  {r \in R : read[r] # None /\ read[r].decision # decision}

BulkDecided(R, decision, read) ==
  /\ runs' = [r \in RunIds |-> IF r \in R /\ Stored(r)
                               THEN Decided(runs[r], decision)
                               ELSE runs[r]]
  /\ history' = [r \in RunIds |->
                   IF r \in Changing(R, decision, read)
                   THEN Recorded(history[r], read[r].decision, decision)
                   ELSE history[r]]
  /\ UNCHANGED <<spans, comparisons>>

(* Mutant: foreign keys are not enforced, so nothing cascades.             *)
DeletedAlone(R) ==
  /\ runs' = [r \in RunIds |-> IF r \in R THEN None ELSE runs[r]]
  /\ UNCHANGED <<spans, history, comparisons>>

(* DELETE FROM runs, with ON DELETE CASCADE in the three other tables.     *)
Deleted(R) ==
  /\ runs' = [r \in RunIds |-> IF r \in R THEN None ELSE runs[r]]
  /\ spans' = [r \in RunIds |-> IF r \in R THEN {} ELSE spans[r]]
  /\ history' = [r \in RunIds |-> IF r \in R THEN << >> ELSE history[r]]
  /\ comparisons' = {c \in comparisons : c.run_a \notin R /\ c.run_b \notin R}

ComparisonSaved(comparison) ==
  /\ comparisons' = comparisons \cup {comparison}
  /\ UNCHANGED <<runs, spans, history>>

ComparisonDeleted(id) ==
  /\ comparisons' = {c \in comparisons : c.comparison_id # id}
  /\ UNCHANGED <<runs, spans, history>>

-----------------------------------------------------------------------------
TablesInit ==
  /\ runs = [r \in RunIds |-> None]
  /\ spans = [r \in RunIds |-> {}]
  /\ history = [r \in RunIds |-> << >>]
  /\ comparisons = {}
  /\ now = 0

(* Every table has the columns the schema declares. *)
TablesTypeOK ==
  /\ runs \in [RunIds -> Row \cup {None}]
  /\ spans \in [RunIds -> SUBSET SpanIds]
  /\ history \in [RunIds -> Seq(Change)]
  /\ comparisons \subseteq Comparison
  /\ now \in Nat

(* The foreign keys of the schema, for one run. *)
RowsBelongToRuns(r) == Stored(r) \/ (spans[r] = {} /\ history[r] = << >>)

ComparisonsBelongToRuns ==
  \A c \in comparisons : Stored(c.run_a) /\ Stored(c.run_b)

(* The span rows of a run are the spans of the document kept in raw_json.  *)
SpansMatchTrace(r) == Stored(r) => spans[r] = SpansOf[runs[r].trace]

(* decision_at is set exactly when there is a decision; _read_review_      *)
(* context refuses any other row.                                          *)
DecisionStamped(r) ==
  Stored(r) => Stamped(runs[r].decision, runs[r].decision_at)

(* The four facts above: what one table says of a run never contradicts    *)
(* what another says.                                                      *)
TablesAgree ==
  /\ \A r \in RunIds : /\ RowsBelongToRuns(r)
                       /\ SpansMatchTrace(r)
                       /\ DecisionStamped(r)
  /\ ComparisonsBelongToRuns

(* The decision history of run r leads from its origin to its decision. *)
HistoryExplains(r) ==
  Stored(r) => Explains(history[r], runs[r].decision)
=============================================================================
