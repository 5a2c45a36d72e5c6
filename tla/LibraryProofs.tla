----------------------------- MODULE LibraryProofs -----------------------------
(***************************************************************************)
(* What each effect of Library keeps: the column types, the agreement of   *)
(* the tables, and the decision histories.  Both the atomic store and the  *)
(* interleaved one change the tables by these effects only.                *)
(***************************************************************************)
EXTENDS Library, TLAPS

-----------------------------------------------------------------------------
(* Rows.                                                                   *)

(* A row is not the missing row. *)
LEMMA RowIsNotNone == ASSUME NEW row \in Row PROVE row # None
BY LibraryAssumption

(* An upsert yields a row. *)
LEMMA UpsertedIsRow ==
  ASSUME TablesTypeOK, NEW r \in RunIds, NEW trace \in Traces
  PROVE  Upserted(r, trace) \in Row
BY LibraryAssumption DEF TablesTypeOK, Upserted, Stored, Row

(* Restoring a review yields a row. *)
LEMMA ReviewedIsRow ==
  ASSUME NEW row \in Row, NEW review \in Review
  PROVE  Reviewed(row, review) \in Row
BY DEF Reviewed, Row, Review

(* A decision yields a row, stamped exactly when it is one. *)
LEMMA DecidedIsRow ==
  ASSUME NEW row \in Row, NEW decision \in Decisions
  PROVE  /\ Decided(row, decision) \in Row
         /\ Decided(row, decision).decision = decision
         /\ Decided(row, decision).trace = row.trace
         /\ Stamped(Decided(row, decision).decision,
                    Decided(row, decision).decision_at)
BY DEF Decided, Row, Stamped

(* An annotation yields a row with the trace of the old one; its decision  *)
(* is the new one if there is one.                                         *)
LEMMA AnnotateIsRow ==
  ASSUME NEW row \in Row, NEW label \in Labels \cup {None},
         NEW decision \in Decisions \cup {None}
  PROVE  /\ Annotate(row, label, decision) \in Row
         /\ Annotate(row, label, decision).trace = row.trace
         /\ decision = None =>
              /\ Annotate(row, label, decision).decision = row.decision
              /\ Annotate(row, label, decision).decision_at = row.decision_at
         /\ decision # None => Annotate(row, label, decision).decision = decision
         /\ Stamped(row.decision, row.decision_at) =>
              Stamped(Annotate(row, label, decision).decision,
                      Annotate(row, label, decision).decision_at)
BY LibraryAssumption DEF Annotate, Decided, Row, Stamped

(* One more entry keeps a history a sequence of changes. *)
LEMMA RecordedIsSeq ==
  ASSUME NEW changes \in Seq(Change), NEW previous \in Decisions, NEW decision \in Decisions
  PROVE  /\ Recorded(changes, previous, decision) \in Seq(Change)
         /\ Len(Recorded(changes, previous, decision)) = Len(changes) + 1
BY DEF Recorded, Change

-----------------------------------------------------------------------------
(* Types.                                                                  *)

(* An ingest keeps the columns of the schema. *)
LEMMA IngestedTypes ==
  ASSUME TablesTypeOK, now' \in Nat,
         NEW r \in RunIds, NEW trace \in Traces, Ingested(r, trace)
  PROVE  TablesTypeOK'
BY UpsertedIsRow, LibraryAssumption DEF TablesTypeOK, Ingested

(* A restore keeps the columns of the schema. *)
LEMMA RestoredTypes ==
  ASSUME TablesTypeOK, now' \in Nat,
         NEW r \in RunIds, NEW trace \in Traces, NEW review \in Review,
         Restored(r, trace, review)
  PROVE  TablesTypeOK'
<1>1. Reviewed(Upserted(r, trace), review) \in Row
  BY UpsertedIsRow, ReviewedIsRow
<1>2. review.decision_history \in Seq(Change)
  BY DEF Review
<1>3. QED
  BY <1>1, <1>2, LibraryAssumption DEF TablesTypeOK, Restored

(* An annotation of a stored run keeps the columns of the schema. *)
LEMMA AnnotatedTypes ==
  ASSUME TablesTypeOK, now' \in Nat,
         NEW r \in RunIds, Stored(r), NEW label \in Labels \cup {None},
         NEW decision \in Decisions \cup {None}, NEW previous \in Decisions,
         Annotated(r, label, decision, previous)
  PROVE  TablesTypeOK'
<1>1. runs[r] \in Row
  BY DEF TablesTypeOK, Stored
<1>2. runs' \in [RunIds -> Row \cup {None}]
  BY <1>1, AnnotateIsRow DEF TablesTypeOK, Annotated
<1>3. history' \in [RunIds -> Seq(Change)]
  <2>1. CASE decision \in {None, previous}
    BY <2>1 DEF TablesTypeOK, Annotated
  <2>2. CASE decision \notin {None, previous}
    <3>1. Recorded(history[r], previous, decision) \in Seq(Change)
      BY <2>2, RecordedIsSeq DEF TablesTypeOK
    <3>2. QED
      BY <2>2, <3>1 DEF TablesTypeOK, Annotated
  <2>3. QED
    BY <2>1, <2>2
<1>4. QED
  BY <1>2, <1>3 DEF TablesTypeOK, Annotated

(* Bulk labeling keeps the columns of the schema. *)
LEMMA BulkLabeledTypes ==
  ASSUME TablesTypeOK, now' \in Nat,
         NEW R \in SUBSET RunIds, NEW label \in Labels, BulkLabeled(R, label)
  PROVE  TablesTypeOK'
<1>1. runs' \in [RunIds -> Row \cup {None}]
  BY DEF TablesTypeOK, BulkLabeled, Stored, Row
<1>2. QED
  BY <1>1 DEF TablesTypeOK, BulkLabeled

(* A bulk decision keeps the columns of the schema. *)
LEMMA BulkDecidedTypes ==
  ASSUME TablesTypeOK, now' \in Nat,
         NEW R \in SUBSET RunIds, NEW decision \in Decisions,
         NEW read \in [RunIds -> Row \cup {None}], BulkDecided(R, decision, read)
  PROVE  TablesTypeOK'
<1>1. runs' \in [RunIds -> Row \cup {None}]
  <2>1. \A r \in RunIds : Stored(r) => Decided(runs[r], decision) \in Row
    BY DecidedIsRow DEF TablesTypeOK, Stored
  <2>2. QED
    BY <2>1 DEF TablesTypeOK, BulkDecided, Stored
<1>2. history' \in [RunIds -> Seq(Change)]
  <2>1. ASSUME NEW r \in Changing(R, decision, read)
        PROVE  Recorded(history[r], read[r].decision, decision) \in Seq(Change)
    <3>1. r \in RunIds /\ read[r].decision \in Decisions
      BY <2>1 DEF Changing, Row
    <3>2. QED
      BY <3>1, RecordedIsSeq DEF TablesTypeOK
  <2>2. QED
    BY <2>1 DEF TablesTypeOK, BulkDecided
<1>3. QED
  BY <1>1, <1>2 DEF TablesTypeOK, BulkDecided

(* A delete keeps the columns of the schema. *)
LEMMA DeletedTypes ==
  ASSUME TablesTypeOK, now' \in Nat, NEW R \in SUBSET RunIds, Deleted(R)
  PROVE  TablesTypeOK'
BY DEF TablesTypeOK, Deleted

(* Saving a comparison keeps the columns of the schema. *)
LEMMA ComparisonSavedTypes ==
  ASSUME TablesTypeOK, now' \in Nat,
         NEW comparison \in Comparison, ComparisonSaved(comparison)
  PROVE  TablesTypeOK'
BY DEF TablesTypeOK, ComparisonSaved

(* Deleting a comparison keeps the columns of the schema. *)
LEMMA ComparisonDeletedTypes ==
  ASSUME TablesTypeOK, now' \in Nat,
         NEW id \in ComparisonIds, ComparisonDeleted(id)
  PROVE  TablesTypeOK'
BY DEF TablesTypeOK, ComparisonDeleted

-----------------------------------------------------------------------------
(* Agreement of the tables.                                                *)

(* An ingest replaces the span rows with the trace. *)
LEMMA IngestedAgrees ==
  ASSUME TablesTypeOK, TablesAgree,
         NEW r \in RunIds, NEW trace \in Traces, Ingested(r, trace)
  PROVE  TablesAgree'
<1>1. Upserted(r, trace) \in Row /\ Upserted(r, trace).trace = trace
  BY UpsertedIsRow DEF Upserted, TablesTypeOK, Stored, Row
<1>2. Stamped(Upserted(r, trace).decision, Upserted(r, trace).decision_at)
  BY DEF Upserted, TablesTypeOK, TablesAgree, DecisionStamped, Stored, Stamped, Row
<1>3. \A q \in RunIds : Stored(q) => Stored(q)'
  BY <1>1, RowIsNotNone DEF TablesTypeOK, Ingested, Stored
<1>4. ComparisonsBelongToRuns'
  BY <1>3 DEF ComparisonsBelongToRuns, TablesAgree, TablesTypeOK, Comparison, Ingested
<1>5. ASSUME NEW q \in RunIds
      PROVE  RowsBelongToRuns(q)' /\ SpansMatchTrace(q)' /\ DecisionStamped(q)'
  <2>1. CASE q = r
    BY <2>1, <1>1, <1>2, RowIsNotNone
    DEF TablesTypeOK, Ingested, Stored, RowsBelongToRuns, SpansMatchTrace, DecisionStamped
  <2>2. CASE q # r
    BY <2>2 DEF TablesTypeOK, TablesAgree, Ingested, Stored, RowsBelongToRuns,
                SpansMatchTrace, DecisionStamped
  <2>3. QED
    BY <2>1, <2>2
<1>6. QED
  BY <1>4, <1>5 DEF TablesAgree

(* A restore of a consistent review leaves consistent tables. *)
LEMMA RestoredAgrees ==
  ASSUME TablesTypeOK, TablesAgree,
         NEW r \in RunIds, NEW trace \in Traces, NEW review \in Review,
         Stamped(review.decision, review.decision_at), Restored(r, trace, review)
  PROVE  TablesAgree'
<1> DEFINE row == Reviewed(Upserted(r, trace), review)
<1>1. row \in Row /\ row.trace = trace /\ Stamped(row.decision, row.decision_at)
  BY UpsertedIsRow, ReviewedIsRow
  DEF Upserted, Reviewed, TablesTypeOK, Stored, Row, Review, Stamped
<1>2. runs'[r] = row /\ \A q \in RunIds \ {r} : runs'[q] = runs[q]
  BY DEF Restored, TablesTypeOK
<1> HIDE DEF row
<1>3. \A q \in RunIds : Stored(q) => Stored(q)'
  BY <1>1, <1>2, RowIsNotNone DEF Stored
<1>4. ComparisonsBelongToRuns'
  BY <1>3 DEF ComparisonsBelongToRuns, TablesAgree, TablesTypeOK, Comparison, Restored
<1>5. ASSUME NEW q \in RunIds
      PROVE  RowsBelongToRuns(q)' /\ SpansMatchTrace(q)' /\ DecisionStamped(q)'
  <2>1. CASE q = r
    BY <2>1, <1>1, <1>2, RowIsNotNone
    DEF TablesTypeOK, Restored, Stored, RowsBelongToRuns, SpansMatchTrace, DecisionStamped
  <2>2. CASE q # r
    BY <2>2, <1>2 DEF TablesTypeOK, TablesAgree, Restored, Stored, RowsBelongToRuns,
                SpansMatchTrace, DecisionStamped
  <2>3. QED
    BY <2>1, <2>2
<1>6. QED
  BY <1>4, <1>5 DEF TablesAgree

(* An annotation of a stored run leaves consistent tables. *)
LEMMA AnnotatedAgrees ==
  ASSUME TablesTypeOK, TablesAgree,
         NEW r \in RunIds, Stored(r), NEW label \in Labels \cup {None},
         NEW decision \in Decisions \cup {None}, NEW previous,
         Annotated(r, label, decision, previous)
  PROVE  TablesAgree'
<1> DEFINE row == Annotate(runs[r], label, decision)
<1>1. /\ row \in Row /\ row.trace = runs[r].trace
      /\ Stamped(row.decision, row.decision_at)
  BY AnnotateIsRow DEF TablesTypeOK, TablesAgree, DecisionStamped, Stored
<1>2. /\ runs'[r] = row
      /\ \A q \in RunIds \ {r} : runs'[q] = runs[q] /\ history'[q] = history[q]
  BY DEF Annotated, TablesTypeOK
<1> HIDE DEF row
<1>3. \A q \in RunIds : Stored(q) => Stored(q)'
  BY <1>1, <1>2, RowIsNotNone DEF Stored
<1>4. ComparisonsBelongToRuns'
  BY <1>3 DEF ComparisonsBelongToRuns, TablesAgree, TablesTypeOK, Comparison, Annotated
<1>5. ASSUME NEW q \in RunIds
      PROVE  RowsBelongToRuns(q)' /\ SpansMatchTrace(q)' /\ DecisionStamped(q)'
  <2>1. CASE q = r
    BY <2>1, <1>1, <1>2, RowIsNotNone
    DEF TablesAgree, Annotated, Stored, RowsBelongToRuns, SpansMatchTrace, DecisionStamped
  <2>2. CASE q # r
    BY <2>2, <1>2 DEF TablesAgree, Annotated, Stored, RowsBelongToRuns,
                      SpansMatchTrace, DecisionStamped
  <2>3. QED
    BY <2>1, <2>2
<1>6. QED
  BY <1>4, <1>5 DEF TablesAgree

(* Bulk labeling leaves consistent tables. *)
LEMMA BulkLabeledAgrees ==
  ASSUME TablesTypeOK, TablesAgree,
         NEW R \in SUBSET RunIds, NEW label \in Labels, BulkLabeled(R, label)
  PROVE  TablesAgree'
<1>1. ASSUME NEW q \in RunIds
      PROVE  /\ runs'[q] = None <=> runs[q] = None
             /\ runs[q] # None =>
                  /\ runs'[q].trace = runs[q].trace
                  /\ runs'[q].decision = runs[q].decision
                  /\ runs'[q].decision_at = runs[q].decision_at
  BY LibraryAssumption DEF TablesTypeOK, BulkLabeled, Stored, Row
<1>2. QED
  BY <1>1 DEF TablesTypeOK, TablesAgree, BulkLabeled, Stored, RowsBelongToRuns,
              SpansMatchTrace, DecisionStamped, ComparisonsBelongToRuns, Comparison

(* A bulk decision whose history entries all belong to stored runs leaves  *)
(* consistent tables.                                                      *)
LEMMA BulkDecidedAgrees ==
  ASSUME TablesTypeOK, TablesAgree,
         NEW R \in SUBSET RunIds, NEW decision \in Decisions, NEW read,
         \A r \in Changing(R, decision, read) : Stored(r),
         BulkDecided(R, decision, read)
  PROVE  TablesAgree'
<1>1. ASSUME NEW q \in RunIds
      PROVE  /\ Stored(q)' <=> Stored(q)
             /\ Stored(q) => runs'[q].trace = runs[q].trace
             /\ DecisionStamped(q)'
             /\ ~Stored(q) => history'[q] = history[q]
  <2>1. ASSUME Stored(q)
        PROVE  /\ Decided(runs[q], decision) \in Row
               /\ Decided(runs[q], decision).trace = runs[q].trace
               /\ Stamped(Decided(runs[q], decision).decision,
                          Decided(runs[q], decision).decision_at)
    BY <2>1, DecidedIsRow DEF TablesTypeOK, Stored
  <2>2. runs'[q] = IF q \in R /\ Stored(q) THEN Decided(runs[q], decision)
                                           ELSE runs[q]
    BY DEF BulkDecided
  <2>3. ~Stored(q) => history'[q] = history[q]
    BY DEF BulkDecided
  <2>4. CASE q \in R /\ Stored(q)
    BY <2>1, <2>2, <2>4, RowIsNotNone DEF Stored, DecisionStamped
  <2>5. CASE ~(q \in R /\ Stored(q))
    BY <2>2, <2>3, <2>5 DEF Stored, DecisionStamped, TablesAgree
  <2>6. QED
    BY <2>4, <2>5, <2>3
<1>2. ComparisonsBelongToRuns'
  BY <1>1 DEF ComparisonsBelongToRuns, TablesAgree, TablesTypeOK, Comparison, BulkDecided
<1>3. QED
  BY <1>1, <1>2 DEF TablesAgree, BulkDecided, RowsBelongToRuns, SpansMatchTrace, Stored

(* The cascade leaves nothing behind that refers to a deleted run. *)
LEMMA DeletedAgrees ==
  ASSUME TablesTypeOK, TablesAgree, NEW R \in SUBSET RunIds, Deleted(R)
  PROVE  TablesAgree'
BY DEF TablesTypeOK, TablesAgree, Deleted, Stored, RowsBelongToRuns,
       SpansMatchTrace, DecisionStamped, ComparisonsBelongToRuns, Comparison

(* A saved comparison refers to stored runs if they were stored when it    *)
(* was inserted.                                                           *)
LEMMA ComparisonSavedAgrees ==
  ASSUME TablesAgree, NEW comparison \in Comparison,
         Stored(comparison.run_a), Stored(comparison.run_b),
         ComparisonSaved(comparison)
  PROVE  TablesAgree'
BY DEF TablesAgree, ComparisonSaved, Stored, RowsBelongToRuns,
       SpansMatchTrace, DecisionStamped, ComparisonsBelongToRuns

(* Deleting a comparison leaves the runs as they are. *)
LEMMA ComparisonDeletedAgrees ==
  ASSUME TablesAgree, NEW id \in ComparisonIds, ComparisonDeleted(id)
  PROVE  TablesAgree'
BY DEF TablesAgree, ComparisonDeleted, Stored, RowsBelongToRuns,
       SpansMatchTrace, DecisionStamped, ComparisonsBelongToRuns

(* A step that leaves the tables alone leaves them consistent. *)
LEMMA UnchangedAgrees ==
  ASSUME TablesAgree, UNCHANGED tables
  PROVE  TablesAgree'
BY DEF TablesAgree, tables, Stored, RowsBelongToRuns,
       SpansMatchTrace, DecisionStamped, ComparisonsBelongToRuns

-----------------------------------------------------------------------------
(* Decision histories.                                                     *)

(* An origin is a decision and a history. *)
LEMMA OriginFields ==
  ASSUME NEW origin \in Origins
  PROVE  origin.decision \in Decisions /\ origin.decision_history \in Seq(Change)
<1>1. << >> \in Seq(Change)
  OBVIOUS
<1>2. CASE origin = Origin(Pending, << >>)
  BY <1>1, <1>2, LibraryAssumption DEF Origin
<1>3. CASE origin # Origin(Pending, << >>)
  <2>1. PICK review \in Bundled : origin = Origin(review.decision, review.decision_history)
    BY <1>3 DEF Origins
  <2>2. review \in Review
    BY BundleAssumption
  <2>3. QED
    BY <2>1, <2>2 DEF Origin, Review
<1>4. QED
  BY <1>2, <1>3

(* What a bundle brings, or a new run starts with, explains itself. *)
LEMMA OriginExplains ==
  ASSUME NEW origin \in Origins
  PROVE  Explains(origin.decision_history, origin.decision)
<1>1. Len(origin.decision_history) \in Nat
  BY OriginFields
<1>2. Continues(origin, origin.decision_history, origin.decision)
  BY <1>1 DEF Continues, DecisionAfter
<1>3. QED
  BY <1>2 DEF Explains

(* An entry that starts at the explained decision and changes it extends   *)
(* the explanation, from the same origin.                                  *)
LEMMA RecordedExplains ==
  ASSUME NEW changes \in Seq(Change), NEW previous \in Decisions,
         NEW decision \in Decisions, previous # decision, Explains(changes, previous)
  PROVE  Explains(Recorded(changes, previous, decision), decision)
<1> DEFINE longer == Recorded(changes, previous, decision)
<1>1. /\ longer \in Seq(Change) /\ Len(longer) = Len(changes) + 1
      /\ longer[Len(longer)] = [previous_decision |-> previous, decision |-> decision]
      /\ \A i \in 1 .. Len(changes) : longer[i] = changes[i]
  BY DEF Recorded, Change
<1>2. PICK origin \in Origins : Continues(origin, changes, previous)
  BY DEF Explains
<1> DEFINE n == Len(origin.decision_history)
           After(entries, i) == DecisionAfter(entries, n, origin.decision, i)
<1>3. n \in Nat /\ n <= Len(changes) /\ Len(changes) \in Nat
  BY <1>2, OriginFields DEF Continues
<1>4. \A i \in n .. Len(changes) : After(longer, i) = After(changes, i)
  BY <1>1, <1>3 DEF DecisionAfter
<1>5. After(changes, Len(changes)) = previous /\ After(longer, Len(longer)) = decision
  BY <1>1, <1>2, <1>3 DEF Continues, DecisionAfter
<1> HIDE DEF longer, After
<1>6. ASSUME NEW i \in n + 1 .. Len(longer)
      PROVE  /\ longer[i].previous_decision = After(longer, i - 1)
             /\ longer[i].decision # After(longer, i - 1)
  <2>1. CASE i = Len(longer)
    BY <1>1, <1>3, <1>4, <1>5, <2>1
  <2>2. CASE i # Len(longer)
    <3>1. i \in n + 1 .. Len(changes) /\ i - 1 \in n .. Len(changes)
      BY <1>1, <1>3, <2>2
    <3>2. /\ changes[i].previous_decision = After(changes, i - 1)
          /\ changes[i].decision # After(changes, i - 1)
      BY <1>2, <3>1 DEF Continues, After
    <3>3. longer[i] = changes[i]
      BY <1>1, <1>3, <3>1
    <3>4. QED
      BY <1>4, <3>1, <3>2, <3>3
  <2>3. QED
    BY <2>1, <2>2
<1>7. \A i \in 1 .. n : longer[i] = origin.decision_history[i]
  BY <1>1, <1>2, <1>3 DEF Continues
<1>8. Continues(origin, longer, decision)
  BY <1>1, <1>3, <1>5, <1>6, <1>7 DEF Continues, After
<1>9. QED
  BY <1>8 DEF Explains, longer

(* An ingest leaves every decision explained: it changes none, and a new   *)
(* run starts pending with no history.                                     *)
LEMMA IngestedExplains ==
  ASSUME TablesTypeOK, TablesAgree, NEW q \in RunIds, HistoryExplains(q),
         NEW r \in RunIds, NEW trace \in Traces, Ingested(r, trace)
  PROVE  HistoryExplains(q)'
<1>1. CASE q # r
  BY <1>1 DEF HistoryExplains, Ingested, Stored, TablesTypeOK
<1>2. CASE q = r /\ Stored(r)
  BY <1>2 DEF HistoryExplains, Ingested, Upserted, Stored, TablesTypeOK, Row
<1>3. CASE q = r /\ ~Stored(r)
  <2>1. history'[q] = << >> /\ runs'[q].decision = Pending
    BY <1>3 DEF Ingested, Upserted, TablesTypeOK, TablesAgree, RowsBelongToRuns
  <2>2. Explains(<< >>, Pending)
    <3>1. Origin(Pending, << >>) \in Origins
      BY DEF Origins
    <3>2. QED
      BY <3>1, OriginExplains DEF Origin
  <2>3. QED
    BY <2>1, <2>2 DEF HistoryExplains
<1>4. QED
  BY <1>1, <1>2, <1>3

(* A bundle explains itself: it is an origin. *)
LEMMA BundledExplains ==
  ASSUME NEW review \in Bundled
  PROVE  Explains(review.decision_history, review.decision)
<1>1. Origin(review.decision, review.decision_history) \in Origins
  BY DEF Origins
<1>2. QED
  BY <1>1, OriginExplains DEF Origin

(* A restore explains the decision it restores if the review does. *)
LEMMA RestoredExplains ==
  ASSUME TablesTypeOK, NEW q \in RunIds,
         NEW r \in RunIds, NEW trace \in Traces, NEW review \in Review,
         q = r => Explains(review.decision_history, review.decision),
         q # r => HistoryExplains(q),
         Restored(r, trace, review)
  PROVE  HistoryExplains(q)'
<1>1. CASE q # r
  BY <1>1 DEF HistoryExplains, Restored, Stored, TablesTypeOK
<1>2. CASE q = r
  <2>1. runs'[q].decision = review.decision /\ history'[q] = review.decision_history
    BY <1>2, UpsertedIsRow DEF Restored, Reviewed, TablesTypeOK, Row
  <2>2. QED
    BY <1>2, <2>1 DEF HistoryExplains
<1>3. QED
  BY <1>1, <1>2

(* An annotation that knows the current decision leaves it explained. *)
LEMMA AnnotatedExplains ==
  ASSUME TablesTypeOK, NEW q \in RunIds, HistoryExplains(q),
         NEW r \in RunIds, Stored(r), NEW label \in Labels \cup {None},
         NEW decision \in Decisions \cup {None}, NEW previous,
         q = r => previous = runs[r].decision,
         Annotated(r, label, decision, previous)
  PROVE  HistoryExplains(q)'
<1>1. CASE q # r
  BY <1>1 DEF HistoryExplains, Annotated, Stored, TablesTypeOK
<1>2. CASE q = r
  <2>1. runs[r] \in Row /\ previous = runs[r].decision /\ previous \in Decisions
    BY <1>2 DEF TablesTypeOK, Stored, Row
  <2>2. runs'[q] = Annotate(runs[r], label, decision)
    BY <1>2 DEF Annotated, TablesTypeOK
  <2>3. CASE decision = None
    BY <2>1, <2>2, <2>3, <1>2, AnnotateIsRow DEF HistoryExplains, Annotated, Stored
  <2>4. CASE decision # None /\ decision = previous
    BY <2>1, <2>2, <2>4, <1>2, AnnotateIsRow DEF HistoryExplains, Annotated, Stored
  <2>5. CASE decision # None /\ decision # previous
    <3>1. history'[q] = Recorded(history[r], previous, decision)
      BY <2>5, <1>2 DEF Annotated, TablesTypeOK
    <3>2. Explains(history[r], previous)
      BY <2>1, <1>2 DEF HistoryExplains
    <3>3. Explains(Recorded(history[r], previous, decision), decision)
      BY <2>1, <2>5, <3>2, RecordedExplains DEF TablesTypeOK
    <3>4. runs'[q].decision = decision
      BY <2>1, <2>2, <2>5, AnnotateIsRow
    <3>5. QED
      BY <3>1, <3>3, <3>4 DEF HistoryExplains
  <2>6. QED
    BY <2>3, <2>4, <2>5
<1>3. QED
  BY <1>1, <1>2

(* Bulk labeling changes no decision. *)
LEMMA BulkLabeledExplains ==
  ASSUME TablesTypeOK, NEW q \in RunIds, HistoryExplains(q),
         NEW R \in SUBSET RunIds, NEW label \in Labels, BulkLabeled(R, label)
  PROVE  HistoryExplains(q)'
BY DEF HistoryExplains, BulkLabeled, Stored, TablesTypeOK, Row

(* A bulk decision that knows the current decision of a run leaves it      *)
(* explained.                                                              *)
LEMMA BulkDecidedExplains ==
  ASSUME TablesTypeOK, NEW q \in RunIds, HistoryExplains(q),
         NEW R \in SUBSET RunIds, NEW decision \in Decisions, NEW read,
         q \in R => read[q] = runs[q], BulkDecided(R, decision, read)
  PROVE  HistoryExplains(q)'
<1>1. CASE q \notin R \/ ~Stored(q)
  BY <1>1 DEF HistoryExplains, BulkDecided, Changing, Stored
<1>2. CASE q \in R /\ Stored(q) /\ runs[q].decision = decision
  <2>1. runs'[q].decision = decision /\ history'[q] = history[q]
    BY <1>2, DecidedIsRow DEF BulkDecided, Changing, Stored, TablesTypeOK
  <2>2. QED
    BY <1>2, <2>1 DEF HistoryExplains, Stored
<1>3. CASE q \in R /\ Stored(q) /\ runs[q].decision # decision
  <2>1. runs[q] \in Row /\ runs[q].decision \in Decisions
    BY <1>3 DEF TablesTypeOK, Stored, Row
  <2>2. /\ runs'[q].decision = decision
        /\ history'[q] = Recorded(history[q], runs[q].decision, decision)
    BY <1>3, <2>1, DecidedIsRow DEF BulkDecided, Changing, Stored
  <2>3. Explains(Recorded(history[q], runs[q].decision, decision), decision)
    BY <1>3, <2>1, RecordedExplains DEF HistoryExplains, TablesTypeOK
  <2>4. QED
    BY <2>2, <2>3 DEF HistoryExplains
<1>4. QED
  BY <1>1, <1>2, <1>3

(* A deleted run needs no explanation. *)
LEMMA DeletedExplains ==
  ASSUME TablesTypeOK, NEW q \in RunIds, HistoryExplains(q),
         NEW R \in SUBSET RunIds, Deleted(R)
  PROVE  HistoryExplains(q)'
BY DEF HistoryExplains, Deleted, Stored

(* A step that leaves runs and history alone changes no explanation. *)
LEMMA UnchangedExplains ==
  ASSUME NEW q \in RunIds, HistoryExplains(q), UNCHANGED <<runs, history>>
  PROVE  HistoryExplains(q)'
BY DEF HistoryExplains, Stored
=============================================================================
