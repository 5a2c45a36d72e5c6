----------------------------- MODULE AtomicStore -----------------------------
(***************************************************************************)
(* What the documentation of TraceStore promises to one caller: every      *)
(* operation reads the library and changes it in a single step.  README.md *)
(* describes the operations this way ("in one transaction", "a label       *)
(* protects a run", "keep-local preserves existing review fields").        *)
(* TraceStore.tla is compared with this module by refinement.              *)
(***************************************************************************)
EXTENDS Library

CONSTANTS
  HistoryLimit,  \* entries a review context may carry (100 in models.py)
  MaxHistory,    \* bound: no decision is recorded past this many entries
  MaxNow         \* bound of the clock

ASSUME AtomicAssumption == HistoryLimit \in Nat /\ MaxHistory \in Nat /\ MaxNow \in Nat

vars == <<runs, spans, history, comparisons, now>>

Init == TablesInit

Room(r) == Len(history[r]) < MaxHistory

(* ingest *)
Ingest(r, trace) == Ingested(r, trace) /\ UNCHANGED now

(* restore_review_bundle: keep-local writes the bundle's review only when  *)
(* the run is new.                                                         *)
Restore(r, trace, review, policy) ==
  /\ IF policy = "keep-local" /\ Stored(r)
     THEN /\ Len(history[r]) <= HistoryLimit
          /\ Restored(r, trace, ReviewOf(r))
     ELSE Restored(r, trace, review)
  /\ UNCHANGED now

(* update_annotations: a missing run is left missing. *)
UpdateAnnotations(r, label, decision) ==
  /\ Stored(r)
  /\ decision # None => Room(r)
  /\ Annotated(r, label, decision, runs[r].decision)
  /\ UNCHANGED now

BulkSetLabels(R, label) == BulkLabeled(R, label) /\ UNCHANGED now

BulkSetDecisions(R, decision) ==
  /\ \A r \in R : Room(r)
  /\ BulkDecided(R, decision, runs)
  /\ UNCHANGED now

(* prune_runs: the cutoff is an age before the moment of the call. *)
Cutoffs == {moment - age : moment \in 0 .. now, age \in Ages}

PruneRuns(R, cutoff, keep_labeled) ==
  /\ Deleted({r \in R : Expired(runs[r], cutoff, keep_labeled)})
  /\ UNCHANGED now

SaveComparison(comparison) ==
  /\ Stored(comparison.run_a) /\ Stored(comparison.run_b)
  /\ \A c \in comparisons : c.comparison_id # comparison.comparison_id
  /\ ComparisonSaved(comparison)
  /\ UNCHANGED now

DeleteComparison(id) == ComparisonDeleted(id) /\ UNCHANGED now

Tick == now < MaxNow /\ now' = now + 1 /\ UNCHANGED tables

Next ==
  \/ \E r \in RunIds, trace \in Traces : Ingest(r, trace)
  \/ \E r \in RunIds, trace \in Traces, review \in Bundled,
        policy \in {"use-bundle", "keep-local"} : Restore(r, trace, review, policy)
  \/ \E r \in RunIds, label \in Labels \cup {None}, decision \in Decisions \cup {None} :
        UpdateAnnotations(r, label, decision)
  \/ \E R \in SUBSET RunIds, label \in Labels : BulkSetLabels(R, label)
  \/ \E R \in SUBSET RunIds, decision \in Decisions : BulkSetDecisions(R, decision)
  \/ \E R \in SUBSET RunIds, cutoff \in Cutoffs, keep_labeled \in BOOLEAN :
        PruneRuns(R, cutoff, keep_labeled)
  \/ \E comparison \in Comparison : SaveComparison(comparison)
  \/ \E id \in ComparisonIds : DeleteComparison(id)
  \/ Tick

Spec == Init /\ [][Next]_vars

-----------------------------------------------------------------------------
(* Every table keeps the columns the schema declares. *)
TypeOK == TablesTypeOK

(* storage.py:9, "Each changed decision gets a local history row": at any  *)
(* moment the history of a run leads, change by change, to its decision.   *)
HistoriesExplain == \A r \in RunIds : HistoryExplains(r)
==============================================================================
