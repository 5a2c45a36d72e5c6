-------------------------------- MODULE Sweeps --------------------------------
(***************************************************************************)
(* Retention sweeps: TraceStore.sweep_runs (storage.py) as the cleanup     *)
(* thread, the cleanup API and the cleanup command run it, side by side on *)
(* one library.                                                            *)
(*                                                                         *)
(* A sweep is one call and many statements.  It lists the runs a label     *)
(* protects, selects the expired runs, counts their spans and comparisons, *)
(* deletes the runs, and writes a row of the cleanup log.  Only the DELETE *)
(* and the INSERT are write transactions; each SELECT sees the library of  *)
(* its own moment.  The operations of everybody else (TraceStore.tla shows *)
(* how they run) are single steps here: Others.                            *)
(*                                                                         *)
(* The variable removed is not in the program: the runs the DELETE of a    *)
(* sweep really took out of the library.                                   *)
(***************************************************************************)
EXTENDS Library

CONSTANTS
  Sweepers,  \* threads and processes that call sweep_runs
  Attempts,  \* attempts _retry_on_lock makes (3 in the code)
  MaxNow     \* bound of the clock

ASSUME SweepAssumption ==
  /\ IsFiniteSet(RunIds)
  /\ Attempts \in Nat \ {0}
  /\ MaxNow \in Nat

VARIABLES
  last_sweep,   \* the row of the cleanup log last_sweep returns, or None
  sweep,        \* sweep[w]: the sweep w is in
  removed       \* removed[w]: runs the DELETE of that sweep removed

sweepVars == <<last_sweep, sweep, removed>>
vars == <<runs, spans, history, comparisons, now, last_sweep, sweep, removed>>

-----------------------------------------------------------------------------
(* A row of the cleanup log, without its random ID and the policy.  Rows   *)
(* are only added, and of the older ones nobody reads more than a listing: *)
(* the model keeps the newest.                                             *)
Entry == [ran_at : Nat, candidates : Nat, protected_runs : Nat,
          deleted_runs : Nat, deleted_spans : Nat, deleted_comparisons : Nat]

(* What a sweep holds in its local variables. *)
Idle == [pc |-> "idle", cutoff |-> 0, keep_labeled |-> TRUE, listed |-> {},
         protected |-> {}, target_ids |-> {}, attempts |-> 0,
         span_count |-> 0, comparison_count |-> 0, deleted_runs |-> 0, ran_at |-> 0]

(* Mutant: the log row repeats the candidates as the deleted runs.         *)
EntryOfCandidates(s) ==
  [ran_at |-> s.ran_at, candidates |-> Cardinality(s.target_ids),
   protected_runs |-> Cardinality(s.protected),
   deleted_runs |-> Cardinality(s.target_ids), deleted_spans |-> s.span_count,
   deleted_comparisons |-> s.comparison_count]

EntryOf(s) ==
  [ran_at |-> s.ran_at, candidates |-> Cardinality(s.target_ids),
   protected_runs |-> Cardinality(s.protected),
   deleted_runs |-> s.deleted_runs, deleted_spans |-> s.span_count,
   deleted_comparisons |-> s.comparison_count]

SpanCount(R) == Cardinality({row \in R \X SpanIds : row[2] \in spans[row[1]]})

ComparisonCount(R) == Cardinality({c \in comparisons : c.run_a \in R \/ c.run_b \in R})

(* What prune_runs would keep for its label: protected_runs.               *)
ProtectedRuns(R, cutoff) ==
  {r \in R : Expired(runs[r], cutoff, FALSE) /\ runs[r].label # NoLabel}

-----------------------------------------------------------------------------
(* Steps of one sweep.                                                     *)

At(w, pc) == sweep[w].pc = pc

(* The cutoff is fixed first, then a sweep that keeps labeled runs lists   *)
(* the ones it protects.                                                   *)
Begin(w, age, keep_labeled, R) ==
  /\ At(w, "idle")
  /\ sweep' = [sweep EXCEPT ![w] =
                 [Idle EXCEPT !.pc = IF keep_labeled THEN "protect" ELSE "select",
                              !.cutoff = now - age,
                              !.keep_labeled = keep_labeled,
                              !.listed = R]]
  /\ UNCHANGED <<tables, now, last_sweep, removed>>

ListProtected(w) ==
  /\ At(w, "protect")
  /\ sweep' = [sweep EXCEPT ![w].pc = "select",
                            ![w].protected = ProtectedRuns(sweep[w].listed, sweep[w].cutoff)]
  /\ UNCHANGED <<tables, now, last_sweep, removed>>

(* _retention_ids.  With nothing to delete, prune_runs returns at once and *)
(* counts nothing, whatever an attempt before counted.                     *)
SelectExpired(w) ==
  /\ At(w, "select")
  /\ LET ids == {r \in sweep[w].listed :
                   Expired(runs[r], sweep[w].cutoff, sweep[w].keep_labeled)}
     IN  sweep' = [sweep EXCEPT ![w].target_ids = ids,
                                ![w].pc = IF ids = {} THEN "record" ELSE "count spans",
                                ![w].span_count = 0,
                                ![w].comparison_count = 0,
                                ![w].ran_at = IF ids = {} THEN now ELSE 0,
                                ![w].attempts = IF ids = {} THEN 0 ELSE @]
  /\ UNCHANGED <<tables, now, last_sweep, removed>>

CountSpans(w) ==
  /\ At(w, "count spans")
  /\ sweep' = [sweep EXCEPT
                 ![w].pc = "count comparisons",
                 ![w].span_count = SpanCount(sweep[w].target_ids)]
  /\ UNCHANGED <<tables, now, last_sweep, removed>>

CountComparisons(w) ==
  /\ At(w, "count comparisons")
  /\ sweep' = [sweep EXCEPT
                 ![w].pc = "delete",
                 ![w].comparison_count = ComparisonCount(sweep[w].target_ids)]
  /\ UNCHANGED <<tables, now, last_sweep, removed>>

(* DELETE, whose rowcount is the number of runs it found.                  *)
Delete(w) ==
  /\ At(w, "delete")
  /\ Deleted(sweep[w].target_ids)
  /\ removed' = [removed EXCEPT ![w] = {r \in RunIds : Stored(r) /\ runs'[r] = None}]
  /\ sweep' = [sweep EXCEPT
                 ![w].pc = "record",
                 ![w].deleted_runs = Cardinality({r \in sweep[w].target_ids : Stored(r)}),
                 ![w].ran_at = now,
                 ![w].attempts = 0]
  /\ UNCHANGED <<now, last_sweep>>

(* Mutant: a failed write is tried once more, whatever happened before.    *)
RetryAlways(w) ==
  /\ sweep[w].pc \in {"delete", "record"}
  /\ sweep' = [sweep EXCEPT ![w].pc = IF At(w, "delete") THEN "select" ELSE "record"]
  /\ UNCHANGED <<tables, now, last_sweep, removed>>

(* Another connection holds the write lock past the busy timeout: the      *)
(* whole prune, or the INSERT of the same log row, is tried again.         *)
LockTimeout(w) ==
  /\ sweep[w].pc \in {"delete", "record"}
  /\ sweep[w].attempts + 1 < Attempts
  /\ sweep' = [sweep EXCEPT ![w].pc = IF At(w, "delete") THEN "select" ELSE "record",
                            ![w].attempts = @ + 1]
  /\ UNCHANGED <<tables, now, last_sweep, removed>>

(* Sweeps end as they are, and what they committed stays. *)
Abandon(W) ==
  /\ sweep' = [w \in Sweepers |-> IF w \in W THEN Idle ELSE sweep[w]]
  /\ removed' = [w \in Sweepers |-> IF w \in W THEN {} ELSE removed[w]]
  /\ UNCHANGED <<tables, now, last_sweep>>

(* The last attempt failed: sweep_runs raises. *)
LockError(w) ==
  /\ sweep[w].pc \in {"delete", "record"}
  /\ sweep[w].attempts + 1 >= Attempts
  /\ Abandon({w})

(* Mutant: the newest row is the one inserted last.                        *)
NewestByInsertion(row) == {row}

(* ORDER BY ran_at DESC, sweep_id DESC: rows of one moment come in the     *)
(* order of their random IDs.                                              *)
Newest(row) ==
  IF last_sweep = None THEN {row}
  ELSE {e \in {row, last_sweep} : e.ran_at >= row.ran_at /\ e.ran_at >= last_sweep.ran_at}

Record(w) ==
  /\ At(w, "record")
  /\ last_sweep' \in Newest(EntryOf(sweep[w]))
  /\ sweep' = [sweep EXCEPT ![w] = Idle]
  /\ removed' = [removed EXCEPT ![w] = {}]
  /\ UNCHANGED <<tables, now>>

(* A process dies, and all its threads with it. *)
Crash(W) == (\E w \in W : ~At(w, "idle")) /\ Abandon(W)

SweepStep(w) ==
  \/ ListProtected(w) \/ SelectExpired(w) \/ CountSpans(w) \/ CountComparisons(w)
  \/ Delete(w) \/ LockTimeout(w) \/ LockError(w) \/ Record(w)

-----------------------------------------------------------------------------
(* Everybody else.                                                         *)

Others ==
  /\ \/ \E r \in RunIds, trace \in Traces : Ingested(r, trace)
     \/ \E r \in RunIds, label \in Labels : BulkLabeled({r}, label)
     \/ \E c \in Comparison :
           /\ Stored(c.run_a) /\ Stored(c.run_b)
           /\ \A other \in comparisons : other.comparison_id # c.comparison_id
           /\ ComparisonSaved(c)
  /\ UNCHANGED <<now, sweepVars>>

Tick ==
  /\ now < MaxNow
  /\ now' = now + 1
  /\ UNCHANGED <<tables, sweepVars>>

SweepInit ==
  /\ TablesInit
  /\ last_sweep = None
  /\ sweep = [w \in Sweepers |-> Idle]
  /\ removed = [w \in Sweepers |-> {}]

Init == SweepInit

Next ==
  \/ \E w \in Sweepers :
        \/ \E age \in Ages, keep_labeled \in BOOLEAN, R \in (SUBSET RunIds) \ {{}} :
              Begin(w, age, keep_labeled, R)
        \/ SweepStep(w)
  \/ \E W \in SUBSET Sweepers : Crash(W)
  \/ Others
  \/ Tick

Spec == Init /\ [][Next]_vars

(* A sweep that has begun goes on; the waits in it are all bounded. *)
FairSpec == Spec /\ \A w \in Sweepers : WF_vars(SweepStep(w))

-----------------------------------------------------------------------------
(* Type invariant: the locals of a sweep match the step it is at.          *)
Steps == {"idle", "protect", "select", "count spans", "count comparisons",
          "delete", "record"}

TypeOK ==
  /\ TablesTypeOK
  /\ last_sweep \in Entry \cup {None}
  /\ \A w \in Sweepers :
       /\ sweep[w].pc \in Steps
       /\ sweep[w].attempts \in 0 .. Attempts - 1
       /\ sweep[w].target_ids \subseteq sweep[w].listed
       /\ sweep[w].pc \in {"count spans", "count comparisons", "delete"}
            => sweep[w].target_ids # {}
       /\ removed[w] # {} => sweep[w].pc = "record"

(* A row of the cleanup log (storage.py:559) counts the runs its sweep     *)
(* took out of the library, and without candidates counts no span and no   *)
(* comparison: also when another sweep deleted some of the candidates      *)
(* first, or the prune or the INSERT had to be tried again.                *)
LoggedCountIsExact ==
  [][last_sweep' # last_sweep =>
        \E w \in Sweepers :
           /\ At(w, "record") /\ At(w, "idle")'
           /\ last_sweep'.deleted_runs = Cardinality(removed[w])
           /\ last_sweep'.deleted_runs <= last_sweep'.candidates
           /\ last_sweep'.candidates = 0 =>
                last_sweep'.deleted_spans = 0 /\ last_sweep'.deleted_comparisons = 0]_vars

(* last_sweep and the retention line of the report: the time of the last   *)
(* cleanup never goes back, though a sweep can be overtaken by another     *)
(* between the moment it notes and its INSERT.                             *)
LastSweepNeverGoesBack ==
  [][last_sweep # None => last_sweep'.ran_at >= last_sweep.ran_at]_vars

(* sweep_runs: a sweep always comes to an end, recorded or raised, even    *)
(* when other connections keep the write lock from it at every attempt.    *)
SweepsEnd == \A w \in Sweepers : ~At(w, "idle") ~> At(w, "idle")

-----------------------------------------------------------------------------
(* Statements of the documentation the interleavings refute.               *)

(* storage.py:15, "A cleanup log records every scheduled sweep": a sweep   *)
(* that deleted runs does not end without its row.                         *)
EveryDeletionIsLogged ==
  [][\A w \in Sweepers : removed[w] # {} /\ removed'[w] = {}
        => last_sweep' # None /\ last_sweep'.ran_at >= sweep[w].ran_at]_vars

(* storage.py:506, prune_runs returns the counts of what it deletes: the   *)
(* spans it reports are the spans that go with the runs.                   *)
DeletedSpansAreCounted ==
  [][\A w \in Sweepers : At(w, "delete") /\ At(w, "record")'
        => sweep[w].span_count = SpanCount(sweep[w].target_ids)]_vars

(* storage.py:480, protected_runs lists "labeled runs that age-based       *)
(* cleanup would skip": the sweep that lists a run skips it.               *)
ProtectedRunsAreSkipped ==
  [][\A w \in Sweepers : removed'[w] \cap sweep[w].protected = {}]_vars
=============================================================================
