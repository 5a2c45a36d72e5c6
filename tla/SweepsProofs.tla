----------------------------- MODULE SweepsProofs -----------------------------
(***************************************************************************)
(* Proofs about Sweeps for any number of sweepers, runs and attempts: the  *)
(* log counts what a sweep removed, and the newest entry never gets older. *)
(* The locals of a sweep have to be followed through its statements: what  *)
(* the entry counts was decided by the DELETE, steps and retries before.   *)
(***************************************************************************)
EXTENDS Scheduler, FiniteSetTheorems, TLAPS

(* The locals of a sweep that decide its entry. *)
Locals ==
  [pc : Steps, cutoff : Int, keep_labeled : BOOLEAN, listed : SUBSET RunIds,
   protected : SUBSET RunIds, target_ids : SUBSET RunIds, attempts : Nat,
   span_count : {Cardinality(S) : S \in SUBSET (RunIds \X SpanIds)},
   comparison_count : {Cardinality(S) : S \in SUBSET Comparison},
   deleted_runs : Nat, ran_at : Nat]

Types ==
  /\ now \in Nat
  /\ runs \in [RunIds -> Row \cup {None}]
  /\ comparisons \subseteq Comparison
  /\ sweep \in [Sweepers -> Locals]
  /\ removed \in [Sweepers -> SUBSET RunIds]

(* Without candidates nothing was counted.                                 *)
CountsMatch(s) == s.target_ids = {} => s.span_count = 0 /\ s.comparison_count = 0

(* Up to the DELETE nothing was removed; from it on the sweep knows how    *)
(* many runs it removed, candidates all of them.                           *)
RemovedIsCounted ==
  \A w \in Sweepers :
     /\ sweep[w].pc # "record" => removed[w] = {} /\ sweep[w].deleted_runs = 0
     /\ sweep[w].deleted_runs = Cardinality(removed[w])
     /\ removed[w] \subseteq sweep[w].target_ids
     /\ CountsMatch(sweep[w])

NewestIsTimed == last_sweep # None => last_sweep.ran_at \in Nat

IInv == Types /\ RemovedIsCounted /\ NewestIsTimed

-----------------------------------------------------------------------------
LEMMA IdleIsLocal == Idle \in Locals /\ Cardinality({}) = 0
BY FS_EmptySet DEF Idle, Locals, Steps

(* The empty library and its idle sweepers satisfy the invariant. *)
LEMMA InitIInv == Init => IInv
BY IdleIsLocal
DEF Init, SweepInit, TablesInit, IInv, Types, RemovedIsCounted, CountsMatch, NewestIsTimed, Idle

(* A sweep that moves on without deleting keeps what it knows. *)
LEMMA MovesKeep ==
  ASSUME IInv, NEW w \in Sweepers, NEW s \in Locals,
         sweep' = [sweep EXCEPT ![w] = s],
         sweep[w].pc # "record" \/ s.target_ids = sweep[w].target_ids,
         s.pc = "record" => sweep[w].pc = "record" \/ s.deleted_runs = 0,
         s.deleted_runs = sweep[w].deleted_runs,
         sweep[w].pc = "record" => s.pc = "record",
         CountsMatch(s),
         UNCHANGED <<tables, now, last_sweep, removed>>
  PROVE  IInv'
<1>1. Types'
  BY DEF IInv, Types, tables
<1>2. sweep'[w] = s /\ \A v \in Sweepers : v # w => sweep'[v] = sweep[v]
  BY DEF IInv, Types
<1>3. RemovedIsCounted'
  BY <1>2 DEF IInv, RemovedIsCounted
<1>4. QED
  BY <1>1, <1>3 DEF IInv, NewestIsTimed

(* A sweep that is over has nothing to count. *)
LEMMA OverKeeps ==
  ASSUME IInv, NEW W \in SUBSET Sweepers,
         sweep' = [w \in Sweepers |-> IF w \in W THEN Idle ELSE sweep[w]],
         removed' = [w \in Sweepers |-> IF w \in W THEN {} ELSE removed[w]],
         UNCHANGED <<tables, now>>,
         last_sweep' = last_sweep \/ last_sweep'.ran_at \in Nat
  PROVE  IInv'
<1>1. Types'
  BY IdleIsLocal DEF IInv, Types, tables
<1>2. RemovedIsCounted'
  <2>1. \A w \in Sweepers :
           \/ sweep'[w] = Idle /\ removed'[w] = {}
           \/ sweep'[w] = sweep[w] /\ removed'[w] = removed[w]
    <3>1. ASSUME NEW w \in Sweepers, w \in W PROVE sweep'[w] = Idle /\ removed'[w] = {}
      BY <3>1
    <3>2. ASSUME NEW w \in Sweepers, w \notin W
          PROVE  sweep'[w] = sweep[w] /\ removed'[w] = removed[w]
      BY <3>2
    <3>3. QED
      BY <3>1, <3>2
  <2>2. QED
    BY <2>1, IdleIsLocal DEF IInv, RemovedIsCounted, CountsMatch, Idle
<1>3. QED
  BY <1>1, <1>2 DEF IInv, NewestIsTimed

LEMMA BeginKeeps ==
  ASSUME IInv, NEW w \in Sweepers, NEW age \in Ages, NEW keep_labeled \in BOOLEAN,
         NEW R \in SUBSET RunIds, Begin(w, age, keep_labeled, R)
  PROVE  IInv'
<1> DEFINE s == [Idle EXCEPT !.pc = IF keep_labeled THEN "protect" ELSE "select",
                             !.cutoff = now - age, !.keep_labeled = keep_labeled, !.listed = R]
<1>1. now - age \in Int
  BY LibraryAssumption DEF IInv, Types
<1>2. s \in Locals /\ s.deleted_runs = 0 /\ s.pc # "record" /\ CountsMatch(s)
  BY <1>1, IdleIsLocal DEF Idle, Locals, Steps, CountsMatch
<1>3. sweep' = [sweep EXCEPT ![w] = s] /\ sweep[w].pc = "idle"
      /\ UNCHANGED <<tables, now, last_sweep, removed>>
  BY DEF Begin, At
<1>4. sweep[w].deleted_runs = 0
  BY <1>3 DEF IInv, RemovedIsCounted
<1> HIDE DEF s
<1>5. QED
  BY <1>2, <1>3, <1>4, MovesKeep

(* The SELECTs of a sweep. *)
LEMMA SelectsKeep ==
  ASSUME IInv, NEW w \in Sweepers,
         ListProtected(w) \/ SelectExpired(w) \/ CountSpans(w) \/ CountComparisons(w)
  PROVE  IInv'
<1> DEFINE old == sweep[w]
<1>1. old \in Locals /\ removed[w] = {}
  BY DEF IInv, Types, RemovedIsCounted, ListProtected, SelectExpired, CountSpans,
         CountComparisons, At
<1>2. old.listed \in SUBSET RunIds /\ old.target_ids \in SUBSET RunIds /\ now \in Nat
  BY <1>1 DEF Locals, IInv, Types
<1>3. old.pc # "record" /\ old.deleted_runs = 0 /\ CountsMatch(old)
  BY DEF IInv, RemovedIsCounted, ListProtected, SelectExpired, CountSpans, CountComparisons, At
<1>4. CASE ListProtected(w)
  <2> DEFINE new == [old EXCEPT !.pc = "select",
                                !.protected = ProtectedRuns(old.listed, old.cutoff)]
  <2>1. new \in Locals /\ new.deleted_runs = 0 /\ new.pc = "select" /\ CountsMatch(new)
    BY <1>1, <1>2, <1>3 DEF Locals, Steps, ProtectedRuns, CountsMatch
  <2>2. sweep' = [sweep EXCEPT ![w] = new] /\ UNCHANGED <<tables, now, last_sweep, removed>>
    BY <1>4 DEF ListProtected, IInv, Types
  <2> HIDE DEF new
  <2>3. QED
    BY <1>3, <2>1, <2>2, MovesKeep
<1>5. CASE SelectExpired(w)
  <2> DEFINE ids == {r \in old.listed : Expired(runs[r], old.cutoff, old.keep_labeled)}
             new == [old EXCEPT !.target_ids = ids,
                                !.pc = IF ids = {} THEN "record" ELSE "count spans",
                                !.span_count = 0,
                                !.comparison_count = 0,
                                !.ran_at = IF ids = {} THEN now ELSE 0,
                                !.attempts = IF ids = {} THEN 0 ELSE @]
  <2>1. new \in Locals /\ new.deleted_runs = 0 /\ CountsMatch(new)
    <3>1. /\ 0 \in {Cardinality(S) : S \in SUBSET (RunIds \X SpanIds)}
          /\ 0 \in {Cardinality(S) : S \in SUBSET Comparison}
      BY IdleIsLocal
    <3>2. QED
      BY <1>1, <1>2, <1>3, <3>1 DEF Locals, Steps, CountsMatch
  <2>2. sweep' = [sweep EXCEPT ![w] = new] /\ UNCHANGED <<tables, now, last_sweep, removed>>
    BY <1>5 DEF SelectExpired, IInv, Types
  <2> HIDE DEF new
  <2>3. QED
    BY <1>3, <2>1, <2>2, MovesKeep
<1>6. CASE CountSpans(w)
  <2> DEFINE new == [old EXCEPT !.pc = "count comparisons",
                                !.span_count = SpanCount(old.target_ids)]
  <2>1. /\ new \in Locals /\ new.deleted_runs = 0 /\ new.pc = "count comparisons"
        /\ CountsMatch(new)
    <3>1. SpanCount(old.target_ids) \in {Cardinality(S) : S \in SUBSET (RunIds \X SpanIds)}
      BY <1>2 DEF SpanCount
    <3>3. old.target_ids = {} => SpanCount(old.target_ids) = 0
      BY IdleIsLocal DEF SpanCount
    <3>2. QED
      BY <1>1, <1>3, <3>1, <3>3 DEF Locals, Steps, CountsMatch
  <2>2. sweep' = [sweep EXCEPT ![w] = new] /\ UNCHANGED <<tables, now, last_sweep, removed>>
    BY <1>6 DEF CountSpans, IInv, Types
  <2> HIDE DEF new
  <2>3. QED
    BY <1>3, <2>1, <2>2, MovesKeep
<1>7. CASE CountComparisons(w)
  <2> DEFINE new == [old EXCEPT !.pc = "delete",
                                !.comparison_count = ComparisonCount(old.target_ids)]
  <2>1. new \in Locals /\ new.deleted_runs = 0 /\ new.pc = "delete" /\ CountsMatch(new)
    <3>3. old.target_ids = {} => ComparisonCount(old.target_ids) = 0
      BY IdleIsLocal DEF ComparisonCount
    <3>1. ComparisonCount(old.target_ids) \in {Cardinality(S) : S \in SUBSET Comparison}
      BY DEF ComparisonCount, IInv, Types
    <3>2. QED
      BY <1>1, <1>3, <3>1, <3>3 DEF Locals, Steps, CountsMatch
  <2>2. sweep' = [sweep EXCEPT ![w] = new] /\ UNCHANGED <<tables, now, last_sweep, removed>>
    BY <1>7 DEF CountComparisons, IInv, Types
  <2> HIDE DEF new
  <2>3. QED
    BY <1>3, <2>1, <2>2, MovesKeep
<1>8. QED
  BY <1>4, <1>5, <1>6, <1>7

(* The DELETE counts the candidates it finds, which are what it removes.   *)
LEMMA DeleteKeeps == ASSUME IInv, NEW w \in Sweepers, Delete(w) PROVE IInv'
<1> DEFINE old == sweep[w]
           found == {r \in old.target_ids : Stored(r)}
           new == [old EXCEPT !.pc = "record", !.deleted_runs = Cardinality(found),
                              !.ran_at = now, !.attempts = 0]
<1>1. old \in Locals /\ now \in Nat /\ old.target_ids \in SUBSET RunIds
  BY DEF IInv, Types, Locals
<1>2. /\ runs' = [r \in RunIds |-> IF r \in old.target_ids THEN None ELSE runs[r]]
      /\ comparisons' \subseteq comparisons
      /\ sweep' = [sweep EXCEPT ![w] = new]
      /\ removed' = [removed EXCEPT ![w] = {r \in RunIds : Stored(r) /\ runs'[r] = None}]
      /\ UNCHANGED <<now, last_sweep>>
  BY DEF Delete, Deleted, IInv, Types
<1>3. {r \in RunIds : Stored(r) /\ runs'[r] = None} = found
  BY <1>1, <1>2 DEF Stored
<1>4. Cardinality(found) \in Nat
  BY <1>1, SweepAssumption, FS_Subset, FS_CardinalityType
<1>5. new \in Locals
  BY <1>1, <1>4 DEF Locals, Steps
<1>6. Types'
  BY <1>1, <1>2, <1>3, <1>5 DEF IInv, Types
<1>7. RemovedIsCounted'
  <2>1. sweep'[w] = new /\ removed'[w] = found
    BY <1>2, <1>3 DEF IInv, Types
  <2>5. CountsMatch(old)
    BY DEF IInv, RemovedIsCounted
  <2>2. /\ new.pc = "record" /\ new.deleted_runs = Cardinality(found)
        /\ new.target_ids = old.target_ids /\ CountsMatch(new)
    BY <1>1, <2>5 DEF Locals, CountsMatch
  <2>3. \A v \in Sweepers : v # w => sweep'[v] = sweep[v] /\ removed'[v] = removed[v]
    BY <1>2 DEF IInv, Types
  <2> HIDE DEF new
  <2>4. QED
    BY <2>1, <2>2, <2>3 DEF IInv, RemovedIsCounted
<1>8. QED
  BY <1>2, <1>6, <1>7 DEF IInv, NewestIsTimed

(* A retry, of the whole prune or of the INSERT. *)
LEMMA LockTimeoutKeeps == ASSUME IInv, NEW w \in Sweepers, LockTimeout(w) PROVE IInv'
<1> DEFINE old == sweep[w]
           step == IF At(w, "delete") THEN "select" ELSE "record"
           count == old.attempts + 1
           new == [old EXCEPT !.pc = step, !.attempts = count]
<1>1. old \in Locals /\ step \in Steps /\ (step = "record" <=> old.pc = "record")
  BY DEF LockTimeout, IInv, Types, At, Steps
<1>0. count \in Nat
  BY <1>1 DEF Locals
<1> HIDE DEF step, count
<1>5. CountsMatch(old)
  BY DEF IInv, RemovedIsCounted
<1>2. /\ new \in Locals /\ new.deleted_runs = old.deleted_runs
      /\ new.target_ids = old.target_ids /\ new.pc = step /\ CountsMatch(new)
  BY <1>0, <1>1, <1>5 DEF Locals, CountsMatch
<1>3. sweep' = [sweep EXCEPT ![w] = new] /\ UNCHANGED <<tables, now, last_sweep, removed>>
  BY DEF LockTimeout, IInv, Types, step, count
<1> HIDE DEF new
<1>4. QED
  BY <1>1, <1>2, <1>3, MovesKeep

(* The last row is the one recorded now or the one before. *)
LEMMA RecordedEntry ==
  ASSUME IInv, NEW w \in Sweepers, Record(w)
  PROVE  /\ last_sweep' \in {last_sweep, EntryOf(sweep[w])}
         /\ last_sweep # None => last_sweep'.ran_at >= last_sweep.ran_at
         /\ last_sweep = None => last_sweep' = EntryOf(sweep[w])
         /\ EntryOf(sweep[w]).ran_at \in Nat
<1>1. sweep[w].ran_at \in Nat
  BY DEF IInv, Types, Locals
<1>2. EntryOf(sweep[w]).ran_at \in Nat
  BY <1>1 DEF EntryOf
<1>3. QED
  BY <1>2 DEF Record, Newest

LEMMA RecordKeeps == ASSUME IInv, NEW w \in Sweepers, Record(w) PROVE IInv'
<1>1. last_sweep' = last_sweep \/ last_sweep'.ran_at \in Nat
  BY RecordedEntry
<1>2. /\ sweep' = [v \in Sweepers |-> IF v \in {w} THEN Idle ELSE sweep[v]]
      /\ removed' = [v \in Sweepers |-> IF v \in {w} THEN {} ELSE removed[v]]
      /\ UNCHANGED <<tables, now>>
  BY DEF Record, IInv, Types
<1>3. QED
  BY <1>1, <1>2, OverKeeps

(* The other clients of the library leave the sweeps alone. *)
LEMMA OthersKeep == ASSUME IInv, Others PROVE IInv'
<1>1. runs' \in [RunIds -> Row \cup {None}]
  <2>1. ASSUME NEW r \in RunIds, NEW trace \in Traces, Ingested(r, trace)
        PROVE  runs' \in [RunIds -> Row \cup {None}]
    BY <2>1, LibraryAssumption DEF Ingested, Upserted, Stored, Row, IInv, Types
  <2>2. ASSUME NEW r \in RunIds, NEW label \in Labels, BulkLabeled({r}, label)
        PROVE  runs' \in [RunIds -> Row \cup {None}]
    BY <2>2 DEF BulkLabeled, Stored, Row, IInv, Types
  <2>3. QED
    BY <2>1, <2>2 DEF Others, ComparisonSaved, IInv, Types
<1>2. comparisons' \subseteq Comparison
  BY DEF Others, Ingested, BulkLabeled, ComparisonSaved, IInv, Types
<1>3. QED
  BY <1>1, <1>2 DEF Others, sweepVars, IInv, Types, RemovedIsCounted, NewestIsTimed

LEMMA QuietKeeps == ASSUME IInv, Tick \/ UNCHANGED vars PROVE IInv'
BY DEF Tick, vars, tables, sweepVars, IInv, Types, RemovedIsCounted, NewestIsTimed

(* Every step keeps the invariant. *)
LEMMA NextIInv == IInv /\ [Next]_vars => IInv'
<1> SUFFICES ASSUME IInv, [Next]_vars PROVE IInv'
  OBVIOUS
<1>1. ASSUME NEW W \in SUBSET Sweepers, Abandon(W) PROVE IInv'
  BY <1>1, OverKeeps DEF Abandon
<1>2. ASSUME NEW w \in Sweepers, SweepStep(w) PROVE IInv'
  <2>1. CASE LockError(w)
    BY <1>1, <2>1 DEF LockError
  <2>2. QED
    BY <1>2, <2>1, SelectsKeep, DeleteKeeps, LockTimeoutKeeps, RecordKeeps DEF SweepStep
<1>3. ASSUME NEW w \in Sweepers, NEW age \in Ages, NEW keep_labeled \in BOOLEAN,
             NEW R \in (SUBSET RunIds) \ {{}}, Begin(w, age, keep_labeled, R)
      PROVE  IInv'
  BY <1>3, BeginKeeps
<1>4. QED
  BY <1>1, <1>2, <1>3, OthersKeep, QuietKeeps DEF Next, Crash

(* Every reachable state satisfies the invariant. *)
THEOREM Invariance == Spec => []IInv
BY InitIInv, NextIInv, PTL DEF Spec

-----------------------------------------------------------------------------
(* Only a sweep's INSERT changes what the log ends with. *)
LEMMA OnlyRecordsChangeTheLog ==
  ASSUME [Next]_vars, last_sweep' # last_sweep
  PROVE  \E w \in Sweepers : Record(w)
BY DEF Next, SweepStep, Begin, ListProtected, SelectExpired, CountSpans, CountComparisons,
       Delete, LockTimeout, LockError, Crash, Abandon, Others, Tick, sweepVars, vars

(* The count in the log is exact (storage.py:559): other sweeps, ingests,  *)
(* labels, retries and crashes in between do not make it wrong.            *)
THEOREM LoggedCountsAreExact == Spec => LoggedCountIsExact
<1>1. IInv /\ [Next]_vars =>
        [last_sweep' # last_sweep =>
            \E w \in Sweepers :
               /\ At(w, "record") /\ At(w, "idle")'
               /\ last_sweep'.deleted_runs = Cardinality(removed[w])
               /\ last_sweep'.deleted_runs <= last_sweep'.candidates
               /\ last_sweep'.candidates = 0 =>
                    last_sweep'.deleted_spans = 0 /\ last_sweep'.deleted_comparisons = 0]_vars
  <2> SUFFICES ASSUME IInv, [Next]_vars, last_sweep' # last_sweep
               PROVE  \E w \in Sweepers :
                         /\ At(w, "record") /\ At(w, "idle")'
                         /\ last_sweep'.deleted_runs = Cardinality(removed[w])
                         /\ last_sweep'.deleted_runs <= last_sweep'.candidates
                         /\ last_sweep'.candidates = 0 =>
                              /\ last_sweep'.deleted_spans = 0
                              /\ last_sweep'.deleted_comparisons = 0
    OBVIOUS
  <2>1. PICK w \in Sweepers : Record(w)
    BY OnlyRecordsChangeTheLog
  <2>2. last_sweep' = EntryOf(sweep[w])
    BY <2>1, RecordedEntry
  <2>3. At(w, "record") /\ At(w, "idle")'
    BY <2>1 DEF Record, At, Idle, IInv, Types
  <2>4. /\ last_sweep'.deleted_runs = Cardinality(removed[w])
        /\ last_sweep'.candidates = Cardinality(sweep[w].target_ids)
    BY <2>2 DEF EntryOf, IInv, RemovedIsCounted
  <2>5. Cardinality(removed[w]) <= Cardinality(sweep[w].target_ids)
    <3>1. removed[w] \subseteq sweep[w].target_ids /\ sweep[w].target_ids \subseteq RunIds
      BY DEF IInv, RemovedIsCounted, Types, Locals
    <3>2. QED
      BY <3>1, SweepAssumption, FS_Subset
  <2>7. ASSUME last_sweep'.candidates = 0
        PROVE  last_sweep'.deleted_spans = 0 /\ last_sweep'.deleted_comparisons = 0
    <3>1. IsFiniteSet(sweep[w].target_ids)
      BY SweepAssumption, FS_Subset DEF IInv, Types, Locals
    <3>2. sweep[w].target_ids = {}
      BY <2>4, <2>7, <3>1, FS_EmptySet
    <3>3. QED
      BY <2>2, <3>2 DEF EntryOf, IInv, RemovedIsCounted, CountsMatch
  <2>6. QED
    BY <2>3, <2>4, <2>5, <2>7
<1>2. QED
  BY <1>1, Invariance, PTL DEF Spec, LoggedCountIsExact

(* The time of the last sweep never goes back, although sweeps may insert  *)
(* their rows in another order than they note their times.                 *)
THEOREM LastSweepStaysNewest == Spec => LastSweepNeverGoesBack
<1>1. IInv /\ [Next]_vars =>
        [last_sweep # None => last_sweep'.ran_at >= last_sweep.ran_at]_vars
  <2> SUFFICES ASSUME IInv, [Next]_vars, last_sweep # None
               PROVE  last_sweep'.ran_at >= last_sweep.ran_at
    OBVIOUS
  <2>1. CASE last_sweep' = last_sweep
    BY <2>1 DEF IInv, NewestIsTimed
  <2>2. CASE last_sweep' # last_sweep
    BY <2>2, OnlyRecordsChangeTheLog, RecordedEntry
  <2>3. QED
    BY <2>1, <2>2
<1>2. QED
  BY <1>1, Invariance, PTL DEF Spec, LastSweepNeverGoesBack

-----------------------------------------------------------------------------
(* The scheduler.                                                          *)

(* A sweep that is over holds nothing. *)
IdleIsOver == \A w \in Sweepers : At(w, "idle") => sweep[w] = Idle

(* A thread is in a sweep exactly during a pass. *)
PassesSweep == \A t \in Threads : loop[t] = "pass" <=> ~At(t, "idle")

SchedulerInv ==
  /\ IInv /\ IdleIsOver /\ PassesSweep
  /\ server \in {"up", "stopping", "down"}
  /\ thread \in Threads \cup {None}
  /\ stop_event \in BOOLEAN /\ last_error \in BOOLEAN
  /\ loop \in [Threads -> {"none", "check", "pass", "wait"}]

LEMMA InitSchedulerInv == SchedulerInit => SchedulerInv
<1> SUFFICES ASSUME SchedulerInit PROVE SchedulerInv
  OBVIOUS
<1>1. IInv
  BY InitIInv DEF SchedulerInit, Init
<1>2. \A w \in Sweepers : sweep[w] = Idle /\ Idle.pc = "idle"
  BY DEF SchedulerInit, SweepInit, Idle
<1>3. QED
  BY <1>1, <1>2 DEF SchedulerInit, SchedulerInv, IdleIsOver, PassesSweep, At, Threads

(* A sweep that goes on is at a step of its own. *)
LEMMA SweepsMoveOn ==
  ASSUME IInv, NEW w \in Sweepers,
         \/ ListProtected(w) \/ SelectExpired(w) \/ CountSpans(w) \/ CountComparisons(w)
         \/ LockTimeout(w) \/ Delete(w)
  PROVE  sweep[w].pc # "idle" /\ sweep'[w].pc # "idle"
<1>1. sweep[w] \in Locals /\ sweep \in [Sweepers -> Locals]
  BY DEF IInv, Types
<1>2. CASE ListProtected(w) \/ CountSpans(w) \/ CountComparisons(w)
  BY <1>1, <1>2 DEF ListProtected, CountSpans, CountComparisons, At, Locals
<1>3. CASE SelectExpired(w)
  BY <1>1, <1>3 DEF SelectExpired, At, Locals
<1>4. CASE LockTimeout(w)
  BY <1>1, <1>4 DEF LockTimeout, At, Locals
<1>5. CASE Delete(w)
  BY <1>1, <1>5 DEF Delete, At, Locals
<1>6. QED
  BY <1>2, <1>3, <1>4, <1>5

(* A sweep moves on to a step of its own or is over.                       *)
LEMMA StepsMoveOrEnd ==
  ASSUME IInv, [Next]_vars, NEW w \in Sweepers
  PROVE  \/ sweep'[w] = sweep[w]
         \/ sweep'[w] = Idle
         \/ sweep'[w].pc # "idle"
<1>1. ASSUME NEW W \in SUBSET Sweepers, Abandon(W)
      PROVE  sweep'[w] = sweep[w] \/ sweep'[w] = Idle
  BY <1>1 DEF Abandon
<1>2. ASSUME NEW v \in Sweepers, SweepStep(v)
      PROVE  sweep'[w] = sweep[w] \/ sweep'[w] = Idle \/ sweep'[w].pc # "idle"
  <2>1. CASE LockError(v)
    BY <1>1, <2>1 DEF LockError
  <2>2. CASE v # w /\ ~LockError(v)
    BY <1>2, <2>2
    DEF SweepStep, ListProtected, SelectExpired, CountSpans, CountComparisons, Delete,
        LockTimeout, Record, IInv, Types
  <2>3. CASE v = w /\ ~LockError(v)
    <3>1. Record(w) => sweep'[w] = Idle
      BY DEF Record, IInv, Types
    <3>2. QED
      BY <1>2, <2>3, <3>1, SweepsMoveOn DEF SweepStep
  <2>4. QED
    BY <2>1, <2>2, <2>3
<1>3. ASSUME NEW v \in Sweepers, NEW age \in Ages, NEW keep_labeled \in BOOLEAN,
             NEW R \in (SUBSET RunIds) \ {{}}, Begin(v, age, keep_labeled, R)
      PROVE  sweep'[w] = sweep[w] \/ sweep'[w].pc # "idle"
  BY <1>3 DEF Begin, Idle, IInv, Types
<1>4. CASE Others \/ Tick \/ UNCHANGED vars
  BY <1>4 DEF Others, Tick, sweepVars, vars
<1>5. QED
  BY <1>1, <1>2, <1>3, <1>4 DEF Next, Crash

LEMMA NextIdle ==
  ASSUME IInv, IdleIsOver, [Next]_vars
  PROVE  IdleIsOver'
BY StepsMoveOrEnd DEF IdleIsOver, At, Idle

(* Each step of a thread is a step of its sweep, or none. *)
LEMMA LoopStepIsSweep ==
  ASSUME NEW t \in Threads, LoopStep(t)
  PROVE  [Next]_vars
<1>1. CASE Begin(t, OlderThan, KeepLabeled, RunIds)
  <2>1. /\ OlderThan \in Ages /\ KeepLabeled \in BOOLEAN
        /\ RunIds \in (SUBSET RunIds) \ {{}}
    BY SchedulerAssumption
  <2>2. QED
    BY <1>1, <2>1 DEF Next, Threads
<1>2. CASE SweepStep(t)
  BY <1>2 DEF Next, Threads
<1>3. CASE UNCHANGED <<tables, now, sweepVars>>
  BY <1>3 DEF vars, tables, sweepVars
<1>4. QED
  BY <1>1, <1>2, <1>3
  DEF LoopStep, Check, Sweeping, Deleting, PassSucceeds, PassFails, Wait, SweepStep

(* The end of the server's process is the end of its sweeps, if any. *)
LEMMA ExitIsCrash ==
  ASSUME IInv, IdleIsOver, Exit
  PROVE  [Next]_vars
<1>1. Abandon(Threads)
  BY DEF Exit
<1>2. CASE \E w \in Threads : ~At(w, "idle")
  BY <1>1, <1>2 DEF Crash, Next, Threads
<1>3. CASE \A w \in Threads : At(w, "idle")
  <2>1. \A w \in Sweepers : sweep[w] = Idle /\ removed[w] = {}
    BY <1>3 DEF IdleIsOver, IInv, RemovedIsCounted, At, Threads
  <2>2. sweep' = sweep /\ removed' = removed
    BY <1>1, <2>1 DEF Abandon, Threads, IInv, Types
  <2>3. QED
    BY <1>1, <2>2 DEF Abandon, vars, tables
<1>4. QED
  BY <1>2, <1>3

(* Every step of the server with its scheduler is one of the sweeps, of    *)
(* the other users of the library, or leaves both alone.                   *)
LEMMA SchedulerStepIsSweep ==
  ASSUME SchedulerInv, [SchedulerNext]_allVars
  PROVE  [Next]_vars
<1>1. CASE Environment
  BY <1>1 DEF Environment, Next
<1>2. CASE Stop \/ Joined \/ UNCHANGED allVars
  BY <1>2 DEF Stop, Joined, allVars, vars, tables, sweepVars
<1>3. ASSUME NEW t \in Threads, Start(t) PROVE [Next]_vars
  BY <1>3 DEF Start, vars, tables, sweepVars
<1>4. QED
  BY <1>1, <1>2, <1>3, LoopStepIsSweep, ExitIsCrash DEF SchedulerNext, SchedulerInv

(* A pass begins with its sweep and ends with it. *)
LEMMA NextSchedulerInv == SchedulerInv /\ [SchedulerNext]_allVars => SchedulerInv'
<1> SUFFICES ASSUME SchedulerInv, [SchedulerNext]_allVars PROVE SchedulerInv'
  OBVIOUS
<1>1. IInv' /\ IdleIsOver'
  BY SchedulerStepIsSweep, NextIInv, NextIdle DEF SchedulerInv
<1>2. CASE Environment \/ Stop \/ Joined \/ UNCHANGED allVars
  BY <1>1, <1>2
  DEF Environment, Others, Tick, Stop, Joined, SchedulerInv, PassesSweep, At, allVars, sweepVars,
      schedulerVars, Threads
<1>3. CASE Exit
  <2>1. \A t \in Threads : sweep'[t].pc = "idle"
    BY <1>3 DEF Exit, Abandon, Threads, Idle
  <2>2. QED
    BY <1>1, <1>3, <2>1 DEF Exit, SchedulerInv, PassesSweep, At
<1>4. ASSUME NEW t \in Threads, Start(t) PROVE SchedulerInv'
  BY <1>1, <1>4 DEF Start, Alive, SchedulerInv, PassesSweep, At, sweepVars
<1>5. ASSUME NEW t \in Threads, LoopStep(t) PROVE SchedulerInv'
  <2>1. sweep[t] \in Locals /\ \A u \in Threads : u # t => sweep'[u] = sweep[u]
    BY <1>5
    DEF LoopStep, Check, Sweeping, Deleting, PassSucceeds, PassFails, Wait, Begin, ListProtected,
        SelectExpired, CountSpans, CountComparisons, LockTimeout, Delete, Record, LockError,
        Abandon, sweepVars, SchedulerInv, IInv, Types, Threads
  <2>2. CASE Sweeping(t) \/ Deleting(t)
    <3>1. sweep'[t].pc # "idle" /\ sweep[t].pc # "idle"
      BY <2>2, SweepsMoveOn DEF Sweeping, Deleting, SchedulerInv, Threads
    <3>2. QED
      BY <1>1, <2>1, <2>2, <3>1
      DEF Sweeping, Deleting, schedulerVars, SchedulerInv, PassesSweep, At
  <2>3. CASE PassSucceeds(t) \/ PassFails(t)
    <3>1. sweep'[t].pc = "idle"
      BY <2>1, <2>3
      DEF PassSucceeds, PassFails, Record, LockError, Abandon, SchedulerInv, IInv, Types, Idle,
          Threads
    <3>2. QED
      BY <1>1, <2>1, <2>3, <3>1 DEF PassSucceeds, PassFails, SchedulerInv, PassesSweep, At
  <2>4. CASE Wait(t) \/ (Check(t) /\ stop_event)
    BY <1>1, <2>4 DEF Wait, Check, SchedulerInv, PassesSweep, At, sweepVars
  <2>5. CASE Check(t) /\ ~stop_event
    <3>1. sweep'[t].pc # "idle" /\ loop' = [loop EXCEPT ![t] = "pass"]
          /\ UNCHANGED <<server, thread, stop_event, last_error>>
      BY <2>5 DEF Check, Begin, Idle, SchedulerInv, IInv, Types, Threads
    <3>2. QED
      BY <1>1, <2>1, <3>1 DEF SchedulerInv, PassesSweep, At
  <2>6. QED
    BY <1>5, <2>2, <2>3, <2>4, <2>5 DEF LoopStep
<1>6. QED
  BY <1>2, <1>3, <1>4, <1>5 DEF SchedulerNext

(* Every reachable state of the scheduler satisfies the invariant.         *)
THEOREM SchedulerInvariance == SchedulerSpec => []SchedulerInv
BY InitSchedulerInv, NextSchedulerInv, PTL DEF SchedulerSpec

(* The fields of the scheduler have their types, and a thread is in a      *)
(* sweep exactly during a pass (scheduler.py, _run).                       *)
THEOREM SchedulerTypes == SchedulerSpec => []SchedulerTypeOK
<1>1. SchedulerInv => SchedulerTypeOK
  BY DEF SchedulerInv, PassesSweep, SchedulerTypeOK
<1>2. QED
  BY <1>1, SchedulerInvariance, PTL

(* The scheduler, its server, restarts and exits included, runs sweeps as  *)
(* Sweeps describes them ...                                               *)
THEOREM SchedulerImplementsSweeps == SchedulerSpec => Spec
<1>1. SchedulerInit => Init
  BY DEF SchedulerInit, Init
<1>2. SchedulerInv /\ [SchedulerNext]_allVars => [Next]_vars
  BY SchedulerStepIsSweep
<1>3. QED
  BY <1>1, <1>2, SchedulerInvariance, PTL DEF SchedulerSpec, Spec

(* ... so that the cleanup log of the server counts what its threads       *)
(* removed, and its last sweep never gets older.                           *)
THEOREM SchedulerLogsExactly ==
  SchedulerSpec => LoggedCountIsExact /\ LastSweepNeverGoesBack
BY SchedulerImplementsSweeps, LoggedCountsAreExact, LastSweepStaysNewest, PTL

-----------------------------------------------------------------------------
(* What is left of "one background thread" (scheduler.py:20).              *)

(* The only thread alive is the one start() created last, and a server     *)
(* that is down has none.                                                  *)
OneThread ==
  /\ \A t \in Threads : Alive(t) => t = thread
  /\ server = "down" => thread = None

LEMMA NextOneThread ==
  ASSUME ~SlowPasses, SchedulerInv, OneThread, [SchedulerNext]_allVars
  PROVE  OneThread'
<1>1. CASE Environment \/ Stop \/ UNCHANGED allVars
  BY <1>1 DEF Environment, Stop, allVars, schedulerVars, OneThread, Alive
<1>2. CASE Joined
  BY <1>2 DEF Joined, enabled, OneThread, Alive
<1>3. CASE Exit
  BY <1>3 DEF Exit, OneThread, Alive
<1>4. ASSUME NEW t \in Threads, Start(t) PROVE OneThread'
  BY <1>4, SchedulerAssumption DEF Start, enabled, OneThread, Alive, SchedulerInv, Threads
<1>5. ASSUME NEW t \in Threads, LoopStep(t) PROVE OneThread'
  <2>1. /\ \A u \in Threads : u # t => loop'[u] = loop[u]
        /\ loop[t] # "none" /\ UNCHANGED <<server, thread>>
    BY <1>5
    DEF LoopStep, Check, Sweeping, Deleting, PassSucceeds, PassFails, Wait, schedulerVars,
        SchedulerInv
  <2>2. QED
    BY <2>1 DEF OneThread, Alive
<1>6. QED
  BY <1>1, <1>2, <1>3, <1>4, <1>5 DEF SchedulerNext

(* scheduler.py:20 and :59 hold where a pass never outlasts the ten        *)
(* seconds stop() waits for it: there is one background thread, whatever   *)
(* starts, stops and exits there were, and stop() waits for its pass.      *)
THEOREM FastPassesRunAlone ==
  ASSUME ~SlowPasses
  PROVE  SchedulerSpec => [](OneBackgroundThread /\ StopWaitsForPass)
<1>1. SchedulerInit => OneThread
  BY DEF SchedulerInit, OneThread, Alive
<1>2. SchedulerInv /\ OneThread /\ [SchedulerNext]_allVars => OneThread'
  BY NextOneThread
<1>3. SchedulerInv /\ OneThread => OneBackgroundThread /\ StopWaitsForPass
  BY SchedulerAssumption
  DEF OneThread, OneBackgroundThread, StopWaitsForPass, Alive, Threads, SchedulerInv
<1>4. QED
  BY <1>1, <1>2, <1>3, SchedulerInvariance, PTL DEF SchedulerSpec
=============================================================================
