------------------------------ MODULE TraceStore ------------------------------
(***************************************************************************)
(* The write operations of TraceStore (storage.py) as its clients run      *)
(* them: the request threads of the server, the watcher, the cleanup       *)
(* thread and CLI processes, each with a connection of its own on one WAL  *)
(* database.                                                               *)
(*                                                                         *)
(* sqlite3 opens a transaction before the first INSERT, UPDATE or DELETE   *)
(* of a connection, not before a SELECT.  An operation that reads first    *)
(* therefore reads the committed tables at one moment (Read, and at a      *)
(* second moment ReadHistory for a restore and ReadRunB for a comparison), *)
(* asks for the write lock later (BeginWrite, or LockTimeout when the busy *)
(* timeout passes first), and only then changes the tables, all at once    *)
(* (one Commit action per operation).  In between other clients may commit.*)
(*                                                                         *)
(* The variable stale is not in the program: it remembers, for a client    *)
(* between its read and its commit, the runs others changed meanwhile.     *)
(***************************************************************************)
EXTENDS Library

CONSTANTS
  Clients,       \* threads and processes that use the store
  Ops,           \* the operations these clients call
  Attempts,      \* attempts _retry_on_lock makes (3 in the code)
  HistoryLimit,  \* entries a review context may carry (100 in models.py)
  MaxHistory,    \* bound: no decision is requested past this many entries
  MaxNow         \* bound of the clock

OpNames == {"ingest", "restore", "annotate", "bulk_label", "bulk_decide",
            "prune", "save_comparison", "delete_comparison"}

ASSUME ClientAssumption ==
  /\ None \notin Clients /\ IsFiniteSet(Clients)
  /\ Ops \subseteq OpNames
  /\ Attempts \in Nat \ {0}
  /\ HistoryLimit \in Nat /\ MaxHistory \in Nat /\ MaxNow \in Nat
  /\ HistoryLimit <= MaxHistory
  /\ \A review \in Bundled : Len(review.decision_history) <= HistoryLimit

VARIABLES
  call,      \* call[c]: the call client c is in, or None
  pc,        \* where in that call c is
  seen,      \* what the SELECT of the call returned
  attempts,  \* attempts _retry_on_lock has used up
  lock,      \* the client whose transaction holds the write lock, or None
  result,    \* how the last call of c ended
  stale      \* runs changed by others since the read of c

clientVars == <<call, pc, seen, attempts, lock, result, stale>>
vars == <<runs, spans, history, comparisons, now,
          call, pc, seen, attempts, lock, result, stale>>

-----------------------------------------------------------------------------
(* Calls.                                                                  *)

Policies == {"use-bundle", "keep-local"}

(* Bulk operations return at once on an empty list; a prune without a list *)
(* looks at every run.                                                     *)
RunSets == (SUBSET RunIds) \ {{}}

IngestCall  == [op : {"ingest"}, run : RunIds, trace : Traces]
RestoreCall == [op : {"restore"}, run : RunIds, trace : Traces,
                review : Bundled, policy : Policies]
AnnotateCall == [op : {"annotate"}, run : RunIds,
                 label : Labels \cup {None}, decision : Decisions \cup {None}]
LabelCall   == [op : {"bulk_label"}, runs : RunSets, label : Labels]
DecideCall  == [op : {"bulk_decide"}, runs : RunSets, decision : Decisions]
PruneCall   == [op : {"prune"}, runs : RunSets, cutoff : Int,
                keep_labeled : BOOLEAN]
SaveCall    == [op : {"save_comparison"}, comparison : Comparison]
DeleteCall  == [op : {"delete_comparison"}, comparison_id : ComparisonIds]

Call == IngestCall \cup RestoreCall \cup AnnotateCall \cup LabelCall
          \cup DecideCall \cup PruneCall \cup SaveCall \cup DeleteCall

(* Operations that read the tables before they write. *)
ReadsFirst(k) ==
  \/ k.op \in {"annotate", "bulk_decide", "prune", "save_comparison"}
  \/ k.op = "restore" /\ k.policy = "keep-local"

(* Mutant: the SELECT sits outside the retried part of every operation.    *)
RetryWriteOnly(k) == "begin"

(* A retry runs the whole operation again, its SELECT included; the check  *)
(* api_save_comparison makes is outside the retried write.                 *)
FirstStep(k) == IF ReadsFirst(k) THEN "read" ELSE "begin"
RetryStep(k) == IF k.op = "save_comparison" THEN "begin" ELSE FirstStep(k)

(* The runs whose rows the SELECTs of a call return, and those it has      *)
(* selected when it is at step: api_save_comparison looks up its two runs  *)
(* one after the other.                                                    *)
ReadSet(k) ==
  CASE k.op \in {"annotate", "restore"} -> {k.run}
    [] k.op \in {"bulk_decide", "prune"} -> k.runs
    [] k.op = "save_comparison" -> {k.comparison.run_a, k.comparison.run_b}
    [] OTHER -> {}

SelectedBy(k, step) == IF step = "run_b" THEN {k.comparison.run_a} ELSE ReadSet(k)

NothingSeen == [runs |-> [r \in RunIds |-> None],
                history |-> [r \in RunIds |-> << >>]]

(* _read_review_context has a second SELECT for a run it found, a          *)
(* comparison for its second run.                                          *)
SecondStep(k) ==
  CASE k.op = "restore" /\ Stored(k.run) -> "history"
    [] k.op = "save_comparison" -> "run_b"
    [] OTHER -> "begin"

Snapshot(k) ==
  [runs |-> [r \in RunIds |->
               IF r \in SelectedBy(k, SecondStep(k)) THEN runs[r] ELSE None],
   history |-> [r \in RunIds |-> << >>]]

(* Mutant: the retention query without AND label = ''.                     *)
EligibleByAge(k, rows) == {r \in k.runs : Expired(rows[r], k.cutoff, FALSE)}

Eligible(k, rows) == {r \in k.runs : Expired(rows[r], k.cutoff, k.keep_labeled)}

(* Mutant: keep-local keeps the fields and takes the bundle's history.     *)
SelectedFieldsOnly(k, view) ==
  IF k.policy = "keep-local" /\ view.runs[k.run] # None
  THEN [label            |-> view.runs[k.run].label,
        decision         |-> view.runs[k.run].decision,
        decision_at      |-> view.runs[k.run].decision_at,
        decision_history |-> k.review.decision_history]
  ELSE k.review

(* The review a restore writes: the one it read, if there was one and the  *)
(* caller keeps local reviews, else the bundle's.                          *)
SelectedReview(k, view) ==
  IF k.policy = "keep-local" /\ view.runs[k.run] # None
  THEN [label            |-> view.runs[k.run].label,
        decision         |-> view.runs[k.run].decision,
        decision_at      |-> view.runs[k.run].decision_at,
        decision_history |-> view.history[k.run]]
  ELSE k.review

ASSUME CallAssumption == None \notin Call

-----------------------------------------------------------------------------
(* Steps of a client.                                                      *)

UsedIds == {c.comparison_id : c \in comparisons}
             \cup {call[c].comparison.comparison_id :
                     c \in {d \in Clients : call[d] # None
                                            /\ call[d].op = "save_comparison"}}

(* The calls a client may make now.  A comparison ID is a fresh uuid; the  *)
(* cutoff of a prune is an age before the present.                         *)
Possible(k) ==
  /\ k.op = "annotate" => k.label # None \/ k.decision # None
  /\ k.op = "annotate" /\ k.decision # None => Len(history[k.run]) < MaxHistory
  /\ k.op = "bulk_decide" => \A r \in k.runs : Len(history[r]) < MaxHistory
  /\ k.op = "save_comparison" => k.comparison.comparison_id \notin UsedIds

Calls ==
  {k \in IngestCall \cup RestoreCall \cup AnnotateCall \cup LabelCall
           \cup DecideCall \cup SaveCall \cup DeleteCall
           \cup [op : {"prune"}, runs : RunSets,
                 cutoff : {now - age : age \in Ages}, keep_labeled : BOOLEAN] :
     k.op \in Ops /\ Possible(k)}

Start(c) ==
  /\ pc[c] = "idle"
  /\ \E k \in Calls :
        /\ call' = [call EXCEPT ![c] = k]
        /\ pc' = [pc EXCEPT ![c] = FirstStep(k)]
  /\ result' = [result EXCEPT ![c] = "none"]
  /\ UNCHANGED <<tables, now, seen, attempts, lock, stale>>

(* The call of c ends: the caller gets outcome, the connection is gone ... *)
End(c, outcome) ==
  /\ pc' = [pc EXCEPT ![c] = "idle"]
  /\ call' = [call EXCEPT ![c] = None]
  /\ seen' = [seen EXCEPT ![c] = NothingSeen]
  /\ result' = [result EXCEPT ![c] = outcome]
  /\ attempts' = [attempts EXCEPT ![c] = 0]
  /\ lock' = IF lock = c THEN None ELSE lock

(* ... and leaves the tables as they are.                                  *)
GiveUp(c, outcome) ==
  /\ End(c, outcome)
  /\ stale' = [stale EXCEPT ![c] = {}]
  /\ UNCHANGED <<tables, now>>

(* Reasons for a call to return, or raise, right after its SELECT. *)
Refusal(k) ==
  CASE k.op = "annotate" /\ ~Stored(k.run) -> "missing"
    [] k.op = "save_comparison" /\ ~Stored(k.comparison.run_a) -> "missing"
    [] k.op = "prune" /\ Eligible(k, runs) = {} -> "ok"
    [] OTHER -> "none"

Read(c) ==
  /\ pc[c] = "read"
  /\ Refusal(call[c]) = "none"
  /\ seen' = [seen EXCEPT ![c] = Snapshot(call[c])]
  /\ stale' = [stale EXCEPT ![c] = {}]
  /\ pc' = [pc EXCEPT ![c] = SecondStep(call[c])]
  /\ UNCHANGED <<tables, now, call, attempts, lock, result>>

ReadHistory(c) ==
  /\ pc[c] = "history"
  /\ Len(history[call[c].run]) <= HistoryLimit
  /\ seen' = [seen EXCEPT ![c].history[call[c].run] = history[call[c].run]]
  /\ pc' = [pc EXCEPT ![c] = "begin"]
  /\ UNCHANGED <<tables, now, call, attempts, lock, result, stale>>

(* ReviewContext does not accept so many entries: ValidationError. *)
HistoryTooLong(c) ==
  /\ pc[c] = "history"
  /\ Len(history[call[c].run]) > HistoryLimit
  /\ GiveUp(c, "invalid")

ReadRunB(c) ==
  /\ pc[c] = "run_b"
  /\ LET b == call[c].comparison.run_b
     IN  /\ Stored(b)
         /\ seen' = [seen EXCEPT ![c].runs[b] = runs[b]]
         /\ stale' = [stale EXCEPT ![c] = @ \ {b}]
  /\ pc' = [pc EXCEPT ![c] = "begin"]
  /\ UNCHANGED <<tables, now, call, attempts, lock, result>>

(* _get_trace_or_404 of the second run. *)
RunBMissing(c) ==
  /\ pc[c] = "run_b"
  /\ ~Stored(call[c].comparison.run_b)
  /\ GiveUp(c, "missing")

ReadAndReturn(c) ==
  /\ pc[c] = "read"
  /\ Refusal(call[c]) # "none"
  /\ GiveUp(c, Refusal(call[c]))

(* Mutant: writers do not exclude each other.                              *)
BeginWithoutLock(c) ==
  /\ pc[c] = "begin"
  /\ lock' = c
  /\ pc' = [pc EXCEPT ![c] = "commit"]
  /\ UNCHANGED <<tables, now, call, seen, attempts, result, stale>>

(* The first INSERT, UPDATE or DELETE begins the transaction.              *)
BeginWrite(c) ==
  /\ pc[c] = "begin"
  /\ lock = None
  /\ lock' = c
  /\ pc' = [pc EXCEPT ![c] = "commit"]
  /\ UNCHANGED <<tables, now, call, seen, attempts, result, stale>>

(* Mutant: attempts are not counted.                                       *)
RetryForever(c) ==
  /\ pc[c] = "begin"
  /\ lock # None
  /\ pc' = [pc EXCEPT ![c] = RetryStep(call[c])]
  /\ seen' = [seen EXCEPT ![c] = NothingSeen]
  /\ stale' = [stale EXCEPT ![c] = {}]
  /\ UNCHANGED <<tables, now, call, attempts, lock, result>>

(* "database is locked": _retry_on_lock runs the operation once more.  It  *)
(* forgets what it read, but not what its caller looked up before ...      *)
LockTimeout(c) ==
  /\ pc[c] = "begin"
  /\ lock # None
  /\ attempts[c] + 1 < Attempts
  /\ attempts' = [attempts EXCEPT ![c] = @ + 1]
  /\ pc' = [pc EXCEPT ![c] = RetryStep(call[c])]
  /\ IF call[c].op = "save_comparison"
     THEN UNCHANGED <<seen, stale>>
     ELSE /\ seen' = [seen EXCEPT ![c] = NothingSeen]
          /\ stale' = [stale EXCEPT ![c] = {}]
  /\ UNCHANGED <<tables, now, call, lock, result>>

(* ... and raises the error after the last attempt. *)
LockError(c) ==
  /\ pc[c] = "begin"
  /\ lock # None
  /\ attempts[c] + 1 >= Attempts
  /\ GiveUp(c, "locked")

-----------------------------------------------------------------------------
(* Commits.  Each takes the write transaction of c from its first          *)
(* statement to COMMIT.                                                    *)

ChangedRuns == {r \in RunIds : runs'[r] # runs[r] \/ history'[r] # history[r]}

(* Whoever has read and not begun to write now holds an outdated read. *)
Outdated(c) ==
  [d \in Clients |-> IF d = c THEN {}
                     ELSE IF pc[d] \in {"history", "run_b", "begin"}
                     THEN stale[d] \cup (ChangedRuns \cap SelectedBy(call[d], pc[d]))
                     ELSE stale[d]]

Committing(c, op) == pc[c] = "commit" /\ call[c].op = op

(* The operation goes on to read the stored run or comparison back. *)
Committed(c) ==
  /\ pc' = [pc EXCEPT ![c] = "readback"]
  /\ seen' = [seen EXCEPT ![c] = NothingSeen]
  /\ lock' = None
  /\ stale' = Outdated(c)
  /\ attempts' = [attempts EXCEPT ![c] = 0]
  /\ UNCHANGED <<now, call, result>>

(* The operation returns a count. *)
CommittedAndDone(c) ==
  /\ End(c, "ok")
  /\ stale' = Outdated(c)
  /\ UNCHANGED now

(* Mutant: the run is committed before its spans.                          *)
CommitRunOnly(c) ==
  /\ Committing(c, "ingest")
  /\ runs' = [runs EXCEPT ![call[c].run] = Upserted(call[c].run, call[c].trace)]
  /\ UNCHANGED <<spans, history, comparisons>>
  /\ Committed(c)

CommitIngest(c) ==
  /\ Committing(c, "ingest")
  /\ Ingested(call[c].run, call[c].trace)
  /\ Committed(c)

CommitRestore(c) ==
  /\ Committing(c, "restore")
  /\ Restored(call[c].run, call[c].trace, SelectedReview(call[c], seen[c]))
  /\ Committed(c)

CommitAnnotate(c) ==
  /\ Committing(c, "annotate")
  /\ Stored(call[c].run)
  /\ Annotated(call[c].run, call[c].label, call[c].decision,
               seen[c].runs[call[c].run].decision)
  /\ Committed(c)

(* The UPDATE found no row and no history entry was due: None. *)
AnnotateNothing(c) ==
  /\ Committing(c, "annotate")
  /\ ~Stored(call[c].run)
  /\ call[c].decision \in {None, seen[c].runs[call[c].run].decision}
  /\ GiveUp(c, "missing")

CommitBulkLabel(c) ==
  /\ Committing(c, "bulk_label")
  /\ BulkLabeled(call[c].runs, call[c].label)
  /\ CommittedAndDone(c)

CommitBulkDecide(c) ==
  /\ Committing(c, "bulk_decide")
  /\ \A r \in Changing(call[c].runs, call[c].decision, seen[c].runs) : Stored(r)
  /\ BulkDecided(call[c].runs, call[c].decision, seen[c].runs)
  /\ CommittedAndDone(c)

(* The IDs the SELECT returned are deleted, whatever their rows hold now.  *)
CommitPrune(c) ==
  /\ Committing(c, "prune")
  /\ Deleted(Eligible(call[c], seen[c].runs))
  /\ CommittedAndDone(c)

CommitSaveComparison(c) ==
  /\ Committing(c, "save_comparison")
  /\ Stored(call[c].comparison.run_a) /\ Stored(call[c].comparison.run_b)
  /\ ComparisonSaved(call[c].comparison)
  /\ Committed(c)

CommitDeleteComparison(c) ==
  /\ Committing(c, "delete_comparison")
  /\ ComparisonDeleted(call[c].comparison_id)
  /\ CommittedAndDone(c)

(* Mutant: an entry is due for every listed run, found or not.             *)
ListedKeyFails(c) ==
  \/ /\ Committing(c, "annotate")
     /\ ~Stored(call[c].run)
     /\ call[c].decision \notin {None, seen[c].runs[call[c].run].decision}
  \/ /\ Committing(c, "bulk_decide")
     /\ \E r \in call[c].runs : ~Stored(r)
  \/ /\ Committing(c, "save_comparison")
     /\ ~(Stored(call[c].comparison.run_a) /\ Stored(call[c].comparison.run_b))

(* A row refers to a run that is gone: IntegrityError, rolled back and not *)
(* retried.                                                                *)
ForeignKeyFails(c) ==
  \/ /\ Committing(c, "annotate")
     /\ ~Stored(call[c].run)
     /\ call[c].decision \notin {None, seen[c].runs[call[c].run].decision}
  \/ /\ Committing(c, "bulk_decide")
     /\ \E r \in Changing(call[c].runs, call[c].decision, seen[c].runs) : ~Stored(r)
  \/ /\ Committing(c, "save_comparison")
     /\ ~(Stored(call[c].comparison.run_a) /\ Stored(call[c].comparison.run_b))

RollBack(c) ==
  /\ ForeignKeyFails(c)
  /\ GiveUp(c, "integrity")

(* get_run or get_comparison after the write, in a read of its own.  A run *)
(* pruned meanwhile makes ingest return {} and update_annotations None.    *)
ReadBack(c) ==
  /\ pc[c] = "readback"
  /\ LET k == call[c]
         there == IF k.op = "save_comparison" THEN k.comparison \in comparisons
                                              ELSE Stored(k.run)
     IN  GiveUp(c, IF there THEN "ok" ELSE "missing")

(* The process dies, or the thread raises something else: SQLite rolls     *)
(* back what was not committed.                                            *)
Crash(c) ==
  /\ pc[c] # "idle"
  /\ GiveUp(c, "crashed")

Tick ==
  /\ now < MaxNow
  /\ now' = now + 1
  /\ UNCHANGED <<tables, clientVars>>

-----------------------------------------------------------------------------
Init ==
  /\ TablesInit
  /\ call = [c \in Clients |-> None]
  /\ pc = [c \in Clients |-> "idle"]
  /\ seen = [c \in Clients |-> NothingSeen]
  /\ attempts = [c \in Clients |-> 0]
  /\ lock = None
  /\ result = [c \in Clients |-> "none"]
  /\ stale = [c \in Clients |-> {}]

Commit(c) ==
  \/ CommitIngest(c) \/ CommitRestore(c) \/ CommitAnnotate(c)
  \/ CommitBulkLabel(c) \/ CommitBulkDecide(c) \/ CommitPrune(c)
  \/ CommitSaveComparison(c) \/ CommitDeleteComparison(c)

(* The step the thread of c takes next. *)
Step(c) ==
  \/ Read(c) \/ ReadAndReturn(c) \/ ReadHistory(c) \/ HistoryTooLong(c)
  \/ ReadRunB(c) \/ RunBMissing(c)
  \/ BeginWrite(c) \/ LockTimeout(c) \/ LockError(c)
  \/ Commit(c) \/ AnnotateNothing(c) \/ RollBack(c)
  \/ ReadBack(c)

Next == Tick \/ \E c \in Clients : Start(c) \/ Step(c) \/ Crash(c)

Spec == Init /\ [][Next]_vars

(* A thread that can run does run; nobody has to call, crash or tick.      *)
FairSpec == Spec /\ \A c \in Clients : WF_vars(Step(c))

-----------------------------------------------------------------------------
(* Type invariant: tables as the schema has them, and a client holds the   *)
(* write lock exactly while it commits.                                    *)
Steps == {"idle", "read", "history", "run_b", "begin", "commit", "readback"}
Outcomes == {"none", "ok", "missing", "invalid", "locked", "integrity", "crashed"}

ClientsTypeOK ==
  /\ call \in [Clients -> Call \cup {None}]
  /\ pc \in [Clients -> Steps]
  /\ seen \in [Clients -> [runs : [RunIds -> Row \cup {None}],
                           history : [RunIds -> Seq(Change)]]]
  /\ attempts \in [Clients -> 0 .. Attempts - 1]
  /\ lock \in Clients \cup {None}
  /\ result \in [Clients -> Outcomes]
  /\ stale \in [Clients -> SUBSET RunIds]
  /\ \A c \in Clients : pc[c] = "idle" <=> call[c] = None
  /\ \A c \in Clients : pc[c] = "commit" <=> lock = c
  /\ \A c \in Clients : pc[c] = "history" =>
        call[c].op = "restore" /\ seen[c].runs[call[c].run] # None
  /\ \A c \in Clients : pc[c] = "run_b" => call[c].op = "save_comparison"

TypeOK == TablesTypeOK /\ ClientsTypeOK

(* What a client read is still so for every run no other client changed    *)
(* since, is a row _read_review_context accepts, and for an annotation or  *)
(* a comparison is there: the write transactions may rely on their SELECTs *)
(* up to stale.                                                            *)
ReadsAreCurrent ==
  \A c \in Clients :
    /\ \A r \in RunIds : seen[c].runs[r] # None =>
          Stamped(seen[c].runs[r].decision, seen[c].runs[r].decision_at)
    /\ pc[c] \in {"history", "run_b", "begin", "commit"} /\ ReadsFirst(call[c]) =>
         /\ call[c].op \in {"annotate", "save_comparison"} =>
               \A r \in SelectedBy(call[c], pc[c]) : seen[c].runs[r] # None
         /\ \A r \in SelectedBy(call[c], pc[c]) \ stale[c] :
               /\ seen[c].runs[r] = runs[r]
               /\ call[c].op = "restore" /\ pc[c] # "history" /\ Stored(r) =>
                     seen[c].history[r] = history[r]

(* Tables agree (storage.py SCHEMA, _write_trace, the delete cascade), in  *)
(* every interleaving, whatever was rolled back or lost in a crash.        *)
TablesConsistent == TablesAgree

Commits(c) == pc[c] = "commit" /\ pc'[c] # "commit"

(* A decision history (update_annotations, bulk_set_decisions, restore)    *)
(* stops leading from its origin, the insert or the bundle that brought    *)
(* it, to the decision only by a commit whose own SELECT was overtaken by  *)
(* another client's commit on the same run, whatever bundles hold.         *)
HistoryBreaksOnlyInARace ==
  [][\A r \in RunIds : HistoryExplains(r) /\ ~HistoryExplains(r)' =>
        \E c \in Clients : Commits(c) /\ r \in stale[c]]_vars

(* prune_runs removes a run only if, by the policy of the call, the run    *)
(* was expired when it was deleted or had changed since the SELECT; no     *)
(* other operation removes a run.                                          *)
OnlyExpiredRunsGo ==
  [][\A r \in RunIds : Stored(r) /\ ~Stored(r)' =>
        \E c \in Clients :
           /\ Commits(c) /\ call[c].op = "prune"
           /\ \/ r \in stale[c]
              \/ Expired(runs[r], call[c].cutoff, call[c].keep_labeled)]_vars

(* README.md:112 and 1062: only a review operation that names the run, or  *)
(* a use-bundle restore of it, changes a stored run's review; a keep-local *)
(* restore does so only if another client changed the run since its read.  *)
ReviewIsLocal ==
  [][\A r \in RunIds : Stored(r) /\ Stored(r)' /\ ReviewOf(r)' # ReviewOf(r) =>
        \E c \in Clients :
           /\ Commits(c)
           /\ \/ call[c].op = "annotate" /\ call[c].run = r
              \/ call[c].op \in {"bulk_label", "bulk_decide"} /\ r \in call[c].runs
              \/ /\ call[c].op = "restore" /\ call[c].run = r
                 /\ call[c].policy = "keep-local" => r \in stale[c]]_vars

(* A saved comparison goes only when it is deleted or a run of it is       *)
(* pruned; replacing the trace of a run keeps it.                          *)
ComparisonsStay ==
  [][\A x \in comparisons \ comparisons' :
        \/ ~Stored(x.run_a)' \/ ~Stored(x.run_b)'
        \/ \E c \in Clients : /\ Commits(c) /\ call[c].op = "delete_comparison"
                              /\ call[c].comparison_id = x.comparison_id]_vars

(* IntegrityError (storage.py:1309, 1376 and 1423) reaches a caller only   *)
(* if a run that a SELECT of the call, or the lookup before a comparison,  *)
(* had found has been pruned since.                                        *)
IntegrityErrorsAreRaces ==
  [][\A c \in Clients : result'[c] = "integrity" /\ result[c] # "integrity" =>
        \E r \in stale[c] : seen[c].runs[r] # None /\ ~Stored(r)]_vars

(* _retry_on_lock: every call ends, however the lock is contended, because *)
(* a locked-out attempt is not repeated forever.                           *)
CallsEnd == \A c \in Clients : pc[c] # "idle" ~> pc[c] = "idle"

-----------------------------------------------------------------------------
(* The store as its documentation presents it. *)
Atomic == INSTANCE AtomicStore

(* Under the assumptions a run names, each commit is one step of Atomic    *)
(* and every other step leaves the tables alone.                           *)
ImplementsAtomicStore == Atomic!Spec

(* Of any operation: a commit whose SELECT no other client's commit has    *)
(* overtaken changes the tables as the atomic operation would have, and    *)
(* nothing but a commit (or the clock) changes them.  A comparison is      *)
(* saved as the atomic operation saves it even then: foreign keys check    *)
(* its runs again.  The bound on histories is for calls when they start,   *)
(* so each client may exceed it.                                           *)
Roomy == INSTANCE AtomicStore WITH MaxHistory <- MaxHistory + Cardinality(Clients)

AtomicUnlessOvertaken ==
  [][\/ UNCHANGED <<tables, now>>
     \/ \E c \in Clients : /\ Commits(c) /\ stale[c] # {}
                          /\ call[c].op # "save_comparison"
     \/ Roomy!Next]_vars

-----------------------------------------------------------------------------
(* Statements of the documentation the interleavings refute.               *)

(* storage.py:9, "Each changed decision gets a local history row."         *)
EachChangedDecisionIsRecorded ==
  [][\A r \in RunIds : \A c \in Clients :
        Commits(c) /\ call[c].op \in {"annotate", "bulk_decide"}
        /\ Stored(r) /\ Stored(r)' /\ runs'[r].decision # runs[r].decision
        => Len(history'[r]) = Len(history[r]) + 1]_vars

(* README.md:1789, "A label protects a run from age-based cleanup": a      *)
(* prune that keeps labeled runs deletes no run that carries a label.      *)
LabelProtects ==
  [][\A c \in Clients : Commits(c) /\ call[c].op = "prune" /\ call[c].keep_labeled =>
        \A r \in RunIds : Stored(r) /\ runs[r].label # NoLabel => Stored(r)']_vars

(* README.md:1542, "A re-ingest resets the clock."                         *)
ReingestResetsClock ==
  [][\A c \in Clients : Commits(c) /\ call[c].op = "prune" =>
        \A r \in RunIds : Stored(r) /\ runs[r].ingested_at >= call[c].cutoff
                          => Stored(r)']_vars

(* README.md:1062, "keep-local preserves existing review fields."          *)
KeepLocalPreserves ==
  [][\A c \in Clients : /\ Commits(c) /\ call[c].op = "restore"
                        /\ call[c].policy = "keep-local" /\ Stored(call[c].run)
        => \A r \in RunIds : r = call[c].run => ReviewOf(r)' = ReviewOf(r)]_vars

(* storage.py:1271, update_annotations returns "None when the run does not *)
(* exist": it never raises for a run that is gone.                         *)
MissingRunIsNone ==
  [][\A c \in Clients : Commits(c) /\ call[c].op = "annotate"
        => result'[c] # "integrity"]_vars
=============================================================================
